------------------------ MODULE AddressAllocatorProofs ------------------------
(* What allocate-ip.py answers, for every set of requests.                  *)
EXTENDS AddressAllocator, TLAPS

(* ---- the span ---- *)

LEMMA RequestParts ==
  ASSUME NEW r \in Requests
  PROVE  /\ r.lo \in Nat /\ r.hi \in Nat /\ r.offset \in Nat /\ r.max_hosts \in Nat
         /\ r.pool \in SUBSET (Nat \X Nat) /\ r.pin \in SUBSET Nat
         /\ \A p, q \in r.pool : p = q
         /\ \A a, b \in r.pin : a = b
  BY RequestsAssumption DEF RequestType

(* A pool inside the network is the span; one outside leaves no span.       *)
LEMMA PoolIsSpan ==
  ASSUME NEW r \in Requests, NEW p \in r.pool
  PROVE  /\ p[1] \in Nat /\ p[2] \in Nat
         /\ (r.lo <= p[1] /\ p[2] <= r.hi) => Span(r) = p[1]..p[2]
         /\ ~(p[1] <= p[2] /\ r.lo <= p[1] /\ p[2] <= r.hi) => Span(r) = {}
<1>1. p[1] \in Nat /\ p[2] \in Nat
  BY RequestParts
<1>2. r.pool = {p}
  BY RequestParts
<1>3. Span(r) = UNION {q[1]..q[2] : q \in {x \in {p} : r.lo <= x[1] /\ x[2] <= r.hi}}
  BY <1>2 DEF Span
<1>4. CASE r.lo <= p[1] /\ p[2] <= r.hi
  <2>1. {x \in {p} : r.lo <= x[1] /\ x[2] <= r.hi} = {p}
    BY <1>4
  <2>2. Span(r) = p[1]..p[2]
    BY <1>3, <2>1
  <2>3. ~(p[1] <= p[2]) => p[1]..p[2] = {}
    BY <1>1
  <2> QED  BY <1>1, <1>4, <2>2, <2>3
<1>5. CASE ~(r.lo <= p[1] /\ p[2] <= r.hi)
  <2>1. {x \in {p} : r.lo <= x[1] /\ x[2] <= r.hi} = {}
    BY <1>5
  <2>2. Span(r) = {}
    BY <1>3, <2>1
  <2> QED  BY <1>1, <1>5, <2>2
<1> QED  BY <1>4, <1>5

(* Without a pool the span starts at the offset and ends at the cap.        *)
LEMMA SubnetIsSpan ==
  ASSUME NEW r \in Requests, r.pool = {}
  PROVE  LET a == r.lo + r.offset IN
         /\ a \in Nat
         /\ a <= r.hi => Capped(r, a) \in Nat /\ Span(r) = a..Capped(r, a)
         /\ ~(a <= r.hi) => Span(r) = {}
<1> DEFINE a == r.lo + r.offset
<1>1. /\ a \in Nat /\ r.hi \in Nat /\ r.max_hosts \in Nat
  BY RequestParts
<1>2. Span(r) = {x \in a..r.hi : r.max_hosts = 0 \/ x < a + r.max_hosts}
  BY DEF Span
<1>3. ~(a <= r.hi) => Span(r) = {}
  BY <1>1, <1>2
<1>4. ASSUME a <= r.hi
      PROVE  Capped(r, a) \in Nat /\ Span(r) = a..Capped(r, a)
  <2> HIDE DEF a
  <2>1. CASE r.max_hosts = 0
    BY <1>1, <1>2, <2>1 DEF Capped
  <2>2. CASE r.max_hosts # 0
    <3>1. Capped(r, a) = IF a + r.max_hosts - 1 < r.hi THEN a + r.max_hosts - 1 ELSE r.hi
      BY <2>2 DEF Capped
    <3>2. \A x \in Nat : (x < a + r.max_hosts /\ x <= r.hi) <=> x <= Capped(r, a)
      BY <1>1, <2>2, <3>1
    <3> QED  BY <1>1, <1>2, <2>2, <3>1, <3>2
  <2> QED  BY <2>1, <2>2
<1> QED  BY <1>1, <1>3, <1>4

(* ---- the VMID ---- *)

(* The first two octets are the same all over the network, as they are in   *)
(* every network no wider than a /16, and are not both 0.                   *)
OnePrefix(r) == (r.lo \div 65536) = (r.hi \div 65536) /\ VmidPrefix(r.lo) # 0

LEMMA SamePrefix ==
  ASSUME NEW lo \in Nat, NEW hi \in Nat, NEW a \in lo..hi,
         (lo \div 65536) = (hi \div 65536)
  PROVE  a \div 65536 = lo \div 65536
  BY SMT

LEMMA Octets ==
  ASSUME NEW a \in Nat
  PROVE  /\ a \div 16777216 = (a \div 65536) \div 256
         /\ (a \div 65536) \in Nat
         /\ ((a \div 256) % 256) \in 0..255 /\ (a % 256) \in 0..255
         /\ (a \div 65536) * 65536 + ((a \div 256) % 256) * 256 + (a % 256) = a
  BY SMT

(* An address of the network whose VMID exists is in use.                   *)
LEMMA EncodedAddressIsInUse ==
  ASSUME NEW r \in Requests, OnePrefix(r), NEW a \in r.lo..r.hi, Vmid(a) \in r.vmids
  PROVE  a \in InUse(r)
<1> DEFINE v == Vmid(a)
           prefix == VmidPrefix(r.lo)
           third == (a \div 256) % 256
           fourth == a % 256
<1>1. r.lo \in Nat /\ r.hi \in Nat /\ a \in Nat
  BY RequestParts
<1>2. a \div 65536 = r.lo \div 65536
  BY <1>1, SamePrefix DEF OnePrefix
<1>3. /\ FirstOctet(a) = FirstOctet(r.lo) /\ SecondOctet(a) = SecondOctet(r.lo)
      /\ ThirdOctet(a) = third /\ FourthOctet(a) = fourth
  BY <1>1, <1>2, Octets DEF FirstOctet, SecondOctet, ThirdOctet, FourthOctet
<1>4. v = prefix * 1000000 + third * 1000 + fourth
  BY <1>3 DEF Vmid, VmidPrefix
<1>5. prefix \in Nat /\ prefix # 0
  <2>1. FirstOctet(r.lo) \in Nat /\ SecondOctet(r.lo) \in Nat
    BY <1>1, SMT DEF FirstOctet, SecondOctet
  <2> QED  BY <2>1 DEF VmidPrefix, OnePrefix
<1>6. third \in 0..255 /\ fourth \in 0..255
  BY <1>1, Octets
<1>7. (a \div 65536) * 65536 + third * 256 + fourth = a
  BY <1>1, Octets
<1> HIDE DEF v, prefix, third, fourth
<1>8. v \div 1000000 = prefix /\ (v \div 1000) % 1000 = third /\ v % 1000 = fourth
  <2> DEFINE w == prefix * 1000 + third
  <2>1. v = w * 1000 + fourth /\ w \in Nat /\ v \in Nat /\ w = prefix * 1000 + third
    BY <1>4, <1>5, <1>6, SMT
  <2> HIDE DEF w
  <2>2. v \div 1000 = w /\ v % 1000 = fourth
    BY <1>6, <2>1, SMT
  <2>3. w \div 1000 = prefix /\ w % 1000 = third
    BY <1>5, <1>6, <2>1, SMT
  <2>4. v \div 1000000 = (v \div 1000) \div 1000
    BY <2>1, SMT
  <2> QED  BY <2>2, <2>3, <2>4, SMT
<1>9. v >= 1000000
  BY <1>4, <1>5, <1>6, SMT
<1>10. Encodes(r, v)
  BY <1>6, <1>8, <1>9, SMT DEF Encodes, prefix
<1>11. Encoded(r, v) = a
  BY <1>2, <1>7, <1>8, SMT DEF Encoded
<1> QED  BY <1>10, <1>11, SMT DEF InUse, v

LEMMA SpanInNetwork ==
  ASSUME NEW r \in Requests, NEW a \in Span(r)
  PROVE  a \in r.lo..r.hi
<1>1. /\ r.lo \in Nat /\ r.hi \in Nat /\ r.offset \in Nat
      /\ r.pool \in SUBSET (Nat \X Nat)
  BY RequestParts
<1>2. CASE r.pool # {}
  <2>1. PICK p \in r.pool : r.lo <= p[1] /\ p[2] <= r.hi /\ a \in p[1]..p[2]
    BY <1>2 DEF Span
  <2>2. p[1] \in Nat /\ p[2] \in Nat
    BY <1>1
  <2> QED  BY <1>1, <2>1, <2>2
<1>3. CASE r.pool = {}
  BY <1>1, <1>3 DEF Span
<1> QED  BY <1>2, <1>3

(* ---- the inductive invariant ---- *)

InSpan == Span(request) = first..last

(* The walk leaves nothing behind that it could have given.                 *)
Skipped == \A a \in first..last : a < candidate => a \in Taken(request)

IInv ==
  /\ TypeOK
  /\ pc = "pin"  => InSpan
  /\ pc = "walk" => InSpan /\ request.pin = {} /\ first <= candidate /\ Skipped
  /\ GivesFirstEligible
  /\ RefusesOnlyWhenNone

LEMMA InitIInv == Init => IInv
  BY DEF Init, IInv, TypeOK, None, GivesFirstEligible, RefusesOnlyWhenNone, Given, Answered

LEMMA NextIInv == IInv /\ [Next]_vars => IInv'
<1> SUFFICES ASSUME IInv, [Next]_vars PROVE IInv'
  OBVIOUS
<1> USE DEF IInv
<1>0. /\ request \in Requests /\ first \in Nat /\ last \in Nat /\ candidate \in Nat
  BY DEF TypeOK
<1>1. CASE PoolSpan
  <2>1. PICK p \in request.pool :
          IF p[1] <= p[2] /\ request.lo <= p[1] /\ p[2] <= request.hi
            THEN first' = p[1] /\ last' = p[2] /\ pc' = "pin" /\ UNCHANGED answer
            ELSE Refuse /\ UNCHANGED <<first, last>>
    BY <1>1 DEF PoolSpan
  <2>2. pc = "span" /\ request' = request /\ candidate' = candidate
    BY <1>1 DEF PoolSpan
  <2>3. CASE p[1] <= p[2] /\ request.lo <= p[1] /\ p[2] <= request.hi
    <3>1. first' = p[1] /\ last' = p[2] /\ pc' = "pin" /\ answer' = answer
      BY <2>1, <2>3
    <3>2. Span(request) = p[1]..p[2] /\ p[1] \in Nat /\ p[2] \in Nat
      BY <1>0, <2>3, PoolIsSpan
    <3>3. Span(request') = first'..last'
      BY <2>2, <3>1, <3>2
    <3>4. TypeOK'
      BY <2>2, <3>1, <3>2 DEF TypeOK
    <3> QED  BY <3>1, <3>3, <3>4 DEF InSpan, GivesFirstEligible, RefusesOnlyWhenNone, Given, Answered
  <2>4. CASE ~(p[1] <= p[2] /\ request.lo <= p[1] /\ p[2] <= request.hi)
    <3>1. Span(request) = {}
      BY <1>0, <2>4, PoolIsSpan
    <3>2. pc' = "answered" /\ answer' = Refusal /\ first' = first /\ last' = last
      BY <2>1, <2>4 DEF Refuse
    <3>3. Eligible(request') = {}
      BY <2>2, <3>1 DEF Eligible
    <3>4. TypeOK'
      BY <2>2, <3>2 DEF TypeOK, Refusal
    <3> QED  BY <3>2, <3>3, <3>4 DEF GivesFirstEligible, RefusesOnlyWhenNone, Given, Answered, Refusal
  <2> QED  BY <2>3, <2>4
<1>2. CASE SubnetSpan
  <2> DEFINE a == request.lo + request.offset
  <2>1. pc = "span" /\ request.pool = {} /\ request' = request /\ candidate' = candidate
    BY <1>2 DEF SubnetSpan
  <2>2. CASE a <= request.hi
    <3>1. first' = a /\ last' = Capped(request, a) /\ pc' = "pin" /\ answer' = answer
      BY <1>2, <2>2 DEF SubnetSpan
    <3>2. a \in Nat /\ Capped(request, a) \in Nat /\ Span(request) = a..Capped(request, a)
      BY <1>0, <2>1, <2>2, SubnetIsSpan
    <3>3. Span(request') = first'..last'
      BY <2>1, <3>1, <3>2
    <3>4. TypeOK'
      BY <2>1, <3>1, <3>2 DEF TypeOK
    <3> QED  BY <3>1, <3>3, <3>4 DEF InSpan, GivesFirstEligible, RefusesOnlyWhenNone, Given, Answered
  <2>3. CASE ~(a <= request.hi)
    <3>1. pc' = "answered" /\ answer' = Refusal /\ first' = first /\ last' = last
      BY <1>2, <2>3 DEF SubnetSpan, Refuse
    <3>2. Span(request) = {}
      BY <1>0, <2>1, <2>3, SubnetIsSpan
    <3>3. Eligible(request') = {}
      BY <2>1, <3>2 DEF Eligible
    <3>4. TypeOK'
      BY <2>1, <3>1 DEF TypeOK, Refusal
    <3> QED  BY <3>1, <3>3, <3>4 DEF GivesFirstEligible, RefusesOnlyWhenNone, Given, Answered, Refusal
  <2> QED  BY <2>2, <2>3
<1>3. CASE Pin
  <2>1. PICK a \in request.pin :
          IF Honoured(a) THEN answer' = [source |-> "pin", address |-> a] /\ pc' = "answered"
                         ELSE Refuse
    BY <1>3 DEF Pin
  <2>2. /\ pc = "pin" /\ request' = request /\ first' = first /\ last' = last
        /\ candidate' = candidate /\ Span(request) = first..last
    BY <1>3 DEF Pin, InSpan
  <2>3. a \in Nat /\ request.pin = {a}
    BY <1>0, RequestParts
  <2>4. Eligible(request) = {x \in {a} : Honoured(x)}
    BY <2>2, <2>3 DEF Eligible, Honoured, Taken
  <2>5. CASE Honoured(a)
    <3>1. answer' = [source |-> "pin", address |-> a] /\ pc' = "answered"
      BY <2>1, <2>5
    <3>2. Eligible(request') = {a}
      BY <2>2, <2>4, <2>5
    <3>3. TypeOK'
      BY <2>2, <2>3, <3>1 DEF TypeOK
    <3> QED  BY <2>3, <3>1, <3>2, <3>3 DEF GivesFirstEligible, RefusesOnlyWhenNone, Given, Answered
  <2>6. CASE ~Honoured(a)
    <3>1. answer' = Refusal /\ pc' = "answered"
      BY <2>1, <2>6 DEF Refuse
    <3>2. Eligible(request') = {}
      BY <2>2, <2>4, <2>6
    <3>3. TypeOK'
      BY <2>2, <3>1 DEF TypeOK, Refusal
    <3> QED  BY <3>1, <3>2, <3>3 DEF GivesFirstEligible, RefusesOnlyWhenNone, Given, Answered, Refusal
  <2> QED  BY <2>5, <2>6
<1>4. CASE StartWalk
  <2>1. /\ pc = "pin" /\ pc' = "walk" /\ request.pin = {} /\ candidate' = first
        /\ request' = request /\ first' = first /\ last' = last /\ answer' = answer
    BY <1>4 DEF StartWalk
  <2>2. Skipped' /\ first' <= candidate'
    BY <1>0, <2>1 DEF Skipped
  <2>3. TypeOK'
    BY <2>1 DEF TypeOK
  <2>4. InSpan'
    BY <2>1 DEF InSpan
  <2> QED  BY <2>1, <2>2, <2>3, <2>4 DEF GivesFirstEligible, RefusesOnlyWhenNone, Given, Answered
<1>5. CASE Walk
  <2>1. /\ pc = "walk" /\ request' = request /\ first' = first /\ last' = last
        /\ Span(request) = first..last /\ request.pin = {} /\ first <= candidate
    BY <1>5 DEF Walk, InSpan
  <2>2. Eligible(request) = {x \in first..last : x \notin Taken(request)}
    BY <2>1 DEF Eligible
  <2>3. \A x \in Eligible(request) : x \in Nat /\ candidate <= x
    BY <1>0, <2>1, <2>2 DEF Skipped
  <2>4. CASE candidate > last
    <3>1. pc' = "answered" /\ answer' = Refusal /\ candidate' = candidate
      BY <1>5, <2>4 DEF Walk, Refuse
    <3>2. Eligible(request') = {}
      BY <1>0, <2>1, <2>2, <2>3, <2>4
    <3>3. TypeOK'
      BY <2>1, <3>1 DEF TypeOK, Refusal
    <3> QED  BY <3>1, <3>2, <3>3 DEF GivesFirstEligible, RefusesOnlyWhenNone, Given, Answered, Refusal
  <2>5. CASE ~(candidate > last) /\ candidate \in Taken(request)
    <3>1. pc' = pc /\ answer' = answer /\ candidate' = candidate + 1
      BY <1>5, <2>5 DEF Walk
    <3>2. Skipped' /\ first' <= candidate'
      BY <1>0, <2>1, <2>5, <3>1 DEF Skipped
    <3>3. TypeOK'
      BY <1>0, <2>1, <3>1 DEF TypeOK
    <3>4. InSpan'
      BY <2>1 DEF InSpan
    <3> QED  BY <2>1, <3>1, <3>2, <3>3, <3>4 DEF GivesFirstEligible, RefusesOnlyWhenNone, Given, Answered
  <2>6. CASE ~(candidate > last) /\ candidate \notin Taken(request)
    <3>1. /\ answer' = [source |-> Source, address |-> candidate]
          /\ pc' = "answered" /\ candidate' = candidate
      BY <1>5, <2>6 DEF Walk
    <3>2. candidate \in Eligible(request')
      BY <1>0, <2>1, <2>2, <2>6
    <3>3. \A x \in Eligible(request') : candidate <= x
      BY <2>1, <2>3
    <3>4. TypeOK'
      BY <1>0, <2>1, <3>1 DEF TypeOK, Source
    <3>5. Source # "refused"
      BY DEF Source
    <3> QED  BY <3>1, <3>2, <3>3, <3>4, <3>5 DEF GivesFirstEligible, RefusesOnlyWhenNone, Given, Answered
  <2> QED  BY <2>4, <2>5, <2>6
<1>6. CASE UNCHANGED vars
  <2>1. /\ request' = request /\ pc' = pc /\ first' = first /\ last' = last
        /\ candidate' = candidate /\ answer' = answer
    BY <1>6 DEF vars
  <2> QED  BY <2>1 DEF TypeOK, InSpan, Skipped, GivesFirstEligible, RefusesOnlyWhenNone, Given, Answered
<1> QED  BY <1>1, <1>2, <1>3, <1>4, <1>5, <1>6 DEF Next

(* ---- theorems ---- *)

(* The allocator's state is well typed for every request.                   *)
THEOREM Typed == Spec => []TypeOK
<1>1. IInv => TypeOK
  BY DEF IInv
<1> QED  BY <1>1, InitIInv, NextIInv, PTL DEF Spec

(* Whatever the request, an address that decide() returns is one that was   *)
(* asked for, and the lowest that was neither in use nor reserved.          *)
THEOREM FirstEligibleIsGiven == Spec => []GivesFirstEligible
<1>1. IInv => GivesFirstEligible
  BY DEF IInv
<1> QED  BY <1>1, InitIInv, NextIInv, PTL DEF Spec

(* decide() refuses only a request that nothing satisfies.                  *)
THEOREM RefusalMeansNone == Spec => []RefusesOnlyWhenNone
<1>1. IInv => RefusesOnlyWhenNone
  BY DEF IInv
<1> QED  BY <1>1, InitIInv, NextIInv, PTL DEF Spec

(* So what was asked for decides the answer.                                *)
THEOREM DecisionIsAsAsked == Spec => []DecidesAsAsked
<1> QED  BY FirstEligibleIsGiven, RefusalMeansNone, PTL DEF DecidesAsAsked

(* In networks of one VMID prefix the VMID derived from a given address is  *)
(* no guest's, whatever the inventory shows.                                *)
THEOREM VmidsAreFresh ==
  ASSUME \A r \in Requests : OnePrefix(r)
  PROVE  Spec => []VmidIsFresh
<1>1. IInv => VmidIsFresh
  <2> SUFFICES ASSUME IInv, Given PROVE Vmid(answer.address) \notin request.vmids
    BY DEF VmidIsFresh
  <2>1. request \in Requests /\ answer.address \in Eligible(request)
    BY DEF IInv, TypeOK, GivesFirstEligible
  <2>2. answer.address \in Span(request) /\ answer.address \notin InUse(request)
    BY <2>1 DEF Eligible, Taken
  <2>3. answer.address \in request.lo..request.hi
    BY <2>1, <2>2, SpanInNetwork
  <2> QED  BY <2>1, <2>2, <2>3, EncodedAddressIsInUse
<1> QED  BY <1>1, InitIInv, NextIInv, PTL DEF Spec
=============================================================================

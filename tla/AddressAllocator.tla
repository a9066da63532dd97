--------------------------- MODULE AddressAllocator ---------------------------
(* How a new guest's static address is chosen: generate-ip.yml gathers the *)
(* addresses in use, allocate-ip.py honours a pin or walks the span to the *)
(* first address that is neither in use nor reserved.  Addresses are IPv4  *)
(* addresses as numbers; an optional field of a request is a set of at     *)
(* most one element.                                                       *)
EXTENDS Naturals, FiniteSets

CONSTANT Requests

RequestType ==
  [lo : Nat, hi : Nat,          \* the network and broadcast addresses of cidr
   shown : SUBSET Nat,          \* addresses the inventory shows
   vmids : SUBSET Nat,          \* VMIDs the inventory shows
   reserved : SUBSET Nat, gateway : SUBSET Nat,
   pool : SUBSET (Nat \X Nat), offset : Nat, max_hosts : Nat, pin : SUBSET Nat]

ASSUME RequestsAssumption ==
  /\ Requests \subseteq RequestType
  /\ \A r \in Requests :
       /\ r.lo <= r.hi
       /\ \A p, q \in r.pool : p = q
       /\ \A a, b \in r.pin : a = b

VARIABLES request, pc, first, last, candidate, answer
vars == <<request, pc, first, last, candidate, answer>>

(* ---- addresses and VMIDs ---- *)

FirstOctet(n)  == n \div 16777216
SecondOctet(n) == (n \div 65536) % 256
ThirdOctet(n)  == (n \div 256) % 256
FourthOctet(n) == n % 256
VmidPrefix(n)  == IF SecondOctet(n) # 0 THEN SecondOctet(n) ELSE FirstOctet(n)
Vmid(n)        == VmidPrefix(n) * 1000000 + ThirdOctet(n) * 1000 + FourthOctet(n)

(* The address a VMID encodes on a network: its first two octets are the   *)
(* network's, whatever the length of the network's prefix.                 *)
Encodes(r, v) ==
  /\ v >= 1000000 /\ (v \div 1000000) = VmidPrefix(r.lo)
  /\ ((v \div 1000) % 1000) <= 255 /\ (v % 1000) <= 255
Encoded(r, v) ==
  (r.lo \div 65536) * 65536 + ((v \div 1000) % 1000) * 256 + (v % 1000)

MutantInUse(r) == r.shown      \* only the addresses the inventory shows
InUse(r) == r.shown \cup {Encoded(r, v) : v \in {x \in r.vmids : Encodes(r, x)}}
Reserved(r) == r.reserved \cup {r.lo, r.hi} \cup r.gateway
Taken(r) == InUse(r) \cup Reserved(r)

(* ---- the decision ---- *)

None == [source |-> "none", address |-> 0]
Refusal == [source |-> "refused", address |-> 0]

Init ==
  /\ request \in Requests /\ pc = "span"
  /\ first = 0 /\ last = 0 /\ candidate = 0 /\ answer = None

Refuse == pc' = "answered" /\ answer' = Refusal

(* A pool must lie inside the network.                                     *)
PoolSpan ==
  /\ pc = "span" /\ request.pool # {}
  /\ \E p \in request.pool :
       IF p[1] <= p[2] /\ request.lo <= p[1] /\ p[2] <= request.hi
         THEN first' = p[1] /\ last' = p[2] /\ pc' = "pin" /\ UNCHANGED answer
         ELSE Refuse /\ UNCHANGED <<first, last>>
  /\ UNCHANGED <<request, candidate>>

(* Without a pool: an offset into the network, and at most so many.        *)
MutantCapped(r, a) ==          \* one address past the cap
  IF r.max_hosts # 0 /\ a + r.max_hosts < r.hi THEN a + r.max_hosts ELSE r.hi
Capped(r, a) ==
  IF r.max_hosts # 0 /\ a + r.max_hosts - 1 < r.hi THEN a + r.max_hosts - 1 ELSE r.hi
SubnetSpan ==
  /\ pc = "span" /\ request.pool = {}
  /\ LET a == request.lo + request.offset IN
     IF a <= request.hi
       THEN first' = a /\ last' = Capped(request, a) /\ pc' = "pin" /\ UNCHANGED answer
       ELSE Refuse /\ UNCHANGED <<first, last>>
  /\ UNCHANGED <<request, candidate>>

Honoured(a) == a \in first..last /\ a \notin InUse(request) /\ a \notin Reserved(request)

(* A pin is honoured exactly or refused.                                   *)
Pin ==
  /\ pc = "pin" /\ request.pin # {}
  /\ \E a \in request.pin :
       IF Honoured(a) THEN answer' = [source |-> "pin", address |-> a] /\ pc' = "answered"
                      ELSE Refuse
  /\ UNCHANGED <<request, first, last, candidate>>

StartWalk ==
  /\ pc = "pin" /\ request.pin = {}
  /\ candidate' = first /\ pc' = "walk"
  /\ UNCHANGED <<request, first, last, answer>>

MutantSource == IF request.pool # {} THEN "pool" ELSE "network"
Source == IF request.pool # {} THEN "pool" ELSE "subnet"

Walk ==
  /\ pc = "walk"
  /\ IF candidate > last THEN Refuse /\ UNCHANGED candidate
     ELSE IF candidate \in Taken(request)
       THEN candidate' = candidate + 1 /\ UNCHANGED <<pc, answer>>
       ELSE /\ answer' = [source |-> Source, address |-> candidate]
            /\ pc' = "answered" /\ UNCHANGED candidate
  /\ UNCHANGED <<request, first, last>>

Next == PoolSpan \/ SubnetSpan \/ Pin \/ StartWalk \/ Walk
Spec == Init /\ [][Next]_vars

(* ---- properties ---- *)

(* What a request asks for, stated without the walk.                       *)
Span(r) ==
  IF r.pool # {} THEN UNION {p[1]..p[2] : p \in {q \in r.pool : r.lo <= q[1] /\ q[2] <= r.hi}}
  ELSE {a \in r.lo + r.offset..r.hi : r.max_hosts = 0 \/ a < r.lo + r.offset + r.max_hosts}
Eligible(r) == {a \in Span(r) : a \notin Taken(r) /\ (r.pin = {} \/ a \in r.pin)}

Answered == pc = "answered"
Given    == Answered /\ answer.source # "refused"

TypeOK ==
  /\ request \in Requests
  /\ pc \in {"span", "pin", "walk", "answered"}
  /\ first \in Nat /\ last \in Nat /\ candidate \in Nat
  /\ answer \in [source : {"none", "refused", "pin", "pool", "subnet"}, address : Nat]

(* An address that is given is one that was asked for: the first free one  *)
(* of the pool or of the capped subnet, or the pin, and never one in use,  *)
(* reserved, or outside (allocate-ip.py: "Failure is an error, never a     *)
(* silent fallback").                                                      *)
GivesFirstEligible ==
  Given => /\ answer.address \in Eligible(request)
           /\ \A a \in Eligible(request) : answer.address <= a

(* A refusal means that nothing that was asked for is left.                *)
RefusesOnlyWhenNone == Answered /\ answer.source = "refused" => Eligible(request) = {}

(* Both together: what was asked for decides the answer.                   *)
DecidesAsAsked == GivesFirstEligible /\ RefusesOnlyWhenNone

(* The VMID derived from the address is no guest's VMID, not even a guest  *)
(* whose address the inventory does not show (generate-ip.yml: "handing    *)
(* that address out again derives the same VMID").                         *)
VmidIsFresh == Given => Vmid(answer.address) \notin request.vmids

=============================================================================

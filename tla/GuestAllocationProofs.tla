------------------------ MODULE GuestAllocationProofs ------------------------
(* Proofs about how a Deploy run comes by its guest, for any runs, chains, *)
(* configurations, networks and numbers of crashes and of acts of others.  *)
EXTENDS GuestAllocation, FiniteSetTheorems, WellFoundedInduction, TLAPS

Kinds   == {"lxc", "qemu"}
Placing == {"avoid", "create", "check", "clone", "recheck", "configure"}
Holding == {"reuse", "recheck", "configure", "start"}

-----------------------------------------------------------------------------
(* The inductive invariant                                                 *)

(* What a run has decided is decided for the guest it goes on to; the guest *)
(* it holds is there, and what is not there has nothing installed on it.   *)
Decided(r) ==
    /\ run[r].pc \in Stages \ {"select"} => run[r].vmid \in Vmids
    /\ run[r].pc \in Holding => run[r].vmid \in Present
    /\ run[r].pc = "clone" /\ run[r].exists => run[r].vmid \in Present
    /\ run[r].pc \in Placing =>
          /\ run[r].address \in Hosts
          /\ Wanted(r).kind = IF run[r].pc = "create" THEN "lxc" ELSE "qemu"
BaseInv ==
    /\ ThisLab \in Labs
    /\ \A r \in Runs : Decided(r)
    /\ \A v \in Vmids : guests[v].type = "none" => guests[v] = NoGuest
    /\ \A v \in Vmids \ Present : placed[v] = {}

(* A run that finds a guest at the VMID it is about to clone to finds its  *)
(* own: the one thing that the code never looks at.                        *)
MeetsOwn ==
    \A r \in Runs :
        LET g == guests[run[r].vmid] IN
        run[r].pc = "clone" /\ g.type = "qemu" => g.name = Wanted(r).unit

(* A guest's name says whose it is: its tags never say otherwise, and a    *)
(* run goes to the guest that has its unit's.                              *)
Owns(r) ==
    LET g == guests[run[r].vmid] IN
    /\ run[r].pc \in {"reuse", "configure", "start"} => g.name = Wanted(r).unit
    /\ run[r].pc = "recheck" /\ g.type = "qemu" => g.name = Wanted(r).unit
OwnInv ==
    /\ OnOwnGuest
    /\ \A v \in Vmids : guests[v].tags \cap Units \subseteq {guests[v].name}
    /\ \A r \in Runs : Owns(r)

(* Runs in progress together are among those that may be.                  *)
ActiveInv ==
    \A r, s \in Runs : r # s /\ Active(r) /\ Active(s) =>
        \E O \in Overlaps : {r, s} \subseteq O

(* Where every VM's VMID is derived, it is the address, and an address a   *)
(* VM may be allocated is not a declared one.                              *)
DerivedVm(r) ==
    /\ conf[r].qemu.vmid = conf[r].qemu.source
    /\ run[r].pc # "avoid"
    /\ run[r].pc \in {"check", "clone"} =>
          /\ run[r].vmid = run[r].address
          /\ IF Wanted(r).route = "declared" THEN run[r].address = Wanted(r).pin
             ELSE run[r].address \notin Reserved /\ guests[run[r].vmid].type # "qemu"
DerivedVmInv ==
    /\ \A r \in Runs : DerivedVm(r)
    /\ \A v \in Reserved : guests[v].type = "qemu" =>
          \E d \in Deploys :
              Want[d].route = "declared" /\ Want[d].pin = v /\ guests[v].name = Want[d].unit

(* No guest but the one a run is making has the address it makes it at:    *)
(* a run whose VMIDs are all derived goes to the VMID of the address, and  *)
(* so does a run that makes a guest at a declared address.                 *)
OnlyDerives(r) ==
    \A i \in DOMAIN Chain[r] : Want[Chain[r][i]].vmid = 0 /\ Want[Chain[r][i]].retained = 0
Addressed(r) ==
    /\ run[r].pc \in Placing =>
          /\ \A x \in Present : guests[x].address = run[r].address =>
                x = run[r].vmid /\ run[r].pc # "avoid"
          /\ IF Wanted(r).route = "declared" THEN run[r].vmid = run[r].address
             ELSE run[r].address \notin Reserved
          /\ OnlyDerives(r) => run[r].vmid = run[r].address
          /\ run[r].pc = "avoid" => Wanted(r).retained # 0
    /\ conf[r].qemu.source = 0 /\ conf[r].qemu.vmid # 0 =>
          \E i \in 1..run[r].at :
              Want[Chain[r][i]].kind = "qemu" /\ Want[Chain[r][i]].vmid # 0
    /\ conf[r].qemu.source \in Reserved => conf[r].qemu.vmid = conf[r].qemu.source
    /\ OnlyDerives(r) => \A k \in Kinds : conf[r][k].vmid = conf[r][k].source
AddressInv ==
    /\ AddressesDiffer
    /\ \A r \in Runs : Addressed(r)
    /\ \A x \in Present : guests[x].address \in Reserved => x = guests[x].address

(* While a run makes an instance's guest there is no other.                *)
Alone(r) ==
    run[r].pc \in {"avoid", "create", "check", "clone"} /\ Wanted(r).route = "instance" =>
        \A v \in Present : guests[v].name # Wanted(r).unit
InstanceInv ==
    /\ \A v, x \in Present : \A d \in Deploys :
          Want[d].route = "instance" /\ guests[v].name = Want[d].unit
            /\ guests[x].name = Want[d].unit => v = x
    /\ \A v \in Present : guests[v].name \in Units => Lab \in guests[v].tags
    /\ \A r \in Runs : Alone(r)

(* A guest is made at the VMID that was meant for it.                      *)
DeploysOf(lab) == UNION {{Chain[r][i] : i \in DOMAIN Chain[r]} : r \in lab}
Meant(d)       == Want[d].vmid # 0 /\ FirstOfKind(d)
Aims(r) ==
    /\ \A k \in Kinds : conf[r][k] # Unset =>
          \E i \in 1..run[r].at :
              Want[Chain[r][i]].kind = k /\ (run[r].pc = "select" => i < run[r].at)
    /\ run[r].pc \in {"create", "check", "clone"} =>
          /\ Meant(Deploy(r)) => run[r].vmid = Wanted(r).vmid
          /\ run[r].vmid # Wanted(r).retained
    /\ run[r].pc = "avoid" /\ Meant(Deploy(r)) => conf[r].qemu.source = 0
MeantInv ==
    /\ \A v \in Vmids : placed[v] \subseteq DeploysOf(ThisLab)
    /\ \A v \in Vmids : \A d \in DeploysOf(ThisLab) :
          guests[v].name = Want[d].unit /\ Meant(d) => v = Want[d].vmid
    /\ \A d \in Deploys : Want[d].retained # 0 => guests[Want[d].retained].name # Want[d].unit
    /\ \A r \in Runs : Aims(r)

-----------------------------------------------------------------------------
(* What a deploy may be, and what is chosen for it                         *)

LEMMA Least ==
    ASSUME NEW S, S \subseteq Nat, S # {}
    PROVE  Min(S) \in S
<1>1. PICK x \in S : \A y \in S : <<y, x>> \notin OpToRel(<, Nat)
  BY NatLessThanWellFounded, WFMin, Zenon
<1>2. ASSUME NEW y \in S PROVE x <= y
  <2>1. <<y, x>> \in Nat \X Nat /\ ~(y < x)
    BY <1>1 DEF OpToRel
  <2> QED BY <2>1
<1> QED BY <1>2 DEF Min

LEMMA Wants ==
    ASSUME NEW d \in Deploys
    PROVE  /\ Want[d].kind \in Kinds /\ Want[d].route \in {"instance", "stack", "declared"}
           /\ Want[d].pool \subseteq Hosts /\ Want[d].pin \in Hosts \cup {0}
           /\ Want[d].vmid \in Vmids \cup {0} /\ Want[d].retained \in Vmids \cup {0}
           /\ Want[d].route = "declared" => Want[d].kind = "qemu" /\ Want[d].pin \in Reserved
           /\ Want[d].unit \in Units
  BY WantAssumption DEF Units, Kinds

LEMMA Numbers ==
    /\ Hosts \subseteq Nat \ {0} /\ Vmids \subseteq Nat \ {0}
    /\ Hosts \subseteq Vmids /\ Reserved \subseteq Hosts
  BY NumbersAssumption

(* The deploy a run is at is one of its chain.                             *)
LEMMA Current ==
    ASSUME TypeOK, NEW r \in Runs
    PROVE  /\ run[r].at \in DOMAIN Chain[r] /\ Deploy(r) \in Deploys
           /\ DOMAIN Chain[r] = 1..Len(Chain[r]) /\ Len(Chain[r]) \in Nat \ {0}
<1>1. run[r] \in RunStates /\ run[r].at <= Len(Chain[r])
  BY DEF TypeOK
<1>2. run[r].at \in Nat \ {0}
  BY <1>1 DEF RunStates
<1>3. Chain[r] \in Seq(Deploys) /\ Chain[r] # <<>>
  BY ChainAssumption
<1>4. Len(Chain[r]) \in Nat /\ DOMAIN Chain[r] = 1..Len(Chain[r])
  BY <1>3
<1>5. run[r].at \in 1..Len(Chain[r])
  BY <1>1, <1>2, <1>4
<1> QED BY <1>2, <1>3, <1>4, <1>5 DEF Deploy

(* An address that is chosen is declared, or free.                         *)
LEMMA Choice ==
    ASSUME NEW d \in Deploys, NEW a \in Addresses(Want[d])
    PROVE  /\ a \in Hosts
           /\ Want[d].route = "declared" => a = Want[d].pin
           /\ Want[d].route # "declared" => a \in Free(Want[d])
<1> DEFINE w == Want[d]
<1>1. Free(w) \subseteq Hosts /\ Free(w) \subseteq Nat
  BY Wants, Numbers DEF Free
<1>2. CASE w.route = "declared"
  BY <1>2, Wants, Numbers DEF Addresses
<1>3. CASE w.route # "declared" /\ w.pin # 0
  BY <1>1, <1>3 DEF Addresses
<1>4. CASE w.route # "declared" /\ w.pin = 0
  <2>1. Free(w) # {} /\ a = Min(Free(w))
    BY <1>4 DEF Addresses
  <2> QED BY <1>1, <1>4, <2>1, Least
<1> QED BY <1>2, <1>3, <1>4

LEMMA Unused ==
    ASSUME TypeOK, NEW d \in Deploys, NEW a \in Free(Want[d]), a \in Hosts
    PROVE  /\ a \notin Reserved /\ a \notin Present
           /\ \A v \in Present : guests[v].address # a
<1>1. a # 0
  BY Numbers
<1> QED BY <1>1 DEF Free, InUse

(* The VMID is the address, the operator's or the one left in the config.  *)
LEMMA Derivation ==
    ASSUME NEW c \in Config, NEW d \in Deploys, NEW a \in Hosts
    PROVE  /\ Derived(c, Want[d], a) \in Config /\ Derived(c, Want[d], a).vmid \in Vmids
           /\ \/ Derived(c, Want[d], a) = [vmid |-> a, source |-> a]
              \/ /\ c.source \in {0, a} /\ Derived(c, Want[d], a).source = c.source
                 /\ Derived(c, Want[d], a).vmid = IF Want[d].vmid # 0 THEN Want[d].vmid ELSE c.vmid
<1> DEFINE asked == [c EXCEPT !.vmid = IF Want[d].vmid # 0 THEN Want[d].vmid ELSE c.vmid]
<1>1. /\ asked = [vmid |-> IF Want[d].vmid # 0 THEN Want[d].vmid ELSE c.vmid, source |-> c.source]
      /\ c.vmid \in Vmids \cup {0} /\ c.source \in Hosts \cup {0}
  BY DEF Config
<1>2. a \in Vmids /\ Want[d].vmid \in Vmids \cup {0}
  BY Numbers, Wants
<1>3. CASE asked.vmid = 0 \/ asked.source \notin {0, a}
  BY <1>2, <1>3 DEF Derived, Config
<1>4. CASE ~(asked.vmid = 0 \/ asked.source \notin {0, a})
  <2>1. Derived(c, Want[d], a) = asked
    BY <1>4 DEF Derived
  <2> HIDE DEF asked
  <2> QED BY <1>1, <1>2, <1>4, <2>1 DEF Config
<1> QED BY <1>3, <1>4

LEMMA Avoidance ==
    ASSUME NEW start, NEW taken, NEW v \in FreeFrom(start, taken)
    PROVE  v \in Vmids \ taken
<1> DEFINE free  == Vmids \ taken
           above == {x \in free : x >= start}
<1>1. free \subseteq Nat /\ above \subseteq Nat /\ above \subseteq free
  BY Numbers
<1>2. CASE above # {}
  <2>1. v = Min(above)
    BY <1>2 DEF FreeFrom
  <2> QED BY <1>1, <1>2, <2>1, Least
<1>3. CASE above = {} /\ free # {}
  <2>1. v = Min(free)
    BY <1>3 DEF FreeFrom
  <2> QED BY <1>1, <1>3, <2>1, Least
<1>4. CASE above = {} /\ free = {}
  BY <1>4 DEF FreeFrom
<1> QED BY <1>2, <1>3, <1>4

-----------------------------------------------------------------------------
(* The steps, in fields                                                    *)

(* A run goes on in its deploy, or begins one.                             *)
Turned(r, pc, address, vmid) ==
    /\ run' \in [Runs -> RunStates] /\ \A s \in Runs \ {r} : run'[s] = run[s]
    /\ run'[r].at = run[r].at /\ run'[r].pc = pc
    /\ run'[r].address = address /\ run'[r].vmid = vmid
Stays(r, pc) == Turned(r, pc, run[r].address, run[r].vmid)
Begun(r, at, pc) ==
    /\ run' \in [Runs -> RunStates] /\ \A s \in Runs \ {r} : run'[s] = run[s]
    /\ run'[r].at = at /\ run'[r].pc = pc /\ run'[r].vmid = 0

Configured(r, k, c) ==
    /\ conf' \in [Runs -> [Kinds -> Config]] /\ \A s \in Runs \ {r} : conf'[s] = conf[s]
    /\ conf'[r][k] = c /\ \A l \in Kinds \ {k} : conf'[r][l] = conf[r][l]

Became(v, type, name, tags, address) ==
    /\ guests' \in [Vmids -> GuestStates] /\ \A x \in Vmids \ {v} : guests'[x] = guests[x]
    /\ guests'[v].type = type /\ guests'[v].name = name
    /\ guests'[v].tags = tags /\ guests'[v].address = address

Starts(r) ==
    /\ run[r].pc \in {"waiting", "failed"} /\ {r} \cup {s \in Runs : Active(s)} \in Overlaps
    /\ Begun(r, 1, "select")
    /\ conf' \in [Runs -> [Kinds -> Config]] /\ \A s \in Runs \ {r} : conf'[s] = conf[s]
    /\ conf'[r] = Nothing /\ UNCHANGED <<guests, placed>>
Fails(r) ==
    Active(r) /\ Stays(r, "failed") /\ UNCHANGED <<guests, conf, placed>>
Reuses(r) ==
    /\ run[r].pc = "select" /\ UNCHANGED <<guests, conf, placed>>
    /\ \E v \in Found(Wanted(r)) : Turned(r, "reuse", run[r].address, v)
Allocates(r) ==
    LET w == Wanted(r) IN
    /\ run[r].pc = "select" /\ Found(w) = {} /\ UNCHANGED <<guests, placed>>
    /\ \E a \in Addresses(w) :
         LET c == Derived(conf[r][w.kind], w, a) IN
         /\ Configured(r, w.kind, c)
         /\ \/ w.kind = "lxc" /\ Turned(r, "create", a, c.vmid)
            \/ w.kind = "qemu" /\ c.vmid = w.retained /\ Turned(r, "avoid", a, c.vmid)
            \/ w.kind = "qemu" /\ c.vmid # w.retained /\ Turned(r, "check", a, c.vmid)
Avoids(r) ==
    /\ run[r].pc = "avoid" /\ conf[r].qemu.source = run[r].address
    /\ UNCHANGED <<guests, placed>>
    /\ \E v \in Vmids \ (Present \cup {Wanted(r).retained}) :
         /\ Configured(r, "qemu", [vmid |-> v, source |-> conf[r].qemu.source])
         /\ Turned(r, "check", run[r].address, v)
MakesLxc(r) ==
    LET w == Wanted(r) v == run[r].vmid IN
    /\ run[r].pc = "create" /\ v \notin Present /\ Stays(r, "start")
    /\ Became(v, "lxc", w.unit, Requested(w), run[r].address) /\ UNCHANGED <<conf, placed>>
Checks(r) ==
    /\ run[r].pc = "check" /\ guests[run[r].vmid].type # "lxc" /\ Stays(r, "clone")
    /\ run'[r].exists => run[r].vmid \in Present
    /\ UNCHANGED <<guests, conf, placed>>
Adopts(r) ==
    /\ run[r].pc = "clone" /\ run[r].vmid \in Present /\ Stays(r, "recheck")
    /\ UNCHANGED <<guests, conf, placed>>
Clones(r) ==
    LET v == run[r].vmid IN
    /\ run[r].pc = "clone" /\ v \notin Present /\ Stays(r, "configure")
    /\ Became(v, "qemu", Wanted(r).unit, {Lab, Template}, 0) /\ UNCHANGED <<conf, placed>>
Rechecks(r) ==
    /\ run[r].pc = "recheck" /\ guests[run[r].vmid].type = "qemu" /\ Stays(r, "configure")
    /\ UNCHANGED <<guests, conf, placed>>
Configures(r) ==
    LET v == run[r].vmid g == guests[v] IN
    /\ run[r].pc = "configure" /\ Stays(r, "start") /\ UNCHANGED <<conf, placed>>
    /\ \E kept \in SUBSET g.tags :
         Became(v, g.type, g.name, Requested(Wanted(r)) \cup kept, run[r].address)
Installs(r) ==
    LET v == run[r].vmid g == guests[v] IN
    /\ run[r].pc \in {"reuse", "start"} /\ UNCHANGED conf
    /\ \E recorded \in SUBSET {Wanted(r).unit} :
         Became(v, g.type, g.name, g.tags \cup recorded, g.address)
    /\ placed' \in [Vmids -> SUBSET Deploys] /\ placed'[v] = placed[v] \cup {Deploy(r)}
    /\ \A x \in Vmids \ {v} : placed'[x] = placed[x]
    /\ \/ Begun(r, run[r].at, "finished")
       \/ run[r].at + 1 <= Len(Chain[r]) /\ Begun(r, run[r].at + 1, "select")

Works(r) ==
    \/ Starts(r) \/ Fails(r) \/ Reuses(r) \/ Allocates(r) \/ Avoids(r)
    \/ MakesLxc(r) \/ Checks(r) \/ Adopts(r) \/ Clones(r) \/ Rechecks(r)
    \/ Configures(r) \/ Installs(r)

(* Somebody else's step at a VMID, which no run holds.                     *)
Foreigner(v) ==
    /\ v \notin Present /\ UNCHANGED <<run, conf, placed>>
    /\ \E t \in ForeignTypes : Became(v, t, Foreign, {}, 0)
Leaves(v) ==
    /\ v \in Present /\ UNCHANGED <<run, conf>>
    /\ \A r \in Runs : Active(r) => run[r].vmid # v
    /\ placed' \in [Vmids -> SUBSET Deploys] /\ \A x \in Vmids \ {v} : placed'[x] = placed[x]
Removes(v) ==
    /\ Leaves(v) /\ Became(v, "none", "", {}, 0) /\ guests'[v] = NoGuest /\ placed'[v] = {}
Withdraws(v) ==
    /\ Leaves(v) /\ placed'[v] \subseteq placed[v]
    /\ \E u \in Units :
         Became(v, guests[v].type, guests[v].name, guests[v].tags \ {u}, guests[v].address)

Steps ==
    \/ \E r \in Runs : Works(r)
    \/ \E v \in Vmids : Foreigner(v) \/ Removes(v) \/ Withdraws(v)
    \/ UNCHANGED <<guests, run, conf, placed>>

LEMMA Records ==
    /\ NoGuest \in GuestStates /\ Fresh \in RunStates /\ Nothing \in [Kinds -> Config]
    /\ Nothing.lxc = Unset /\ Nothing.qemu = Unset /\ Unset \in Config
    /\ NoGuest.type = "none" /\ NoGuest.name = "" /\ NoGuest.tags = {} /\ NoGuest.address = 0
  BY DEF NoGuest, GuestStates, Fresh, RunStates, Nothing, Unset, Config, Kinds, Stages

LEMMA Staying ==
    ASSUME TypeOK, NEW r \in Runs, NEW pc \in Stages \cup {"failed"}, Go(r, pc)
    PROVE  Stays(r, pc)
  BY DEF TypeOK, Go, Stays, Turned, RunStates

LEMMA Turning ==
    ASSUME TypeOK, NEW r \in Runs, NEW pc \in Stages, NEW a \in Hosts \cup {0}, NEW v \in Vmids \cup {0},
           NEW x \in RunStates, x.at = run[r].at, x.pc = pc, x.address = a, x.vmid = v,
           run' = [run EXCEPT ![r] = x]
    PROVE  Turned(r, pc, a, v)
  BY DEF TypeOK, Turned

(* What a run finds is there.                                              *)
LEMMA Finding ==
    ASSUME NEW d \in Deploys, NEW v \in Found(Want[d])
    PROVE  /\ v \in Vmids /\ v \in Present
           /\ Want[d].unit \in guests[v].tags \/ guests[v].name = Want[d].unit
<1> DEFINE w == Want[d]
<1>1. Tagged(w.unit) \subseteq Present /\ Named(w.unit) \subseteq Present
  BY DEF Tagged, Named
<1>2. v \in Tagged(w.unit) \/ v \in Named(w.unit)
  BY Wants DEF Found
<1> QED BY <1>1, <1>2 DEF Tagged, Named, Present

LEMMA Failing ==
    ASSUME TypeOK, NEW r \in Runs, Active(r), Fail(r)
    PROVE  Fails(r)
  BY Staying DEF Fail, Fails

LEMMA Starting ==
    ASSUME TypeOK, NEW r \in Runs, Start(r)
    PROVE  Starts(r)
<1>1. Fresh.at = 1 /\ Fresh.pc = "select" /\ Fresh.vmid = 0
  BY DEF Fresh
<1>2. Begun(r, 1, "select")
  BY <1>1, Records DEF Start, TypeOK, Begun
<1>3. conf' \in [Runs -> [Kinds -> Config]] /\ conf'[r] = Nothing
      /\ \A s \in Runs \ {r} : conf'[s] = conf[s]
  BY Records DEF Start, TypeOK, Kinds
<1> QED BY <1>2, <1>3 DEF Start, Starts

LEMMA Selecting ==
    ASSUME TypeOK, NEW r \in Runs, RefuseSelection(r) \/ Reuse(r) \/ Allocate(r)
    PROVE  Fails(r) \/ Reuses(r) \/ Allocates(r)
<1> DEFINE w == Wanted(r)
<1>0. run[r] \in RunStates /\ Deploy(r) \in Deploys /\ w = Want[Deploy(r)]
  BY Current DEF TypeOK, Wanted
<1>1. CASE RefuseSelection(r)
  <2>1. Active(r)
    BY <1>1 DEF RefuseSelection, Active, Stages
  <2> QED BY <1>1, <2>1, Failing DEF RefuseSelection
<1>2. CASE Reuse(r)
  <2>1. PICK v \in Found(w) : run' = [run EXCEPT ![r].pc = "reuse", ![r].vmid = v]
    BY <1>2 DEF Reuse
  <2>2. v \in Vmids
    BY <1>0, Finding
  <2>3. Turned(r, "reuse", run[r].address, v)
    <3> HIDE DEF w
    <3> DEFINE x == [run[r] EXCEPT !.pc = "reuse", !.vmid = v]
    <3>1. /\ x \in RunStates /\ x.at = run[r].at /\ x.pc = "reuse"
          /\ x.address = run[r].address /\ x.vmid = v
      BY <1>0, <2>2 DEF RunStates, Stages
    <3>2. run' = [run EXCEPT ![r] = x]
      BY <2>1
    <3>3. run[r].address \in Hosts \cup {0} /\ "reuse" \in Stages
      BY <1>0 DEF RunStates, Stages
    <3> HIDE DEF x
    <3> QED BY <2>2, <3>1, <3>2, <3>3, Turning
  <2> QED BY <1>2, <2>3 DEF Reuse, Reuses, Owned
<1>3. CASE Allocate(r)
  <2> DEFINE next(c) == IF w.kind = "lxc" THEN "create" ELSE IF c.vmid = w.retained THEN "avoid" ELSE "check"
  <2>1. PICK a \in Addresses(w) :
          /\ conf' = [conf EXCEPT ![r][w.kind] = Derived(conf[r][w.kind], w, a)]
          /\ run' = [run EXCEPT ![r].address = a, ![r].vmid = Derived(conf[r][w.kind], w, a).vmid,
                                ![r].pc = next(Derived(conf[r][w.kind], w, a))]
    BY <1>3 DEF Allocate
  <2> DEFINE c == Derived(conf[r][w.kind], w, a)
  <2>2. w.kind \in Kinds /\ a \in Hosts /\ conf[r][w.kind] \in Config
    BY <1>0, Wants, Choice DEF TypeOK, Kinds
  <2>3. c \in Config /\ c.vmid \in Vmids
    BY <1>0, <2>2, Derivation
  <2> HIDE DEF c, w
  <2>4. Configured(r, w.kind, c)
    BY <2>1, <2>2, <2>3 DEF c, Configured, TypeOK, Kinds
  <2>5. next(c) \in Stages /\ next(c) \in {"create", "avoid", "check"}
    BY DEF Stages
  <2>6. run' = [run EXCEPT ![r].address = a, ![r].vmid = c.vmid, ![r].pc = next(c)]
    BY <2>1 DEF c
  <2>7. Turned(r, next(c), a, c.vmid)
    <3> DEFINE pc == next(c)
               x == [run[r] EXCEPT !.address = a, !.vmid = c.vmid, !.pc = pc]
    <3>0. pc \in Stages /\ run' = [run EXCEPT ![r].address = a, ![r].vmid = c.vmid, ![r].pc = pc]
      BY <2>5, <2>6
    <3> HIDE DEF pc
    <3>1. /\ x \in RunStates /\ x.at = run[r].at /\ x.pc = pc
          /\ x.address = a /\ x.vmid = c.vmid
      BY <1>0, <2>2, <2>3, <3>0 DEF RunStates
    <3>2. run' = [run EXCEPT ![r] = x]
      BY <3>0
    <3> HIDE DEF x
    <3>3. Turned(r, pc, a, c.vmid)
      BY <2>2, <2>3, <3>0, <3>1, <3>2, Turning
    <3> QED BY <3>3 DEF pc
  <2>8. \/ w.kind = "lxc" /\ Turned(r, "create", a, c.vmid)
        \/ w.kind = "qemu" /\ c.vmid = w.retained /\ Turned(r, "avoid", a, c.vmid)
        \/ w.kind = "qemu" /\ c.vmid # w.retained /\ Turned(r, "check", a, c.vmid)
    BY <2>2, <2>7 DEF Kinds
  <2> QED BY <1>3, <2>4, <2>8 DEF Allocate, Allocates, Owned, c, w
<1> QED BY <1>1, <1>2, <1>3

LEMMA Avoiding ==
    ASSUME TypeOK, NEW r \in Runs, Avoid(r)
    PROVE  Fails(r) \/ Avoids(r)
<1> DEFINE c == conf[r].qemu
           choice == IF c.source = run[r].address
                       THEN FreeFrom(c.vmid + 1, Present \cup {Wanted(r).retained}) ELSE {}
<1>1. run[r].pc = "avoid"
  BY DEF Avoid
<1>2. CASE choice = {} /\ Fail(r)
  BY <1>1, <1>2, Failing DEF Active, Stages
<1>3. CASE \E v \in choice :
          /\ conf' = [conf EXCEPT ![r].qemu.vmid = v]
          /\ run' = [run EXCEPT ![r].vmid = v, ![r].pc = "check"]
          /\ UNCHANGED <<guests, placed>>
  <2>1. PICK v \in choice :
          /\ conf' = [conf EXCEPT ![r].qemu.vmid = v]
          /\ run' = [run EXCEPT ![r].vmid = v, ![r].pc = "check"]
          /\ UNCHANGED <<guests, placed>>
    BY <1>3
  <2>2. c.source = run[r].address /\ v \in Vmids \ (Present \cup {Wanted(r).retained})
    BY Avoidance
  <2>3. run[r] \in RunStates /\ conf[r] \in [Kinds -> Config] /\ c \in Config
    BY DEF TypeOK, Kinds
  <2>4. Turned(r, "check", run[r].address, v)
    <3> DEFINE x == [run[r] EXCEPT !.vmid = v, !.pc = "check"]
    <3>1. /\ x \in RunStates /\ x.at = run[r].at /\ x.pc = "check"
          /\ x.address = run[r].address /\ x.vmid = v
      BY <2>2, <2>3 DEF RunStates, Stages
    <3>2. run' = [run EXCEPT ![r] = x]
      BY <2>1
    <3>3. run[r].address \in Hosts \cup {0} /\ "check" \in Stages
      BY <2>3 DEF RunStates, Stages
    <3> HIDE DEF x
    <3> QED BY <2>2, <3>1, <3>2, <3>3, Turning
  <2>5. Configured(r, "qemu", [vmid |-> v, source |-> c.source])
    <3> DEFINE new == [vmid |-> v, source |-> c.source]
    <3>1. [c EXCEPT !.vmid = v] = new /\ new \in Config
      BY <2>2, <2>3 DEF Config
    <3>2. conf' = [conf EXCEPT ![r] = [conf[r] EXCEPT !["qemu"] = new]]
      BY <2>1, <3>1
    <3> HIDE DEF new
    <3> QED BY <2>3, <3>1, <3>2 DEF Configured, TypeOK, Kinds, new
  <2> QED BY <1>1, <2>1, <2>2, <2>4, <2>5 DEF Avoids
<1> QED BY <1>2, <1>3 DEF Avoid

LEMMA Creating ==
    ASSUME TypeOK, NEW r \in Runs, run[r].pc \in Stages \ {"select"} => run[r].vmid \in Vmids,
           CreateLxc(r)
    PROVE  Fails(r) \/ MakesLxc(r)
<1> DEFINE w == Wanted(r)
           v == run[r].vmid
           g == [type |-> "lxc", name |-> w.unit, tags |-> Requested(w),
                 address |-> run[r].address, nic |-> w.nic, running |-> FALSE]
<1>1. run[r].pc = "create" /\ v \in Vmids /\ run[r].address \in Hosts \cup {0}
  BY DEF CreateLxc, Stages, TypeOK, RunStates
<1>2. CASE v \in Present
  BY <1>1, <1>2, Failing DEF CreateLxc, Active, Stages
<1>3. CASE v \notin Present
  <2>1. w.unit \in Units /\ w.nic \in {Want[d].nic : d \in Deploys}
    BY Current, Wants DEF Wanted
  <2>2. g \in GuestStates
    BY <1>1, <2>1 DEF GuestStates, Requested
  <2>3. guests' = [guests EXCEPT ![v] = g] /\ Go(r, "start") /\ UNCHANGED <<conf, placed>>
    BY <1>3 DEF CreateLxc
  <2>4. Became(v, "lxc", w.unit, Requested(w), run[r].address)
    BY <1>1, <2>2, <2>3 DEF Became, TypeOK
  <2>5. Stays(r, "start")
    BY <2>3, Staying DEF Stages
  <2> QED BY <1>1, <1>3, <2>3, <2>4, <2>5 DEF MakesLxc
<1> QED BY <1>2, <1>3

LEMMA Checking ==
    ASSUME TypeOK, NEW r \in Runs, CheckTarget(r)
    PROVE  Fails(r) \/ Checks(r)
<1> DEFINE v == run[r].vmid
<1>1. run[r].pc = "check" /\ run[r] \in RunStates
  BY DEF CheckTarget, TypeOK
<1>2. CASE guests[v].type = "lxc"
  BY <1>1, <1>2, Failing DEF CheckTarget, Active, Stages
<1>3. CASE guests[v].type # "lxc"
  <2> DEFINE x == [run[r] EXCEPT !.exists = v \in Present, !.pc = "clone"]
  <2>1. /\ run' = [run EXCEPT ![r].exists = v \in Present, ![r].pc = "clone"]
        /\ UNCHANGED <<guests, conf, placed>>
    BY <1>3 DEF CheckTarget
  <2>2. run' = [run EXCEPT ![r] = x]
    BY <2>1
  <2> DEFINE there == v \in Present
  <2> HIDE DEF there
  <2>3. /\ x.at = run[r].at /\ x.pc = "clone" /\ x.address = run[r].address
        /\ x.vmid = run[r].vmid /\ x.exists = (v \in Present) /\ x \in RunStates
    <3>1. there \in BOOLEAN
      BY DEF there
    <3>2. x = [run[r] EXCEPT !.exists = there, !.pc = "clone"]
      BY DEF there
    <3>3. /\ x.at = run[r].at /\ x.pc = "clone" /\ x.address = run[r].address
          /\ x.vmid = run[r].vmid /\ x.exists = there /\ x \in RunStates
      BY <1>1, <3>1, <3>2, Zenon DEF RunStates, Stages
    <3> QED BY <3>3 DEF there
  <2>4. run[r].address \in Hosts \cup {0} /\ v \in Vmids \cup {0} /\ "clone" \in Stages
    BY <1>1 DEF RunStates, Stages
  <2> HIDE DEF x
  <2>5. Stays(r, "clone") /\ run'[r].exists = (v \in Present)
    <3>1. Turned(r, "clone", run[r].address, run[r].vmid)
      BY <2>2, <2>3, <2>4, Turning
    <3>2. run'[r] = x
      BY <2>2 DEF TypeOK
    <3> QED BY <2>3, <3>1, <3>2 DEF Stays
  <2> QED BY <1>1, <1>3, <2>1, <2>5 DEF Checks
<1> QED BY <1>2, <1>3

LEMMA Cloning ==
    ASSUME TypeOK, BaseInv, NEW r \in Runs, Clone(r)
    PROVE  Adopts(r) \/ Clones(r)
<1> DEFINE w == Wanted(r)
           v == run[r].vmid
           g == [type |-> "qemu", name |-> w.unit, tags |-> {Lab, Template},
                 address |-> 0, nic |-> TemplateNic, running |-> FALSE]
<1>1. /\ run[r].pc = "clone" /\ run[r] \in RunStates /\ v \in Vmids
      /\ run[r].exists => v \in Present
  BY DEF Clone, TypeOK, BaseInv, Decided, Stages
<1>2. run[r].address \in Hosts \cup {0} /\ {"recheck", "configure"} \subseteq Stages
  BY <1>1 DEF RunStates, Stages
<1>3. CASE v \in Present
  <2> DEFINE x == [run[r] EXCEPT !.changed = FALSE, !.pc = "recheck"]
  <2>1. run' = [run EXCEPT ![r].changed = FALSE, ![r].pc = "recheck"]
        /\ UNCHANGED <<guests, conf, placed>>
    BY <1>3 DEF Clone
  <2>2. run' = [run EXCEPT ![r] = x]
    BY <2>1
  <2>3. /\ x.at = run[r].at /\ x.pc = "recheck" /\ x.address = run[r].address
        /\ x.vmid = run[r].vmid /\ x \in RunStates
    BY <1>1 DEF RunStates, Stages
  <2> HIDE DEF x
  <2>4. Stays(r, "recheck")
    BY <1>1, <1>2, <2>2, <2>3, Turning DEF Stays
  <2> QED BY <1>1, <1>3, <2>1, <2>4 DEF Adopts
<1>4. CASE v \notin Present
  <2> DEFINE x == [run[r] EXCEPT !.changed = TRUE, !.pc = "configure"]
  <2>1. /\ guests' = [guests EXCEPT ![v] = g]
        /\ run' = [run EXCEPT ![r].changed = TRUE, ![r].pc = "configure"]
        /\ UNCHANGED <<conf, placed>>
    BY <1>1, <1>4 DEF Clone
  <2>2. run' = [run EXCEPT ![r] = x]
    BY <2>1
  <2>3. /\ x.at = run[r].at /\ x.pc = "configure" /\ x.address = run[r].address
        /\ x.vmid = run[r].vmid /\ x \in RunStates
    BY <1>1 DEF RunStates, Stages
  <2> HIDE DEF x
  <2>4. Stays(r, "configure")
    BY <1>1, <1>2, <2>2, <2>3, Turning DEF Stays
  <2>5. w.unit \in Units
    BY Current, Wants DEF Wanted
  <2>6. g \in GuestStates
    BY <2>5 DEF GuestStates
  <2>7. Became(v, "qemu", w.unit, {Lab, Template}, 0)
    BY <1>1, <2>1, <2>6 DEF Became, TypeOK
  <2> QED BY <1>1, <1>4, <2>1, <2>4, <2>7 DEF Clones
<1> QED BY <1>3, <1>4

LEMMA Rechecking ==
    ASSUME TypeOK, NEW r \in Runs, Recheck(r)
    PROVE  Fails(r) \/ Rechecks(r)
<1>1. run[r].pc = "recheck" /\ Active(r)
  BY DEF Recheck, Active, Stages
<1>2. CASE Fail(r)
  BY <1>1, <1>2, Failing
<1>3. CASE ~Fail(r)
  <2>1. guests[run[r].vmid].type = "qemu" /\ Go(r, "configure") /\ UNCHANGED <<guests, conf, placed>>
    BY <1>3 DEF Recheck
  <2> QED BY <1>1, <2>1, Staying DEF Rechecks, Stages
<1> QED BY <1>2, <1>3

LEMMA Configuring ==
    ASSUME TypeOK, NEW r \in Runs, run[r].pc \in Stages \ {"select"} => run[r].vmid \in Vmids,
           Configure(r)
    PROVE  Configures(r)
<1> DEFINE w    == Wanted(r)
           v    == run[r].vmid
           g    == guests[v]
           kept == IF run[r].exists THEN g.tags \ LaneTags ELSE {}
           tags == Requested(w) \cup kept
           nic  == IF run[r].changed THEN w.nic ELSE g.nic
           new  == [g EXCEPT !.tags = tags, !.address = run[r].address, !.nic = nic]
<1>1. run[r].pc = "configure" /\ v \in Vmids
  BY DEF Configure, Stages
<1>2. run[r].address \in Hosts \cup {0} /\ g \in GuestStates
  BY <1>1 DEF TypeOK, RunStates
<1>3. w.unit \in Units /\ w.nic \in {Want[d].nic : d \in Deploys}
  BY Current, Wants DEF Wanted
<1>4. kept \in SUBSET g.tags /\ g.tags \subseteq Units \cup {Lab, Template}
      /\ nic \in {Want[d].nic : d \in Deploys} \cup {TemplateNic, ""}
  BY <1>2, <1>3 DEF GuestStates
<1>5. tags \in SUBSET (Units \cup {Lab, Template})
  BY <1>3, <1>4 DEF Requested
<1>6. guests' = [guests EXCEPT ![v] = new] /\ Go(r, "start") /\ UNCHANGED <<conf, placed>>
  BY DEF Configure
<1> HIDE DEF tags, kept, nic
<1>7. /\ new \in GuestStates /\ new.type = g.type /\ new.name = g.name
      /\ new.tags = tags /\ new.address = run[r].address
  BY <1>2, <1>4, <1>5 DEF GuestStates
<1> HIDE DEF new
<1>8. Became(v, g.type, g.name, tags, run[r].address)
  BY <1>1, <1>6, <1>7 DEF Became, TypeOK
<1>9. Became(v, g.type, g.name, Requested(w) \cup kept, run[r].address)
  BY <1>8 DEF tags
<1>10. Stays(r, "start")
  BY <1>6, Staying DEF Stages
<1> QED BY <1>1, <1>4, <1>6, <1>9, <1>10 DEF Configures

LEMMA Installing ==
    ASSUME TypeOK, NEW r \in Runs, run[r].pc \in Stages \ {"select"} => run[r].vmid \in Vmids,
           Install(r)
    PROVE  Installs(r)
<1> DEFINE w    == Wanted(r)
           v    == run[r].vmid
           g    == guests[v]
           last == run[r].at = Len(Chain[r])
<1>1. run[r].pc \in {"reuse", "start"} /\ v \in Vmids /\ g \in GuestStates
  BY DEF Install, Stages, TypeOK
<1>2. w.unit \in Units /\ Deploy(r) \in Deploys
  BY Current, Wants DEF Wanted
<1>3. \E recorded \in SUBSET {w.unit} : Became(v, g.type, g.name, g.tags \cup recorded, g.address)
  <2>1. PICK recorded \in SUBSET {w.unit} :
          guests' = [guests EXCEPT ![v].running = TRUE, ![v].tags = @ \cup recorded]
    BY DEF Install
  <2> DEFINE tags == g.tags \cup recorded
             new  == [g EXCEPT !.running = TRUE, !.tags = tags]
  <2>2. tags \in SUBSET (Units \cup {Lab, Template})
    BY <1>1, <1>2 DEF GuestStates
  <2>3. guests' = [guests EXCEPT ![v] = new]
    BY <2>1
  <2> HIDE DEF tags
  <2>4. /\ new \in GuestStates /\ new.type = g.type /\ new.name = g.name
        /\ new.tags = tags /\ new.address = g.address
    BY <1>1, <2>2 DEF GuestStates
  <2> HIDE DEF new
  <2>5. Became(v, g.type, g.name, tags, g.address)
    BY <1>1, <2>3, <2>4 DEF Became, TypeOK
  <2> QED BY <2>5 DEF tags
<1>4. /\ placed' \in [Vmids -> SUBSET Deploys] /\ placed'[v] = placed[v] \cup {Deploy(r)}
      /\ \A x \in Vmids \ {v} : placed'[x] = placed[x]
  BY <1>1, <1>2 DEF Install, TypeOK
<1>5. \/ Begun(r, run[r].at, "finished")
      \/ run[r].at + 1 <= Len(Chain[r]) /\ Begun(r, run[r].at + 1, "select")
  <2>1. /\ run[r].at \in Nat \ {0} /\ Len(Chain[r]) \in Nat
        /\ run[r].at <= Len(Chain[r]) /\ run \in [Runs -> RunStates]
    BY Current DEF TypeOK, RunStates
  <2>2. ASSUME NEW at \in Nat \ {0}, NEW pc \in {"select", "finished"},
               run' = [run EXCEPT ![r] = [Fresh EXCEPT !.at = at, !.pc = pc]]
        PROVE  Begun(r, at, pc)
    <3> DEFINE x == [Fresh EXCEPT !.at = at, !.pc = pc]
    <3>1. x \in RunStates /\ x.at = at /\ x.pc = pc /\ x.vmid = 0
      BY DEF Fresh, RunStates, Stages
    <3>2. run' = [run EXCEPT ![r] = x]
      BY <2>2
    <3> HIDE DEF x
    <3> QED BY <2>1, <3>1, <3>2 DEF Begun
  <2>3. CASE last
    <3>1. run' = [run EXCEPT ![r] = [Fresh EXCEPT !.at = run[r].at, !.pc = "finished"]]
      BY <2>3 DEF Install
    <3> QED BY <2>1, <2>2, <3>1
  <2>4. CASE ~last
    <3>1. run' = [run EXCEPT ![r] = [Fresh EXCEPT !.at = run[r].at + 1, !.pc = "select"]]
      BY <2>4 DEF Install
    <3>2. run[r].at + 1 \in Nat \ {0} /\ run[r].at + 1 <= Len(Chain[r])
      BY <2>1, <2>4
    <3> QED BY <2>2, <3>1, <3>2
  <2> QED BY <2>3, <2>4
<1> QED BY <1>1, <1>3, <1>4, <1>5 DEF Install, Installs

LEMMA Making ==
    ASSUME TypeOK, MakeForeign, UNCHANGED <<run, conf>>
    PROVE  \E v \in Vmids : Foreigner(v)
<1>1. PICK v \in Vmids \ Present, t \in ForeignTypes, on \in BOOLEAN :
        guests' = [guests EXCEPT ![v] = [type |-> t, name |-> Foreign, tags |-> {},
                                         address |-> 0, nic |-> TemplateNic, running |-> on]]
  BY DEF MakeForeign
<1> DEFINE g == [type |-> t, name |-> Foreign, tags |-> {},
                 address |-> 0, nic |-> TemplateNic, running |-> on]
<1>2. t \in {"lxc", "qemu"}
  BY WantAssumption
<1>3. g \in GuestStates
  BY <1>2 DEF GuestStates
<1>4. Became(v, t, Foreign, {}, 0)
  BY <1>1, <1>3 DEF Became, TypeOK
<1> QED BY <1>4 DEF MakeForeign, Foreigner

LEMMA Removing ==
    ASSUME TypeOK, Destroy, UNCHANGED <<run, conf>>
    PROVE  \E v \in Vmids : Removes(v)
<1>1. PICK v \in Present :
        /\ \A r \in Runs : Active(r) => run[r].vmid # v
        /\ guests' = [guests EXCEPT ![v] = NoGuest] /\ placed' = [placed EXCEPT ![v] = {}]
  BY DEF Destroy
<1>2. v \in Vmids
  BY DEF Present
<1>3. Became(v, "none", "", {}, 0) /\ guests'[v] = NoGuest
  BY <1>1, <1>2, Records DEF Became, TypeOK
<1>4. /\ placed' \in [Vmids -> SUBSET Deploys] /\ placed'[v] = {}
      /\ \A x \in Vmids \ {v} : placed'[x] = placed[x]
  BY <1>1, <1>2 DEF TypeOK
<1> QED BY <1>1, <1>2, <1>3, <1>4 DEF Removes, Leaves

LEMMA Withdrawing ==
    ASSUME TypeOK, Withdraw, UNCHANGED <<run, conf>>
    PROVE  \E v \in Vmids : Withdraws(v)
<1>1. PICK v \in Present, d \in Deploys :
        /\ \A r \in Runs : Active(r) => run[r].vmid # v
        /\ guests' = [guests EXCEPT ![v].tags = @ \ {Want[d].unit}]
        /\ placed' = [placed EXCEPT ![v] = {e \in @ : Want[e].unit # Want[d].unit}]
  BY DEF Withdraw
<1> DEFINE g    == guests[v]
           tags == g.tags \ {Want[d].unit}
           new  == [g EXCEPT !.tags = tags]
<1>2. v \in Vmids /\ Want[d].unit \in Units
  BY Wants DEF Present
<1>3. g \in GuestStates
  BY <1>2 DEF TypeOK
<1>4. tags \in SUBSET (Units \cup {Lab, Template})
  BY <1>3 DEF GuestStates
<1>5. guests' = [guests EXCEPT ![v] = new]
  BY <1>1
<1> HIDE DEF tags
<1>6. /\ new \in GuestStates /\ new.type = g.type /\ new.name = g.name
      /\ new.tags = tags /\ new.address = g.address
  BY <1>3, <1>4 DEF GuestStates
<1> HIDE DEF new
<1>7. Became(v, g.type, g.name, tags, g.address)
  BY <1>2, <1>5, <1>6 DEF Became, TypeOK
<1>8. /\ placed' \in [Vmids -> SUBSET Deploys] /\ placed'[v] \subseteq placed[v]
      /\ \A x \in Vmids \ {v} : placed'[x] = placed[x]
  BY <1>1, <1>2 DEF TypeOK
<1>9. Leaves(v)
  BY <1>1, <1>8 DEF Leaves
<1> QED BY <1>2, <1>7, <1>8, <1>9 DEF Withdraws, tags

LEMMA Stepping == ASSUME TypeOK, BaseInv, [Next]_vars PROVE Steps
<1>1. ASSUME NEW r \in Runs, Start(r) \/ Work(r) \/ Crash(r)
      PROVE  Works(r)
  <2>1. run[r].pc \in Stages \ {"select"} => run[r].vmid \in Vmids
    BY DEF BaseInv, Decided
  <2>2. CASE Start(r)
    BY <2>2, Starting DEF Works
  <2>3. CASE Crash(r)
    BY <2>3, Failing DEF Crash, Works
  <2>4. CASE Work(r)
    BY <2>1, <2>4, Selecting, Avoiding, Creating, Checking, Cloning, Rechecking,
       Configuring, Installing DEF Work, Works
  <2> QED BY <1>1, <2>2, <2>3, <2>4
<1>2. CASE Others
  BY <1>2, Making, Removing, Withdrawing DEF Others, Steps
<1>3. CASE UNCHANGED vars
  BY <1>3 DEF vars, Steps
<1> QED BY <1>1, <1>2, <1>3 DEF Next, Steps

-----------------------------------------------------------------------------
(* Types, and what is decided                                              *)

LEMMA Presence ==
    ASSUME BaseInv, NEW v \in Vmids, NEW type, NEW name, NEW tags, NEW address,
           Became(v, type, name, tags, address), type # "none"
    PROVE  Present' = Present \cup {v}
<1>1. guests'[v] # NoGuest
  BY Records DEF Became
<1> QED BY <1>1 DEF Present, Became

LEMMA There ==
    ASSUME BaseInv, NEW v \in Vmids
    PROVE  (v \in Present) <=> guests[v].type # "none"
  BY Records DEF BaseInv, Present

(* No run takes a guest away, and who is in the lab stays the same.        *)
LEMMA StayingThere ==
    ASSUME BaseInv, NEW r \in Runs, Works(r)
    PROVE  Present \subseteq Present'
<1>1. CASE UNCHANGED guests
  BY <1>1 DEF Present
<1>2. Decided(r) /\ {"lxc", "qemu"} \cap {"none"} = {}
  BY DEF BaseInv
<1>3. CASE MakesLxc(r) \/ Clones(r)
  <2>1. run[r].vmid \in Vmids
    BY <1>2, <1>3 DEF MakesLxc, Clones, Decided, Stages
  <2> QED BY <1>2, <1>3, <2>1, Presence DEF MakesLxc, Clones
<1>4. CASE Configures(r) \/ Installs(r)
  <2>1. run[r].vmid \in Vmids /\ run[r].vmid \in Present
    BY <1>2, <1>4 DEF Configures, Installs, Decided, Stages, Holding
  <2>2. guests[run[r].vmid].type # "none"
    BY <2>1, There
  <2> QED BY <1>4, <2>1, <2>2, Presence DEF Configures, Installs
<1> QED BY <1>1, <1>3, <1>4 DEF Works, Starts, Fails, Reuses, Allocates, Avoids, Checks, Adopts, Rechecks

LEMMA OneRun ==
    ASSUME NEW r \in Runs, Works(r)
    PROVE  /\ run' \in [Runs -> RunStates] /\ \A s \in Runs \ {r} : run'[s] = run[s]
           /\ run[r].pc # "never" /\ run'[r].pc # "never"
  BY Zenon DEF Works, Starts, Fails, Reuses, Allocates, Avoids, MakesLxc, Checks, Adopts, Clones,
     Rechecks, Configures, Installs, Stays, Turned, Begun, Active, Stages

LEMMA SameLab == ASSUME TypeOK, Steps PROVE ThisLab' = ThisLab
<1>1. CASE \E r \in Runs : Works(r)
  <2>1. PICK r \in Runs : Works(r)
    BY <1>1
  <2>2. \A s \in Runs : run'[s].pc = "never" <=> run[s].pc = "never"
    BY <2>1, OneRun
  <2> QED BY <2>2 DEF ThisLab
<1>2. CASE UNCHANGED run
  BY <1>2 DEF ThisLab
<1> QED BY <1>1, <1>2 DEF Steps, Foreigner, Removes, Withdraws, Leaves

LEMMA Counted ==
    ASSUME TypeOK, BaseInv, Steps, [Next]_vars
    PROVE  crashes' \in 0..MaxCrashes[ThisLab'] /\ others' \in 0..MaxOthers
<1>1. ThisLab' = ThisLab /\ MaxCrashes[ThisLab] \in Nat /\ MaxOthers \in Nat
  BY SameLab, BoundsAssumption DEF BaseInv
<1>2. crashes \in 0..MaxCrashes[ThisLab] /\ others \in 0..MaxOthers
  BY DEF TypeOK
<1>3. \/ crashes' = crashes
      \/ crashes < MaxCrashes[ThisLab] /\ crashes' = crashes + 1
  BY DEF Next, vars, Start, Work, RefuseSelection, Reuse, Allocate, Avoid, CreateLxc, CheckTarget,
     Clone, Recheck, Configure, Install, Crash, Others
<1>4. \/ others' = others
      \/ others < MaxOthers /\ others' = others + 1
  BY DEF Next, vars, Start, Work, RefuseSelection, Reuse, Allocate, Avoid, CreateLxc, CheckTarget,
     Clone, Recheck, Configure, Install, Crash, Others
<1> QED BY <1>1, <1>2, <1>3, <1>4

LEMMA TypeStep == ASSUME TypeOK, BaseInv, [Next]_vars PROVE TypeOK'
<1>1. Steps
  BY Stepping
<1>2. /\ guests \in [Vmids -> GuestStates] /\ run \in [Runs -> RunStates]
      /\ conf \in [Runs -> [Kinds -> Config]] /\ placed \in [Vmids -> SUBSET Deploys]
      /\ \A r \in Runs : run[r].at <= Len(Chain[r])
  BY DEF TypeOK, Kinds
<1>3. guests' \in [Vmids -> GuestStates]
  <2>1. ASSUME NEW r \in Runs, Works(r) PROVE guests' \in [Vmids -> GuestStates]
    BY <1>2, <2>1 DEF Works, Starts, Fails, Reuses, Allocates, Avoids, MakesLxc, Checks, Adopts,
       Clones, Rechecks, Configures, Installs, Became
  <2> QED BY <1>1, <1>2, <2>1 DEF Steps, Foreigner, Removes, Withdraws, Became
<1>4. run' \in [Runs -> RunStates]
  BY <1>1, <1>2, OneRun DEF Steps, Foreigner, Removes, Withdraws, Leaves
<1>5. conf' \in [Runs -> [Kinds -> Config]]
  <2>1. ASSUME NEW r \in Runs, Works(r) PROVE conf' \in [Runs -> [Kinds -> Config]]
    BY <1>2, <2>1 DEF Works, Starts, Fails, Reuses, Allocates, Avoids, MakesLxc, Checks, Adopts,
       Clones, Rechecks, Configures, Installs, Configured
  <2> QED BY <1>1, <1>2, <2>1 DEF Steps, Foreigner, Removes, Withdraws, Leaves
<1>6. placed' \in [Vmids -> SUBSET Deploys]
  <2>1. ASSUME NEW r \in Runs, Works(r) PROVE placed' \in [Vmids -> SUBSET Deploys]
    BY <1>2, <2>1 DEF Works, Starts, Fails, Reuses, Allocates, Avoids, MakesLxc, Checks, Adopts,
       Clones, Rechecks, Configures, Installs
  <2> QED BY <1>1, <1>2, <2>1 DEF Steps, Foreigner, Removes, Withdraws, Leaves
<1>7. \A s \in Runs : run'[s].at <= Len(Chain[s])
  <2>1. ASSUME NEW r \in Runs, Works(r) PROVE run'[r].at <= Len(Chain[r])
    <3>1. Len(Chain[r]) \in Nat \ {0} /\ run[r].at <= Len(Chain[r])
      BY <1>2, Current
    <3>2. run'[r].at \in {1, run[r].at} \/ (run'[r].at = run[r].at + 1 /\ run[r].at + 1 <= Len(Chain[r]))
      BY <2>1 DEF Works, Starts, Fails, Reuses, Allocates, Avoids, MakesLxc, Checks, Adopts, Clones,
         Rechecks, Configures, Installs, Stays, Turned, Begun
    <3> QED BY <3>1, <3>2
  <2>2. ASSUME NEW r \in Runs, Works(r) PROVE \A s \in Runs : run'[s].at <= Len(Chain[s])
    BY <1>2, <2>1, <2>2, OneRun
  <2> QED BY <1>1, <1>2, <2>2 DEF Steps, Foreigner, Removes, Withdraws, Leaves
<1>8. crashes' \in 0..MaxCrashes[ThisLab'] /\ others' \in 0..MaxOthers
  BY <1>1, Counted
<1> QED BY <1>3, <1>4, <1>5, <1>6, <1>7, <1>8 DEF TypeOK, Kinds

LEMMA SameDeploy ==
    ASSUME NEW r \in Runs, run'[r].at = run[r].at
    PROVE  Deploy(r)' = Deploy(r) /\ Wanted(r)' = Wanted(r)
  BY DEF Deploy, Wanted

LEMMA DecidedStep ==
    ASSUME TypeOK, BaseInv, NEW r \in Runs, Works(r)
    PROVE  Decided(r)'
<1> USE DEF Stages, Placing, Holding
<1>0. /\ Decided(r) /\ Present \subseteq Present' /\ run[r] \in RunStates
      /\ run[r].address \in Hosts \cup {0} /\ run[r].vmid \in Vmids \cup {0}
      /\ Deploy(r) \in Deploys /\ Wanted(r) = Want[Deploy(r)] /\ conf[r] \in [Kinds -> Config]
  BY StayingThere, Current DEF BaseInv, TypeOK, RunStates, Wanted, Kinds
<1>1. CASE Starts(r) \/ Fails(r) \/ Installs(r)
  <2>1. run'[r].pc \in {"failed", "select", "finished"}
    BY <1>1 DEF Starts, Fails, Installs, Stays, Turned, Begun
  <2> QED BY <2>1 DEF Decided
<1>2. CASE Reuses(r)
  BY <1>0, <1>2, Finding DEF Reuses, Turned, Decided
<1>3. CASE Allocates(r)
  <2> DEFINE w == Wanted(r)
  <2>1. PICK a \in Addresses(w) :
          LET c == Derived(conf[r][w.kind], w, a) IN
          \/ w.kind = "lxc" /\ Turned(r, "create", a, c.vmid)
          \/ w.kind = "qemu" /\ c.vmid = w.retained /\ Turned(r, "avoid", a, c.vmid)
          \/ w.kind = "qemu" /\ c.vmid # w.retained /\ Turned(r, "check", a, c.vmid)
    BY <1>3 DEF Allocates
  <2>2. a \in Hosts /\ w.kind \in Kinds /\ Wanted(r)' = Wanted(r)
    BY <1>0, <2>1, Choice, Wants, SameDeploy DEF Turned
  <2>3. Derived(conf[r][w.kind], w, a).vmid \in Vmids
    BY <1>0, <2>2, Derivation
  <2> QED BY <2>1, <2>2, <2>3 DEF Decided, Turned
<1>4. CASE Avoids(r)
  <2>1. Wanted(r)' = Wanted(r)
    BY <1>4, SameDeploy DEF Avoids, Turned
  <2> QED BY <1>0, <1>4, <2>1 DEF Avoids, Decided, Turned
<1>5. CASE MakesLxc(r) \/ Clones(r)
  <2>1. Wanted(r)' = Wanted(r) /\ run[r].vmid \in Vmids
    BY <1>0, <1>5, SameDeploy DEF MakesLxc, Clones, Decided, Stays, Turned
  <2>2. run[r].vmid \in Present'
    BY <1>5, <2>1, Presence DEF MakesLxc, Clones
  <2> QED BY <1>0, <1>5, <2>1, <2>2 DEF MakesLxc, Clones, Decided, Stays, Turned
<1>6. CASE Checks(r) \/ Adopts(r) \/ Rechecks(r) \/ Configures(r)
  <2>1. Wanted(r)' = Wanted(r)
    BY <1>6, SameDeploy DEF Checks, Adopts, Rechecks, Configures, Stays, Turned
  <2> QED BY <1>0, <1>6, <2>1 DEF Checks, Adopts, Rechecks, Configures, Decided, Stays, Turned
<1> QED BY <1>1, <1>2, <1>3, <1>4, <1>5, <1>6 DEF Works

LEMMA BaseStep == ASSUME TypeOK, BaseInv, Steps PROVE BaseInv'
<1>1. ThisLab' \in Labs
  BY SameLab DEF BaseInv
<1>2. ASSUME NEW r \in Runs, Works(r) PROVE BaseInv'
  <2>1. Present \subseteq Present' /\ \A s \in Runs \ {r} : run'[s] = run[s]
    BY <1>2, StayingThere, OneRun
  <2>2. \A s \in Runs : Decided(s)'
    <3>1. Decided(r)'
      BY <1>2, DecidedStep
    <3>2. ASSUME NEW s \in Runs \ {r} PROVE Decided(s)'
      <4>1. Decided(s) /\ run'[s] = run[s] /\ Wanted(s)' = Wanted(s)
        BY <2>1, <3>2, SameDeploy DEF BaseInv
      <4> QED BY <2>1, <4>1 DEF Decided
    <3> QED BY <3>1, <3>2
  <2>3. Decided(r)
    BY DEF BaseInv
  <2>4. \A v \in Vmids : guests'[v].type = "none" => guests'[v] = NoGuest
    <3>1. CASE UNCHANGED guests
      BY <3>1 DEF BaseInv
    <3>2. CASE MakesLxc(r) \/ Clones(r)
      BY <3>2 DEF MakesLxc, Clones, Became, BaseInv
    <3>3. CASE Configures(r) \/ Installs(r)
      <4>1. run[r].vmid \in Vmids /\ guests[run[r].vmid].type # "none"
        BY <2>3, <3>3, There DEF Configures, Installs, Decided, Holding, Stages
      <4> QED BY <3>3, <4>1 DEF Configures, Installs, Became, BaseInv
    <3> QED BY <1>2, <3>1, <3>2, <3>3 DEF Works, Starts, Fails, Reuses, Allocates, Avoids, Checks,
              Adopts, Rechecks
  <2>5. \A v \in Vmids \ Present' : placed'[v] = {}
    <3>1. CASE UNCHANGED placed
      BY <2>1, <3>1 DEF BaseInv
    <3>2. CASE Installs(r)
      <4>1. run[r].vmid \in Present
        BY <2>3, <3>2 DEF Installs, Decided, Holding
      <4> QED BY <2>1, <3>2, <4>1 DEF Installs, BaseInv
    <3> QED BY <1>2, <3>1, <3>2 DEF Works, Starts, Fails, Reuses, Allocates, Avoids, MakesLxc,
              Checks, Adopts, Clones, Rechecks, Configures
  <2> QED BY <1>1, <2>2, <2>4, <2>5 DEF BaseInv
<1>3. ASSUME NEW v \in Vmids, Foreigner(v) \/ Withdraws(v) PROVE BaseInv'
  <2>1. PICK type, name, tags, address : Became(v, type, name, tags, address) /\ type # "none"
    <3>1. CASE Foreigner(v)
      BY <3>1, WantAssumption DEF Foreigner
    <3>2. CASE Withdraws(v)
      BY <3>2, There DEF Withdraws, Leaves
    <3> QED BY <1>3, <3>1, <3>2
  <2>2. Present' = Present \cup {v} /\ UNCHANGED run
    BY <1>3, <2>1, Presence DEF Foreigner, Withdraws, Leaves
  <2>3. \A s \in Runs : Decided(s)'
    <3>1. ASSUME NEW s \in Runs PROVE Decided(s)'
      <4>1. Decided(s) /\ run'[s] = run[s] /\ Wanted(s)' = Wanted(s)
        BY <2>2, SameDeploy DEF BaseInv
      <4> QED BY <2>2, <4>1 DEF Decided
    <3> QED BY <3>1
  <2>4. \A x \in Vmids : guests'[x].type = "none" => guests'[x] = NoGuest
    BY <2>1 DEF Became, BaseInv
  <2>5. \A x \in Vmids \ Present' : placed'[x] = {}
    BY <1>3, <2>2 DEF Foreigner, Withdraws, Leaves, BaseInv
  <2> QED BY <1>1, <2>3, <2>4, <2>5 DEF BaseInv
<1>4. ASSUME NEW v \in Vmids, Removes(v) PROVE BaseInv'
  <2>1. /\ UNCHANGED run /\ guests'[v] = NoGuest /\ \A x \in Vmids \ {v} : guests'[x] = guests[x]
        /\ Present' = Present \ {v}
    BY <1>4 DEF Removes, Leaves, Became, Present
  <2>2. \A s \in Runs : Decided(s)'
    <3>1. ASSUME NEW s \in Runs PROVE Decided(s)'
      <4>1. /\ Decided(s) /\ run'[s] = run[s] /\ Wanted(s)' = Wanted(s)
            /\ run[s].pc \in Holding \cup {"clone"} => run[s].vmid # v
        BY <1>4, <2>1, SameDeploy DEF BaseInv, Removes, Leaves, Active, Holding, Stages
      <4> QED BY <2>1, <4>1 DEF Decided
    <3> QED BY <3>1
  <2>3. \A x \in Vmids : guests'[x].type = "none" => guests'[x] = NoGuest
    BY <2>1 DEF BaseInv
  <2>4. \A x \in Vmids \ Present' : placed'[x] = {}
    BY <1>4, <2>1 DEF Removes, Leaves, BaseInv
  <2> QED BY <1>1, <2>2, <2>3, <2>4 DEF BaseInv
<1>5. CASE UNCHANGED <<guests, run, conf, placed>>
  <2>1. Present' = Present /\ \A s \in Runs : Wanted(s)' = Wanted(s)
    BY <1>5 DEF Present, Wanted, Deploy
  <2> QED BY <1>1, <1>5, <2>1 DEF BaseInv, Decided
<1> QED BY <1>2, <1>3, <1>4, <1>5 DEF Steps

LEMMA BaseInit == Init => TypeOK /\ BaseInv
<1> SUFFICES ASSUME Init PROVE TypeOK /\ BaseInv
  OBVIOUS
<1>1. PICK lab \in Labs :
        run = [r \in Runs |-> [Fresh EXCEPT !.pc = IF r \in lab THEN "waiting" ELSE "never"]]
  BY DEF Init
<1>2. /\ lab \subseteq Runs
      /\ \A r \in Runs : run[r].at = 1 /\ run[r].pc = IF r \in lab THEN "waiting" ELSE "never"
  BY <1>1, RunsAssumption DEF Fresh
<1>3. ThisLab = lab
  BY <1>2 DEF ThisLab
<1>4. run \in [Runs -> RunStates]
  <2>1. \A pc \in {"waiting", "never"} : [Fresh EXCEPT !.pc = pc] \in RunStates
    BY Records, Zenon DEF RunStates
  <2> QED BY <1>1, <2>1
<1>5. \A r \in Runs : run[r].at <= Len(Chain[r])
  <2>1. ASSUME NEW r \in Runs PROVE 1 <= Len(Chain[r])
    <3>1. Chain[r] \in Seq(Deploys) /\ Chain[r] # <<>>
      BY ChainAssumption
    <3> QED BY <3>1
  <2> QED BY <1>2, <2>1
<1>6. crashes \in 0..MaxCrashes[ThisLab] /\ others \in 0..MaxOthers
  BY <1>3, BoundsAssumption DEF Init
<1>7. TypeOK
  BY <1>4, <1>5, <1>6, Records DEF Init, TypeOK, Kinds
<1>8. \A r \in Runs : Decided(r)
  BY <1>2 DEF Decided, Holding, Placing, Stages
<1>9. BaseInv
  BY <1>3, <1>8 DEF Init, BaseInv, Present
<1> QED BY <1>7, <1>9

LEMMA Based == Spec => [](TypeOK /\ BaseInv)
<1>1. TypeOK /\ BaseInv /\ [Next]_vars => (TypeOK /\ BaseInv)'
  BY TypeStep, BaseStep, Stepping
<1> QED BY <1>1, BaseInit, PTL DEF Spec

(* Everything is of its type, and a run works with VMIDs and addresses the *)
(* network has: for any lab, however many runs are killed and others act.  *)
THEOREM Typed == Spec => []TypeOK
BY Based, PTL

-----------------------------------------------------------------------------
(* Whose a guest is                                                        *)

(* A guest keeps its type and name until it is removed, and none but a run *)
(* that creates or clones makes one of the platform's.                     *)
LEMMA Names ==
    ASSUME TypeOK, BaseInv, NEW r \in Runs, Works(r)
    PROVE  /\ \A v \in Present : guests'[v].name = guests[v].name /\ guests'[v].type = guests[v].type
           /\ MakesLxc(r) \/ Clones(r)
              \/ \A v \in Vmids : guests'[v].name = guests[v].name /\ guests'[v].type = guests[v].type
<1>1. Present \subseteq Vmids /\ Decided(r)
  BY DEF Present, BaseInv
<1>2. CASE UNCHANGED guests
  BY <1>1, <1>2
<1>3. CASE MakesLxc(r) \/ Clones(r)
  BY <1>1, <1>3 DEF MakesLxc, Clones, Became
<1>4. CASE Configures(r) \/ Installs(r)
  <2>1. \A v \in Vmids : guests'[v].name = guests[v].name /\ guests'[v].type = guests[v].type
    BY <1>1, <1>4 DEF Configures, Installs, Became
  <2> QED BY <1>1, <2>1
<1> QED BY <1>2, <1>3, <1>4 DEF Works, Starts, Fails, Reuses, Allocates, Avoids, Checks, Adopts, Rechecks

LEMMA OwnWork ==
    ASSUME TypeOK, BaseInv, OwnInv, MeetsOwn, NEW r \in Runs, Works(r)
    PROVE  OwnInv'
<1> DEFINE w == Wanted(r)
           v == run[r].vmid
<1>1. /\ Decided(r) /\ Owns(r) /\ w = Want[Deploy(r)] /\ Deploy(r) \in Deploys /\ w.unit \in Units
      /\ Present \subseteq Vmids /\ Lab \notin Units /\ Template \notin Units
  BY Current, Wants, WantAssumption DEF BaseInv, OwnInv, Present, Wanted
<1>2. /\ \A x \in Present : guests'[x].name = guests[x].name /\ guests'[x].type = guests[x].type
      /\ run'[r] \in RunStates /\ \A s \in Runs \ {r} : run'[s] = run[s]
  BY Names, OneRun
<1>3. ASSUME NEW s \in Runs, s # r PROVE Owns(s)'
  <2>1. Owns(s) /\ Decided(s) /\ run'[s] = run[s] /\ Wanted(s)' = Wanted(s)
    BY <1>2, <1>3, SameDeploy DEF OwnInv, BaseInv
  <2> QED BY <1>2, <2>1 DEF Owns, Decided, Holding
<1>4. Owns(r)'
  <2>1. CASE Starts(r) \/ Fails(r) \/ Installs(r) \/ Allocates(r) \/ Avoids(r) \/ Checks(r)
    <3>1. run'[r].pc \in {"failed", "select", "finished", "create", "avoid", "check", "clone"}
      BY <2>1 DEF Starts, Fails, Installs, Allocates, Avoids, Checks, Stays, Turned, Begun
    <3> QED BY <3>1 DEF Owns
  <2>2. CASE Reuses(r)
    <3>1. PICK x \in Found(w) : Turned(r, "reuse", run[r].address, x) /\ UNCHANGED guests
      BY <2>2 DEF Reuses
    <3>2. x \in Vmids /\ guests[x].name = w.unit /\ Wanted(r)' = w
      BY <1>1, <3>1, Finding, SameDeploy DEF OwnInv, Turned
    <3> QED BY <3>1, <3>2 DEF Turned, Owns
  <2>3. CASE MakesLxc(r) \/ Clones(r)
    <3>1. Wanted(r)' = w
      BY <2>3, SameDeploy DEF MakesLxc, Clones, Stays, Turned
    <3> QED BY <2>3, <3>1 DEF MakesLxc, Clones, Became, Owns, Stays, Turned
  <2>4. CASE Adopts(r)
    <3>1. Wanted(r)' = w
      BY <2>4, SameDeploy DEF Adopts, Stays, Turned
    <3> QED BY <2>4, <3>1 DEF Adopts, Stays, Turned, Owns, MeetsOwn
  <2>5. CASE Rechecks(r) \/ Configures(r)
    <3>1. Wanted(r)' = w
      BY <2>5, SameDeploy DEF Rechecks, Configures, Stays, Turned
    <3>2. v \in Present
      BY <1>1, <2>5 DEF Rechecks, Configures, Decided, Holding
    <3> QED BY <1>1, <1>2, <2>5, <3>1, <3>2 DEF Rechecks, Configures, Stays, Turned, Owns
  <2> QED BY <2>1, <2>2, <2>3, <2>4, <2>5 DEF Works
<1>5. \A x \in Vmids : guests'[x].tags \cap Units \subseteq {guests'[x].name}
  <2>1. CASE UNCHANGED guests
    BY <2>1 DEF OwnInv
  <2>2. CASE MakesLxc(r) \/ Clones(r)
    <3>1. guests'[v].tags \cap Units \subseteq {guests'[v].name}
      BY <1>1, <2>2 DEF MakesLxc, Clones, Became, Requested
    <3> QED BY <2>2, <3>1 DEF MakesLxc, Clones, Became, OwnInv
  <2>3. CASE Configures(r) \/ Installs(r)
    <3>1. v \in Vmids /\ guests[v].name = w.unit
      BY <1>1, <2>3 DEF Configures, Installs, Decided, Owns, Stages
    <3>2. guests'[v].tags \cap Units \subseteq {guests'[v].name}
      BY <1>1, <2>3, <3>1 DEF Configures, Installs, Became, Requested, OwnInv
    <3> QED BY <2>3, <3>2 DEF Configures, Installs, Became, OwnInv
  <2> QED BY <2>1, <2>2, <2>3 DEF Works, Starts, Fails, Reuses, Allocates, Avoids, Checks, Adopts,
          Rechecks
<1>6. OnOwnGuest'
  <2>1. ASSUME NEW x \in Vmids, NEW d \in placed[x] PROVE guests'[x].name = Want[d].unit
    <3>1. x \in Present /\ guests[x].name = Want[d].unit
      BY DEF BaseInv, OwnInv, OnOwnGuest
    <3> QED BY <1>2, <3>1
  <2>2. CASE UNCHANGED placed
    BY <2>1, <2>2 DEF OnOwnGuest
  <2>3. CASE Installs(r)
    <3>1. v \in Present /\ guests[v].name = w.unit
      BY <1>1, <2>3 DEF Installs, Decided, Holding, Owns
    <3>2. guests'[v].name = Want[Deploy(r)].unit
      BY <1>1, <1>2, <3>1
    <3> QED BY <2>1, <2>3, <3>2 DEF Installs, OnOwnGuest
  <2> QED BY <2>2, <2>3 DEF Works, Starts, Fails, Reuses, Allocates, Avoids, MakesLxc, Checks, Adopts,
          Clones, Rechecks, Configures
<1> QED BY <1>3, <1>4, <1>5, <1>6 DEF OwnInv

(* Nobody else's step touches the name of a guest that a run holds.        *)
LEMMA Bystander ==
    ASSUME TypeOK, BaseInv, NEW v \in Vmids, Foreigner(v) \/ Removes(v) \/ Withdraws(v)
    PROVE  /\ UNCHANGED <<run, conf>>
           /\ \A s \in Runs : Deploy(s)' = Deploy(s) /\ Wanted(s)' = Wanted(s)
           /\ \A x \in Vmids \ {v} : guests'[x] = guests[x] /\ placed'[x] = placed[x]
           /\ \A s \in Runs : run[s].pc \in Holding => LET x == run[s].vmid IN
                 x \in Present /\ guests'[x].name = guests[x].name /\ guests'[x].type = guests[x].type
<1>1. /\ UNCHANGED <<run, conf>>
      /\ \A x \in Vmids \ {v} : guests'[x] = guests[x] /\ placed'[x] = placed[x]
  BY DEF Foreigner, Removes, Withdraws, Leaves, Became
<1>2. \A s \in Runs : Deploy(s)' = Deploy(s) /\ Wanted(s)' = Wanted(s)
  BY <1>1 DEF Deploy, Wanted
<1>3. ASSUME NEW s \in Runs, run[s].pc \in Holding
      PROVE  LET x == run[s].vmid IN
             x \in Present /\ guests'[x].name = guests[x].name /\ guests'[x].type = guests[x].type
  <2>1. Decided(s) /\ run[s].vmid \in Present /\ run[s].vmid \in Vmids /\ Active(s)
    BY <1>3 DEF BaseInv, Decided, Active, Holding, Stages, Present
  <2>2. CASE Withdraws(v)
    BY <1>1, <2>1, <2>2 DEF Withdraws, Became
  <2>3. CASE Removes(v)
    BY <1>1, <2>1, <2>3 DEF Removes, Leaves
  <2>4. CASE Foreigner(v)
    BY <1>1, <2>1, <2>4 DEF Foreigner
  <2> QED BY <2>2, <2>3, <2>4
<1> QED BY <1>1, <1>2, <1>3

LEMMA OwnStep == ASSUME TypeOK, BaseInv, OwnInv, MeetsOwn, Steps PROVE OwnInv'
<1>1. ASSUME NEW v \in Vmids, Foreigner(v) \/ Removes(v) \/ Withdraws(v) PROVE OwnInv'
  <2>1. \A s \in Runs : Owns(s)'
    <3>1. ASSUME NEW s \in Runs PROVE Owns(s)'
      <4>1. Owns(s) /\ run'[s] = run[s] /\ Wanted(s)' = Wanted(s)
        BY <1>1, Bystander DEF OwnInv
      <4> QED BY <1>1, <4>1, Bystander DEF Owns, Holding
    <3> QED BY <3>1
  <2>2. \A x \in Vmids : guests'[x].tags \cap Units \subseteq {guests'[x].name}
    <3>1. guests'[v].tags \cap Units \subseteq {guests'[v].name}
      BY <1>1 DEF Foreigner, Removes, Withdraws, Became, OwnInv
    <3> QED BY <1>1, <3>1, Bystander DEF OwnInv
  <2>3. OnOwnGuest'
    <3>1. \A d \in placed'[v] : guests'[v].name = Want[d].unit
      BY <1>1 DEF Foreigner, Removes, Withdraws, Leaves, Became, BaseInv, OwnInv, OnOwnGuest
    <3>2. \A x \in Vmids \ {v} : \A d \in placed'[x] : guests'[x].name = Want[d].unit
      BY <1>1, Bystander DEF OwnInv, OnOwnGuest
    <3> QED BY <3>1, <3>2 DEF OnOwnGuest
  <2> QED BY <2>1, <2>2, <2>3 DEF OwnInv
<1>2. CASE UNCHANGED <<guests, run, conf, placed>>
  BY <1>2 DEF OwnInv, OnOwnGuest, Owns, Wanted, Deploy
<1> QED BY <1>1, <1>2, OwnWork DEF Steps

LEMMA OwnInit == Init => OwnInv
<1>1. Init => \A r \in Runs : run[r].pc \in {"waiting", "never"}
  BY DEF Init, Fresh
<1> QED BY <1>1, Records DEF Init, OwnInv, OnOwnGuest, Owns

(* The isolation of estates and of operators' guests rests on the one      *)
(* thing the clone does not check: where a run that clones meets a VM only *)
(* if it is its own, no deploy installs on anybody else's guest, whatever  *)
(* is killed, overlaps or is chained (lxc-create.yml refuses a VMID that   *)
(* is taken; target.yml a container; and tags never lie about the unit).   *)
THEOREM OwnGuests == Spec /\ []MeetsOwn => []OnOwnGuest
<1>1. Init => TypeOK /\ BaseInv /\ OwnInv
  BY BaseInit, OwnInit
<1>2. TypeOK /\ BaseInv /\ OwnInv /\ MeetsOwn /\ [Next]_vars => OwnInv'
  BY OwnStep, Stepping
<1>3. OwnInv => OnOwnGuest
  BY DEF OwnInv
<1> QED BY <1>1, <1>2, <1>3, Based, PTL DEF Spec

(* So containers are only ever installed on their own: no condition on the *)
(* configurations, the overlap of runs or what operators do.               *)
THEOREM ContainersOnOwnGuests ==
    ASSUME \A d \in Deploys : Want[d].kind = "lxc"
    PROVE  Spec => []OnOwnGuest
<1>1. ASSUME TypeOK, BaseInv PROVE MeetsOwn
  <2>1. ASSUME NEW r \in Runs PROVE run[r].pc # "clone"
    <3>1. Deploy(r) \in Deploys /\ Decided(r)
      BY <1>1, Current DEF BaseInv
    <3> QED BY <3>1 DEF Decided, Placing, Wanted
  <2> QED BY <2>1 DEF MeetsOwn
<1> QED BY <1>1, Based, OwnGuests, PTL

-----------------------------------------------------------------------------
(* Overlapping runs                                                        *)

LEMMA ActiveStep == ASSUME TypeOK, ActiveInv, Steps PROVE ActiveInv'
<1>1. ASSUME NEW r \in Runs, Works(r) PROVE ActiveInv'
  <2>1. \A s \in Runs \ {r} : Active(s)' <=> Active(s)
    BY <1>1, OneRun DEF Active
  <2>2. CASE Starts(r)
    <3>1. {r} \cup {s \in Runs : Active(s)} \in Overlaps
      BY <2>2 DEF Starts
    <3>2. ASSUME NEW p \in Runs, NEW q \in Runs, p # q, Active(p)', Active(q)'
          PROVE  \E O \in Overlaps : {p, q} \subseteq O
      <4>1. {p, q} \subseteq {r} \cup {s \in Runs : Active(s)}
        BY <2>1, <3>2
      <4> QED BY <3>1, <4>1
    <3> QED BY <3>2 DEF ActiveInv
  <2>3. CASE ~Starts(r)
    <3>1. Active(r)
      BY <1>1, <2>3, Zenon DEF Works, Fails, Reuses, Allocates, Avoids, MakesLxc, Checks, Adopts, Clones,
         Rechecks, Configures, Installs, Active, Stages
    <3>2. \A s \in Runs : Active(s)' => Active(s)
      BY <2>1, <3>1
    <3> QED BY <3>2 DEF ActiveInv
  <2> QED BY <2>2, <2>3
<1>2. CASE UNCHANGED run
  BY <1>2 DEF ActiveInv, Active
<1> QED BY <1>1, <1>2 DEF Steps, Foreigner, Removes, Withdraws, Leaves

LEMMA Overlapped == Spec => []ActiveInv
<1>1. ASSUME Init PROVE ActiveInv
  <2>1. \A r \in Runs : run[r].pc \in {"waiting", "never"}
    BY <1>1 DEF Init, Fresh
  <2>2. \A r \in Runs : ~Active(r)
    BY <2>1 DEF Active, Stages
  <2> QED BY <2>2 DEF ActiveInv
<1>2. TypeOK /\ BaseInv /\ ActiveInv /\ [Next]_vars => ActiveInv'
  BY ActiveStep, Stepping
<1> QED BY <1>1, <1>2, Based, PTL DEF Spec

-----------------------------------------------------------------------------
(* VMs whose VMIDs are all derived                                         *)

MakesVm(r) == \E i \in DOMAIN Chain[r] :
    Want[Chain[r][i]].kind = "qemu" /\ Want[Chain[r][i]].route # "declared"

(* No VM has an operator's VMID or a retained volume, operators make none  *)
(* by hand, a declared address is one unit's, and of the runs that overlap *)
(* at most one makes VMs at addresses it chooses.                          *)
DerivedVms ==
    /\ "qemu" \notin ForeignTypes
    /\ \A d \in Deploys : Want[d].kind = "qemu" => Want[d].vmid = 0 /\ Want[d].retained = 0
    /\ \A d, e \in Deploys :
          Want[d].route = "declared" /\ Want[e].route = "declared" /\ Want[d].pin = Want[e].pin =>
              Want[d].unit = Want[e].unit
    /\ \A O \in Overlaps : \A r, s \in O : r # s => ~(MakesVm(r) /\ MakesVm(s))

LEMMA DerivedVmWork ==
    ASSUME DerivedVms, TypeOK, BaseInv, ActiveInv, DerivedVmInv, NEW r \in Runs, Works(r)
    PROVE  DerivedVmInv'
<1> DEFINE w == Wanted(r)
           v == run[r].vmid
<1>1. /\ Decided(r) /\ DerivedVm(r) /\ w = Want[Deploy(r)] /\ Deploy(r) \in Deploys
      /\ conf[r] \in [Kinds -> Config] /\ w.kind \in Kinds
      /\ w.route = "declared" => w.pin \in Reserved
      /\ w.kind = "qemu" => w.vmid = 0 /\ w.retained = 0
  BY Current, Wants DEF BaseInv, DerivedVmInv, Wanted, TypeOK, DerivedVms, Kinds
<1>2. /\ \A x \in Present : guests'[x].name = guests[x].name /\ guests'[x].type = guests[x].type
      /\ \A s \in Runs \ {r} : run'[s] = run[s]
      /\ MakesLxc(r) \/ Clones(r)
         \/ \A x \in Vmids : guests'[x].name = guests[x].name /\ guests'[x].type = guests[x].type
  BY Names, OneRun
<1>3. \A s \in Runs \ {r} : conf'[s] = conf[s]
  BY DEF Works, Starts, Fails, Reuses, Allocates, Avoids, MakesLxc, Checks, Adopts, Clones, Rechecks,
     Configures, Installs, Configured
<1>4. Clones(r) => /\ v \in Vmids /\ v = run[r].address
                   /\ IF w.route = "declared" THEN v = w.pin
                      ELSE v \notin Reserved /\ MakesVm(r)
  <2>1. Clones(r) => /\ v \in Vmids /\ w.kind = "qemu" /\ v = run[r].address
                     /\ IF w.route = "declared" THEN v = w.pin ELSE v \notin Reserved
    BY <1>1 DEF Clones, Decided, DerivedVm, Placing, Stages
  <2>2. Clones(r) /\ w.route # "declared" => MakesVm(r)
    BY <2>1, Current DEF MakesVm, Wanted, Deploy
  <2> QED BY <2>1, <2>2
<1>5. ASSUME NEW s \in Runs, s # r PROVE DerivedVm(s)'
  <2>1. /\ DerivedVm(s) /\ Decided(s) /\ run'[s] = run[s] /\ Wanted(s)' = Wanted(s)
        /\ conf'[s] = conf[s]
    BY <1>2, <1>3, <1>5, SameDeploy DEF DerivedVmInv, BaseInv
  <2>2. ASSUME run[s].pc \in {"check", "clone"}, Wanted(s).route # "declared"
        PROVE  guests'[run[s].vmid].type # "qemu"
    <3>1. /\ run[s].vmid \in Vmids /\ run[s].vmid \notin Reserved
          /\ guests[run[s].vmid].type # "qemu" /\ Wanted(s).kind = "qemu"
      BY <2>1, <2>2 DEF Decided, DerivedVm, Placing, Stages
    <3>2. CASE \A x \in Vmids : guests'[x].type = guests[x].type
      BY <3>1, <3>2
    <3>3. CASE MakesLxc(r)
      BY <3>1, <3>3 DEF MakesLxc, Became
    <3>4. CASE Clones(r)
      <4>1. run[s].vmid # v
        <5>1. MakesVm(s)
          BY <2>2, <3>1, Current DEF MakesVm, Wanted, Deploy
        <5>2. Active(r) /\ Active(s)
          BY <2>2, <3>4 DEF Active, Stages, Clones
        <5>3. PICK O \in Overlaps : r \in O /\ s \in O
          BY <1>5, <5>2 DEF ActiveInv
        <5>4. ~MakesVm(r)
          BY <1>5, <5>1, <5>3 DEF DerivedVms
        <5> QED BY <1>1, <1>4, <3>1, <3>4, <5>4
      <4> QED BY <3>1, <3>4, <4>1 DEF Clones, Became
    <3> QED BY <1>2, <3>2, <3>3, <3>4
  <2> QED BY <2>1, <2>2 DEF DerivedVm
<1>6. DerivedVm(r)'
  <2>1. CASE Starts(r)
    <3>1. conf'[r].qemu = Unset /\ run'[r].pc = "select"
      BY <2>1, Records DEF Starts, Begun
    <3> QED BY <3>1 DEF DerivedVm, Unset
  <2>2. CASE Fails(r) \/ Reuses(r) \/ MakesLxc(r) \/ Adopts(r) \/ Clones(r) \/ Rechecks(r)
             \/ Configures(r) \/ Installs(r)
    <3>1. /\ conf' = conf
          /\ run'[r].pc \in {"failed", "reuse", "start", "recheck", "configure", "select", "finished"}
      BY <2>2 DEF Fails, Reuses, MakesLxc, Adopts, Clones, Rechecks, Configures, Installs, Stays,
         Turned, Begun
    <3> QED BY <1>1, <3>1 DEF DerivedVm
  <2>3. CASE Checks(r)
    <3>1. Wanted(r)' = w
      BY <2>3, SameDeploy DEF Checks, Stays, Turned
    <3> QED BY <1>1, <2>3, <3>1 DEF Checks, Stays, Turned, DerivedVm
  <2>4. CASE Avoids(r)
    BY <1>1, <2>4 DEF Avoids, DerivedVm
  <2>5. CASE Allocates(r)
    <3>1. PICK a \in Addresses(w) :
            LET c == Derived(conf[r][w.kind], w, a) IN
            /\ Configured(r, w.kind, c)
            /\ \/ w.kind = "lxc" /\ Turned(r, "create", a, c.vmid)
               \/ w.kind = "qemu" /\ c.vmid = w.retained /\ Turned(r, "avoid", a, c.vmid)
               \/ w.kind = "qemu" /\ c.vmid # w.retained /\ Turned(r, "check", a, c.vmid)
      BY <2>5 DEF Allocates
    <3> DEFINE c == Derived(conf[r][w.kind], w, a)
    <3>2. a \in Hosts /\ a # 0 /\ conf[r][w.kind] \in Config
      BY <1>1, <3>1, Choice, Numbers
    <3>3. /\ c.vmid \in Vmids
          /\ \/ c = [vmid |-> a, source |-> a]
             \/ /\ conf[r][w.kind].source \in {0, a} /\ c.source = conf[r][w.kind].source
                /\ c.vmid = IF w.vmid # 0 THEN w.vmid ELSE conf[r][w.kind].vmid
      BY <1>1, <3>2, Derivation
    <3>4. CASE w.kind = "lxc"
      BY <1>1, <3>1, <3>4 DEF Configured, Turned, DerivedVm, Kinds
    <3>5. CASE w.kind = "qemu"
      <4>1. c.vmid = a /\ c.source = a /\ c.vmid # w.retained
        BY <1>1, <3>2, <3>3, <3>5, Numbers DEF DerivedVm
      <4>2. conf'[r].qemu = c /\ Turned(r, "check", a, a)
        BY <3>1, <3>5, <4>1 DEF Configured
      <4>3. Wanted(r)' = w
        BY <4>2, SameDeploy DEF Turned
      <4>4. IF w.route = "declared" THEN a = w.pin
            ELSE a \notin Reserved /\ guests[a].type # "qemu"
        <5>1. w.route # "declared" => a \notin Reserved /\ a \in Vmids \ Present
          BY <1>1, <3>1, <3>2, Choice, Unused, Numbers
        <5>2. w.route # "declared" => guests[a].type = "none"
          BY <5>1, There
        <5> QED BY <1>1, <3>1, <5>1, <5>2, Choice
      <4>5. guests' = guests
        BY <2>5 DEF Allocates
      <4> QED BY <4>1, <4>2, <4>3, <4>4, <4>5 DEF DerivedVm, Turned
    <3> QED BY <1>1, <3>4, <3>5 DEF Kinds
  <2> QED BY <2>1, <2>2, <2>3, <2>4, <2>5 DEF Works
<1>7. ASSUME NEW x \in Reserved, guests'[x].type = "qemu"
      PROVE  \E d \in Deploys :
                Want[d].route = "declared" /\ Want[d].pin = x /\ guests'[x].name = Want[d].unit
  <2>1. x \in Vmids
    BY Numbers
  <2>2. CASE guests'[x].name = guests[x].name /\ guests'[x].type = guests[x].type
    BY <1>7, <2>2 DEF DerivedVmInv
  <2>3. CASE MakesLxc(r) /\ x = v
    BY <1>7, <2>1, <2>3 DEF MakesLxc, Became
  <2>4. CASE Clones(r) /\ x = v
    BY <1>1, <1>4, <2>4 DEF Clones, Became
  <2> QED BY <1>2, <2>1, <2>2, <2>3, <2>4 DEF MakesLxc, Clones, Became
<1> QED BY <1>5, <1>6, <1>7 DEF DerivedVmInv

LEMMA DerivedVmStep ==
    ASSUME DerivedVms, TypeOK, BaseInv, ActiveInv, DerivedVmInv, Steps
    PROVE  DerivedVmInv'
<1>1. ASSUME NEW v \in Vmids, Foreigner(v) \/ Removes(v) \/ Withdraws(v) PROVE DerivedVmInv'
  <2>1. /\ UNCHANGED <<run, conf>> /\ \A s \in Runs : Wanted(s)' = Wanted(s)
        /\ \A x \in Vmids \ {v} : guests'[x] = guests[x]
    BY <1>1, Bystander
  <2>2. \/ guests'[v].type # "qemu"
        \/ guests'[v].type = guests[v].type /\ guests'[v].name = guests[v].name
    <3>1. CASE Foreigner(v)
      BY <3>1 DEF Foreigner, Became, DerivedVms
    <3> QED BY <1>1, <3>1 DEF Removes, Withdraws, Became
  <2>3. ASSUME NEW s \in Runs PROVE DerivedVm(s)'
    <3>1. DerivedVm(s) /\ (run[s].pc \in {"check", "clone"} => run[s].vmid \in Vmids)
      BY DEF DerivedVmInv, BaseInv, Decided, Stages
    <3> QED BY <2>1, <2>2, <3>1 DEF DerivedVm
  <2>4. Reserved \subseteq Vmids
    BY Numbers
  <2> QED BY <2>1, <2>2, <2>3, <2>4 DEF DerivedVmInv
<1>2. CASE UNCHANGED <<guests, run, conf, placed>>
  BY <1>2 DEF DerivedVmInv, DerivedVm, Wanted, Deploy
<1> QED BY <1>1, <1>2, DerivedVmWork DEF Steps

(* Native guests, stacks and cluster nodes are installed on their own      *)
(* guests as long as no two runs that overlap make VMs at addresses they   *)
(* choose: the overlap is all that the isolation of estates lacks.         *)
THEOREM DerivedVmsOnOwnGuests == ASSUME DerivedVms PROVE Spec => []OnOwnGuest
<1>1. ASSUME Init PROVE DerivedVmInv
  <2>1. \A r \in Runs : run[r].pc \in {"waiting", "never"}
    BY <1>1 DEF Init, Fresh
  <2>2. \A r \in Runs : conf[r].qemu = Unset
    BY <1>1, Records DEF Init
  <2>4. \A r \in Runs : DerivedVm(r)
    BY <2>1, <2>2 DEF DerivedVm, Unset
  <2>3. \A v \in Reserved : guests[v].type = "none"
    BY <1>1, Records, Numbers DEF Init
  <2> QED BY <2>3, <2>4 DEF DerivedVmInv
<1>2. TypeOK /\ BaseInv /\ ActiveInv /\ DerivedVmInv /\ [Next]_vars => DerivedVmInv'
  BY DerivedVmStep, Stepping
<1>3. ASSUME TypeOK, BaseInv, DerivedVmInv PROVE MeetsOwn
  <2>1. ASSUME NEW r \in Runs, run[r].pc = "clone", guests[run[r].vmid].type = "qemu"
        PROVE  guests[run[r].vmid].name = Wanted(r).unit
    <3>1. DerivedVm(r) /\ Deploy(r) \in Deploys /\ Wanted(r) = Want[Deploy(r)]
      BY <1>3, Current DEF DerivedVmInv, Wanted
    <3>2. Wanted(r).route = "declared" /\ run[r].vmid = Wanted(r).pin /\ Wanted(r).pin \in Reserved
      BY <2>1, <3>1, Wants DEF DerivedVm
    <3> QED BY <1>3, <2>1, <3>1, <3>2 DEF DerivedVmInv, DerivedVms
  <2> QED BY <2>1 DEF MeetsOwn
<1> QED BY <1>1, <1>2, <1>3, Based, Overlapped, OwnGuests, PTL DEF Spec

-----------------------------------------------------------------------------
(* Addresses                                                               *)

(* What an operator has to leave alone: a cluster node has no VMID of its  *)
(* own and no retained volume, nor does a VM with an operator's VMID come  *)
(* before it in a chain; and in runs that overlap every VMID is derived.   *)
AddressesEncoded ==
    /\ \A d \in Deploys : Want[d].route = "declared" => Want[d].retained = 0
    /\ \A r \in Runs : \A i, j \in DOMAIN Chain[r] :
          i <= j /\ Want[Chain[r][j]].route = "declared" =>
              ~(Want[Chain[r][i]].kind = "qemu" /\ Want[Chain[r][i]].vmid # 0)
    /\ \A O \in Overlaps : \A r, s \in O : r # s => OnlyDerives(r)

SameAddress(x) == x \in Present /\ guests'[x].address = guests[x].address

LEMMA NewAddress ==
    ASSUME TypeOK, BaseInv, NEW r \in Runs, Works(r), NEW x \in Present'
    PROVE  \/ SameAddress(x)
           \/ guests'[x].address = 0
           \/ /\ run[r].pc \in {"create", "configure"} /\ x = run[r].vmid
              /\ guests'[x].address = run[r].address /\ run'[r].pc = "start"
<1>1. Present \subseteq Vmids /\ x \in Vmids /\ Decided(r)
  BY DEF Present, BaseInv
<1>2. CASE UNCHANGED guests
  BY <1>2 DEF Present, SameAddress
<1>3. CASE x # run[r].vmid
  <2>1. guests'[x] = guests[x]
    BY <1>1, <1>3, Zenon DEF Works, Starts, Fails, Reuses, Allocates, Avoids, MakesLxc, Checks, Adopts,
       Clones, Rechecks, Configures, Installs, Became
  <2> QED BY <1>1, <2>1 DEF Present, SameAddress
<1>4. CASE x = run[r].vmid /\ (MakesLxc(r) \/ Configures(r))
  BY <1>4 DEF MakesLxc, Configures, Became, Stays, Turned
<1>5. CASE x = run[r].vmid /\ Clones(r)
  BY <1>5 DEF Clones, Became
<1>6. CASE x = run[r].vmid /\ Installs(r)
  BY <1>1, <1>6 DEF Installs, Became, SameAddress, Decided, Holding
<1> QED BY <1>2, <1>3, <1>4, <1>5, <1>6 DEF Works, Starts, Fails, Reuses, Allocates, Avoids, Checks,
        Adopts, Rechecks

LEMMA OverlapDerives ==
    ASSUME AddressesEncoded, ActiveInv, NEW r \in Runs, NEW s \in Runs, r # s, Active(r), Active(s)
    PROVE  OnlyDerives(r) /\ OnlyDerives(s)
<1>1. PICK O \in Overlaps : r \in O /\ s \in O
  BY DEF ActiveInv
<1> QED BY <1>1 DEF AddressesEncoded

LEMMA OthersAddressed ==
    ASSUME AddressesEncoded, TypeOK, BaseInv, ActiveInv, AddressInv, NEW r \in Runs, Works(r),
           NEW s \in Runs, s # r
    PROVE  Addressed(s)'
<1>1. /\ Addressed(r) /\ Addressed(s) /\ Decided(r) /\ Decided(s)
      /\ run'[s] = run[s] /\ Wanted(s)' = Wanted(s) /\ conf'[s] = conf[s]
  <2>1. run'[s] = run[s] /\ Wanted(s)' = Wanted(s)
    BY OneRun, SameDeploy
  <2>2. conf'[s] = conf[s]
    BY DEF Works, Starts, Fails, Reuses, Allocates, Avoids, MakesLxc, Checks, Adopts, Clones, Rechecks,
       Configures, Installs, Configured
  <2> QED BY <2>1, <2>2 DEF AddressInv, BaseInv
<1>2. ASSUME run[s].pc \in Placing, NEW x \in Present', guests'[x].address = run[s].address
      PROVE  x = run[s].vmid /\ run[s].pc # "avoid"
  <2>1. run[s].address # 0
    BY <1>1, <1>2, Numbers DEF Decided
  <2>2. CASE SameAddress(x)
    BY <1>1, <1>2, <2>2 DEF Addressed, SameAddress
  <2>3. CASE /\ run[r].pc \in {"create", "configure"} /\ x = run[r].vmid
             /\ guests'[x].address = run[r].address
    <3>1. Active(r) /\ Active(s) /\ run[r].pc \in Placing
      BY <1>2, <2>3 DEF Active, Stages, Placing
    <3>2. OnlyDerives(r) /\ OnlyDerives(s)
      BY <3>1, OverlapDerives
    <3>3. run[r].vmid = run[r].address /\ run[s].vmid = run[s].address
      BY <1>1, <1>2, <3>1, <3>2 DEF Addressed
    <3>4. Wanted(s).retained = 0
      BY <3>2, Current DEF OnlyDerives, Wanted, Deploy
    <3>5. run[s].pc # "avoid"
      BY <1>1, <1>2, <3>4 DEF Addressed
    <3> QED BY <1>2, <2>3, <3>3, <3>5
  <2> QED BY <1>2, <2>1, <2>2, <2>3, NewAddress
<1> QED BY <1>1, <1>2 DEF Addressed, OnlyDerives

LEMMA AllocateAddressed ==
    ASSUME AddressesEncoded, TypeOK, BaseInv, AddressInv, NEW r \in Runs, Allocates(r)
    PROVE  Addressed(r)'
<1> DEFINE w == Wanted(r)
           old == conf[r][w.kind]
<1>1. /\ Addressed(r) /\ w = Want[Deploy(r)] /\ Deploy(r) \in Deploys /\ w.kind \in Kinds
      /\ old \in Config /\ conf[r] \in [Kinds -> Config]
      /\ run[r].at \in DOMAIN Chain[r] /\ Deploy(r) = Chain[r][run[r].at]
      /\ DOMAIN Chain[r] = 1..Len(Chain[r]) /\ Len(Chain[r]) \in Nat
      /\ w.route = "declared" => w.kind = "qemu" /\ w.pin \in Reserved /\ w.retained = 0
  BY Current, Wants DEF AddressInv, Wanted, Deploy, TypeOK, Kinds, AddressesEncoded
<1>2. PICK a \in Addresses(w) :
        LET c == Derived(old, w, a) IN
        /\ Configured(r, w.kind, c)
        /\ \/ w.kind = "lxc" /\ Turned(r, "create", a, c.vmid)
           \/ w.kind = "qemu" /\ c.vmid = w.retained /\ Turned(r, "avoid", a, c.vmid)
           \/ w.kind = "qemu" /\ c.vmid # w.retained /\ Turned(r, "check", a, c.vmid)
  BY DEF Allocates
<1> DEFINE c == Derived(old, w, a)
<1>3. /\ a \in Hosts /\ a # 0
      /\ w.route = "declared" => a = w.pin /\ a \in Reserved
      /\ w.route # "declared" => a \notin Reserved /\ \A x \in Present : guests[x].address # a
  BY <1>1, <1>2, Choice, Unused, Numbers
<1>4. /\ c.vmid \in Vmids /\ c.vmid # 0
      /\ \/ c.vmid = a /\ c.source = a
         \/ /\ old.source \in {0, a} /\ c.source = old.source
            /\ c.vmid = IF w.vmid # 0 THEN w.vmid ELSE old.vmid
  <2>1. /\ c.vmid \in Vmids
        /\ \/ c = [vmid |-> a, source |-> a]
           \/ /\ old.source \in {0, a} /\ c.source = old.source
              /\ c.vmid = IF w.vmid # 0 THEN w.vmid ELSE old.vmid
    <3>1. c = Derived(old, Want[Deploy(r)], a)
      BY <1>1
    <3>2. old \in Config /\ Deploy(r) \in Deploys /\ a \in Hosts
      BY <1>1, <1>3
    <3> HIDE DEF c, old
    <3> QED BY <1>1, <3>1, <3>2, Derivation
  <2> HIDE DEF c
  <2> QED BY <2>1, Numbers
<1>5. /\ conf'[r][w.kind] = c /\ \A k \in Kinds \ {w.kind} : conf'[r][k] = conf[r][k]
      /\ run'[r].at = run[r].at /\ run'[r].address = a /\ run'[r].vmid = c.vmid
      /\ run'[r].pc = "avoid" => w.kind = "qemu" /\ c.vmid = w.retained
  BY <1>2 DEF Configured, Turned
<1>6. Wanted(r)' = w /\ Present' = Present /\ guests' = guests
  BY <1>5, SameDeploy DEF Allocates, Present
<1> HIDE DEF c
<1>7. w.route = "declared" => w.vmid = 0 /\ c.vmid = a
  <2> SUFFICES ASSUME w.route = "declared" PROVE w.vmid = 0 /\ c.vmid = a
    OBVIOUS
  <2> HIDE DEF w
  <2>1. \A i \in 1..run[r].at : ~(Want[Chain[r][i]].kind = "qemu" /\ Want[Chain[r][i]].vmid # 0)
    <3>1. ASSUME NEW i \in 1..run[r].at
          PROVE  ~(Want[Chain[r][i]].kind = "qemu" /\ Want[Chain[r][i]].vmid # 0)
      <4>1. i \in DOMAIN Chain[r] /\ i <= run[r].at
        BY <1>1
      <4> QED BY <1>1, <4>1 DEF AddressesEncoded
    <3> QED BY <3>1
  <2>2. run[r].at \in 1..run[r].at
    BY <1>1
  <2>3. w.vmid = 0
    BY <1>1, <2>1, <2>2
  <2>4. old = conf[r].qemu
    BY <1>1
  <2>5. old.source = 0 => old.vmid = 0
    BY <1>1, <2>1, <2>4 DEF Addressed
  <2>6. old.source = a => old.vmid = a
    BY <1>1, <1>3, <2>4 DEF Addressed
  <2> QED BY <1>4, <2>3, <2>5, <2>6
<1>8. OnlyDerives(r) => w.vmid = 0 /\ c.vmid = a /\ c.source = c.vmid
  <2> SUFFICES ASSUME OnlyDerives(r) PROVE w.vmid = 0 /\ c.vmid = a /\ c.source = c.vmid
    OBVIOUS
  <2>1. w.vmid = 0
    BY <1>1 DEF OnlyDerives
  <2>2. old.vmid = old.source
    BY <1>1 DEF Addressed
  <2> QED BY <1>4, <2>1, <2>2
<1>9. ASSUME NEW x \in Present, guests[x].address = a PROVE x = c.vmid /\ run'[r].pc # "avoid"
  <2>1. w.route = "declared"
    BY <1>3, <1>9
  <2>2. x = a
    BY <1>3, <1>9, <2>1 DEF AddressInv
  <2>3. c.vmid # w.retained
    BY <1>1, <1>4, <2>1
  <2> QED BY <1>5, <1>7, <2>1, <2>2, <2>3
<1>10. /\ conf'[r].qemu.source = 0 /\ conf'[r].qemu.vmid # 0 =>
            \E i \in 1..run[r].at : Want[Chain[r][i]].kind = "qemu" /\ Want[Chain[r][i]].vmid # 0
       /\ conf'[r].qemu.source \in Reserved => conf'[r].qemu.vmid = conf'[r].qemu.source
  <2>1. CASE w.kind = "lxc"
    <3>1. conf'[r].qemu = conf[r].qemu
      BY <1>5, <2>1 DEF Kinds
    <3> QED BY <1>1, <3>1 DEF Addressed
  <2>2. CASE w.kind = "qemu"
    <3>1. conf'[r].qemu = c /\ old = conf[r].qemu
      BY <1>5, <2>2
    <3>2. CASE c.vmid = a /\ c.source = a
      BY <1>3, <3>1, <3>2
    <3>3. CASE w.vmid = 0 /\ c.source = old.source /\ c.vmid = old.vmid
      BY <1>1, <3>1, <3>3 DEF Addressed
    <3>4. CASE w.vmid # 0 /\ old.source \in {0, a} /\ c.source = old.source
      <4>1. w.route # "declared" /\ a \notin Reserved /\ 0 \notin Reserved
        BY <1>3, <1>7, <3>4, Numbers
      <4>2. run[r].at \in 1..run[r].at
        BY <1>1
      <4>3. Want[Chain[r][run[r].at]].kind = "qemu" /\ Want[Chain[r][run[r].at]].vmid # 0
        BY <1>1, <2>2, <3>4
      <4> HIDE DEF w, old
      <4> QED BY <3>1, <3>4, <4>1, <4>2, <4>3
    <3> QED BY <1>4, <3>2, <3>3, <3>4
  <2> QED BY <1>1, <2>1, <2>2 DEF Kinds
<1>11. OnlyDerives(r) => \A k \in Kinds : conf'[r][k].vmid = conf'[r][k].source
  BY <1>1, <1>5, <1>8 DEF Addressed
<1>12. run'[r].pc = "avoid" => w.retained # 0
  BY <1>4, <1>5
<1>13. IF w.route = "declared" THEN c.vmid = a ELSE a \notin Reserved
  BY <1>3, <1>7
<1> HIDE DEF w
<1> QED BY <1>5, <1>6, <1>8, <1>9, <1>10, <1>11, <1>12, <1>13 DEF Addressed, OnlyDerives

LEMMA WorksAddressed ==
    ASSUME AddressesEncoded, TypeOK, BaseInv, AddressInv, NEW r \in Runs, Works(r)
    PROVE  Addressed(r)'
<1>1. Addressed(r) /\ Decided(r) /\ Deploy(r) \in Deploys /\ Wanted(r) = Want[Deploy(r)]
      /\ run[r].at \in Nat
  BY Current DEF AddressInv, BaseInv, Wanted, TypeOK, RunStates
<1>2. OnlyDerives(r)' <=> OnlyDerives(r)
  BY DEF OnlyDerives
<1>3. CASE Starts(r)
  <2>1. run'[r].pc = "select" /\ \A k \in Kinds : conf'[r][k] = Unset
    BY <1>3, Records DEF Starts, Begun, Kinds
  <2>2. conf'[r].qemu.vmid = 0 /\ conf'[r].qemu.source = 0 /\ 0 \notin Reserved
    BY <2>1, Numbers DEF Unset, Kinds
  <2> QED BY <2>1, <2>2 DEF Addressed, Placing, Unset
<1>4. CASE Fails(r) \/ Reuses(r) \/ MakesLxc(r) \/ Configures(r) \/ Installs(r)
  <2>1. /\ run'[r].pc \in {"failed", "reuse", "start", "select", "finished"} /\ conf' = conf
        /\ run'[r].at \in {run[r].at, run[r].at + 1}
    BY <1>4 DEF Fails, Reuses, MakesLxc, Configures, Installs, Stays, Turned, Begun
  <2>2. 1..run[r].at \subseteq 1..run'[r].at
    BY <1>1, <2>1
  <2> QED BY <1>1, <1>2, <2>1, <2>2 DEF Addressed, Placing
<1>5. CASE Checks(r) \/ Adopts(r) \/ Clones(r) \/ Rechecks(r)
  <2>1. /\ Stays(r, run'[r].pc) /\ run'[r].pc \in {"clone", "recheck", "configure"}
        /\ run[r].pc \in {"check", "clone", "recheck"} /\ conf' = conf
    BY <1>5 DEF Checks, Adopts, Clones, Rechecks, Stays, Turned
  <2>2. Wanted(r)' = Wanted(r) /\ run[r].address # 0
    BY <1>1, <2>1, SameDeploy, Numbers DEF Stays, Turned, Decided, Placing
  <2>3. \A x \in Present' : SameAddress(x) \/ guests'[x].address = 0
    BY <2>1, NewAddress
  <2> QED BY <1>1, <1>2, <2>1, <2>2, <2>3 DEF Stays, Turned, Addressed, Placing, SameAddress
<1>6. CASE Avoids(r)
  <2>1. PICK v \in Vmids :
          /\ Configured(r, "qemu", [vmid |-> v, source |-> conf[r].qemu.source])
          /\ Turned(r, "check", run[r].address, v)
    BY <1>6 DEF Avoids
  <2>2. Wanted(r)' = Wanted(r) /\ Present' = Present /\ guests' = guests
    BY <1>6, <2>1, SameDeploy DEF Turned, Avoids, Present
  <2>3. /\ Wanted(r).retained # 0 /\ run[r].address # 0
        /\ \A x \in Present : guests[x].address # run[r].address
    BY <1>1, <1>6, Numbers DEF Avoids, Addressed, Decided, Placing
  <2>4. Wanted(r).route # "declared" /\ run[r].address \notin Reserved
    BY <1>1, <1>6, <2>3 DEF AddressesEncoded, Avoids, Addressed, Placing
  <2>5. ~OnlyDerives(r)
    BY <2>3, Current DEF OnlyDerives, Wanted, Deploy
  <2>6. conf'[r].qemu.source = run[r].address
    BY <1>6, <2>1 DEF Avoids, Configured
  <2> QED BY <1>2, <2>1, <2>2, <2>3, <2>4, <2>5, <2>6 DEF Addressed, Turned
<1> QED BY <1>3, <1>4, <1>5, <1>6, AllocateAddressed DEF Works

LEMMA AddressStep ==
    ASSUME AddressesEncoded, TypeOK, BaseInv, ActiveInv, AddressInv, Steps
    PROVE  AddressInv'
<1>1. ASSUME NEW r \in Runs, Works(r) PROVE AddressInv'
  <2>1. \A s \in Runs : Addressed(s)'
    BY <1>1, WorksAddressed, OthersAddressed
  <2>2. Addressed(r) /\ 0 \notin Reserved
    BY Numbers DEF AddressInv
  <2>3. \A x \in Present' :
          \/ SameAddress(x)
          \/ guests'[x].address = 0
          \/ /\ run[r].pc \in {"create", "configure"} /\ x = run[r].vmid
             /\ guests'[x].address = run[r].address
    BY <1>1, NewAddress
  <2>4. \A x \in Present' : guests'[x].address \in Reserved => x = guests'[x].address
    BY <2>2, <2>3 DEF AddressInv, Addressed, SameAddress, Placing
  <2>5. AddressesDiffer'
    <3>1. ASSUME NEW v \in Present', NEW x \in Present', v # x, guests'[v].address # 0
          PROVE  guests'[v].address # guests'[x].address
      <4>1. CASE guests'[x].address = 0
        BY <3>1, <4>1
      <4>2. CASE SameAddress(v) /\ SameAddress(x)
        BY <3>1, <4>2 DEF SameAddress, AddressInv, AddressesDiffer
      <4>3. CASE SameAddress(v) /\ ~SameAddress(x) /\ guests'[x].address # 0
        BY <2>2, <2>3, <3>1, <4>3 DEF SameAddress, Addressed, Placing
      <4>4. CASE ~SameAddress(v) /\ SameAddress(x)
        BY <2>2, <2>3, <3>1, <4>4 DEF SameAddress, Addressed, Placing
      <4>5. CASE ~SameAddress(v) /\ ~SameAddress(x) /\ guests'[x].address # 0
        BY <2>3, <3>1, <4>5
      <4> QED BY <4>1, <4>2, <4>3, <4>4, <4>5
    <3> QED BY <3>1 DEF AddressesDiffer
  <2> QED BY <2>1, <2>4, <2>5 DEF AddressInv
<1>2. ASSUME NEW v \in Vmids, Foreigner(v) \/ Removes(v) \/ Withdraws(v) PROVE AddressInv'
  <2>1. /\ UNCHANGED <<run, conf>> /\ \A s \in Runs : Wanted(s)' = Wanted(s)
        /\ \A x \in Vmids \ {v} : guests'[x] = guests[x]
    BY <1>2, Bystander
  <2>2. \A x \in Present' : SameAddress(x) \/ guests'[x].address = 0
    <3>1. v \in Present' => SameAddress(v) \/ guests'[v].address = 0
      BY <1>2 DEF Foreigner, Removes, Withdraws, Leaves, Became, SameAddress
    <3> QED BY <2>1, <3>1 DEF Present, SameAddress
  <2>3. 0 \notin Reserved /\ 0 \notin Hosts
    BY Numbers
  <2>4. \A x \in Present' : guests'[x].address \in Reserved => x = guests'[x].address
    BY <2>2, <2>3 DEF AddressInv, SameAddress
  <2>5. AddressesDiffer'
    BY <2>2 DEF AddressInv, AddressesDiffer, SameAddress
  <2>6. ASSUME NEW s \in Runs PROVE Addressed(s)'
    <3>1. Addressed(s) /\ (run[s].pc \in Placing => run[s].address \in Hosts)
      BY DEF AddressInv, BaseInv, Decided
    <3> QED BY <2>1, <2>2, <2>3, <3>1 DEF Addressed, OnlyDerives, SameAddress
  <2> QED BY <2>4, <2>5, <2>6 DEF AddressInv
<1>3. CASE UNCHANGED <<guests, run, conf, placed>>
  <2>1. Present' = Present /\ \A s \in Runs : Wanted(s)' = Wanted(s)
    BY <1>3 DEF Present, Wanted, Deploy
  <2> QED BY <1>3, <2>1 DEF AddressInv, AddressesDiffer, Addressed, OnlyDerives
<1> QED BY <1>1, <1>2, <1>3 DEF Steps

(* No two guests are configured with one address, whatever the inventories *)
(* that two overlapping runs chose from had gone stale by: the VMID that   *)
(* is derived from the address stands in for a lock on it.                 *)
THEOREM DistinctAddresses == ASSUME AddressesEncoded PROVE Spec => []AddressesDiffer
<1>1. ASSUME Init PROVE AddressInv
  <2>1. \A r \in Runs : run[r].pc \in {"waiting", "never"} /\ \A k \in Kinds : conf[r][k] = Unset
    <3>1. \A r \in Runs : run[r].pc \in {"waiting", "never"}
      BY <1>1 DEF Init, Fresh
    <3> QED BY <1>1, <3>1, Records DEF Init, Kinds
  <2>2. Present = {} /\ 0 \notin Reserved
    BY <1>1, Numbers DEF Init, Present
  <2>3. \A r \in Runs : conf[r].qemu.vmid = 0 /\ conf[r].qemu.source = 0
    BY <2>1 DEF Kinds, Unset
  <2>4. \A r \in Runs : Addressed(r)
    BY <2>1, <2>2, <2>3 DEF Addressed, Placing, Unset
  <2> QED BY <2>2, <2>4 DEF AddressInv, AddressesDiffer
<1>2. TypeOK /\ BaseInv /\ ActiveInv /\ AddressInv /\ [Next]_vars => AddressInv'
  BY AddressStep, Stepping
<1>3. AddressInv => AddressesDiffer
  BY DEF AddressInv
<1> QED BY <1>1, <1>2, <1>3, Based, Overlapped, PTL DEF Spec

-----------------------------------------------------------------------------
(* Instances                                                               *)

(* A unit is an instance or it is not, and no two runs that overlap deploy *)
(* one instance.                                                           *)
InstancesApart ==
    /\ \A d, e \in Deploys : Want[d].unit = Want[e].unit =>
          (Want[d].route = "instance" <=> Want[e].route = "instance")
    /\ \A O \in Overlaps : \A r, s \in O : r # s =>
          \A i \in DOMAIN Chain[r], j \in DOMAIN Chain[s] :
              Want[Chain[r][i]].route = "instance" =>
                  Want[Chain[r][i]].unit # Want[Chain[s][j]].unit

(* The only new guest is the one of the run that steps.                    *)
Makes(r) ==
    LET v == run[r].vmid IN
    /\ run[r].pc \in {"create", "clone"} /\ run'[r].pc \in {"start", "configure"}
    /\ v \in Vmids \ Present /\ Present' = Present \cup {v}
    /\ guests'[v].name = Wanted(r).unit /\ Lab \in guests'[v].tags
    /\ \A x \in Present : guests'[x] = guests[x]
KeepsAll ==
    Present' = Present /\ \A x \in Present : guests'[x].name = guests[x].name
                                             /\ (Lab \in guests[x].tags => Lab \in guests'[x].tags)

LEMMA Newcomer ==
    ASSUME TypeOK, BaseInv, NEW r \in Runs, Works(r)
    PROVE  Makes(r) \/ KeepsAll
<1>1. Decided(r) /\ Present \subseteq Vmids
  BY DEF BaseInv, Present
<1>2. CASE UNCHANGED guests
  BY <1>2 DEF KeepsAll, Present
<1>3. CASE MakesLxc(r) \/ Clones(r)
  <2>1. run[r].vmid \in Vmids
    BY <1>1, <1>3 DEF MakesLxc, Clones, Decided, Stages
  <2>2. Present' = Present \cup {run[r].vmid}
    BY <1>3, <2>1, Presence DEF MakesLxc, Clones
  <2> QED BY <1>1, <1>3, <2>1, <2>2 DEF MakesLxc, Clones, Makes, Became, Requested, Stays, Turned
<1>4. CASE Configures(r) \/ Installs(r)
  <2>1. run[r].vmid \in Present /\ run[r].vmid \in Vmids
    BY <1>1, <1>4 DEF Configures, Installs, Decided, Holding
  <2>2. Present' = Present \cup {run[r].vmid}
    BY <1>4, <2>1, Presence, There DEF Configures, Installs
  <2> QED BY <1>1, <1>4, <2>1, <2>2 DEF Configures, Installs, KeepsAll, Became, Requested
<1> QED BY <1>2, <1>3, <1>4 DEF Works, Starts, Fails, Reuses, Allocates, Avoids, Checks, Adopts, Rechecks

LEMMA AloneWork ==
    ASSUME InstancesApart, TypeOK, BaseInv, ActiveInv, InstanceInv, NEW r \in Runs, Works(r),
           NEW s \in Runs
    PROVE  Alone(s)'
<1>1. Alone(s) /\ Deploy(s) \in Deploys /\ Deploy(r) \in Deploys /\ Wanted(s) = Want[Deploy(s)]
      /\ Wanted(r) = Want[Deploy(r)] /\ Wanted(s).unit \in Units
  BY Current, Wants DEF InstanceInv, Wanted
<1>2. CASE s # r
  <2>1. run'[s] = run[s] /\ Wanted(s)' = Wanted(s)
    BY <1>2, OneRun, SameDeploy
  <2>2. CASE KeepsAll
    BY <1>1, <2>1, <2>2 DEF Alone, KeepsAll
  <2>3. CASE Makes(r)
    <3> SUFFICES ASSUME run[s].pc \in {"avoid", "create", "check", "clone"},
                        Wanted(s).route = "instance"
                 PROVE  \A v \in Present' : guests'[v].name # Wanted(s).unit
      BY <2>1 DEF Alone
    <3>1. Active(r) /\ Active(s)
      BY <2>3 DEF Makes, Active, Stages
    <3>2. PICK O \in Overlaps : r \in O /\ s \in O
      BY <1>2, <3>1 DEF ActiveInv
    <3>3. Wanted(r).unit # Wanted(s).unit
      <4>1. /\ run[r].at \in DOMAIN Chain[r] /\ Wanted(r) = Want[Chain[r][run[r].at]]
            /\ run[s].at \in DOMAIN Chain[s] /\ Wanted(s) = Want[Chain[s][run[s].at]]
        BY Current DEF Wanted, Deploy
      <4> QED BY <1>2, <3>2, <4>1 DEF InstancesApart
    <3> QED BY <1>1, <2>3, <3>3 DEF Makes, Alone
  <2> QED BY <2>2, <2>3, Newcomer
<1>3. CASE s = r
  <2>1. CASE Allocates(r)
    <3>1. Found(Wanted(r)) = {} /\ Present' = Present /\ guests' = guests /\ Wanted(r)' = Wanted(r)
      BY <2>1, SameDeploy DEF Allocates, Present, Turned
    <3>2. ASSUME Wanted(r).route = "instance" PROVE Named(Wanted(r).unit) = {}
      BY <3>1, <3>2 DEF Found
    <3>3. Wanted(r).route = "instance" => \A v \in Present : guests[v].name # Wanted(r).unit
      BY <1>1, <1>3, <3>2 DEF Named, InstanceInv
    <3> QED BY <1>3, <3>1, <3>3 DEF Alone
  <2>2. CASE Avoids(r) \/ Checks(r)
    <3>1. Present' = Present /\ guests' = guests /\ Wanted(r)' = Wanted(r)
          /\ run[r].pc \in {"avoid", "check"}
      BY <2>2, SameDeploy DEF Avoids, Checks, Present, Stays, Turned
    <3> QED BY <1>1, <1>3, <3>1 DEF Alone
  <2>3. CASE ~(Allocates(r) \/ Avoids(r) \/ Checks(r))
    <3>1. run'[r].pc \in {"failed", "select", "finished", "reuse", "start", "recheck", "configure"}
      BY <2>3, Zenon DEF Works, Starts, Fails, Reuses, MakesLxc, Adopts, Clones, Rechecks, Configures, Installs,
         Stays, Turned, Begun
    <3> QED BY <1>3, <3>1 DEF Alone
  <2> QED BY <2>1, <2>2, <2>3
<1> QED BY <1>2, <1>3

LEMMA InstanceStep ==
    ASSUME InstancesApart, TypeOK, BaseInv, ActiveInv, InstanceInv, Steps
    PROVE  InstanceInv'
<1>0. \A d \in Deploys : Want[d].unit \in Units
  BY Wants
<1>1. ASSUME NEW r \in Runs, Works(r) PROVE InstanceInv'
  <2>1. \A s \in Runs : Alone(s)'
    BY <1>1, AloneWork
  <2>2. CASE KeepsAll
    BY <2>1, <2>2 DEF KeepsAll, InstanceInv
  <2>3. CASE Makes(r)
    <3> DEFINE y == run[r].vmid
    <3>1. \A v \in Present' : guests'[v].name \in Units => Lab \in guests'[v].tags
      BY <2>3 DEF Makes, InstanceInv
    <3>2. ASSUME NEW d \in Deploys, Want[d].route = "instance", guests'[y].name = Want[d].unit,
                 NEW v \in Present
          PROVE  guests'[v].name # Want[d].unit
      <4>1. Alone(r) /\ Deploy(r) \in Deploys /\ Wanted(r) = Want[Deploy(r)]
        BY Current DEF InstanceInv, Wanted
      <4>2. Wanted(r).unit = Want[d].unit /\ Wanted(r).route = "instance"
        BY <2>3, <3>2, <4>1 DEF Makes, InstancesApart
      <4> QED BY <2>3, <3>2, <4>1, <4>2 DEF Makes, Alone
    <3>3. \A v, x \in Present' : \A d \in Deploys :
             Want[d].route = "instance" /\ guests'[v].name = Want[d].unit
               /\ guests'[x].name = Want[d].unit => v = x
      BY <2>3, <3>2 DEF Makes, InstanceInv
    <3> QED BY <2>1, <3>1, <3>3 DEF InstanceInv
  <2> QED BY <1>1, <2>2, <2>3, Newcomer
<1>2. ASSUME NEW v \in Vmids, Foreigner(v) \/ Removes(v) \/ Withdraws(v) PROVE InstanceInv'
  <2>1. /\ UNCHANGED <<run, conf>> /\ \A s \in Runs : Wanted(s)' = Wanted(s)
        /\ \A x \in Vmids \ {v} : guests'[x] = guests[x]
    BY <1>2, Bystander
  <2>2. \A x \in Present' : \/ x \in Present /\ guests'[x].name = guests[x].name
                               /\ (Lab \in guests[x].tags => Lab \in guests'[x].tags)
                            \/ guests'[x].name \notin Units
    <3>1. v \in Present' => \/ v \in Present /\ guests'[v].name = guests[v].name
                               /\ (Lab \in guests[v].tags => Lab \in guests'[v].tags)
                            \/ guests'[v].name \notin Units
      BY <1>2, WantAssumption DEF Foreigner, Removes, Withdraws, Leaves, Became
    <3> QED BY <2>1, <3>1 DEF Present
  <2>3. ASSUME NEW s \in Runs PROVE Alone(s)'
    <3>1. Alone(s) /\ Wanted(s).unit \in Units
      BY <1>0, Current DEF InstanceInv, Wanted
    <3> QED BY <2>1, <2>2, <3>1 DEF Alone
  <2>4. \A x \in Present' : guests'[x].name \in Units => Lab \in guests'[x].tags
    BY <2>2 DEF InstanceInv
  <2>5. \A x, y \in Present' : \A d \in Deploys :
           Want[d].route = "instance" /\ guests'[x].name = Want[d].unit
             /\ guests'[y].name = Want[d].unit => x = y
    BY <1>0, <2>2 DEF InstanceInv
  <2> QED BY <2>3, <2>4, <2>5 DEF InstanceInv
<1>3. CASE UNCHANGED <<guests, run, conf, placed>>
  <2>1. Present' = Present /\ \A s \in Runs : Wanted(s)' = Wanted(s)
    BY <1>3 DEF Present, Wanted, Deploy
  <2> QED BY <1>3, <2>1 DEF InstanceInv, Alone
<1> QED BY <1>1, <1>2, <1>3 DEF Steps

(* An instance is never made two guests, whatever killed runs and a Remove *)
(* that kept the guest leave behind: a guest has the lab's tag from its    *)
(* first moment, and is found by its name before another is made.          *)
THEOREM OneGuestEach == ASSUME InstancesApart PROVE Spec => []OneGuestPerInstance
<1>1. ASSUME Init PROVE InstanceInv
  <2>1. Present = {} /\ \A r \in Runs : run[r].pc \in {"waiting", "never"}
    BY <1>1 DEF Init, Present, Fresh
  <2> QED BY <2>1 DEF InstanceInv, Alone
<1>2. TypeOK /\ BaseInv /\ ActiveInv /\ InstanceInv /\ [Next]_vars => InstanceInv'
  BY InstanceStep, Stepping
<1>3. ASSUME InstanceInv PROVE OneGuestPerInstance
  <2>1. ASSUME NEW d \in Deploys, Want[d].route = "instance"
        PROVE  Cardinality({v \in Present : guests[v].name = Want[d].unit}) <= 1
    <3> DEFINE S == {v \in Present : guests[v].name = Want[d].unit}
    <3>1. \A v, x \in S : v = x
      BY <1>3, <2>1 DEF InstanceInv
    <3>2. CASE S = {}
      BY <3>2, FS_EmptySet
    <3>3. CASE S # {}
      <4>1. PICK x \in S : TRUE
        BY <3>3
      <4>2. S = {x}
        BY <3>1, <4>1
      <4>3. Cardinality({x}) = 1
        BY FS_Singleton
      <4>4. Cardinality(S) = 1
        BY <4>2, <4>3, Zenon
      <4> QED BY <4>4
    <3> QED BY <3>2, <3>3
  <2> QED BY <2>1 DEF OneGuestPerInstance
<1> QED BY <1>1, <1>2, <1>3, Based, Overlapped, PTL DEF Spec

-----------------------------------------------------------------------------
(* Operators' VMIDs and retained volumes                                   *)

(* The deploys of a lab that share a guest mean one VMID for it, and one   *)
(* retained volume; a container has none.                                  *)
OneMeaning ==
    /\ \A lab \in Labs : \A d, e \in DeploysOf(lab) :
          Want[d].unit = Want[e].unit /\ Meant(d) => Meant(e) /\ Want[e].vmid = Want[d].vmid
    /\ \A d, e \in Deploys :
          Want[d].unit = Want[e].unit /\ Want[d].retained # 0 => Want[e].retained = Want[d].retained
    /\ \A d \in Deploys : Want[d].retained # 0 => Want[d].kind = "qemu"

LEMMA Honoured ==
    ASSUME NEW c \in Config, NEW w, NEW a, w.vmid # 0, c.source = 0
    PROVE  Derived(c, w, a).vmid = w.vmid /\ Derived(c, w, a).source = 0
<1> DEFINE asked == [c EXCEPT !.vmid = w.vmid]
<1>1. asked.vmid = w.vmid /\ asked.source = 0
  BY DEF Config
<1>2. Derived(c, w, a) = asked
  BY <1>1 DEF Derived
<1> QED BY <1>1, <1>2

LEMMA InLab ==
    ASSUME TypeOK, NEW r \in Runs, run[r].pc # "never"
    PROVE  Deploy(r) \in DeploysOf(ThisLab)
  BY Current DEF DeploysOf, ThisLab, Deploy

LEMMA AllocateAims ==
    ASSUME OneMeaning, TypeOK, BaseInv, NEW r \in Runs, Aims(r), Allocates(r)
    PROVE  Aims(r)'
<1> DEFINE w == Wanted(r)
           old == conf[r][w.kind]
<1>1. /\ w = Want[Deploy(r)] /\ Deploy(r) \in Deploys /\ w.kind \in Kinds
      /\ old \in Config /\ conf[r] \in [Kinds -> Config]
      /\ run[r].at \in DOMAIN Chain[r] /\ Deploy(r) = Chain[r][run[r].at]
      /\ DOMAIN Chain[r] = 1..Len(Chain[r]) /\ Len(Chain[r]) \in Nat
      /\ w.retained # 0 => w.kind = "qemu"
  BY Current, Wants DEF Wanted, Deploy, TypeOK, Kinds, OneMeaning
<1>2. PICK a \in Addresses(w) :
        LET c == Derived(old, w, a) IN
        /\ Configured(r, w.kind, c)
        /\ \/ w.kind = "lxc" /\ Turned(r, "create", a, c.vmid)
           \/ w.kind = "qemu" /\ c.vmid = w.retained /\ Turned(r, "avoid", a, c.vmid)
           \/ w.kind = "qemu" /\ c.vmid # w.retained /\ Turned(r, "check", a, c.vmid)
  BY DEF Allocates
<1> DEFINE c == Derived(old, w, a)
<1>3. c.vmid \in Vmids /\ c.vmid # 0
  <2>1. c = Derived(old, Want[Deploy(r)], a) /\ a \in Hosts
    BY <1>1, <1>2, Choice
  <2>2. Derived(old, Want[Deploy(r)], a).vmid \in Vmids
    BY <1>1, <2>1, Derivation
  <2> HIDE DEF c
  <2> QED BY <1>1, <2>1, <2>2, Numbers
<1>4. /\ conf'[r][w.kind] = c /\ \A k \in Kinds \ {w.kind} : conf'[r][k] = conf[r][k]
      /\ run'[r].at = run[r].at /\ run'[r].vmid = c.vmid
      /\ run'[r].pc \in {"create", "avoid", "check"}
      /\ run'[r].pc = "create" => w.kind = "lxc"
      /\ run'[r].pc = "avoid" => w.kind = "qemu"
      /\ run'[r].pc = "check" => c.vmid # w.retained
  BY <1>2 DEF Configured, Turned
<1>5. Wanted(r)' = w /\ Deploy(r)' = Deploy(r) /\ run[r].pc = "select"
  BY <1>4, SameDeploy DEF Allocates
<1>6. Meant(Deploy(r)) => c.vmid = w.vmid /\ c.source = 0
  <2> SUFFICES ASSUME Meant(Deploy(r)) PROVE c.vmid = w.vmid /\ c.source = 0
    OBVIOUS
  <2>1. old = Unset
    <3>1. ASSUME NEW i \in 1..run[r].at, i < run[r].at PROVE Want[Chain[r][i]].kind # w.kind
      <4>1. i \in DOMAIN Chain[r]
        BY <1>1
      <4> QED BY <1>1, <3>1, <4>1 DEF Meant, FirstOfKind
    <3> QED BY <1>1, <1>5, <3>1 DEF Aims
  <2>2. old.source = 0
    BY <2>1 DEF Unset
  <2>3. w.vmid # 0
    BY <1>1 DEF Meant
  <2> HIDE DEF w, old
  <2> QED BY <1>1, <2>2, <2>3, Honoured
<1>7. \A k \in Kinds : conf'[r][k] # Unset =>
         \E i \in 1..run[r].at : Want[Chain[r][i]].kind = k
  <2>1. run[r].at \in 1..run[r].at /\ Want[Chain[r][run[r].at]].kind = w.kind
    BY <1>1
  <2>2. ASSUME NEW k \in Kinds, conf'[r][k] # Unset
        PROVE  \E i \in 1..run[r].at : Want[Chain[r][i]].kind = k
    <3>1. CASE k = w.kind
      BY <2>1, <3>1
    <3>2. CASE k # w.kind
      <4>1. conf[r][k] # Unset
        BY <1>4, <2>2, <3>2
      <4> QED BY <4>1 DEF Aims
    <3> QED BY <3>1, <3>2
  <2> QED BY <2>2
<1>8. run'[r].pc \in {"create", "check"} => c.vmid # w.retained
  <2> HIDE DEF c, w
  <2> QED BY <1>1, <1>3, <1>4
<1>9. run'[r].pc = "avoid" => conf'[r].qemu = c
  BY <1>4
<1> HIDE DEF c, w
<1> QED BY <1>4, <1>5, <1>6, <1>7, <1>8, <1>9 DEF Aims

LEMMA WorksAims ==
    ASSUME OneMeaning, TypeOK, BaseInv, NEW r \in Runs, Aims(r), Works(r)
    PROVE  Aims(r)'
<1>1. Decided(r) /\ run[r].at \in Nat \ {0}
  BY DEF BaseInv, TypeOK, RunStates
<1>2. CASE Starts(r)
  <2>1. run'[r].pc = "select" /\ \A k \in Kinds : conf'[r][k] = Unset
    BY <1>2, Records DEF Starts, Begun, Kinds
  <2> QED BY <2>1 DEF Aims
<1>3. CASE Fails(r) \/ Reuses(r) \/ MakesLxc(r) \/ Adopts(r) \/ Clones(r) \/ Rechecks(r) \/ Configures(r)
  <2>1. /\ run'[r].pc \in {"failed", "reuse", "start", "recheck", "configure"}
        /\ conf' = conf /\ run'[r].at = run[r].at
    BY <1>3 DEF Fails, Reuses, MakesLxc, Adopts, Clones, Rechecks, Configures, Stays, Turned
  <2> QED BY <2>1 DEF Aims
<1>4. CASE Checks(r)
  <2>1. /\ run[r].pc = "check" /\ run'[r].pc = "clone" /\ conf' = conf
        /\ run'[r].at = run[r].at /\ run'[r].vmid = run[r].vmid
    BY <1>4 DEF Checks, Stays, Turned
  <2>2. Wanted(r)' = Wanted(r) /\ Deploy(r)' = Deploy(r)
    BY <2>1, SameDeploy
  <2> QED BY <2>1, <2>2 DEF Aims
<1>5. CASE Avoids(r)
  <2>1. PICK v \in Vmids \ (Present \cup {Wanted(r).retained}) :
          /\ Configured(r, "qemu", [vmid |-> v, source |-> conf[r].qemu.source])
          /\ Turned(r, "check", run[r].address, v)
    BY <1>5 DEF Avoids
  <2>2. Wanted(r)' = Wanted(r) /\ Deploy(r)' = Deploy(r) /\ run'[r].at = run[r].at
    BY <2>1, SameDeploy DEF Turned
  <2>3. run[r].pc = "avoid" /\ conf[r].qemu.source # 0 /\ Wanted(r).kind = "qemu"
    BY <1>1, <1>5, Numbers DEF Avoids, Decided, Placing
  <2>4. ~Meant(Deploy(r))
    BY <2>3 DEF Aims
  <2>5. run[r].at \in 1..run[r].at /\ Want[Chain[r][run[r].at]].kind = "qemu"
    BY <1>1, <2>3 DEF Wanted, Deploy
  <2>6. \A k \in Kinds \ {"qemu"} : conf'[r][k] = conf[r][k]
    BY <2>1 DEF Configured
  <2>7. \A k \in Kinds : conf'[r][k] # Unset => \E i \in 1..run[r].at : Want[Chain[r][i]].kind = k
    BY <2>5, <2>6 DEF Aims
  <2> QED BY <2>1, <2>2, <2>4, <2>7 DEF Aims, Turned
<1>6. CASE Installs(r)
  <2>1. conf' = conf
    BY <1>6 DEF Installs
  <2>2. CASE Begun(r, run[r].at, "finished")
    BY <2>1, <2>2 DEF Begun, Aims
  <2>3. CASE Begun(r, run[r].at + 1, "select")
    <3>1. run'[r].at = run[r].at + 1 /\ run'[r].pc = "select"
      BY <2>3 DEF Begun
    <3>2. \A i \in 1..run[r].at : i \in 1..run'[r].at /\ i < run'[r].at
      BY <1>1, <3>1
    <3> QED BY <2>1, <3>1, <3>2 DEF Aims
  <2> QED BY <1>6, <2>2, <2>3 DEF Installs
<1> QED BY <1>2, <1>3, <1>4, <1>5, <1>6, AllocateAims DEF Works

LEMMA MeantStep ==
    ASSUME OneMeaning, TypeOK, BaseInv, MeantInv, Steps
    PROVE  MeantInv'
<1>1. /\ ThisLab' = ThisLab /\ ThisLab \in Labs /\ ThisLab \subseteq Runs
      /\ \A d \in Deploys : Want[d].unit \in Units
      /\ \A d \in Deploys : Want[d].retained # 0 => Want[d].retained \in Vmids
      /\ DeploysOf(ThisLab) \subseteq Deploys
  <2>1. ThisLab' = ThisLab /\ ThisLab \in Labs /\ ThisLab \subseteq Runs
    BY SameLab DEF BaseInv, ThisLab
  <2>2. \A r \in Runs : Chain[r] \in Seq(Deploys)
    BY ChainAssumption
  <2>3. DeploysOf(ThisLab) \subseteq Deploys
    BY <2>1, <2>2 DEF DeploysOf
  <2> QED BY <2>1, <2>3, Wants
<1>2. ASSUME NEW r \in Runs, Works(r) PROVE MeantInv'
  <2>1. \A s \in Runs : Aims(s)'
    <3>1. Aims(r)'
      BY <1>2, WorksAims DEF MeantInv
    <3>2. ASSUME NEW s \in Runs \ {r} PROVE Aims(s)'
      <4>1. run'[s] = run[s] /\ Wanted(s)' = Wanted(s) /\ Deploy(s)' = Deploy(s)
        BY <1>2, OneRun, SameDeploy
      <4>2. conf'[s] = conf[s]
        BY <1>2 DEF Works, Starts, Fails, Reuses, Allocates, Avoids, MakesLxc, Checks, Adopts, Clones,
           Rechecks, Configures, Installs, Configured
      <4>3. Aims(s)
        BY DEF MeantInv
      <4> QED BY <4>1, <4>2, <4>3 DEF Aims
    <3> QED BY <3>1, <3>2
  <2>2. Deploy(r) \in DeploysOf(ThisLab) /\ Wanted(r) = Want[Deploy(r)] /\ Aims(r)
    BY <1>2, OneRun, InLab DEF Wanted, MeantInv
  <2>3. \A v \in Vmids : placed'[v] \subseteq DeploysOf(ThisLab)'
    BY <1>1, <1>2, <2>2 DEF Works, Starts, Fails, Reuses, Allocates, Avoids, MakesLxc, Checks, Adopts,
       Clones, Rechecks, Configures, Installs, MeantInv, DeploysOf
  <2>4. \A v \in Vmids :
          \/ guests'[v].name = guests[v].name
          \/ /\ run[r].pc \in {"create", "check", "clone"} /\ v = run[r].vmid
             /\ guests'[v].name = Wanted(r).unit
    BY <1>2, Names DEF MakesLxc, Clones, Became
  <2>5. \A v \in Vmids : \A d \in DeploysOf(ThisLab) :
           guests'[v].name = Want[d].unit /\ Meant(d) => v = Want[d].vmid
    <3>1. ASSUME NEW d \in DeploysOf(ThisLab), Want[d].unit = Wanted(r).unit, Meant(d)
          PROVE  Meant(Deploy(r)) /\ Wanted(r).vmid = Want[d].vmid
      BY <1>1, <2>2, <3>1 DEF OneMeaning
    <3> QED BY <2>2, <2>4, <3>1 DEF MeantInv, Aims
  <2>6. \A d \in Deploys : Want[d].retained # 0 => guests'[Want[d].retained].name # Want[d].unit
    <3>1. ASSUME NEW d \in Deploys, Want[d].retained # 0, Want[d].unit = Wanted(r).unit
          PROVE  Wanted(r).retained = Want[d].retained
      BY <1>1, <2>2, <3>1 DEF OneMeaning
    <3> QED BY <1>1, <2>2, <2>4, <3>1 DEF MeantInv, Aims
  <2> QED BY <1>1, <2>1, <2>3, <2>5, <2>6 DEF MeantInv, DeploysOf, Meant, FirstOfKind
<1>3. ASSUME NEW v \in Vmids, Foreigner(v) \/ Removes(v) \/ Withdraws(v) PROVE MeantInv'
  <2>1. /\ UNCHANGED <<run, conf>> /\ \A s \in Runs : Wanted(s)' = Wanted(s) /\ Deploy(s)' = Deploy(s)
        /\ \A x \in Vmids \ {v} : guests'[x] = guests[x] /\ placed'[x] = placed[x]
    BY <1>3, Bystander
  <2>2. placed'[v] \subseteq placed[v] /\ (guests'[v].name = guests[v].name \/ guests'[v].name \notin Units)
    BY <1>3, WantAssumption DEF Foreigner, Removes, Withdraws, Leaves, Became
  <2>3. \A s \in Runs : Aims(s)'
    BY <2>1 DEF MeantInv, Aims
  <2>4. \A x \in Vmids : placed'[x] \subseteq DeploysOf(ThisLab)
    BY <2>1, <2>2 DEF MeantInv
  <2>5. \A x \in Vmids : \A d \in DeploysOf(ThisLab) :
           guests'[x].name = Want[d].unit /\ Meant(d) => x = Want[d].vmid
    BY <1>1, <2>1, <2>2 DEF MeantInv
  <2>6. \A d \in Deploys : Want[d].retained # 0 => guests'[Want[d].retained].name # Want[d].unit
    BY <1>1, <2>1, <2>2 DEF MeantInv
  <2> QED BY <1>1, <2>3, <2>4, <2>5, <2>6 DEF MeantInv, DeploysOf, Meant, FirstOfKind
<1>4. CASE UNCHANGED <<guests, run, conf, placed>>
  <2>1. \A s \in Runs : Wanted(s)' = Wanted(s) /\ Deploy(s)' = Deploy(s)
    BY <1>4 DEF Wanted, Deploy
  <2> QED BY <1>1, <1>4, <2>1 DEF MeantInv, Aims, DeploysOf, Meant, FirstOfKind
<1> QED BY <1>2, <1>3, <1>4 DEF Steps

(* A guest made for a deploy with an operator's VMID has that VMID, and the *)
(* replacement of a guest with a retained volume never takes the VMID that *)
(* owns it (ip-to-vmid-guest.yml, avoid-vmid-collision.yml), as long as    *)
(* deploys install only on their own guests.                               *)
THEOREM MeantVmids == ASSUME OneMeaning PROVE Spec /\ []OnOwnGuest => []VmidAsMeant
<1>1. ASSUME Init PROVE MeantInv
  <2>1. /\ \A r \in Runs : run[r].pc \in {"waiting", "never"} /\ conf[r] = Nothing
        /\ \A v \in Vmids : placed[v] = {} /\ guests[v].name = ""
    <3>1. \A r \in Runs : run[r].pc \in {"waiting", "never"} /\ conf[r] = Nothing
      BY <1>1 DEF Init, Fresh
    <3>2. \A v \in Vmids : placed[v] = {} /\ guests[v] = NoGuest
      BY <1>1 DEF Init
    <3> QED BY <3>1, <3>2, Records
  <2>2. \A r \in Runs : Aims(r)
    BY <2>1, Records DEF Aims, Kinds
  <2>3. /\ "" \notin Units /\ \A d \in Deploys : Want[d].unit \in Units
        /\ \A d \in Deploys : Want[d].retained # 0 => Want[d].retained \in Vmids
    BY WantAssumption, Wants
  <2>4. DeploysOf(ThisLab) \subseteq Deploys
    <3>1. ThisLab \subseteq Runs /\ \A r \in Runs : Chain[r] \in Seq(Deploys)
      BY ChainAssumption DEF ThisLab
    <3> QED BY <3>1 DEF DeploysOf
  <2> QED BY <2>1, <2>2, <2>3, <2>4 DEF MeantInv
<1>2. TypeOK /\ BaseInv /\ MeantInv /\ [Next]_vars => MeantInv'
  BY MeantStep, Stepping
<1>3. MeantInv /\ OnOwnGuest => VmidAsMeant
  BY DEF MeantInv, OnOwnGuest, VmidAsMeant, Meant
<1> QED BY <1>1, <1>2, <1>3, Based, PTL DEF Spec
=============================================================================

---------------------------- MODULE GuestAllocation ----------------------------
(* How a Deploy run comes by the guest it installs on.  It finds the guest *)
(* its unit is tagged on, or chooses the first free address of its pool,   *)
(* derives the VMID from the address, and creates an LXC or clones a VM    *)
(* there.  Runs of different jobs overlap; each decides from an inventory  *)
(* it refreshed once, and a killed run is started again from the top.      *)
(*                                                                         *)
(* An address is a number of Hosts and the VMID derived from it is that    *)
(* number: within one network the derivation is injective.  0 is "none".   *)
EXTENDS Naturals, Sequences, FiniteSets, FiniteSetsExt

CONSTANTS
  Runs,        \* Rundeck executions
  Deploys,     \* the deploys of guests they carry out
  Chain,       \* the deploys of one run, in order (bootstrap.yml chains apps)
  Want,        \* what a deploy's configuration says
  Hosts,       \* the addresses of the network
  Reserved,    \* addresses never allocated: gateway, networks.*.reserved
  Vmids,       \* Proxmox's VMIDs
  ForeignTypes,\* the kinds of guest operators make by hand at a free VMID
  TemplateNic, \* the network the cloud-init template's NIC is on
  Overlaps,    \* the sets of runs that may be in progress at the same time
  Labs,        \* the sets of runs that one lab has
  MaxCrashes,  \* killed runs, for each lab (bound)
  MaxOthers    \* acts of operators and of the Remove job (bound)

Lab      == "_+lab"          \* ownership
Template == "_.template"     \* topology tag of the template, inherited by clones
Foreign  == "foreign"        \* the name of a guest the platform did not make

Units == {Want[d].unit : d \in Deploys}

ASSUME NumbersAssumption ==
  /\ Hosts \subseteq Nat \ {0} /\ Reserved \subseteq Hosts
  /\ Vmids \subseteq Nat \ {0} /\ Hosts \subseteq Vmids /\ IsFiniteSet(Vmids)
ASSUME ChainAssumption ==
  /\ \A r \in Runs : Chain[r] \in Seq(Deploys) \ {<<>>}
  /\ \A r, s \in Runs : \A i \in DOMAIN Chain[r], j \in DOMAIN Chain[s] :
       Chain[r][i] = Chain[s][j] => r = s /\ i = j
(* A declared address is outside what generate-ip.yml may hand out: the    *)
(* cluster's play tells the operator to reserve it.                        *)
ASSUME WantAssumption ==
  /\ \A d \in Deploys :
       /\ Want[d].kind \in {"lxc", "qemu"}
       /\ Want[d].route \in {"instance", "stack", "declared"}
       /\ Want[d].pool \subseteq Hosts /\ Want[d].pin \in Hosts \cup {0}
       /\ {Want[d].vmid, Want[d].retained} \subseteq Vmids \cup {0}
       /\ Want[d].route = "declared" => Want[d].kind = "qemu" /\ Want[d].pin \in Reserved
  /\ Units \cap {Lab, Template, Foreign, ""} = {} /\ ForeignTypes \subseteq {"lxc", "qemu"}
ASSUME RunsAssumption   == Overlaps \subseteq SUBSET Runs /\ Labs \subseteq SUBSET Runs
ASSUME BoundsAssumption == MaxCrashes \in [Labs -> Nat] /\ MaxOthers \in Nat

VARIABLES
  guests,   \* Proxmox: the guest at each VMID, or NoGuest
  run,      \* each run: its place in its chain and what it decided
  conf,     \* each run's homelabinfra_config.proxmox.{lxc,vm}.{vmid,vmid_source_ip}
  placed,   \* (history) the deploys that installed on the guest at each VMID
  crashes, others

vars == <<guests, run, conf, placed, crashes, others>>

NoGuest  == [type |-> "none", name |-> "", tags |-> {}, address |-> 0, nic |-> "",
             running |-> FALSE]
Present  == {v \in Vmids : guests[v] # NoGuest}
Fresh    == [at |-> 1, pc |-> "select", address |-> 0, vmid |-> 0, exists |-> FALSE,
             changed |-> FALSE]
Unset    == [vmid |-> 0, source |-> 0]
Nothing  == [lxc |-> Unset, qemu |-> Unset]
Stages   == {"select", "reuse", "avoid", "create", "check", "clone", "recheck",
             "configure", "start"}
Active(r)  == run[r].pc \in Stages
ThisLab    == {r \in Runs : run[r].pc # "never"}
Deploy(r)  == Chain[r][run[r].at]
Wanted(r)  == Want[Deploy(r)]
(* The platform's own lanes: on a VM they come only from the request.      *)
LaneTags == {Lab, Template} \cup
              {Want[d].unit : d \in {e \in Deploys : Want[e].route # "instance"}}

Init ==
  /\ guests = [v \in Vmids |-> NoGuest]
  /\ \E lab \in Labs :
       run = [r \in Runs |-> [Fresh EXCEPT !.pc = IF r \in lab THEN "waiting" ELSE "never"]]
  /\ conf = [r \in Runs |-> Nothing]
  /\ placed = [v \in Vmids |-> {}]
  /\ crashes = 0 /\ others = 0

(* ---- finding the guest ---- *)

Tagged(u) == {v \in Present : u \in guests[v].tags}
\* for OneGuestPerInstance: a guest that has lost its tag, or not got it yet, is not seen
MutantNamed(u) == Tagged(u)
Named(u)  == {v \in Present : Lab \in guests[v].tags /\ guests[v].name = u}
Unclaimed(v) == guests[v].tags \cap (Units \cup {Template}) = {}

(* A stack's host carries `_.stack+<id>`.  An instance's guest carries     *)
(* `_<instance>`; one Remove kept is found by its exact name.  A cluster   *)
(* node is not looked up: its address is declared.                         *)
Found(w) ==
  CASE w.route = "declared" -> {}
    [] w.route = "stack"    -> Tagged(w.unit)
    [] w.route = "instance" -> IF Tagged(w.unit) # {} THEN Tagged(w.unit) ELSE Named(w.unit)

Ambiguous(w) ==
  /\ w.route = "instance"
  /\ \/ Cardinality(Named(w.unit)) > 1
     \/ Tagged(w.unit) = {} /\ \E v \in Named(w.unit) : ~Unclaimed(v)
Unsuitable(w, v) == w.route = "stack" /\ guests[v].type # w.kind

(* ---- choosing an address and a VMID ---- *)

\* only the encoded addresses are reserved
MutantInUse == Present \cap Hosts

(* generate-ip.yml: the configured addresses the inventory shows, and the  *)
(* addresses existing VMIDs encode.                                        *)
InUse == ({guests[v].address : v \in Present} \ {0}) \cup (Present \cap Hosts)

Free(w) == w.pool \ (InUse \cup Reserved)
(* allocate-ip.py: a pin is honoured or refused, otherwise the first free. *)
Addresses(w) ==
  IF w.route = "declared" THEN {w.pin}
  ELSE IF w.pin # 0 THEN {w.pin} \cap Free(w)
  ELSE IF Free(w) = {} THEN {} ELSE {Min(Free(w))}

\* "vmid is already defined" (the fault ip-to-vmid-guest.yml describes)
MutantDerived(c, w, a) ==
  IF w.vmid # 0 THEN [c EXCEPT !.vmid = w.vmid]
  ELSE IF c.vmid = 0 THEN [vmid |-> a, source |-> a] ELSE c

(* The chained config keeps the previous guest's VMID; it is derived anew  *)
(* when the address it came from is not this guest's.                      *)
Derived(c, w, a) ==
  LET asked == [c EXCEPT !.vmid = IF w.vmid # 0 THEN w.vmid ELSE c.vmid]
  IN  IF asked.vmid = 0 \/ asked.source \notin {0, a}
        THEN [vmid |-> a, source |-> a] ELSE asked

(* lxc-create.yml: a VMID or hostname already in the inventory.            *)
Clashes(w, vmid) ==
  w.kind = "lxc" /\ \E v \in Present : v = vmid \/ guests[v].name = w.unit

Go(r, pc) == run' = [run EXCEPT ![r].pc = pc]
Fail(r)   == Go(r, "failed") /\ UNCHANGED <<guests, conf, placed>>

(* ---- the run ---- *)

(* A run is started, or a failed one is started again: it reads its        *)
(* configuration anew and begins with the first deploy of its chain.       *)
Start(r) ==
  /\ run[r].pc \in {"waiting", "failed"}
  /\ {r} \cup {s \in Runs : Active(s)} \in Overlaps
  /\ run' = [run EXCEPT ![r] = Fresh]
  /\ conf' = [conf EXCEPT ![r] = Nothing]
  /\ UNCHANGED <<guests, placed, crashes, others>>

(* Everything from the inventory refresh to the VMID is computed from that *)
(* one inventory, without touching Proxmox again.                          *)
RefuseSelection(r) ==
  LET w == Wanted(r) IN
  /\ run[r].pc = "select"
  /\ \/ Ambiguous(w)
     \/ w.retained # 0 /\ w.retained \in Present
     \/ Found(w) = {} /\ Addresses(w) = {}
     \/ \E v \in Found(w) : Unsuitable(w, v)
     \/ Found(w) = {} /\ \E a \in Addresses(w) : Clashes(w, Derived(conf[r][w.kind], w, a).vmid)
  /\ Fail(r) /\ UNCHANGED <<crashes, others>>

Owned(r) ==
  LET w == Wanted(r) IN
  /\ run[r].pc = "select" /\ ~Ambiguous(w) /\ (w.retained = 0 \/ w.retained \notin Present)

Reuse(r) ==
  /\ Owned(r)
  /\ \E v \in Found(Wanted(r)) :
       ~Unsuitable(Wanted(r), v) /\ run' = [run EXCEPT ![r].pc = "reuse", ![r].vmid = v]
  /\ UNCHANGED <<guests, conf, placed, crashes, others>>

Allocate(r) ==
  LET w == Wanted(r) IN
  /\ Owned(r) /\ Found(w) = {}
  /\ \E a \in Addresses(w) :
       LET c == Derived(conf[r][w.kind], w, a) IN
       /\ ~Clashes(w, c.vmid)
       /\ conf' = [conf EXCEPT ![r][w.kind] = c]
       /\ run' = [run EXCEPT ![r].address = a, ![r].vmid = c.vmid,
                   ![r].pc = IF w.kind = "lxc" THEN "create"
                             ELSE IF c.vmid = w.retained THEN "avoid" ELSE "check"]
  /\ UNCHANGED <<guests, placed, crashes, others>>

(* PBS: the VMID that owns its retained volume.                            *)
FreeFrom(start, taken) ==
  LET free == Vmids \ taken
      above == {v \in free : v >= start}
  IN  IF above # {} THEN {Min(above)} ELSE IF free # {} THEN {Min(free)} ELSE {}

\* the retained VMID is not added to the used ones
MutantAvoid(r) ==
  LET c == conf[r].qemu
      choice == IF c.source = run[r].address THEN FreeFrom(c.vmid, Present) ELSE {}
  IN
  /\ run[r].pc = "avoid"
  /\ \/ choice = {} /\ Fail(r)
     \/ \E v \in choice :
          /\ conf' = [conf EXCEPT ![r].qemu.vmid = v]
          /\ run' = [run EXCEPT ![r].vmid = v, ![r].pc = "check"]
          /\ UNCHANGED <<guests, placed>>
  /\ UNCHANGED <<crashes, others>>

Avoid(r) ==
  LET w == Wanted(r)
      c == conf[r].qemu
      choice == IF c.source = run[r].address
                  THEN FreeFrom(c.vmid + 1, Present \cup {w.retained}) ELSE {}
  IN
  /\ run[r].pc = "avoid"
  /\ \/ choice = {} /\ Fail(r)
     \/ \E v \in choice :
          /\ conf' = [conf EXCEPT ![r].qemu.vmid = v]
          /\ run' = [run EXCEPT ![r].vmid = v, ![r].pc = "check"]
          /\ UNCHANGED <<guests, placed>>
  /\ UNCHANGED <<crashes, others>>

(* ---- creating a container ---- *)

\* a stack's tag is missing from the request
MutantRequested(w) == {Lab} \cup (IF w.route = "stack" THEN {} ELSE {w.unit})

Requested(w) == {Lab, w.unit}

\* the module's "not changed" is not looked at
MutantCreateLxc(r) ==
  LET w == Wanted(r) v == run[r].vmid IN
  /\ run[r].pc = "create"
  /\ guests' = IF v \in Present THEN guests
               ELSE [guests EXCEPT ![v] =
                 [type |-> "lxc", name |-> w.unit, tags |-> Requested(w),
                  address |-> run[r].address, nic |-> w.nic, running |-> FALSE]]
  /\ Go(r, "start") /\ UNCHANGED <<conf, placed, crashes, others>>

(* The module's lookup and its creation are one call on the cluster: with  *)
(* update=false an existing VMID is a no-op, and "not changed" is refused. *)
CreateLxc(r) ==
  LET w == Wanted(r) v == run[r].vmid IN
  /\ run[r].pc = "create"
  /\ IF v \in Present THEN Fail(r)
     ELSE /\ guests' = [guests EXCEPT ![v] =
               [type |-> "lxc", name |-> w.unit, tags |-> Requested(w),
                address |-> run[r].address, nic |-> w.nic, running |-> FALSE]]
          /\ Go(r, "start") /\ UNCHANGED <<conf, placed>>
  /\ UNCHANGED <<crashes, others>>

(* ---- cloning a VM ---- *)

CheckTarget(r) ==
  LET v == run[r].vmid IN
  /\ run[r].pc = "check"
  /\ IF guests[v].type = "lxc" THEN Fail(r)
     ELSE /\ run' = [run EXCEPT ![r].exists = v \in Present, ![r].pc = "clone"]
          /\ UNCHANGED <<guests, conf, placed>>
  /\ UNCHANGED <<crashes, others>>

(* Only when the target did not exist; a VMID taken since is a no-op.      *)
Clone(r) ==
  LET w == Wanted(r) v == run[r].vmid IN
  /\ run[r].pc = "clone"
  /\ IF run[r].exists \/ v \in Present
       THEN run' = [run EXCEPT ![r].changed = FALSE, ![r].pc = "recheck"] /\ UNCHANGED guests
       ELSE /\ guests' = [guests EXCEPT ![v] =
                 [type |-> "qemu", name |-> w.unit, tags |-> {Lab, Template},
                  address |-> 0, nic |-> TemplateNic, running |-> FALSE]]
            /\ run' = [run EXCEPT ![r].changed = TRUE, ![r].pc = "configure"]
  /\ UNCHANGED <<conf, placed, crashes, others>>

(* A reused VM: it must be there, and on the declared network or running.  *)
Recheck(r) ==
  LET g == guests[run[r].vmid] IN
  /\ run[r].pc = "recheck"
  /\ IF g.type # "qemu" \/ (~g.running /\ g.nic # Wanted(r).nic) THEN Fail(r)
     ELSE Go(r, "configure") /\ UNCHANGED <<guests, conf, placed>>
  /\ UNCHANGED <<crashes, others>>

(* The tags a guest has besides the lanes are kept when it was there at    *)
(* the check; its NIC only changes on a clone of this run.                 *)
Configure(r) ==
  LET w == Wanted(r) v == run[r].vmid g == guests[v] IN
  /\ run[r].pc = "configure"
  /\ guests' = [guests EXCEPT
       ![v].tags = Requested(w) \cup (IF run[r].exists THEN g.tags \ LaneTags ELSE {}),
       ![v].address = run[r].address,
       ![v].nic = IF run[r].changed THEN w.nic ELSE g.nic]
  /\ Go(r, "start")
  /\ UNCHANGED <<conf, placed, crashes, others>>

\* one step past the end of the chain
MutantInstall(r) ==
  LET v == run[r].vmid IN
  /\ run[r].pc \in {"reuse", "start"}
  /\ placed' = [placed EXCEPT ![v] = @ \cup {Deploy(r)}]
  /\ run' = [run EXCEPT ![r] = [Fresh EXCEPT !.at = run[r].at + 1]]
  /\ UNCHANGED <<guests, conf, crashes, others>>

(* Started, reached over SSH, installed on, recorded on the guest (the     *)
(* record is best effort); then the next deploy of the chain.              *)
Install(r) ==
  LET w == Wanted(r) v == run[r].vmid last == run[r].at = Len(Chain[r]) IN
  /\ run[r].pc \in {"reuse", "start"}
  /\ \E recorded \in IF w.route = "instance" THEN {{}, {w.unit}} ELSE {{}} :
       guests' = [guests EXCEPT ![v].running = TRUE, ![v].tags = @ \cup recorded]
  /\ placed' = [placed EXCEPT ![v] = @ \cup {Deploy(r)}]
  /\ run' = [run EXCEPT ![r] = [Fresh EXCEPT !.at = IF last THEN run[r].at ELSE run[r].at + 1,
                                             !.pc = IF last THEN "finished" ELSE "select"]]
  /\ UNCHANGED <<conf, crashes, others>>

(* The run is killed, or a call of it fails, between two of its steps.     *)
Crash(r) ==
  /\ Active(r) /\ crashes < MaxCrashes[ThisLab]
  /\ crashes' = crashes + 1 /\ Fail(r) /\ UNCHANGED others

(* ---- everybody else ---- *)

(* An operator makes a guest of their own.                                 *)
MakeForeign ==
  /\ \E v \in Vmids \ Present, t \in ForeignTypes, on \in BOOLEAN :
       guests' = [guests EXCEPT ![v] = [type |-> t, name |-> Foreign, tags |-> {},
                                        address |-> 0, nic |-> TemplateNic, running |-> on]]
  /\ UNCHANGED placed

(* Remove with destroy_guest, of a native guest that carries only this     *)
(* instance.  The operator does not remove what a run is deploying: at     *)
(* Configure and Install the guest is still there.                         *)
Destroy ==
  /\ \E v \in Present, d \in Deploys :
       /\ Want[d].route = "instance" /\ Lab \in guests[v].tags
       /\ guests[v].tags \cap (Units \cup {Template}) = {Want[d].unit}
       /\ \A r \in Runs : Active(r) => run[r].vmid # v
       /\ guests' = [guests EXCEPT ![v] = NoGuest]
       /\ placed' = [placed EXCEPT ![v] = {}]

(* Remove keeping the guest: the instance tag is withdrawn.                *)
Withdraw ==
  /\ \E v \in Present, d \in Deploys :
       /\ Want[d].route = "instance" /\ Want[d].unit \in guests[v].tags
       /\ \A r \in Runs : Active(r) => run[r].vmid # v
       /\ guests' = [guests EXCEPT ![v].tags = @ \ {Want[d].unit}]
       /\ placed' = [placed EXCEPT ![v] = {e \in @ : Want[e].unit # Want[d].unit}]

Others ==
  /\ others < MaxOthers /\ others' = others + 1
  /\ MakeForeign \/ Destroy \/ Withdraw
  /\ UNCHANGED <<run, conf, crashes>>

Work(r) == \/ RefuseSelection(r) \/ Reuse(r) \/ Allocate(r) \/ Avoid(r)
           \/ CreateLxc(r) \/ CheckTarget(r) \/ Clone(r) \/ Recheck(r)
           \/ Configure(r) \/ Install(r)

Next == (\E r \in Runs : Start(r) \/ Work(r) \/ Crash(r)) \/ Others

Spec == Init /\ [][Next]_vars

(* The operator starts a job again until it succeeds.                      *)
FairSpec == Spec /\ \A r \in Runs : WF_vars(Start(r) \/ Work(r))

(* ---- properties ---- *)

GuestStates ==
  [type : {"lxc", "qemu", "none"}, name : Units \cup {Foreign, ""},
   tags : SUBSET (Units \cup {Lab, Template}), address : Hosts \cup {0},
   nic : {Want[d].nic : d \in Deploys} \cup {TemplateNic, ""}, running : BOOLEAN]
RunStates ==
  [at : Nat \ {0}, pc : Stages \cup {"never", "waiting", "failed", "finished"},
   address : Hosts \cup {0}, vmid : Vmids \cup {0}, exists : BOOLEAN, changed : BOOLEAN]
Config == [vmid : Vmids \cup {0}, source : Hosts \cup {0}]

TypeOK ==
  /\ guests \in [Vmids -> GuestStates]
  /\ run \in [Runs -> RunStates] /\ \A r \in Runs : run[r].at <= Len(Chain[r])
  /\ conf \in [Runs -> [{"lxc", "qemu"} -> Config]]
  /\ placed \in [Vmids -> SUBSET Deploys]
  /\ crashes \in 0..MaxCrashes[ThisLab] /\ others \in 0..MaxOthers

(* A deploy installs only on the guest made for its unit, never on another *)
(* unit's, another estate's or an operator's guest that has the VMID       *)
(* (find-or-create-host.yml's estate isolation; lxc-create.yml's refusal). *)
OnOwnGuest == \A v \in Vmids : \A d \in placed[v] : guests[v].name = Want[d].unit

(* No two guests of the platform are configured with one address, though   *)
(* nothing but the derived VMID keeps two overlapping runs apart and an    *)
(* operator's VMID encodes no address (generate-ip.yml, allocate-ip.py).   *)
AddressesDiffer ==
  \A v, x \in Present : v # x /\ guests[v].address # 0 => guests[v].address # guests[x].address

(* An instance is never made two guests, whatever killed runs and a Remove  *)
(* that kept the guest leave behind (pbs.yml: "a fresh generate-ip would   *)
(* otherwise allocate a second IP/VMID and clone a duplicate").  A stack's *)
(* VM killed before its configuration is found by no later run.            *)
OneGuestPerInstance ==
  \A d \in Deploys : Want[d].route = "instance" =>
    Cardinality({v \in Present : guests[v].name = Want[d].unit}) <= 1

(* A guest made for a deploy with an operator's VMID has that VMID         *)
(* (ip-to-vmid-guest.yml: "still honored untouched"), unless an earlier    *)
(* deploy of the chain left a derived one of its kind; the replacement of  *)
(* a guest with a retained volume never takes the VMID that owns the       *)
(* volume, whatever is free when it looks (avoid-vmid-collision.yml).      *)
FirstOfKind(d) ==
  \A r \in Runs : \A i, j \in DOMAIN Chain[r] :
    i < j /\ Chain[r][j] = d => Want[Chain[r][i]].kind # Want[d].kind
VmidAsMeant ==
  /\ \A v \in Vmids : \A d \in placed[v] :
       Want[d].vmid # 0 /\ FirstOfKind(d) => v = Want[d].vmid
  /\ \A d \in Deploys : Want[d].retained # 0 => guests[Want[d].retained].name # Want[d].unit

(* Started again after any failure, every run carries out its whole chain  *)
(* (bootstrap.yml: "Re-running after any failure is safe"), unless a guest *)
(* of somebody else took an address that a deploy is pinned to.  A run     *)
(* that looks for a VM by its name or tag is left out: killed between      *)
(* clone and configuration, it is refused from then on.                    *)
LooksForVm(r) == \E i \in DOMAIN Chain[r] :
  Want[Chain[r][i]].kind = "qemu" /\ Want[Chain[r][i]].route # "declared"
PinTaken == \E d \in Deploys :
  Want[d].pin # 0 /\ guests[Want[d].pin].name \notin {"", Want[d].unit}
RerunsFinish ==
  \A r \in Runs : LooksForVm(r) \/ <>(PinTaken \/ run[r].pc \in {"never", "finished"})
=============================================================================

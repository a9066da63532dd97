-------------------------- MODULE MCGuestAllocation --------------------------
(* Small labs: what each run deploys, and the overlap and bounds, are      *)
(* chosen in the configurations.                                           *)
EXTENDS GuestAllocation, TLC
CONSTANTS caddy, ntfy, sso, media, k3s, pbs, pbs2, lcaddy, lntfy, lsso, lmedia, lk3s,
          r1, r2, l1, l2

Base == [unit |-> "", kind |-> "lxc", route |-> "instance", pool |-> {2, 3, 4}, pin |-> 0,
         vmid |-> 0, retained |-> 0, nic |-> "flat"]
Lxc(u)      == [Base EXCEPT !.unit = u]
StackVm(u)  == [Base EXCEPT !.unit = u, !.kind = "qemu", !.route = "stack"]
StackLxc(u) == [Base EXCEPT !.unit = u, !.route = "stack"]
Node(u, a)  == [Base EXCEPT !.unit = u, !.kind = "qemu", !.route = "declared", !.pin = a]
Pbs(keep)   == [Base EXCEPT !.unit = "_pbs", !.kind = "qemu", !.retained = keep]

FiveHosts == 1..5
SixVmids  == 1..6
Gateway   == {1}

Containers == {"lxc"}

(* Two labs, each of two runs.  In the first, whose runs do not overlap, a *)
(* chain of PBS, whose volume is owned by an address' VMID, a native LXC   *)
(* and a stack VM; a second run that makes a cluster node, an LXC with an  *)
(* operator's VMID, an app on the stack after its type was changed, and    *)
(* another PBS to which the operator gave the volume owner's own VMID.  In *)
(* the second, whose runs overlap, native LXCs, of which one may be        *)
(* removed and one is pinned, a stack on an LXC and a cluster node.        *)
TheRuns    == {r1, r2, l1, l2}
TheDeploys == {caddy, sso, pbs, k3s, ntfy, media, pbs2, lcaddy, lsso, lmedia, lk3s, lntfy}
TheChain   == r1 :> <<pbs, caddy, sso>> @@ r2 :> <<k3s, ntfy, media, pbs2>>
              @@ l1 :> <<lcaddy, lsso>> @@ l2 :> <<lmedia, lk3s, lntfy>>
Wide(w)    == [w EXCEPT !.pool = 2..5]
TheWant    == caddy :> Lxc("_caddy") @@ sso :> StackVm("_.stack+sso") @@ pbs :> Pbs(2)
              @@ k3s :> Node("_.cluster+k3s", 1)
              @@ ntfy :> [Lxc("_ntfy") EXCEPT !.vmid = 6]
              @@ media :> StackLxc("_.stack+sso")
              @@ pbs2 :> [Pbs(2) EXCEPT !.unit = "_pbs2", !.vmid = 2]
              @@ lcaddy :> Wide(Lxc("_caddy"))
              @@ lntfy :> [Wide(Lxc("_ntfy")) EXCEPT !.pin = 5]
              @@ lsso :> Wide(StackLxc("_.stack+sso"))
              @@ lmedia :> Wide(StackLxc("_.stack+sso"))
              @@ lk3s :> Node("_.cluster+k3s", 1)
TwoLabs    == {{r1, r2}, {l1, l2}}
OneOrTwo   == [lab \in TwoLabs |-> IF l1 \in lab THEN 2 ELSE 1]
ApartOrNot == {{r1}, {r2}, {l1}, {l2}, {l1, l2}}

(* Stack VMs of two estates, deployed by two overlapping runs.             *)
EstateRuns    == {r1, r2}
EstateLab     == {EstateRuns}
NoCrash       == [lab \in EstateLab |-> 0]
Overlapping   == SUBSET EstateRuns
EstateDeploys == {sso, media}
EstateChain   == r1 :> <<sso>> @@ r2 :> <<media>>
EstateWant    == sso :> StackVm("_.stack+media-home") @@ media :> StackVm("_.stack+media-work")
=============================================================================

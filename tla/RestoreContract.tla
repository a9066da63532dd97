---------------------------- MODULE RestoreContract ----------------------------
(***************************************************************************)
(* What a restore promises, whatever it restores.  An application owns a   *)
(* state of several parts.  A run may displace parts while it works, but   *)
(* every displaced part is kept somewhere; the run ends by accepting the   *)
(* restored state as a whole, by saying that nothing is changed, or with   *)
(* neither said.  Parts it did not put back itself are put back later by   *)
(* the operator.  RestoreSwap and ServerRecovery implement it.             *)
(***************************************************************************)
CONSTANT Parts

VARIABLES
    owned,  \* the state the application owns: last written, or last accepted
    keeps,  \* this application's restores keep what they displace
    home,   \* the parts whose owned state is where the application looks for it
    kept,   \* the parts of whose owned state there is a copy elsewhere
    found,  \* the parts that were at home when the run under way began
    told    \* what the last run said, "running" until then

vars == <<owned, keeps, home, kept, found, told>>

Says == {"nothing", "running", "accepted", "unchanged", "unsettled"}

TypeOK ==
    /\ keeps \in BOOLEAN /\ told \in Says
    /\ home \subseteq Parts /\ kept \subseteq Parts /\ found \subseteq Parts

Whole == keeps => home \cup kept = Parts

Init == home = Parts /\ TypeOK /\ told = "nothing" /\ found = {}

\* The application changes what it owns, while all of it is at home.
Write ==
    /\ home = Parts /\ home' = Parts
    /\ UNCHANGED <<found, told>>

Begin ==
    /\ told # "running" /\ told' = "running"
    /\ found' = home /\ UNCHANGED <<owned, home>>

\* A run moves parts, without losing any.
Work == told = "running" /\ UNCHANGED <<owned, found, told>>

\* The restored state becomes the owned one, in all parts at once.
Accept ==
    /\ told = "running" /\ told' = "accepted"
    /\ home' = Parts /\ found' = {}

\* "The original is back": every part is where the run found it, or better.
Return ==
    /\ told = "running" /\ told' = "unchanged"
    /\ found \subseteq home' /\ found' = {} /\ UNCHANGED owned

\* The run dies or gives up: some parts may be left displaced.
GiveUp ==
    /\ told = "running" /\ told' = "unsettled"
    /\ found' = {} /\ UNCHANGED owned

\* It dies before it told what it had accepted.
Forget ==
    /\ told = "accepted" /\ told' = "unsettled"
    /\ UNCHANGED <<owned, home, found>>

\* Between runs the parts only come home; copies go once they are not needed.
PutBack ==
    /\ told # "running" /\ home \subseteq home'
    /\ UNCHANGED <<owned, found, told>>

Step == Write \/ Begin \/ Work \/ Accept \/ Return \/ GiveUp \/ Forget \/ PutBack

Next == Step /\ Whole' /\ TypeOK' /\ UNCHANGED keeps

Spec == Init /\ [][Next]_vars
=============================================================================

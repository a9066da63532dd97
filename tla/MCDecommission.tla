--------------------------- MODULE MCDecommission ---------------------------
(* One guest of each class, or the runner and one guest.                   *)
EXTENDS Decommission
CONSTANTS app, template, rundeck
AllClasses  == {app, template, rundeck}
TwoGuests   == {app, rundeck}
AppTemplate == {template}
NoTemplate  == {}

(* One interruption and one intervention beside two faulty tasks; or two   *)
(* interventions, so that something can be removed and brought back.       *)
Small(i, f, o) == [interrupts |-> i, faults |-> f, outside |-> o]
TwoWays      == {Small(1, 2, 1), Small(0, 0, 2)}
OneInterrupt == {Small(1, 0, 0)}
=============================================================================

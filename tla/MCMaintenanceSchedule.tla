----------------------- MODULE MCMaintenanceSchedule -----------------------
(* A week of two days of three minutes, two applications on one stack.     *)
EXTENDS MaintenanceSchedule, TLC

CONSTANTS lab, stack, a, b

Window(days, start, duration) ==
  [mode |-> "window", days |-> days, start |-> start, duration |-> duration]
Always  == [Inherit EXCEPT !.mode = "always"]
NeverDo == [Inherit EXCEPT !.mode = "never"]

TwoApps   == {a, b}
Shared    == [x \in TwoApps |-> <<lab, stack, x>>]
Declared  ==
  (lab :> {Always, Window({0, 1}, 1, 3)}) @@ (stack :> {Inherit, Window({0, 1}, 1, 1)})
  @@ (a :> {Inherit, Window({0}, 0, 5)})
  @@ (b :> {NeverDo, Window({0, 1}, 2, 2)})
MidnightOnly == {0}
=============================================================================

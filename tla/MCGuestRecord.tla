--------------------------- MODULE MCGuestRecord ---------------------------
(* Two applications whose names differ, and one whose tag is the second's, *)
(* two devices whose mappings share a slug and one with its own, and two   *)
(* jobs side by side.                                                      *)
EXTENDS GuestRecord, TLC
CONSTANTS app, sibling, alias, url, dash, underscore, usb, lab, hand, j1, j2
TheInstances == {app, sibling, alias}
TheDetails == {url}
TheToken == [i \in TheInstances |-> IF i = app THEN <<"_", "app">> ELSE <<"_", "sibling">>]
TheDevices == {dash, underscore, usb}
TheSlug == [d \in TheDevices |-> IF d = usb THEN "usb" ELSE "ha-zigbee"]
TheRequest == {lab}
ByHand == {hand}
TwoJobs == {j1, j2}
\* What has one tag, and the jobs, may be exchanged
Exchanged == {f @@ g @@ h : f \in Permutations({dash, underscore}),
                            g \in Permutations({sibling, alias}), h \in Permutations(TwoJobs)}
=============================================================================

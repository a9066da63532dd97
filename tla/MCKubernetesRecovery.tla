----------------------- MODULE MCKubernetesRecovery -----------------------
(* Two Deployments, two parts, the schedule's backup Job and, in one       *)
(* configuration, Backup App's beside it.                                  *)
EXTENDS KubernetesRecovery
CONSTANTS web, api, db, vol, nightly, manual
TwoDeployments == {web, api}
TwoParts  == {db, vol}
Scheduled == {nightly}
BothJobs  == {nightly, manual}
=============================================================================

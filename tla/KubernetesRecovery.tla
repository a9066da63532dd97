------------------------- MODULE KubernetesRecovery -------------------------
(***************************************************************************)
(* Backup and restore of an application on Kubernetes.  Backup pods are    *)
(* made from templates/kubernetes/recovery-backup.yaml.j2 by the CronJob   *)
(* and by Backup App; each runs kubernetes-recovery-scale.py to quiesce    *)
(* the Deployments and to resume them.  A restore is a play                *)
(* (tasks/kubernetes/recovery-restore.yml) with a Job of its own           *)
(* (recovery-restore.yaml.j2) that outlives the play.  What they know of   *)
(* one another is an annotation on each Deployment.                        *)
(*                                                                         *)
(* A call to the Kubernetes API is one step.  It may fail, a pod may be    *)
(* killed after any step or told to terminate, and the play may die, with  *)
(* neither its rescue nor anything else.  Loops over Deployments take      *)
(* them in any order.                                                      *)
(***************************************************************************)
EXTENDS Naturals, Sequences, SequencesExt

CONSTANTS
    Deployments,  \* the Deployments that a backup and a restore stop
    Parts,        \* the archived parts of the application's state
    Database,     \* the part that is a database, if the application has one
    Jobs,         \* the backup Jobs: the schedule's, and Backup App's
    Races,        \* a restore may put its marks on while a backup is under way
    MaxWrites,    \* bound: states the application writes
    MaxTroubles   \* bound: calls, dumps, uploads and waits that fail, and
                  \* pods, Jobs and plays that are killed

ASSUME DatabaseAssumption == Database \in Parts
\* NAMESPACE_DEPLOYMENTS must be a non-empty list
ASSUME DeploymentsAssumption == Deployments # {}
ASSUME BoundsAssumption == {MaxWrites, MaxTroubles} \subseteq Nat

Torn     == MaxWrites + 1                   \* an emptied or half-filled part
Versions == 0..Torn
State(v) == [p \in Parts |-> v]
Whole(s) == \E v \in 0..MaxWrites : s = State(v)

Quiesced     == "backup-quiesced"
InProgress   == "restore-in-progress"
Failed       == "restore-failed"
RestoreMarks == {InProgress, Failed}

VARIABLES
    dumped,    \* the application has a database: it is dumped before the volumes,
               \* by an init container, which is also the one that quiesces
    replicas,  \* the replicas a Deployment asks for
    running,   \* the Deployments that have a pod
    mark,      \* the recovery-state annotation, "" when there is none
    data,      \* the version each part of the application's state has
    points,    \* the recovery points in PBS, oldest first
    pod,       \* each backup Job's pod
    play,      \* the restore play
    job,       \* the restore Job
    accepted,  \* the operator started a failed target as it stands
    written,   \* the newest version
    spent      \* the troubles there have been

cluster == <<replicas, running, mark>>
stored  == <<data, written>>
rest    == <<play, job, accepted, dumped>>
vars    == <<cluster, stored, points, pod, rest, spent>>

NoPod   == [at |-> "idle", todo |-> {}, unmarked |-> {}, names |-> {}, undo |-> FALSE,
            got |-> State(Torn)]
NoPlay  == [at |-> "idle", todo |-> Deployments, failed |-> FALSE, point |-> State(0)]
NoJob   == [at |-> "none", left |-> {}, filling |-> {}, point |-> State(0)]

Init ==
    /\ dumped \in BOOLEAN
    /\ replicas = [d \in Deployments |-> 1] /\ running = Deployments
    /\ mark = [d \in Deployments |-> ""]
    /\ data = State(0) /\ written = 0
    /\ points = <<State(0)>>
    /\ pod = [j \in Jobs |-> NoPod] /\ play = NoPlay /\ job = NoJob
    /\ accepted = FALSE
    /\ spent = 0

Trouble == spent < MaxTroubles /\ spent' = spent + 1

-----------------------------------------------------------------------------
(* The cluster and the application *)

\* The controllers bring the pods to what a Deployment asks for
Reconcile ==
    /\ \E d \in Deployments :
          \/ replicas[d] = 0 /\ d \in running /\ running' = running \ {d}
          \/ replicas[d] = 1 /\ d \notin running /\ running' = running \cup {d}
    /\ UNCHANGED <<replicas, mark, stored, points, pod, rest, spent>>

\* The application changes its state; one it finds torn stays so
Write ==
    /\ running # {} /\ Whole(data) /\ written < MaxWrites
    /\ written' = written + 1 /\ data' = State(written')
    /\ UNCHANGED <<cluster, points, pod, rest, spent>>

\* One call on one Deployment of a loop
Scale(d, n)    == replicas' = [replicas EXCEPT ![d] = n] /\ UNCHANGED <<running, mark>>
Annotate(d, m) == mark' = [mark EXCEPT ![d] = m] /\ UNCHANGED <<replicas, running>>

-----------------------------------------------------------------------------
(* A backup pod.  stop(): check, mark, down, zero (with undo, when one of  *)
(* the last two failed).  start(): verify, up, wait, then clear and unmark *)
(* one by one.  Between them: dump, push, prune.                           *)

Becomes(j, at, todo) == pod' = [pod EXCEPT ![j].at = at, ![j].todo = todo]
Take(j, d, then, next) ==
    LET left == pod[j].todo \ {d} IN
    IF left = {} THEN Becomes(j, then, next) ELSE Becomes(j, pod[j].at, left)
At(j, at) == pod[j].at = at
BackupOnly == UNCHANGED <<stored, rest, spent>>

\* The traps: the dump container resumes whenever it fails, the push
\* container only what it, or the dump container, has stopped
Exit(j) ==
    IF dumped \/ pod[j].at \in {"push", "prune"}
    THEN pod' = [pod EXCEPT ![j] = [NoPod EXCEPT !.at = "verify", !.todo = Deployments,
                                                 !.names = Deployments]]
    ELSE pod' = [pod EXCEPT ![j] = NoPod]

\* Between the play's first mark and its last, another pod's check is a race
Marking == play.at = "mark"

Attempt(j) ==
    /\ At(j, "idle") /\ (Races \/ ~Marking)
    /\ pod' = [pod EXCEPT ![j] = [NoPod EXCEPT !.at = "check", !.todo = Deployments]]
    /\ UNCHANGED <<cluster, points>> /\ BackupOnly

\* Mutant for QuiesceEnds: zero replicas are always ambiguous.
MutantZeroRefused(d) == mark[d] \in {"", Quiesced} /\ replicas[d] = 1

\* The application was left as an interrupted backup leaves it, or runs
MayStop(d) == mark[d] = Quiesced \/ (mark[d] = "" /\ replicas[d] = 1)

Check(j) ==
    /\ At(j, "check")
    /\ \E d \in pod[j].todo :
          LET left     == pod[j].todo \ {d}
              unmarked == IF mark[d] = Quiesced THEN pod[j].unmarked ELSE pod[j].unmarked \cup {d}
              next     == IF left # {} THEN <<"check", left>>
                          ELSE IF unmarked # {} THEN <<"mark", unmarked>>
                          ELSE <<"down", Deployments>>
          IN IF MayStop(d)
             THEN pod' = [pod EXCEPT ![j].at = next[1], ![j].todo = next[2],
                                     ![j].unmarked = unmarked]
             ELSE Exit(j)
    /\ UNCHANGED <<cluster, points>> /\ BackupOnly

\* Mutant: the marker written is not the marker the checks know.
MutantMark(j) ==
    /\ At(j, "mark")
    /\ \E d \in pod[j].todo : Annotate(d, "quiesced") /\ Take(j, d, "down", Deployments)
    /\ UNCHANGED points /\ BackupOnly

Mark(j) ==
    /\ At(j, "mark")
    /\ \E d \in pod[j].todo : Annotate(d, Quiesced) /\ Take(j, d, "down", Deployments)
    /\ UNCHANGED points /\ BackupOnly

Down(j) ==
    /\ At(j, "down")
    /\ \E d \in pod[j].todo :
          /\ Scale(d, 0)
          /\ LET left == pod[j].todo \ {d} IN
             pod' = [pod EXCEPT ![j].at = IF left = {} THEN "zero" ELSE "down",
                                ![j].todo = left, ![j].names = @ \cup {d}]
    /\ UNCHANGED points /\ BackupOnly

\* Mutant: the Deployments ask for no pods, but the pods are not waited for.
MutantZero(j) ==
    /\ At(j, "zero")
    /\ IF dumped THEN Becomes(j, "dump", {}) ELSE Becomes(j, "push", Parts)
    /\ UNCHANGED <<cluster, points>> /\ BackupOnly

Zero(j) ==
    /\ At(j, "zero") /\ running = {}
    /\ IF dumped THEN Becomes(j, "dump", {}) ELSE Becomes(j, "push", Parts)
    /\ UNCHANGED <<cluster, points>> /\ BackupOnly

Dump(j) ==
    /\ At(j, "dump")
    /\ pod' = [pod EXCEPT ![j].at = "push", ![j].todo = Parts \ {Database},
                          ![j].got[Database] = data[Database]]
    /\ UNCHANGED <<cluster, points>> /\ BackupOnly

\* The upload reads one volume after the other; PBS shows the point when
\* it has them all
Push(j) ==
    /\ At(j, "push")
    /\ \E p \in pod[j].todo :
          LET got  == [pod[j].got EXCEPT ![p] = data[p]]
              left == pod[j].todo \ {p}
          IN /\ pod' = [pod EXCEPT ![j].at = IF left = {} THEN "prune" ELSE "push",
                                   ![j].todo = left, ![j].got = got]
             /\ points' = IF left = {} THEN Append(points, got) ELSE points
    /\ UNCHANGED cluster /\ BackupOnly

\* --keep-last 2, on one day: what --keep-daily adds there is the newest
Pruned(ps) == IF Len(ps) <= 2 THEN ps ELSE SubSeq(ps, Len(ps) - 1, Len(ps))

Prune(j) ==
    /\ At(j, "prune")
    /\ points' = Pruned(points) /\ Exit(j)
    /\ UNCHANGED cluster /\ BackupOnly

\* start() refuses what a backup has not marked
Verify(j) ==
    /\ At(j, "verify")
    /\ \E d \in pod[j].todo : IF mark[d] = Quiesced THEN Take(j, d, "up", pod[j].names)
                                                    ELSE pod' = [pod EXCEPT ![j] = NoPod]
    /\ UNCHANGED <<cluster, points>> /\ BackupOnly

Up(j) ==
    /\ At(j, "up")
    /\ \E d \in pod[j].todo : Scale(d, 1) /\ Take(j, d, "wait", pod[j].names)
    /\ UNCHANGED points /\ BackupOnly

Wait(j) ==
    /\ At(j, "wait") /\ pod[j].names \subseteq running
    /\ Becomes(j, "clear", pod[j].names)
    /\ UNCHANGED <<cluster, points>> /\ BackupOnly

\* An undo ends in the exception that led to it, a start() ends the pod
Ended(j) == IF pod[j].undo THEN Exit(j) ELSE pod' = [pod EXCEPT ![j] = NoPod]

Clear(j) ==
    /\ At(j, "clear")
    /\ \E d \in pod[j].todo :
          IF mark[d] = Quiesced THEN pod' = [pod EXCEPT ![j].at = "unmark", ![j].unmarked = {d}]
                                ELSE Ended(j)
    /\ UNCHANGED <<cluster, points>> /\ BackupOnly

Unmark(j) ==
    /\ At(j, "unmark")
    /\ \E d \in pod[j].unmarked :
          /\ Annotate(d, "")
          /\ IF pod[j].todo = {d} THEN Ended(j) ELSE Becomes(j, "clear", pod[j].todo \ {d})
    /\ UNCHANGED points /\ BackupOnly

\* A call, a wait, the dump, the upload or the pruning fails
PodFails(j) ==
    /\ pod[j].at # "idle" /\ Trouble
    /\ CASE pod[j].at \in {"down", "zero"} /\ pod[j].names # {} /\ ~pod[j].undo ->
              pod' = [pod EXCEPT ![j].at = "up", ![j].todo = pod[j].names, ![j].undo = TRUE]
         [] pod[j].at \in {"verify", "up", "wait", "clear", "unmark"} -> Ended(j)
         [] OTHER -> Exit(j)
    /\ UNCHANGED <<cluster, stored, points, rest>>

\* Told to terminate, the shell takes its trap when the command ends
Terminate(j) ==
    /\ pod[j].at \in {"dump", "push", "prune"} /\ Trouble
    /\ Exit(j)
    /\ UNCHANGED <<cluster, stored, points, rest>>

\* Killed; or, while the push container's stop() ran, told to terminate: its
\* trap does not yet know that the application is stopped
PodDies(j) ==
    /\ pod[j].at # "idle" /\ Trouble
    /\ pod' = [pod EXCEPT ![j] = NoPod]
    /\ UNCHANGED <<cluster, stored, points, rest>>

PodRuns(j) ==
    \/ Attempt(j) \/ Check(j) \/ Mark(j) \/ Down(j) \/ Zero(j) \/ Dump(j)
    \/ Push(j) \/ Prune(j) \/ Verify(j) \/ Up(j) \/ Wait(j) \/ Clear(j) \/ Unmark(j)

-----------------------------------------------------------------------------
(* The restore play and its Job *)

\* The point to restore is the play's until the Job has it
Goes(at) == play' = [at |-> at, todo |-> Deployments, failed |-> FALSE,
                     point |-> IF at \in {"stop", "gone", "run"} THEN play.point ELSE State(0)]
RestoreOnly == UNCHANGED <<points, pod, dumped>>

Restore ==
    /\ play.at = "idle"
    /\ Races \/ \A j \in Jobs : At(j, "idle")
    /\ \E i \in DOMAIN points :
          play' = [at |-> "mark", todo |-> Deployments, failed |-> FALSE, point |-> points[i]]
    /\ UNCHANGED <<cluster, stored, job, accepted, spent>> /\ RestoreOnly

\* What a loop does to one Deployment
Effect(at, d) == CASE at = "mark"       -> Annotate(d, InProgress)
                   [] at = "markFailed" -> Annotate(d, Failed)
                   [] at = "clear"      -> Annotate(d, "")
                   [] at = "start"      -> Scale(d, 1)
                   [] OTHER             -> Scale(d, 0)

\* One item of a loop; the loop goes on after an item that failed
Item(at) ==
    /\ play.at = at
    /\ \E d \in play.todo :
          \/ /\ Effect(at, d) /\ play' = [play EXCEPT !.todo = @ \ {d}] /\ UNCHANGED spent
          \/ /\ Trouble /\ play' = [play EXCEPT !.todo = @ \ {d}, !.failed = TRUE]
             /\ UNCHANGED cluster
    /\ UNCHANGED <<stored, job, accepted>> /\ RestoreOnly

MarkTarget   == Item("mark")
StopTarget   == Item("stop")
StartTarget  == Item("start")
ClearTarget  == Item("clear")
MarkFailed   == Item("markFailed")
KeepStopped  == Item("keepStopped")

\* The marks precede the block that has the rescue section, which ignores
\* its own failures
After(at) == CASE at = "mark" -> IF play.failed THEN "idle" ELSE "stop"
               [] at = "stop" -> IF play.failed THEN "markFailed" ELSE "gone"
               [] at = "start" -> IF play.failed THEN "markFailed" ELSE "back"
               [] at = "clear" -> IF play.failed THEN "markFailed" ELSE "idle"
               [] at = "markFailed" -> "keepStopped"
               [] at = "keepStopped" -> "idle"

EndOfLoop ==
    /\ play.at \in {"mark", "stop", "start", "clear", "markFailed", "keepStopped"}
    /\ play.todo = {} /\ Goes(After(play.at))
    /\ accepted' = (accepted /\ ~(play.at = "clear" /\ ~play.failed))
    /\ UNCHANGED <<cluster, stored, job, spent>> /\ RestoreOnly

PodsGone ==
    /\ play.at = "gone" /\ running = {} /\ Goes("run")
    /\ UNCHANGED <<cluster, stored, job, accepted, spent>> /\ RestoreOnly

\* run-job.yml removes the Job of an earlier restore before it creates its own
RunJob ==
    /\ play.at = "run" /\ Goes("job")
    /\ job' = [NoJob EXCEPT !.at = "stage", !.left = Parts, !.point = play.point]
    /\ UNCHANGED <<cluster, stored, accepted, spent>> /\ RestoreOnly

\* The database first; a part is emptied, then filled
JobStep ==
    /\ \/ /\ job.at = "stage" /\ job' = [job EXCEPT !.at = "replace"] /\ UNCHANGED data
       \/ /\ job.at = "replace" /\ job.filling = {}
          /\ \E p \in job.left :
                /\ dumped /\ Database \in job.left => p = Database
                /\ job' = [job EXCEPT !.left = @ \ {p}, !.filling = {p}]
                /\ data' = [data EXCEPT ![p] = Torn]
       \/ \E p \in job.filling :
             /\ job.at = "replace"
             /\ job' = IF job.left = {} THEN [NoJob EXCEPT !.at = "complete"]
                                         ELSE [job EXCEPT !.filling = {}]
             /\ data' = [data EXCEPT ![p] = job.point[p]]
    /\ UNCHANGED <<cluster, written, play, accepted, spent>> /\ RestoreOnly

JobDies ==
    /\ job.at \in {"stage", "replace"} /\ Trouble
    /\ job' = [NoJob EXCEPT !.at = "failed"]
    /\ UNCHANGED <<cluster, stored, play, accepted>> /\ RestoreOnly

\* Mutant: the play goes on after a Job that did not succeed.
MutantJobEnded ==
    /\ play.at = "job" /\ job.at \in {"complete", "failed"} /\ Goes("start")
    /\ UNCHANGED <<cluster, stored, job, accepted, spent>> /\ RestoreOnly

JobEnded ==
    /\ play.at = "job" /\ job.at \in {"complete", "failed"}
    /\ Goes(IF job.at = "complete" THEN "start" ELSE "markFailed")
    /\ UNCHANGED <<cluster, stored, job, accepted, spent>> /\ RestoreOnly

TargetBack ==
    /\ play.at = "back" /\ running = Deployments /\ Goes("clear")
    /\ UNCHANGED <<cluster, stored, job, accepted, spent>> /\ RestoreOnly

\* A wait runs out, or a task between the loops fails
PlayFails ==
    /\ play.at \in {"gone", "run", "job", "back"} /\ Trouble /\ Goes("markFailed")
    /\ UNCHANGED <<cluster, stored, job, accepted>> /\ RestoreOnly

PlayDies ==
    /\ play.at # "idle" /\ Trouble /\ play' = NoPlay
    /\ UNCHANGED <<cluster, stored, job, accepted>> /\ RestoreOnly

\* The failure message: "start the application as it stands", the first one
OperatorStarts ==
    /\ play.at = "idle" /\ Failed \in {mark[d] : d \in Deployments}
    /\ \E d \in Deployments : Scale(d, 1)
    /\ accepted' = TRUE
    /\ UNCHANGED <<stored, play, job, spent>> /\ RestoreOnly

PlayRuns ==
    \/ MarkTarget \/ StopTarget \/ StartTarget \/ ClearTarget \/ MarkFailed \/ KeepStopped
    \/ EndOfLoop \/ PodsGone \/ RunJob \/ JobEnded \/ TargetBack

Next ==
    \/ Reconcile \/ Write
    \/ \E j \in Jobs : PodRuns(j) \/ PodFails(j) \/ Terminate(j) \/ PodDies(j)
    \/ Restore \/ PlayRuns \/ PlayFails \/ PlayDies \/ JobStep \/ JobDies
    \/ OperatorStarts

Spec == Init /\ [][Next]_vars

FairSpec == /\ Spec /\ WF_vars(Reconcile) /\ WF_vars(JobStep) /\ WF_vars(PlayRuns)
            /\ \A j \in Jobs : WF_vars(PodRuns(j))

-----------------------------------------------------------------------------

Pods ==
    [at : {"idle", "check", "mark", "down", "zero", "dump", "push", "prune",
           "verify", "up", "wait", "clear", "unmark"},
     todo : SUBSET (Deployments \cup Parts), unmarked : SUBSET Deployments,
     names : SUBSET Deployments, undo : BOOLEAN, got : [Parts -> Versions]]
Plays ==
    [at : {"idle", "mark", "stop", "gone", "run", "job", "start", "back",
           "clear", "markFailed", "keepStopped"},
     todo : SUBSET Deployments, failed : BOOLEAN, point : [Parts -> Versions]]
RestoreJobs ==
    [at : {"none", "stage", "replace", "complete", "failed"}, left : SUBSET Parts,
     filling : SUBSET Parts, point : [Parts -> Versions]]

TypeOK ==
    /\ dumped \in BOOLEAN
    /\ replicas \in [Deployments -> {0, 1}] /\ running \subseteq Deployments
    /\ mark \in [Deployments -> RestoreMarks \cup {"", Quiesced}]
    /\ data \in [Parts -> Versions] /\ written \in 0..MaxWrites
    /\ points \in Seq([Parts -> Versions])
    /\ pod \in [Jobs -> Pods] /\ play \in Plays /\ job \in RestoreJobs
    /\ accepted \in BOOLEAN
    /\ spent \in 0..MaxTroubles

(* Every point in PBS holds the state the application had at one moment:    *)
(* its database and volumes agree, and nothing of an incomplete restore is  *)
(* ever archived, whatever was killed and however often it was tried again  *)
(* (kubernetes-recovery-scale.py:4-5, recovery-backup.yaml.j2:276-277).     *)
PointsAreWhole == \A i \in DOMAIN points : Whole(points[i])

(* No pod of the application runs on a state that a restore has replaced    *)
(* only in part, or is still replacing, unless the operator started it so:  *)
(* neither a backup's traps and retries nor the play's own rescue bring it  *)
(* back too early (recovery-restore.yml: "Left down on purpose").           *)
NeverServesPartial == running # {} /\ ~accepted => Whole(data) /\ job.filling = {}

(* What a backup has stopped runs again: a Deployment that asks for no pod  *)
(* and carries a backup's mark asks for one again, or a restore has taken   *)
(* over.  An attempt killed at any step is made good by the next one        *)
(* (kubernetes-recovery-scale.py, stop(): "A hard-killed backup leaves its  *)
(* marker").                                                                *)
QuiesceEnds ==
    \A d \in Deployments :
        mark[d] = Quiesced /\ replicas[d] = 0
            ~> replicas[d] = 1 \/ \E e \in Deployments : mark[e] \in RestoreMarks
=============================================================================

---------------------------- MODULE RestoreSwap ----------------------------
(***************************************************************************)
(* The restore swap: ansible/tasks/recovery/restore-swap.yml and the       *)
(* script it runs per live path, scripts/restore-swap.sh.  A run extracts  *)
(* a recovery point into private staging, stops the application, moves     *)
(* each live path aside, installs the staged state, loads the database     *)
(* dump and starts the application; when a step fails after the stop, its  *)
(* rescue section puts the original back.                                  *)
(*                                                                         *)
(* One controller executes the tasks in order (`pc`), one loop item at a   *)
(* time (`todo`).  Any task may fail, a script may fail partway through    *)
(* its moves, and the controller may die between two tasks (the job is     *)
(* killed, or the guest becomes unreachable: neither runs rescue nor       *)
(* always).  A later run, or an operator, then meets what is left.         *)
(*                                                                         *)
(* Data is abstracted to items <<version, entry>>: version 0 is what the   *)
(* application held first, version r is what run r restores.               *)
(***************************************************************************)
EXTENDS Integers, FiniteSets

CONSTANTS
    Paths,        \* the live paths of the request (recovery_swap_paths)
    Mounts,       \* the paths declared `mount: true`
    Entries,      \* top-level entries of one path
    HasDatabase,  \* recovery_swap_database is given
    MaxRuns       \* bound: number of restore runs

ASSUME PathsAssumption == Mounts \subseteq Paths
ASSUME DatabaseAssumption == HasDatabase \in BOOLEAN
ASSUME RunsAssumption == MaxRuns \in Nat

Torn   == -1      \* a database half replaced by a failed load
NoDump == -2

Items  == (0..MaxRuns) \X Entries
Place  == [there : BOOLEAN, items : SUBSET Items]
Gone   == [there |-> FALSE, items |-> {}]
Dir(S) == [there |-> TRUE, items |-> S]
Partly(x, S) == [there |-> x.there, items |-> S]
Version(v) == {v} \X Entries

\* _swap_* and _application_restore_complete, as set at the start of a run
Facts == [stopped : BOOLEAN, replaced : BOOLEAN, dbFailed : BOOLEAN,
          hookFailed : BOOLEAN, rolledBack : BOOLEAN, complete : BOOLEAN]
NoFacts == [stopped |-> FALSE, replaced |-> FALSE, dbFailed |-> FALSE,
            hookFailed |-> FALSE, rolledBack |-> FALSE, complete |-> FALSE]

Phases == {"idle", "check", "extract", "stop", "dump", "stoppedHook", "aside",
           "install", "load", "replacedHook", "start", "verify", "cleanup",
           "halt", "rollback", "reload", "rollbackHook", "result", "unstage"}

VARIABLES
    pc,        \* the task the controller is about to run
    todo,      \* loop items the current task has not done yet
    failed,    \* some item of the current loop failed
    run,       \* number of the current (or last) run
    fact,      \* the run's facts
    live,      \* what is at each path
    prev,      \* each path's rollback copy, .restore-previous
    db,        \* version the named database holds, or Torn
    staging,   \* per run: its staging directory and the rollback dump inside
    services,  \* "running" or "stopped"
    \* History variables, read by the properties only:
    owned,     \* per path, the state the application owns: initial or last accepted
    ownedDb,   \* the same for the database
    startDb,   \* the database when the current run passed its check
    cut,       \* mounts whose entries a move left divided between two places
    blind      \* mounts whose rollback copy a rollback could not see

facts   == <<run, fact>>
files   == <<live, prev, cut, blind>>
history == <<owned, ownedDb, startDb>>
vars    == <<pc, todo, failed, run, fact, live, prev, db, staging, services,
             owned, ownedDb, startDb, cut, blind>>

Init ==
    /\ pc = "idle" /\ todo = {} /\ failed = FALSE /\ run = 0 /\ fact = NoFacts
    /\ live = [p \in Paths |-> Dir(Version(0))]
    /\ prev = [p \in Paths |-> Gone]
    /\ db = 0
    /\ staging = [r \in 1..MaxRuns |-> [there |-> FALSE, dump |-> NoDump]]
    /\ services = "running"
    /\ owned = live /\ ownedDb = 0 /\ startDb = 0 /\ cut = {} /\ blind = {}

-----------------------------------------------------------------------------
(* restore-swap.sh, one operator per command and outcome.                  *)

Put(p, here, copy) ==
    /\ live' = [live EXCEPT ![p] = here]
    /\ prev' = [prev EXCEPT ![p] = copy]

\* aside: a rename, or for a mount mkdir and a move of every entry.
Aside(p) ==
    /\ ~prev[p].there
    /\ live[p].there
    /\ Put(p, IF p \in Mounts THEN Dir({}) ELSE Gone, live[p])
    /\ UNCHANGED <<cut, blind>>

\* aside fails: nothing moved, or in a mount some entries did not.
AsideFails(p) ==
    \/ UNCHANGED files
    \/ /\ p \in Mounts /\ ~prev[p].there
       /\ \E S \in SUBSET live[p].items :
             /\ S # live[p].items
             /\ Put(p, Dir(live[p].items \ S), Dir(S))
       /\ cut' = cut \union {p} /\ UNCHANGED blind

\* install: refused in directory mode unless the path was moved aside first.
MayInstall(p) == p \in Mounts \/ (prev[p].there /\ ~live[p].there)

Install(p) ==
    /\ MayInstall(p)
    /\ Put(p, Dir(live[p].items \union Version(run)), prev[p])
    /\ UNCHANGED <<cut, blind>>

InstallFails(p) ==
    \/ UNCHANGED files
    \/ /\ MayInstall(p)
       /\ \E S \in SUBSET Version(run) : Put(p, Dir(live[p].items \union S), prev[p])
       /\ UNCHANGED <<cut, blind>>

\* rollback: without a rollback copy nothing is touched and the exit status is 0.
\* In a mount the copy is looked for as its owner, and any failure to look (the mount
\* went away) reads as "no copy".
Rollback(p) ==
    \/ /\ IF prev[p].there THEN Put(p, prev[p], Gone) ELSE UNCHANGED <<live, prev>>
       /\ UNCHANGED <<cut, blind>>
    \/ /\ p \in Mounts /\ prev[p].there
       /\ blind' = blind \union {p}
       /\ UNCHANGED <<live, prev, cut>>

\* rollback fails before it starts, while removing the replacement, or in a mount while
\* moving back.
RollbackFails(p) ==
    \/ UNCHANGED files
    \/ /\ prev[p].there
       /\ \/ /\ \E S \in SUBSET live[p].items : Put(p, Partly(live[p], S), prev[p])
             /\ UNCHANGED cut
          \/ p \notin Mounts /\ Put(p, Gone, prev[p]) /\ UNCHANGED cut
          \/ /\ p \in Mounts
             /\ \E S \in SUBSET prev[p].items : Put(p, Dir(S), Dir(prev[p].items \ S))
             /\ cut' = cut \union {p}
       /\ UNCHANGED blind

Cleanup(p) == Put(p, live[p], Gone) /\ UNCHANGED <<cut, blind>>

CleanupFails(p) ==
    /\ prev[p].there
    /\ \E S \in SUBSET prev[p].items : Put(p, live[p], Dir(S))
    /\ UNCHANGED <<cut, blind>>

-----------------------------------------------------------------------------
(* Ansible's control flow.  A loop task runs every item and fails at its   *)
(* end when any item failed.                                               *)

GoTo(next) == pc' = next /\ todo' = {} /\ UNCHANGED failed
GoLoop(next) == pc' = next /\ todo' = Paths /\ failed' = FALSE
Halt == GoTo("halt")     \* the block failed: enter its rescue section

\* One loop item is done, well or badly.
Item(p) ==
    /\ p \in todo /\ todo' = todo \ {p}
    /\ UNCHANGED <<pc, run, fact, db, staging, services, history>>
Well  == UNCHANGED failed
Badly == failed' = TRUE

\* "Read the request": a new run, before any change.
StartRun ==
    /\ pc = "idle" /\ run < MaxRuns
    /\ run' = run + 1 /\ fact' = NoFacts
    /\ GoTo("check")
    /\ UNCHANGED <<files, db, staging, services, history>>

\* Mutant: the check does not look for an earlier run's rollback copy.
MutantCheckPaths ==
    /\ pc = "check"
    /\ staging' = [staging EXCEPT ![run].there = TRUE]
    /\ \/ /\ \A p \in Paths : live[p].there
          /\ startDb' = db
          /\ GoTo("extract")
       \/ startDb' = startDb /\ GoTo("unstage")
    /\ UNCHANGED <<facts, files, db, services, owned, ownedDb>>

\* Create staging, then refuse a path that is missing or holds a rollback copy.
CheckPaths ==
    /\ pc = "check"
    /\ staging' = [staging EXCEPT ![run].there = TRUE]
    /\ \/ /\ \A p \in Paths : live[p].there /\ ~prev[p].there
          /\ startDb' = db
          /\ GoTo("extract")
       \/ startDb' = startDb /\ GoTo("unstage")
    /\ UNCHANGED <<facts, files, db, services, owned, ownedDb>>

\* Extract the archives, check the sources and the dump, run the staged hook.
Extract ==
    /\ pc = "extract"
    /\ GoTo("stop") \/ GoTo("unstage")
    /\ UNCHANGED <<facts, files, db, staging, services, history>>

StopServices ==
    /\ pc = "stop"
    /\ fact' = [fact EXCEPT !.stopped = TRUE]
    /\ \/ services' = "stopped" /\ GoTo("dump")
       \/ services' \in {services, "stopped"} /\ Halt
    /\ UNCHANGED <<run, files, db, staging, history>>

\* Mutant: the live database is not dumped before the load.
MutantDumpDatabase ==
    /\ pc = "dump"
    /\ GoTo("stoppedHook")
    /\ UNCHANGED <<facts, files, db, staging, services, history>>

DumpDatabase ==
    /\ pc = "dump"
    /\ \/ /\ staging' = IF HasDatabase THEN [staging EXCEPT ![run].dump = db] ELSE staging
          /\ GoTo("stoppedHook")
       \/ HasDatabase /\ UNCHANGED staging /\ Halt
    /\ UNCHANGED <<facts, files, db, services, history>>

StoppedHook ==
    /\ pc = "stoppedHook"
    /\ GoLoop("aside") \/ Halt
    /\ UNCHANGED <<facts, files, db, staging, services, history>>

MoveAside ==
    /\ pc = "aside"
    /\ \E p \in todo : Item(p) /\ ((Well /\ Aside(p)) \/ (Badly /\ AsideFails(p)))

InstallRestored ==
    /\ pc = "install"
    /\ \E p \in todo : Item(p) /\ ((Well /\ Install(p)) \/ (Badly /\ InstallFails(p)))

EndOfLoop ==
    /\ pc \in {"aside", "install"} /\ todo = {}
    /\ IF failed THEN Halt
       ELSE IF pc = "aside" THEN GoLoop("install") ELSE GoTo("load")
    /\ UNCHANGED <<facts, files, db, staging, services, history>>

\* _swap_database_replaced is recorded before the load; a failed load may be refused
\* by its guards or leave the database half replaced.
LoadDatabase ==
    /\ pc = "load"
    /\ fact' = [fact EXCEPT !.replaced = HasDatabase]
    /\ \/ db' = (IF HasDatabase THEN run ELSE db) /\ GoTo("replacedHook")
       \/ HasDatabase /\ db' \in {db, Torn} /\ Halt
    /\ UNCHANGED <<run, files, staging, services, history>>

ReplacedHook ==
    /\ pc = "replacedHook"
    /\ GoTo("start") \/ Halt
    /\ UNCHANGED <<facts, files, db, staging, services, history>>

StartRestored ==
    /\ pc = "start"
    /\ \/ services' = "running" /\ GoTo("verify")
       \/ services' \in {services, "running"} /\ Halt
    /\ UNCHANGED <<facts, files, db, staging, history>>

\* The health URL and the verified hook; then the restore is complete.
VerifyRestored ==
    /\ pc = "verify"
    /\ \/ /\ fact' = [fact EXCEPT !.complete = TRUE]
          /\ owned' = live /\ ownedDb' = db /\ cut' = {} /\ blind' = {}
          /\ GoLoop("cleanup")
       \/ UNCHANGED <<fact, owned, ownedDb, cut, blind>> /\ Halt
    /\ UNCHANGED <<run, live, prev, db, staging, services, startDb>>

RemoveCopies ==
    /\ pc = "cleanup"
    /\ \E p \in todo : Item(p) /\ ((Well /\ Cleanup(p)) \/ (Badly /\ CleanupFails(p)))

\* A failed cleanup ends the always section before "Remove staging".
EndOfCleanup ==
    /\ pc = "cleanup" /\ todo = {}
    /\ IF failed THEN GoTo("idle") ELSE GoTo("unstage")
    /\ UNCHANGED <<facts, files, db, staging, services, history>>

(* The rescue section: no failure in it but the hooks' and the database's  *)
(* is noticed before the rollback result is computed.                      *)

StopReplacement ==
    /\ pc = "halt"
    /\ services' \in {services, "stopped"}
    /\ GoLoop("rollback")
    /\ UNCHANGED <<facts, files, db, staging, history>>

PutBack ==
    /\ pc = "rollback"
    /\ \E p \in todo : Item(p) /\ ((Well /\ Rollback(p)) \/ (Badly /\ RollbackFails(p)))

EndOfRollback ==
    /\ pc = "rollback" /\ todo = {}
    /\ GoTo("reload")
    /\ UNCHANGED <<facts, files, db, staging, services, history>>

ReloadDatabase ==
    /\ pc = "reload"
    /\ \/ db' = (IF fact.replaced THEN staging[run].dump ELSE db) /\ UNCHANGED fact
       \/ /\ fact.replaced
          /\ db' \in {db, Torn}
          /\ fact' = [fact EXCEPT !.dbFailed = TRUE]
    /\ GoTo("rollbackHook")
    /\ UNCHANGED <<run, files, staging, services, history>>

RollbackHook ==
    /\ pc = "rollbackHook"
    /\ \/ UNCHANGED fact
       \/ fact' = [fact EXCEPT !.hookFailed = TRUE]
    /\ GoTo("result")
    /\ UNCHANGED <<run, files, db, staging, services, history>>

\* Mutant: the rollback loop's exit statuses are not looked at.
MutantRolledBack == ~fact.dbFailed /\ ~fact.hookFailed

\* `failed` still holds whether an item of the rollback loop failed.
RolledBack == ~failed /\ ~fact.dbFailed /\ ~fact.hookFailed

\* Mutant: the original services are started whatever the rollback's result.
MutantRecordResult ==
    /\ pc = "result"
    /\ fact' = [fact EXCEPT !.rolledBack = RolledBack]
    /\ services' \in {services, "running"}
    /\ GoTo("unstage")
    /\ UNCHANGED <<run, files, db, staging, history>>

\* Record the result and start the original, whose failure is only reported.
RecordResult ==
    /\ pc = "result"
    /\ fact' = [fact EXCEPT !.rolledBack = RolledBack]
    /\ services' \in (IF RolledBack THEN {services, "running"} ELSE {services})
    /\ GoTo("unstage")
    /\ UNCHANGED <<run, files, db, staging, history>>

\* Mutant: staging is always removed.
MutantMayUnstage == TRUE

MayUnstage == fact.complete \/ fact.rolledBack \/ ~fact.stopped

RemoveStaging ==
    /\ pc = "unstage"
    /\ staging' \in (IF MayUnstage
                     THEN {staging, [staging EXCEPT ![run].there = FALSE]}
                     ELSE {staging})
    /\ GoTo("idle")
    /\ UNCHANGED <<facts, files, db, services, history>>

RunStep ==
    \/ CheckPaths \/ Extract \/ StopServices \/ DumpDatabase \/ StoppedHook
    \/ MoveAside \/ InstallRestored \/ EndOfLoop \/ LoadDatabase
    \/ ReplacedHook \/ StartRestored \/ VerifyRestored \/ RemoveCopies
    \/ EndOfCleanup \/ StopReplacement \/ PutBack \/ EndOfRollback
    \/ ReloadDatabase \/ RollbackHook \/ RecordResult \/ RemoveStaging

-----------------------------------------------------------------------------
(* The environment.                                                        *)

\* The controller dies, or the guest becomes unreachable, between two tasks.
Crash ==
    /\ pc # "idle"
    /\ GoTo("idle")
    /\ UNCHANGED <<facts, files, db, staging, services, history>>

\* What the check's message asks of the operator: put the copy back with the
\* script, or remove it when the restored state was accepted.
OperatorPutsBack(p) ==
    /\ pc = "idle" /\ prev[p].there /\ live[p] # owned[p]
    /\ Rollback(p) \/ RollbackFails(p)
    /\ UNCHANGED <<pc, todo, failed, facts, db, staging, services, history>>

OperatorRemoves(p) ==
    /\ pc = "idle" /\ prev[p].there /\ live[p] = owned[p]
    /\ Cleanup(p)
    /\ UNCHANGED <<pc, todo, failed, facts, db, staging, services, history>>

Next ==
    \/ StartRun \/ RunStep \/ Crash
    \/ \E p \in Paths : OperatorPutsBack(p) \/ OperatorRemoves(p)

Spec == Init /\ [][Next]_vars

\* The controller executes tasks until the run ends.
FairSpec == Spec /\ WF_vars(RunStep)

-----------------------------------------------------------------------------
(* Properties.                                                             *)

TypeOK ==
    /\ pc \in Phases /\ todo \subseteq Paths /\ failed \in BOOLEAN
    /\ run \in 0..MaxRuns /\ fact \in Facts
    /\ live \in [Paths -> Place] /\ prev \in [Paths -> Place]
    /\ db \in Torn..MaxRuns
    /\ staging \in [1..MaxRuns -> [there : BOOLEAN, dump : NoDump..MaxRuns]]
    /\ services \in {"running", "stopped"}
    /\ owned \in [Paths -> Place] /\ ownedDb \in Torn..MaxRuns
    /\ startDb \in Torn..MaxRuns /\ cut \subseteq Mounts /\ blind \subseteq Mounts

\* Whatever fails, dies or is repeated, each path's owned state is whole in one of two
\* places: at the path or in its rollback copy.  Mounts whose entries a failed move
\* left divided are the exception (see InterruptedStepKeepsOriginal).
OriginalKept == \A p \in Paths \ cut : owned[p] \in {live[p], prev[p]}

\* The database the application owns is in the database or in a rollback dump that
\* some run's staging still keeps.
OwnedDatabaseKept ==
    \/ db = ownedDb
    \/ \E r \in 1..run : staging[r].there /\ staging[r].dump = ownedDb

\* "The original state is back" (restore-swap.yml:576): a run that reports a completed
\* rollback has put back every path, left no rollback copy there, and the database holds
\* what it held before the run.  A mount is excused that an interrupted move divided (see
\* InterruptedStepKeepsOriginal), or whose copy the rollback could not see.
RollbackIsComplete ==
    fact.rolledBack =>
        /\ \A p \in Paths \ (cut \union blind) : live[p] = owned[p] /\ ~prev[p].there
        /\ db = startDb

\* Services are started only on a state of which every part is accounted for: all of it
\* the restored state; or every path the owned one, those mounts excused, and the database
\* the owned one too.  There is one exception, and then the owned database is not lost.
\* A run that finds the database as an earlier run left it (half loaded, or restored under
\* paths that were put back) and fails before its own load puts back what it found
\* (restore-swap.yml:522 is skipped) and starts the services on it; the earlier run's
\* staging still holds the dump of the owned database.
InEarlierRun(v) == \E r \in 1..(run - 1) : staging[r].there /\ staging[r].dump = v
OriginalOrFound ==
    /\ \A p \in Paths \ (cut \union blind) : live[p] = owned[p]
    /\ db = ownedDb \/ (db = startDb /\ InEarlierRun(ownedDb))
WholeRestored ==
    /\ \A p \in Paths : live[p] = Dir(Version(run))
    /\ HasDatabase => db = run
StartsOnAccountedState ==
    [][services = "stopped" /\ services' = "running"
         => OriginalOrFound \/ WholeRestored]_vars

\* A run that entered its rescue section ends, with the original reported back or with
\* its staging (and the rollback dump inside) kept.
StagingKept == \E r \in 1..MaxRuns : r = run /\ staging[r].there
FailedRunSettles == pc = "halt" ~> pc = "idle" /\ (fact.rolledBack \/ StagingKept)

\* restore-swap.sh:4-5 says of a mount, too, that "rollback after an interrupted step
\* still puts the original back": no entry of the owned state is ever lost.
InterruptedStepKeepsOriginal ==
    \A p \in Paths : owned[p].items \subseteq live[p].items \union prev[p].items

-----------------------------------------------------------------------------
(* The contract a swap implements.  The parts are the paths and the        *)
(* database; a mount that a failed move divided, or whose copy a rollback  *)
(* could not see, is excused, as above.                                    *)

Database == "database"
Home ==
    {p \in Paths : live[p] = owned[p] \/ p \in cut \cup blind}
        \cup {x \in {Database} : db = ownedDb}
Kept ==
    {p \in Paths : prev[p] = owned[p]}
        \cup {x \in {Database} : \E r \in 1..run : staging[r].there /\ staging[r].dump = ownedDb}
\* Once a run has stopped the services, what it found is that every path was whole.
Ended == pc = "idle" \/ fact.complete \/ fact.rolledBack
Found ==
    IF Ended THEN {}
    ELSE IF ~fact.stopped THEN Home
    ELSE Paths \cup {x \in {Database} : startDb = ownedDb}
Told ==
    IF fact.complete THEN "accepted"
    ELSE IF ~Ended THEN "running"
    ELSE IF run = 0 THEN "nothing"
    ELSE IF fact.rolledBack \/ ~fact.stopped THEN "unchanged" ELSE "unsettled"

Contract == INSTANCE RestoreContract
    WITH Parts <- Paths \cup {Database}, owned <- <<owned, ownedDb>>, keeps <- TRUE,
         home <- Home, kept <- Kept, found <- Found, told <- Told

\* Seen from outside, a swap keeps the restore contract: no part is ever without its
\* owned state or a copy of it, the restored state is accepted in all parts at once, and
\* "the original state is back" is said only when every part is as the run found it.
KeepsContract == Contract!Spec

-----------------------------------------------------------------------------
(* The inductive strengthening of OriginalKept and RollbackIsComplete:     *)
(* which of the two places holds the owned state, phase by phase.          *)

\* Between the check and the end of the run a rollback copy can only be the original.
Swapping == Phases \ {"idle", "check", "cleanup", "unstage"}
CopyIsOriginal ==
    pc \in Swapping => \A p \in Paths \ cut : prev[p].there => prev[p] = owned[p]

\* A loop that has not failed has dealt with every path it is past.
AsideSoFar ==
    /\ pc = "aside" /\ ~failed => \A p \in Paths \ (todo \union cut) : prev[p] = owned[p]
    /\ pc = "install" => \A p \in Paths \ cut : prev[p] = owned[p]
InstalledSoFar ==
    /\ pc = "install" /\ ~failed => \A p \in Paths \ todo : live[p].there
    /\ pc \in {"load", "replacedHook", "start", "verify"} => \A p \in Paths : live[p].there
AcceptedIsLive == pc = "cleanup" => \A p \in Paths : live[p] = owned[p]
OwnedIsThere == \A p \in Paths : owned[p].there

PathInv ==
    /\ OwnedIsThere /\ OriginalKept /\ CopyIsOriginal
    /\ AsideSoFar /\ InstalledSoFar /\ AcceptedIsLive

\* The strengthening of RollbackIsComplete: which paths a rollback that has not failed
\* has put back, and why the dump it loads holds the database of before the run.
Back(P) == \A p \in P \ (cut \union blind) : live[p] = owned[p] /\ ~prev[p].there
RollbackInv ==
    /\ pc = "rollback" /\ ~failed => Back(Paths \ todo)
    /\ pc \in {"reload", "rollbackHook", "result"} /\ ~failed => Back(Paths)
    /\ fact.rolledBack => Back(Paths)

BeforeLoad == {"check", "extract", "stop", "dump", "stoppedHook", "aside", "install", "load"}
Dumped == fact.replaced \/ (HasDatabase /\ pc \in {"stoppedHook", "aside", "install", "load"})
DatabaseInv ==
    /\ pc # "idle" => run \in 1..MaxRuns
    /\ pc \in BeforeLoad => ~fact.replaced
    /\ Dumped => run \in 1..MaxRuns /\ staging[run].dump = startDb
    /\ pc \in Swapping /\ ~fact.replaced => db = startDb
    /\ pc \in {"rollbackHook", "result"} /\ ~fact.dbFailed => db = startDb
    /\ fact.rolledBack => pc \in {"unstage", "idle"} /\ db = startDb

\* The strengthening of OwnedDatabaseKept: until it accepts what it restored, a run keeps a
\* dump of what it found, which the application owns or an earlier run's staging holds.
DumpInv ==
    /\ OwnedDatabaseKept
    /\ \A r \in 1..MaxRuns :
         r > run \/ (r = run /\ ~fact.stopped) => staging[r].dump = NoDump
    /\ pc \in Swapping => staging[run].there
    /\ pc \in Swapping \/ (pc = "unstage" /\ fact.stopped /\ ~fact.complete)
         => startDb = ownedDb \/ InEarlierRun(ownedDb)

\* What a run has said it did, and that it found every path whole.
SaidInv ==
    /\ pc \in {"check", "extract", "stop"} => ~fact.stopped
    /\ pc \in Swapping \ {"extract", "stop"} => fact.stopped
    /\ pc \in Swapping \cup {"check"} => ~fact.complete
    /\ pc = "cleanup" => fact.complete
    /\ fact.complete => db = ownedDb
    /\ pc \in {"extract", "stop"} => \A p \in Paths \ cut : live[p] = owned[p]

\* The strengthening of StartsOnAccountedState: nothing is left of the original where the
\* restored state goes, and what is started after it is the restored state alone.
RestoredInv ==
    /\ pc = "aside" /\ ~failed => \A p \in Paths \ todo : live[p].items = {}
    /\ pc = "install" => \A p \in todo : live[p].items = {}
    /\ pc = "install" /\ ~failed => \A p \in Paths \ todo : live[p] = Dir(Version(run))
    /\ pc \in {"load", "replacedHook", "start", "verify"} =>
         \A p \in Paths : live[p] = Dir(Version(run))
    /\ pc \in {"replacedHook", "start", "verify"} /\ HasDatabase => db = run

SwapInv == PathInv /\ RollbackInv /\ DatabaseInv /\ DumpInv /\ SaidInv /\ RestoredInv
=============================================================================

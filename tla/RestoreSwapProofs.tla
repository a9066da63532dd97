------------------------- MODULE RestoreSwapProofs -------------------------
(* Proofs about the restore swap, for any paths, mounts, entries and number *)
(* of runs: type correctness, that no failure, crash or repeated run loses  *)
(* the state an application owns (OriginalKept), what a rollback that       *)
(* reports success has put back, and that the swap implements the restore   *)
(* contract.                                                                *)
EXTENDS RestoreSwap, TLAPS

(* The script's commands keep the file variables in their types.            *)
FilesOK ==
    /\ live \in [Paths -> Place] /\ prev \in [Paths -> Place]
    /\ cut \subseteq Mounts /\ blind \subseteq Mounts

LEMMA PlaceType ==
    /\ \A S \in SUBSET Items : Dir(S) \in Place
    /\ Gone \in Place
    /\ \A x \in Place : x.there \in BOOLEAN /\ x.items \in SUBSET Items
    /\ \A x \in Place : \A S \in SUBSET Items : Partly(x, S) \in Place
  BY DEF Place, Dir, Gone, Partly

LEMMA VersionType == ASSUME NEW v \in 0..MaxRuns PROVE Version(v) \in SUBSET Items
  BY DEF Version, Items

LEMMA PutType ==
    ASSUME NEW p \in Paths, NEW x \in Place, NEW y \in Place,
           live \in [Paths -> Place], prev \in [Paths -> Place], Put(p, x, y)
    PROVE  live' \in [Paths -> Place] /\ prev' \in [Paths -> Place]
  BY DEF Put

LEMMA ScriptType ==
    ASSUME FilesOK, run \in 0..MaxRuns, NEW p \in Paths,
           \/ Aside(p) \/ AsideFails(p) \/ Install(p) \/ InstallFails(p)
           \/ Rollback(p) \/ RollbackFails(p) \/ Cleanup(p) \/ CleanupFails(p)
    PROVE  FilesOK'
<1> DEFINE L == live[p]
           Q == prev[p]
<1>0. /\ L \in Place /\ Q \in Place
      /\ L.items \in SUBSET Items /\ Q.items \in SUBSET Items
      /\ Version(run) \in SUBSET Items
  BY PlaceType, VersionType DEF FilesOK
<1>1. CASE Aside(p)
  <2>1. (IF p \in Mounts THEN Dir({}) ELSE Gone) \in Place
    BY PlaceType
  <2> QED BY <1>0, <1>1, <2>1, PutType DEF Aside, FilesOK
<1>2. CASE AsideFails(p)
  <2>1. CASE UNCHANGED files
    BY <2>1 DEF files, FilesOK
  <2>2. ASSUME NEW S \in SUBSET L.items,
               Put(p, Dir(L.items \ S), Dir(S)), p \in Mounts,
               cut' = cut \union {p}, UNCHANGED blind
        PROVE  FilesOK'
    <3>1. Dir(L.items \ S) \in Place /\ Dir(S) \in Place
      BY <1>0, PlaceType
    <3> QED BY <1>0, <2>2, <3>1, PutType DEF FilesOK
  <2> QED BY <1>2, <2>1, <2>2 DEF AsideFails
<1>3. CASE Install(p) \/ InstallFails(p)
  <2>1. CASE UNCHANGED files
    BY <2>1 DEF files, FilesOK
  <2>2. ASSUME NEW S \in SUBSET Version(run),
               Put(p, Dir(L.items \union S), Q), UNCHANGED <<cut, blind>>
        PROVE  FilesOK'
    <3>1. Dir(L.items \union S) \in Place
      BY <1>0, PlaceType
    <3> QED BY <1>0, <2>2, <3>1, PutType DEF FilesOK
  <2> QED BY <1>3, <2>1, <2>2 DEF Install, InstallFails
<1>4. CASE Rollback(p)
  <2>1. Gone \in Place
    BY PlaceType
  <2> QED BY <1>0, <1>4, <2>1, PutType DEF Rollback, FilesOK
<1>5. CASE RollbackFails(p)
  <2>1. ASSUME NEW S \in SUBSET L.items, Put(p, Partly(L, S), Q),
               UNCHANGED <<cut, blind>>
        PROVE  FilesOK'
    <3>1. Partly(L, S) \in Place
      BY <1>0, PlaceType
    <3> QED BY <1>0, <2>1, <3>1, PutType DEF FilesOK
  <2>2. ASSUME Put(p, Gone, Q), UNCHANGED <<cut, blind>>
        PROVE  FilesOK'
    BY <1>0, <2>2, PlaceType, PutType DEF FilesOK
  <2>3. ASSUME p \in Mounts, NEW S \in SUBSET Q.items,
               Put(p, Dir(S), Dir(Q.items \ S)),
               cut' = cut \union {p}, UNCHANGED blind
        PROVE  FilesOK'
    <3>1. Dir(S) \in Place /\ Dir(Q.items \ S) \in Place
      BY <1>0, PlaceType
    <3> QED BY <1>0, <2>3, <3>1, PutType DEF FilesOK
  <2>4. CASE UNCHANGED files
    BY <2>4 DEF files, FilesOK
  <2> QED BY <1>5, <2>1, <2>2, <2>3, <2>4 DEF RollbackFails
<1>6. CASE Cleanup(p)
  BY <1>0, <1>6, PlaceType, PutType DEF Cleanup, FilesOK
<1>7. CASE CleanupFails(p)
  <2>1. ASSUME NEW S \in SUBSET Q.items, Put(p, L, Dir(S)), UNCHANGED <<cut, blind>>
        PROVE  FilesOK'
    <3>1. Dir(S) \in Place
      BY <1>0, PlaceType
    <3> QED BY <1>0, <2>1, <3>1, PutType DEF FilesOK
  <2> QED BY <1>7, <2>1 DEF CleanupFails
<1> QED BY <1>1, <1>2, <1>3, <1>4, <1>5, <1>6, <1>7

-----------------------------------------------------------------------------
(* Type correctness.                                                        *)

LEMMA ControlType ==
    ASSUME TypeOK, NEW next \in Phases, GoTo(next) \/ GoLoop(next)
    PROVE  pc' \in Phases /\ todo' \subseteq Paths /\ failed' \in BOOLEAN
  BY DEF TypeOK, GoTo, GoLoop

LEMMA RestType ==
    ASSUME TypeOK,
           pc' \in Phases /\ todo' \subseteq Paths /\ failed' \in BOOLEAN,
           run' \in 0..MaxRuns, fact' \in Facts, FilesOK', db' \in Torn..MaxRuns,
           staging' \in [1..MaxRuns -> [there : BOOLEAN, dump : NoDump..MaxRuns]],
           services' \in {"running", "stopped"}, UNCHANGED history
    PROVE  TypeOK'
  BY DEF TypeOK, FilesOK, history

LEMMA ItemType ==
    ASSUME TypeOK, NEW p \in Paths, Item(p), FilesOK', failed' \in BOOLEAN
    PROVE  TypeOK'
  BY DEF TypeOK, FilesOK, Item, history

LEMMA FactsType ==
    ASSUME fact \in Facts, NEW b \in BOOLEAN
    PROVE  /\ NoFacts \in Facts
           /\ [fact EXCEPT !.stopped = b] \in Facts
           /\ [fact EXCEPT !.replaced = b] \in Facts
           /\ [fact EXCEPT !.dbFailed = b] \in Facts
           /\ [fact EXCEPT !.hookFailed = b] \in Facts
           /\ [fact EXCEPT !.rolledBack = b] \in Facts
           /\ [fact EXCEPT !.complete = b] \in Facts
  BY DEF Facts, NoFacts

LEMMA LoopType ==
    ASSUME TypeOK, MoveAside \/ InstallRestored \/ RemoveCopies \/ PutBack
    PROVE  TypeOK'
<1>1. PICK p \in todo :
        /\ Item(p) /\ failed' \in BOOLEAN
        /\ \/ Aside(p) \/ AsideFails(p) \/ Install(p) \/ InstallFails(p)
           \/ Rollback(p) \/ RollbackFails(p) \/ Cleanup(p) \/ CleanupFails(p)
  BY DEF TypeOK, MoveAside, InstallRestored, RemoveCopies, PutBack, Well, Badly
<1>2. p \in Paths /\ FilesOK /\ run \in 0..MaxRuns
  BY DEF TypeOK, FilesOK
<1> QED BY <1>1, <1>2, ScriptType, ItemType

(* The reloaded dump has a type only because it was taken (DatabaseInv).    *)
LEMMA StepType == TypeOK /\ DatabaseInv /\ [Next]_vars => TypeOK'
<1> SUFFICES ASSUME TypeOK, DatabaseInv, [Next]_vars PROVE TypeOK'
  OBVIOUS
<1> USE DatabaseAssumption, RunsAssumption
<1>0. /\ FilesOK /\ fact \in Facts /\ run \in 0..MaxRuns
      /\ UNCHANGED files => FilesOK'
  BY DEF TypeOK, FilesOK, files
<1>1. CASE StartRun
  <2>1. run' \in 0..MaxRuns
    BY <1>1 DEF StartRun, TypeOK
  <2>2. fact' \in Facts
    BY <1>0, <1>1, FactsType DEF StartRun
  <2> QED BY <1>0, <1>1, <2>1, <2>2, ControlType, RestType DEF StartRun, Phases, TypeOK
<1>2. CASE CheckPaths
  BY <1>2 DEF CheckPaths, TypeOK, Phases, GoTo, files, facts
<1>3. CASE Extract \/ StoppedHook \/ ReplacedHook \/ EndOfLoop \/ EndOfCleanup \/ EndOfRollback \/ Crash
  BY <1>3 DEF Extract, StoppedHook, ReplacedHook, EndOfLoop, EndOfCleanup, EndOfRollback,
              Crash, TypeOK, Phases, GoTo, GoLoop, Halt, files, facts, history
<1>4. CASE StopServices
  <2>1. fact' \in Facts
    BY <1>0, <1>4, FactsType DEF StopServices
  <2> QED BY <1>4, <2>1 DEF StopServices, TypeOK, Phases, GoTo, Halt, files, history
<1>5. CASE DumpDatabase
  <2>1. staging' \in [1..MaxRuns -> [there : BOOLEAN, dump : NoDump..MaxRuns]]
    <3>1. db \in NoDump..MaxRuns
      BY DEF TypeOK, Torn, NoDump
    <3> QED BY <1>5, <3>1 DEF DumpDatabase, TypeOK
  <2> QED BY <1>5, <2>1 DEF DumpDatabase, TypeOK, Phases, GoTo, Halt, files, facts, history
<1>6. CASE MoveAside \/ InstallRestored \/ RemoveCopies \/ PutBack
  BY <1>6, LoopType
<1>7. CASE LoadDatabase
  <2>1. fact' \in Facts
    BY <1>0, <1>7, FactsType DEF LoadDatabase
  <2>2. db' \in Torn..MaxRuns
    BY <1>7 DEF LoadDatabase, TypeOK, Torn
  <2> QED BY <1>7, <2>1, <2>2 DEF LoadDatabase, TypeOK, Phases, GoTo, Halt, files, history
<1>8. CASE StartRestored
  BY <1>8 DEF StartRestored, TypeOK, Phases, GoTo, Halt, files, facts, history
<1>9. CASE VerifyRestored
  <2>1. fact' \in Facts
    BY <1>0, <1>9, FactsType DEF VerifyRestored
  <2> QED BY <1>9, <2>1 DEF VerifyRestored, TypeOK, Phases, GoTo, GoLoop, Halt
<1>10. CASE StopReplacement
  BY <1>10 DEF StopReplacement, TypeOK, Phases, GoLoop, files, facts, history
<1>11. CASE ReloadDatabase
  <2>1. fact' \in Facts
    BY <1>0, <1>11, FactsType DEF ReloadDatabase
  <2>2. db' \in Torn..MaxRuns
    BY <1>11 DEF ReloadDatabase, DatabaseInv, Dumped, TypeOK, Torn
  <2> QED BY <1>11, <2>1, <2>2 DEF ReloadDatabase, TypeOK, Phases, GoTo, files, history
<1>12. CASE RollbackHook
  <2>1. fact' \in Facts
    BY <1>0, <1>12, FactsType DEF RollbackHook
  <2> QED BY <1>12, <2>1 DEF RollbackHook, TypeOK, Phases, GoTo, files, history
<1>13. CASE RecordResult
  <2>1. RolledBack \in BOOLEAN
    BY DEF RolledBack, TypeOK, Facts
  <2>2. fact' \in Facts
    BY <1>0, <1>13, <2>1, FactsType DEF RecordResult
  <2> QED BY <1>13, <2>2 DEF RecordResult, TypeOK, Phases, GoTo, files, history
<1>14. CASE RemoveStaging
  <2>1. staging' = staging \/ staging' = [staging EXCEPT ![run].there = FALSE]
    BY <1>14 DEF RemoveStaging
  <2>2. staging' \in [1..MaxRuns -> [there : BOOLEAN, dump : NoDump..MaxRuns]]
    BY <2>1 DEF TypeOK
  <2> QED BY <1>14, <2>2 DEF RemoveStaging, TypeOK, Phases, GoTo, files, facts, history
<1>15. ASSUME NEW p \in Paths, OperatorPutsBack(p) \/ OperatorRemoves(p)
       PROVE  TypeOK'
  <2>1. FilesOK'
    BY <1>0, <1>15, ScriptType DEF OperatorPutsBack, OperatorRemoves
  <2> QED BY <1>15, <2>1 DEF OperatorPutsBack, OperatorRemoves, TypeOK, FilesOK, facts, history
<1>16. CASE UNCHANGED vars
  BY <1>16 DEF vars, TypeOK
<1> QED
  BY <1>1, <1>2, <1>3, <1>4, <1>5, <1>6, <1>7, <1>8, <1>9, <1>10, <1>11, <1>12, <1>13,
     <1>14, <1>15, <1>16 DEF Next, RunStep

LEMMA InitType == Init => TypeOK
<1> SUFFICES ASSUME Init PROVE TypeOK
  OBVIOUS
<1> USE RunsAssumption
<1>1. Dir(Version(0)) \in Place /\ Gone \in Place
  BY PlaceType, VersionType
<1>2. NoFacts \in Facts
  BY DEF NoFacts, Facts
<1>3. staging \in [1..MaxRuns -> [there : BOOLEAN, dump : NoDump..MaxRuns]]
  BY DEF Init, NoDump
<1>4. 0 \in 0..MaxRuns /\ 0 \in Torn..MaxRuns
  BY DEF Torn
<1>5. live \in [Paths -> Place] /\ prev \in [Paths -> Place]
  BY <1>1 DEF Init
<1>6. pc \in Phases
  BY DEF Init, Phases
<1> QED BY <1>2, <1>3, <1>4, <1>5, <1>6 DEF Init, TypeOK


-----------------------------------------------------------------------------
(* The database: the rollback dump a failed run loads is what the database  *)
(* held when the run passed its check.                                      *)

(* A task that changes neither the database nor what is known of it.        *)
LEMMA SameDatabase ==
    ASSUME TypeOK, DatabaseInv, UNCHANGED <<run, fact, db, staging, startDb>>,
           pc' = "idle" \/ pc # "idle",
           pc' \in Swapping => pc \in Swapping,
           pc' \in BeforeLoad => pc \in BeforeLoad,
           pc' \in {"stoppedHook", "aside", "install", "load"}
             => pc \in {"stoppedHook", "aside", "install", "load"},
           pc' \in {"rollbackHook", "result"} => pc \in {"rollbackHook", "result"},
           pc \in {"unstage", "idle"} => pc' \in {"unstage", "idle"}
    PROVE  DatabaseInv'
  BY DEF DatabaseInv, Dumped

LEMMA StepDatabase == TypeOK /\ DatabaseInv /\ [Next]_vars => DatabaseInv'
<1> SUFFICES ASSUME TypeOK, DatabaseInv, [Next]_vars PROVE DatabaseInv'
  OBVIOUS
<1> USE DatabaseAssumption, RunsAssumption DEF Swapping, Phases, BeforeLoad
<1>1. CASE StartRun
  BY <1>1 DEF StartRun, DatabaseInv, Dumped, GoTo, NoFacts, TypeOK
<1>2. CASE CheckPaths
  <2>1. run \in 1..MaxRuns /\ ~fact.replaced /\ ~fact.rolledBack
    BY <1>2 DEF CheckPaths, DatabaseInv
  <2> QED BY <1>2, <2>1 DEF CheckPaths, DatabaseInv, Dumped, GoTo, facts
<1>3. CASE Extract \/ StoppedHook \/ EndOfLoop \/ ReplacedHook \/ StartRestored
  BY <1>3, SameDatabase
     DEF Extract, StoppedHook, EndOfLoop, ReplacedHook, StartRestored, GoTo, GoLoop, Halt,
         facts, history
<1>4. CASE EndOfCleanup \/ StopReplacement \/ Crash
  BY <1>4, SameDatabase DEF EndOfCleanup, StopReplacement, Crash, GoTo, GoLoop, facts, history
<1>5. CASE EndOfRollback
  BY <1>5, SameDatabase DEF EndOfRollback, GoTo, facts, history
<1>6. CASE MoveAside \/ InstallRestored \/ RemoveCopies \/ PutBack
  <2>1. UNCHANGED <<pc, run, fact, db, staging, startDb>>
    BY <1>6 DEF MoveAside, InstallRestored, RemoveCopies, PutBack, Item, history
  <2> QED BY <2>1, SameDatabase
<1>7. CASE StopServices
  <2>1. fact'.replaced = fact.replaced /\ fact'.rolledBack = fact.rolledBack
    BY <1>7 DEF StopServices, TypeOK, Facts
  <2> QED BY <1>7, <2>1 DEF StopServices, DatabaseInv, Dumped, GoTo, Halt, history
<1>8. CASE DumpDatabase
  <2>1. run \in 1..MaxRuns /\ db = startDb /\ ~fact.replaced /\ ~fact.rolledBack
    BY <1>8 DEF DumpDatabase, DatabaseInv
  <2>2. CASE pc' = "stoppedHook"
    <3>1. HasDatabase => staging' = [staging EXCEPT ![run].dump = db]
      BY <1>8, <2>2 DEF DumpDatabase, Halt, GoTo
    <3>2. HasDatabase => staging'[run].dump = db
      BY <2>1, <3>1 DEF TypeOK
    <3> QED BY <1>8, <2>1, <2>2, <3>2 DEF DumpDatabase, DatabaseInv, Dumped, facts, history
  <2>3. CASE pc' = "halt"
    BY <1>8, <2>1, <2>3 DEF DumpDatabase, DatabaseInv, Dumped, facts, history
  <2> QED BY <1>8, <2>2, <2>3 DEF DumpDatabase, GoTo, Halt
<1>9. CASE LoadDatabase
  <2>1. /\ run \in 1..MaxRuns /\ db = startDb /\ ~fact.rolledBack
        /\ HasDatabase => staging[run].dump = startDb
    BY <1>9 DEF LoadDatabase, DatabaseInv, Dumped
  <2>2. fact'.replaced = HasDatabase /\ fact'.rolledBack = fact.rolledBack
    BY <1>9 DEF LoadDatabase, TypeOK, Facts
  <2> QED BY <1>9, <2>1, <2>2 DEF LoadDatabase, DatabaseInv, Dumped, GoTo, Halt, history
<1>10. CASE VerifyRestored
  <2>1. fact'.replaced = fact.replaced /\ fact'.rolledBack = fact.rolledBack
    BY <1>10 DEF VerifyRestored, TypeOK, Facts
  <2> QED BY <1>10, <2>1 DEF VerifyRestored, DatabaseInv, Dumped, GoTo, GoLoop, Halt
<1>11. CASE ReloadDatabase
  <2>1. fact'.replaced = fact.replaced /\ fact'.rolledBack = fact.rolledBack
    BY <1>11 DEF ReloadDatabase, TypeOK, Facts
  <2>2. ~fact'.dbFailed => db' = (IF fact.replaced THEN staging[run].dump ELSE db)
    BY <1>11 DEF ReloadDatabase, TypeOK, Facts
  <2>3. ~fact'.dbFailed => db' = startDb
    BY <1>11, <2>2 DEF ReloadDatabase, DatabaseInv, Dumped
  <2>4. ~fact.replaced => db' = db
    BY <1>11 DEF ReloadDatabase
  <2> QED BY <1>11, <2>1, <2>3, <2>4 DEF ReloadDatabase, DatabaseInv, Dumped, GoTo, history
<1>12. CASE RollbackHook
  <2>1. /\ fact'.replaced = fact.replaced /\ fact'.rolledBack = fact.rolledBack
        /\ fact'.dbFailed = fact.dbFailed
    BY <1>12 DEF RollbackHook, TypeOK, Facts
  <2> QED BY <1>12, <2>1 DEF RollbackHook, DatabaseInv, Dumped, GoTo, history
<1>13. CASE RecordResult
  <2>1. /\ fact'.replaced = fact.replaced /\ fact'.rolledBack => ~fact.dbFailed
    BY <1>13 DEF RecordResult, RolledBack, TypeOK, Facts
  <2> QED BY <1>13, <2>1 DEF RecordResult, DatabaseInv, Dumped, GoTo, history
<1>14. CASE RemoveStaging
  <2>1. staging' = staging \/ staging' = [staging EXCEPT ![run].there = FALSE]
    BY <1>14 DEF RemoveStaging
  <2>2. ASSUME NEW r \in 1..MaxRuns PROVE staging'[r].dump = staging[r].dump
    <3>1. staging[r] \in [there : BOOLEAN, dump : NoDump..MaxRuns]
      BY DEF TypeOK
    <3>2. CASE staging' = [staging EXCEPT ![run].there = FALSE]
      BY <3>1, <3>2 DEF TypeOK
    <3> QED BY <2>1, <3>2
  <2> QED BY <1>14, <2>2 DEF RemoveStaging, DatabaseInv, Dumped, GoTo, facts, history
<1>15. ASSUME NEW p \in Paths, OperatorPutsBack(p) \/ OperatorRemoves(p)
       PROVE  DatabaseInv'
  BY <1>15, SameDatabase DEF OperatorPutsBack, OperatorRemoves, facts, history
<1>16. CASE UNCHANGED vars
  BY <1>16 DEF vars, DatabaseInv, Dumped
<1> QED
  BY <1>1, <1>2, <1>3, <1>4, <1>5, <1>6, <1>7, <1>8, <1>9, <1>10, <1>11, <1>12, <1>13,
     <1>14, <1>15, <1>16 DEF Next, RunStep

LEMMA InitDatabase == Init => DatabaseInv
  BY DEF Init, DatabaseInv, Dumped, NoFacts, BeforeLoad, Swapping, Phases

(* Every state of the restore swap is of its type; in particular a rescue   *)
(* section never loads a rollback dump that was not taken.                  *)
THEOREM Typed == Spec => [](TypeOK /\ DatabaseInv)
<1>1. Init => TypeOK /\ DatabaseInv
  BY InitType, InitDatabase
<1>2. TypeOK /\ DatabaseInv /\ [Next]_vars => (TypeOK /\ DatabaseInv)'
  BY StepType, StepDatabase
<1> QED BY <1>1, <1>2, PTL DEF Spec

-----------------------------------------------------------------------------
(* OriginalKept.  It is not inductive: a rollback replaces a path by its    *)
(* rollback copy, so the copy must be the original whenever a rollback can  *)
(* come (CopyIsOriginal), which holds because the check refuses a leftover  *)
(* copy and aside fills it only from a path without one; and a run may      *)
(* accept the installed state only where something was installed            *)
(* (AsideSoFar, InstalledSoFar).                                            *)

LEMMA GoneIsNotOwned ==
    ASSUME TypeOK, PathInv, NEW p \in Paths \ cut, ~prev[p].there
    PROVE  live[p] = owned[p]
  BY DEF PathInv, OwnedIsThere, OriginalKept

(* What a step that leaves the files alone must still show.                 *)
LEMMA SameFiles ==
    ASSUME TypeOK, PathInv, UNCHANGED <<live, prev, cut, owned>>,
           pc' \in Swapping => pc \in Swapping,
           pc' \notin {"aside", "install", "load", "replacedHook", "start", "verify", "cleanup"}
    PROVE  PathInv'
  BY DEF PathInv, OwnedIsThere, OriginalKept, CopyIsOriginal, AsideSoFar, InstalledSoFar,
         AcceptedIsLive

LEMMA AsideKeeps == ASSUME TypeOK, PathInv, MoveAside PROVE PathInv'
<1>1. PICK p \in todo : Item(p) /\ ((Well /\ Aside(p)) \/ (Badly /\ AsideFails(p)))
  BY DEF MoveAside
<1>2. /\ p \in Paths /\ pc = "aside" /\ pc' = pc /\ todo' = todo \ {p} /\ owned' = owned
      /\ pc \in Swapping
  BY <1>1 DEF MoveAside, Item, history, TypeOK, Swapping, Phases
<1>3. CASE Well /\ Aside(p)
  <2>1. ~prev[p].there /\ cut' = cut /\ failed' = failed
    BY <1>3 DEF Aside, Well
  <2>2. prev' = [prev EXCEPT ![p] = live[p]]
    BY <1>3 DEF Aside, Put
  <2>3. \A q \in Paths \ {p} : live'[q] = live[q] /\ prev'[q] = prev[q]
    BY <1>3 DEF Aside, Put, TypeOK
  <2>4. prev'[p] = live[p]
    BY <1>2, <2>2 DEF TypeOK
  <2>5. p \notin cut => prev'[p] = owned[p]
    BY <1>2, <2>1, <2>4, GoneIsNotOwned
  <2> QED BY <1>2, <2>1, <2>3, <2>5
          DEF PathInv, OwnedIsThere, OriginalKept, CopyIsOriginal, AsideSoFar,
              InstalledSoFar, AcceptedIsLive
<1>4. CASE Badly /\ AsideFails(p)
  <2>1. failed' /\ cut \subseteq cut'
    BY <1>4 DEF Badly, AsideFails, files
  <2>2. \A q \in Paths \ cut' : live'[q] = live[q] /\ prev'[q] = prev[q]
    BY <1>4 DEF AsideFails, Put, files, TypeOK
  <2> QED BY <1>2, <2>1, <2>2
          DEF PathInv, OwnedIsThere, OriginalKept, CopyIsOriginal, AsideSoFar,
              InstalledSoFar, AcceptedIsLive
<1> QED BY <1>1, <1>3, <1>4

LEMMA InstallKeeps == ASSUME TypeOK, PathInv, InstallRestored PROVE PathInv'
<1>1. PICK p \in todo : Item(p) /\ ((Well /\ Install(p)) \/ (Badly /\ InstallFails(p)))
  BY DEF InstallRestored
<1>2. /\ p \in Paths /\ pc = "install" /\ pc' = pc /\ todo' = todo \ {p} /\ owned' = owned
      /\ pc \in Swapping
  BY <1>1 DEF InstallRestored, Item, history, TypeOK, Swapping, Phases
<1>3. prev' = prev /\ cut' = cut
  <2>1. prev' = prev \/ prev' = [prev EXCEPT ![p] = prev[p]]
    BY <1>1 DEF Install, InstallFails, Put, files
  <2> QED BY <1>1, <2>1 DEF Install, InstallFails, files, TypeOK
<1>4. \A q \in Paths \ {p} : live'[q] = live[q]
  BY <1>1 DEF Install, InstallFails, Put, files, TypeOK
<1>5. ~failed' => live'[p].there /\ ~failed
  <2>1. ASSUME Install(p) PROVE live'[p] = Dir(live[p].items \union Version(run))
    BY <1>2, <2>1 DEF Install, Put, TypeOK
  <2> QED BY <1>1, <2>1 DEF Dir, Well, Badly
<1> QED BY <1>1, <1>2, <1>3, <1>4, <1>5
     DEF PathInv, OwnedIsThere, OriginalKept, CopyIsOriginal, AsideSoFar,
         InstalledSoFar, AcceptedIsLive, Badly

LEMMA RollbackKeeps == ASSUME TypeOK, PathInv, PutBack PROVE PathInv'
<1>1. PICK p \in todo : Item(p) /\ ((Well /\ Rollback(p)) \/ (Badly /\ RollbackFails(p)))
  BY DEF PutBack
<1>2. /\ p \in Paths /\ pc = "rollback" /\ pc' = pc /\ owned' = owned /\ pc \in Swapping
  BY <1>1 DEF PutBack, Item, history, TypeOK, Swapping, Phases
<1>3. \A q \in Paths \ {p} : live'[q] = live[q] /\ prev'[q] = prev[q]
  BY <1>1 DEF Rollback, RollbackFails, Put, TypeOK, files
<1>4. cut \subseteq cut'
  BY <1>1 DEF Rollback, RollbackFails, files
<1>5. p \notin cut' =>
        \/ live'[p] = owned[p] /\ ~prev'[p].there
        \/ prev'[p] = prev[p] /\ prev[p].there
  <2>1. CASE Rollback(p) /\ ~prev[p].there
    BY <1>2, <1>4, <2>1, GoneIsNotOwned DEF Rollback
  <2>2. CASE Rollback(p) /\ prev[p].there
    <3>1. CASE Put(p, prev[p], Gone)
      <4>1. live'[p] = prev[p] /\ prev'[p] = Gone
        BY <1>2, <3>1 DEF Put, TypeOK
      <4> QED BY <1>2, <1>4, <2>2, <4>1 DEF PathInv, CopyIsOriginal, Gone
    <3> QED BY <2>2, <3>1 DEF Rollback
  <2>3. CASE RollbackFails(p)
    <3>1. p \notin cut' => prev'[p] = prev[p]
      BY <1>2, <2>3 DEF RollbackFails, Put, TypeOK, files
    <3>2. prev[p].there \/ (~prev[p].there /\ UNCHANGED <<live, prev, cut>>)
      BY <2>3 DEF RollbackFails, files
    <3> QED BY <1>2, <3>1, <3>2, GoneIsNotOwned
  <2> QED BY <1>1, <2>1, <2>2, <2>3
<1> QED BY <1>2, <1>3, <1>4, <1>5
     DEF PathInv, OwnedIsThere, OriginalKept, CopyIsOriginal, AsideSoFar,
         InstalledSoFar, AcceptedIsLive

(* At the end of an accepted restore the live state is the owned one, so    *)
(* removing the copies loses nothing.                                       *)
LEMMA CleanupKeeps == ASSUME TypeOK, PathInv, RemoveCopies PROVE PathInv'
<1>1. PICK p \in todo : Item(p) /\ (Cleanup(p) \/ CleanupFails(p))
  BY DEF RemoveCopies
<1>2. /\ p \in Paths /\ pc = "cleanup" /\ pc' = pc /\ owned' = owned /\ cut' = cut
      /\ pc \notin Swapping
  BY <1>1 DEF RemoveCopies, Item, history, TypeOK, Swapping, Cleanup, CleanupFails
<1>3. live' = live
  <2>1. live' = [live EXCEPT ![p] = live[p]]
    BY <1>1 DEF Cleanup, CleanupFails, Put
  <2> QED BY <1>2, <2>1 DEF TypeOK
<1> QED BY <1>2, <1>3
     DEF PathInv, OwnedIsThere, OriginalKept, CopyIsOriginal, AsideSoFar,
         InstalledSoFar, AcceptedIsLive

LEMMA OperatorKeeps ==
    ASSUME TypeOK, PathInv, NEW p \in Paths, OperatorPutsBack(p) \/ OperatorRemoves(p)
    PROVE  PathInv'
<1>1. /\ pc = "idle" /\ pc' = "idle" /\ owned' = owned /\ prev[p].there
      /\ pc' \notin Swapping
  BY DEF OperatorPutsBack, OperatorRemoves, history, Swapping
<1>2. /\ \A q \in Paths \ {p} : live'[q] = live[q] /\ prev'[q] = prev[q]
      /\ cut \subseteq cut'
  BY DEF OperatorPutsBack, OperatorRemoves, Rollback, RollbackFails, Cleanup, Put, TypeOK,
         files
<1>3. p \notin cut' => owned[p] \in {live'[p], prev'[p]}
  <2>1. CASE OperatorRemoves(p)
    <3>1. live'[p] = live[p] /\ live[p] = owned[p]
      BY <2>1 DEF OperatorRemoves, Cleanup, Put, TypeOK
    <3> QED BY <3>1
  <2>2. CASE OperatorPutsBack(p)
    <3>1. p \notin cut' => prev[p] = owned[p]
      BY <1>2, <2>2 DEF OperatorPutsBack, PathInv, OriginalKept
    <3>2. p \notin cut' => live'[p] = prev[p] \/ prev'[p] = prev[p]
      BY <1>1, <2>2 DEF OperatorPutsBack, Rollback, RollbackFails, Put, TypeOK, files
    <3> QED BY <3>1, <3>2
  <2> QED BY <2>1, <2>2
<1> QED BY <1>1, <1>2, <1>3
     DEF PathInv, OwnedIsThere, OriginalKept, CopyIsOriginal, AsideSoFar,
         InstalledSoFar, AcceptedIsLive

LEMMA VerifyKeeps == ASSUME TypeOK, PathInv, VerifyRestored PROVE PathInv'
<1>1. CASE pc' = "cleanup"
  <2>1. owned' = live /\ live' = live /\ prev' = prev /\ \A p \in Paths : live[p].there
    BY <1>1 DEF VerifyRestored, PathInv, InstalledSoFar, Halt, GoTo, GoLoop
  <2> QED BY <1>1, <2>1
          DEF PathInv, OwnedIsThere, OriginalKept, CopyIsOriginal, AsideSoFar,
              InstalledSoFar, AcceptedIsLive, Swapping
<1>2. CASE pc' = "halt"
  BY <1>2, SameFiles DEF VerifyRestored, Halt, GoTo, GoLoop, Swapping, Phases
<1> QED BY <1>1, <1>2 DEF VerifyRestored, Halt, GoTo, GoLoop

LEMMA StepPaths == TypeOK /\ PathInv /\ [Next]_vars => PathInv'
<1> SUFFICES ASSUME TypeOK, PathInv, [Next]_vars PROVE PathInv'
  OBVIOUS
<1>1. CASE StartRun
  BY <1>1, SameFiles DEF StartRun, GoTo, files, history, Swapping, Phases
<1>2. CASE CheckPaths
  <2>1. CASE pc' = "extract"
    <3>1. \A p \in Paths : ~prev[p].there
      BY <1>2, <2>1 DEF CheckPaths, GoTo
    <3> QED BY <1>2, <2>1, <3>1
            DEF CheckPaths, files, PathInv, OwnedIsThere, OriginalKept, CopyIsOriginal,
                AsideSoFar, InstalledSoFar, AcceptedIsLive
  <2>2. CASE pc' = "unstage"
    BY <1>2, <2>2, SameFiles DEF CheckPaths, files, Swapping
  <2> QED BY <1>2, <2>1, <2>2 DEF CheckPaths, GoTo
<1>3. CASE Extract \/ StopServices \/ DumpDatabase
  BY <1>3, SameFiles
     DEF Extract, StopServices, DumpDatabase, GoTo, Halt, files, history, Swapping, Phases
<1>4. CASE StoppedHook \/ EndOfLoop
  <2>1. UNCHANGED <<live, prev, cut, owned>> /\ pc \in Swapping
    BY <1>4 DEF StoppedHook, EndOfLoop, files, history, Swapping, Phases
  <2>2. CASE pc' = "halt"
    BY <2>1, <2>2, SameFiles
  <2>3. CASE pc' = "aside" /\ todo' = Paths
    BY <2>1, <2>3 DEF PathInv, OwnedIsThere, OriginalKept, CopyIsOriginal, AsideSoFar,
                      InstalledSoFar, AcceptedIsLive
  <2>4. CASE EndOfLoop /\ pc' = "install"
    <3>1. pc = "aside" /\ ~failed /\ todo = {} /\ todo' = Paths
      BY <2>4 DEF EndOfLoop, Halt, GoTo, GoLoop
    <3> QED BY <2>1, <2>4, <3>1
            DEF PathInv, OwnedIsThere, OriginalKept, CopyIsOriginal, AsideSoFar,
                InstalledSoFar, AcceptedIsLive
  <2>5. CASE EndOfLoop /\ pc' = "load"
    <3>1. pc = "install" /\ ~failed /\ todo = {}
      BY <2>5 DEF EndOfLoop, Halt, GoTo, GoLoop
    <3> QED BY <2>1, <2>5, <3>1
            DEF PathInv, OwnedIsThere, OriginalKept, CopyIsOriginal, AsideSoFar,
                InstalledSoFar, AcceptedIsLive
  <2> QED BY <1>4, <2>2, <2>3, <2>4, <2>5 DEF StoppedHook, EndOfLoop, Halt, GoTo, GoLoop
<1>5. CASE LoadDatabase \/ ReplacedHook \/ StartRestored
  <2>1. /\ UNCHANGED <<live, prev, cut, owned>> /\ pc \in Swapping
        /\ pc \in {"load", "replacedHook", "start"}
        /\ pc' \in {"halt", "replacedHook", "start", "verify"}
    BY <1>5 DEF LoadDatabase, ReplacedHook, StartRestored, GoTo, Halt, files, history,
                Swapping, Phases
  <2> QED BY <2>1 DEF PathInv, OwnedIsThere, OriginalKept, CopyIsOriginal, AsideSoFar,
                      InstalledSoFar, AcceptedIsLive
<1>6. CASE MoveAside
  BY <1>6, AsideKeeps
<1>7. CASE InstallRestored
  BY <1>7, InstallKeeps
<1>8. CASE RemoveCopies
  BY <1>8, CleanupKeeps
<1>9. CASE PutBack
  BY <1>9, RollbackKeeps
<1>10. CASE VerifyRestored
  BY <1>10, VerifyKeeps
<1>11. CASE StopReplacement \/ EndOfRollback \/ ReloadDatabase \/ RollbackHook
  BY <1>11, SameFiles
     DEF StopReplacement, EndOfRollback, ReloadDatabase, RollbackHook, GoTo, GoLoop, files,
         history, Swapping, Phases
<1>12. CASE EndOfCleanup \/ RecordResult \/ RemoveStaging \/ Crash
  BY <1>12, SameFiles
     DEF EndOfCleanup, RecordResult, RemoveStaging, Crash, GoTo, files, history, Swapping
<1>13. ASSUME NEW p \in Paths, OperatorPutsBack(p) \/ OperatorRemoves(p)
       PROVE  PathInv'
  BY <1>13, OperatorKeeps
<1>14. CASE UNCHANGED vars
  BY <1>14 DEF vars, PathInv, OwnedIsThere, OriginalKept, CopyIsOriginal, AsideSoFar,
               InstalledSoFar, AcceptedIsLive
<1> QED
  BY <1>1, <1>2, <1>3, <1>4, <1>5, <1>6, <1>7, <1>8, <1>9, <1>10, <1>11, <1>12, <1>13,
     <1>14 DEF Next, RunStep

LEMMA InitPaths == Init => PathInv
  BY DEF Init, PathInv, OwnedIsThere, OriginalKept, CopyIsOriginal, AsideSoFar,
         InstalledSoFar, AcceptedIsLive, Dir, Swapping

(* No failure, crash, repeated run or operator's step loses what an         *)
(* application owns: it is whole at its path or in its rollback copy.       *)
THEOREM OriginalIsKept == Spec => []OriginalKept
<1>1. Spec => [](TypeOK /\ DatabaseInv)
  BY Typed
<1>2. TypeOK /\ PathInv /\ [Next]_vars => PathInv'
  BY StepPaths
<1>3. PathInv => OriginalKept
  BY DEF PathInv
<1> QED BY <1>1, <1>2, <1>3, InitPaths, PTL DEF Spec

-----------------------------------------------------------------------------
(* RollbackIsComplete.                                                      *)

(* A task other than a rollback neither adds to nor takes from what is back.*)
LEMMA SameBack ==
    ASSUME RollbackInv, UNCHANGED <<failed, live, prev, cut, blind, owned>>,
           fact'.rolledBack => fact.rolledBack,
           pc' # "rollback",
           pc' \in {"reload", "rollbackHook", "result"}
             => pc \in {"reload", "rollbackHook", "result"}
    PROVE  RollbackInv'
  BY DEF RollbackInv, Back

(* Loop tasks and an accepted restore run with no rollback reported.        *)
LEMMA NotBackYet ==
    ASSUME RollbackInv, ~fact'.rolledBack, pc' \notin {"rollback", "reload", "rollbackHook", "result"}
    PROVE  RollbackInv'
  BY DEF RollbackInv

LEMMA PutBackBack ==
    ASSUME TypeOK, PathInv, RollbackInv, ~fact.rolledBack, PutBack
    PROVE  RollbackInv'
<1>1. PICK p \in todo : Item(p) /\ ((Well /\ Rollback(p)) \/ (Badly /\ RollbackFails(p)))
  BY DEF PutBack
<1>2. /\ p \in Paths /\ pc = "rollback" /\ pc' = pc /\ todo' = todo \ {p}
      /\ owned' = owned /\ fact' = fact /\ pc \in Swapping
  BY <1>1 DEF PutBack, Item, history, TypeOK, Swapping, Phases
<1>3. /\ \A q \in Paths \ {p} : live'[q] = live[q] /\ prev'[q] = prev[q]
      /\ cut \subseteq cut' /\ blind \subseteq blind'
  BY <1>1 DEF Rollback, RollbackFails, Put, TypeOK, files
<1>4. CASE Badly
  BY <1>2, <1>4 DEF Badly, RollbackInv
<1>5. CASE Well /\ Rollback(p)
  <2>1. p \notin cut' \union blind' => live'[p] = owned[p] /\ ~prev'[p].there
    <3>1. CASE ~prev[p].there
      BY <1>2, <1>3, <1>5, <3>1, GoneIsNotOwned DEF Rollback
    <3>2. CASE prev[p].there /\ Put(p, prev[p], Gone)
      <4>1. live'[p] = prev[p] /\ prev'[p] = Gone
        BY <1>2, <3>2 DEF Put, TypeOK
      <4> QED BY <1>2, <1>3, <3>2, <4>1 DEF PathInv, CopyIsOriginal, Gone
    <3>3. CASE p \in blind'
      BY <3>3
    <3> QED BY <1>5, <3>1, <3>2, <3>3 DEF Rollback
  <2> QED BY <1>2, <1>3, <1>5, <2>1 DEF Well, RollbackInv, Back
<1> QED BY <1>1, <1>4, <1>5

LEMMA StepBack ==
    TypeOK /\ PathInv /\ DatabaseInv /\ RollbackInv /\ [Next]_vars => RollbackInv'
<1> SUFFICES ASSUME TypeOK, PathInv, DatabaseInv, RollbackInv, [Next]_vars PROVE RollbackInv'
  OBVIOUS
<1>1. fact.rolledBack => pc \in {"unstage", "idle"}
  BY DEF DatabaseInv
<1>2. CASE StartRun
  BY <1>2, NotBackYet DEF StartRun, NoFacts, GoTo
<1>3. CASE \/ CheckPaths \/ Extract \/ DumpDatabase \/ StoppedHook \/ EndOfLoop
           \/ ReplacedHook \/ StartRestored \/ EndOfCleanup
  <2>1. fact' = fact /\ pc \notin {"unstage", "idle"}
    BY <1>3 DEF CheckPaths, Extract, DumpDatabase, StoppedHook, EndOfLoop, ReplacedHook,
                StartRestored, EndOfCleanup, facts
  <2> QED BY <1>1, <1>3, <2>1, NotBackYet
          DEF CheckPaths, Extract, DumpDatabase, StoppedHook, EndOfLoop, ReplacedHook,
              StartRestored, EndOfCleanup, GoTo, GoLoop, Halt
<1>4. CASE StopServices \/ LoadDatabase \/ VerifyRestored
  <2>1. fact'.rolledBack = fact.rolledBack /\ pc \notin {"unstage", "idle"}
    BY <1>4 DEF StopServices, LoadDatabase, VerifyRestored, TypeOK, Facts
  <2> QED BY <1>1, <1>4, <2>1, NotBackYet
          DEF StopServices, LoadDatabase, VerifyRestored, GoTo, GoLoop, Halt
<1>5. CASE MoveAside \/ InstallRestored \/ RemoveCopies
  <2>1. fact' = fact /\ pc \in {"aside", "install", "cleanup"} /\ pc' = pc
    BY <1>5 DEF MoveAside, InstallRestored, RemoveCopies, Item
  <2> QED BY <1>1, <2>1, NotBackYet
<1>6. CASE PutBack
  <2>1. ~fact.rolledBack
    BY <1>1, <1>6 DEF PutBack
  <2> QED BY <1>6, <2>1, PutBackBack
<1>7. CASE StopReplacement
  <2>1. pc' = "rollback" /\ todo' = Paths /\ ~fact'.rolledBack
    BY <1>1, <1>7 DEF StopReplacement, GoLoop, facts
  <2> QED BY <2>1 DEF RollbackInv, Back
<1>8. CASE EndOfRollback
  <2>1. /\ pc = "rollback" /\ todo = {} /\ pc' = "reload"
        /\ UNCHANGED <<failed, fact, live, prev, cut, blind, owned>>
    BY <1>8 DEF EndOfRollback, GoTo, facts, files, history
  <2> QED BY <2>1 DEF RollbackInv, Back
<1>9. CASE ReloadDatabase \/ RollbackHook
  <2>1. fact'.rolledBack = fact.rolledBack
    BY <1>9 DEF ReloadDatabase, RollbackHook, TypeOK, Facts
  <2> QED BY <1>9, <2>1, SameBack DEF ReloadDatabase, RollbackHook, GoTo, files, history
<1>10. CASE RecordResult
  <2>1. /\ pc = "result" /\ pc' = "unstage"
        /\ fact'.rolledBack => ~failed
        /\ UNCHANGED <<live, prev, cut, blind, owned>>
    BY <1>10 DEF RecordResult, RolledBack, GoTo, files, history, TypeOK, Facts
  <2> QED BY <2>1 DEF RollbackInv, Back
<1>11. CASE RemoveStaging \/ Crash
  BY <1>11, SameBack DEF RemoveStaging, Crash, GoTo, facts, files, history
<1>12. ASSUME NEW p \in Paths, OperatorPutsBack(p) \/ OperatorRemoves(p)
       PROVE  RollbackInv'
  <2>1. /\ pc' = "idle" /\ fact' = fact /\ owned' = owned /\ prev[p].there
    BY <1>12 DEF OperatorPutsBack, OperatorRemoves, facts, history
  <2>2. /\ \A q \in Paths \ {p} : live'[q] = live[q] /\ prev'[q] = prev[q]
        /\ cut \subseteq cut' /\ blind \subseteq blind'
    BY <1>12 DEF OperatorPutsBack, OperatorRemoves, Rollback, RollbackFails, Cleanup, Put, files,
                 TypeOK
  <2>3. fact.rolledBack => p \in cut \union blind
    BY <2>1 DEF RollbackInv, Back
  <2> QED BY <2>1, <2>2, <2>3 DEF RollbackInv, Back
<1>13. CASE UNCHANGED vars
  BY <1>13 DEF vars, RollbackInv, Back
<1> QED
  BY <1>2, <1>3, <1>4, <1>5, <1>6, <1>7, <1>8, <1>9, <1>10, <1>11, <1>12, <1>13
     DEF Next, RunStep

(* A run that reports a completed rollback has put back every path it could *)
(* see and the database, whatever failed or died before.                    *)
THEOREM ReportedRollbackIsComplete == Spec => []RollbackIsComplete
<1>1. Init => RollbackInv
  BY DEF Init, RollbackInv, NoFacts
<1>2. Init => TypeOK /\ DatabaseInv /\ PathInv
  BY InitType, InitDatabase, InitPaths
<1>3. TypeOK /\ DatabaseInv /\ PathInv /\ RollbackInv /\ [Next]_vars
        => (TypeOK /\ DatabaseInv /\ PathInv /\ RollbackInv)'
  BY StepType, StepDatabase, StepPaths, StepBack
<1>4. RollbackInv /\ DatabaseInv => RollbackIsComplete
  BY DEF RollbackInv, DatabaseInv, RollbackIsComplete, Back
<1> QED BY <1>1, <1>2, <1>3, <1>4, PTL DEF Spec

-----------------------------------------------------------------------------
(* What is installed is the restored state alone.                           *)

RestoredPhases == {"aside", "install", "load", "replacedHook", "start", "verify"}

LEMMA StepRestored == TypeOK /\ RestoredInv /\ [Next]_vars => RestoredInv'
<1> SUFFICES ASSUME TypeOK, RestoredInv, [Next]_vars PROVE RestoredInv'
  OBVIOUS
<1> USE DEF RestoredInv
<1>1. CASE MoveAside
  <2>1. PICK p \in todo : Item(p) /\ ((Well /\ Aside(p)) \/ (Badly /\ AsideFails(p)))
    BY <1>1 DEF MoveAside
  <2>2. p \in Paths /\ pc = "aside" /\ pc' = pc /\ todo' = todo \ {p}
    BY <1>1, <2>1 DEF MoveAside, Item, TypeOK
  <2>3. CASE Badly
    BY <2>2, <2>3 DEF Badly
  <2>4. CASE Well /\ Aside(p)
    <3>1. /\ \A q \in Paths \ {p} : live'[q] = live[q]
          /\ live'[p] = IF p \in Mounts THEN Dir({}) ELSE Gone
      BY <2>2, <2>4 DEF Aside, Put, TypeOK
    <3> QED BY <2>2, <2>4, <3>1 DEF Well, Dir, Gone
  <2> QED BY <2>1, <2>3, <2>4
<1>2. CASE InstallRestored
  <2>1. PICK p \in todo : Item(p) /\ ((Well /\ Install(p)) \/ (Badly /\ InstallFails(p)))
    BY <1>2 DEF InstallRestored
  <2>2. p \in Paths /\ pc = "install" /\ pc' = pc /\ todo' = todo \ {p} /\ run' = run
    BY <1>2, <2>1 DEF InstallRestored, Item, TypeOK
  <2>3. \A q \in Paths \ {p} : live'[q] = live[q]
    BY <2>1 DEF Install, InstallFails, Put, files, TypeOK
  <2>4. todo' \subseteq Paths \ {p}
    BY <2>2 DEF TypeOK
  <2>5. CASE Badly
    BY <2>2, <2>3, <2>4, <2>5 DEF Badly
  <2>6. CASE Well /\ Install(p)
    <3>1. live'[p] = Dir(Version(run)) /\ run' = run
      BY <2>1, <2>2, <2>6 DEF Install, Put, TypeOK
    <3> QED BY <2>2, <2>3, <2>4, <2>6, <3>1 DEF Well, Version
  <2> QED BY <2>1, <2>5, <2>6
<1>3. CASE EndOfLoop
  <2>1. todo = {} /\ pc \in {"aside", "install"} /\ UNCHANGED <<live, run>>
    BY <1>3 DEF EndOfLoop, facts, files
  <2> QED BY <1>3, <2>1 DEF EndOfLoop, GoLoop, GoTo, Halt
<1>4. CASE StoppedHook
  BY <1>4 DEF StoppedHook, GoLoop, GoTo, Halt
<1>5. CASE LoadDatabase \/ ReplacedHook \/ StartRestored \/ VerifyRestored
  BY <1>5 DEF LoadDatabase, ReplacedHook, StartRestored, VerifyRestored, GoTo, GoLoop, Halt,
              facts, files
<1>6. CASE \/ StartRun \/ CheckPaths \/ Extract \/ StopServices \/ DumpDatabase
           \/ RemoveCopies \/ EndOfCleanup \/ StopReplacement \/ PutBack \/ EndOfRollback
           \/ ReloadDatabase \/ RollbackHook \/ RecordResult \/ RemoveStaging \/ Crash
           \/ \E p \in Paths : OperatorPutsBack(p) \/ OperatorRemoves(p)
  <2>1. pc' \notin RestoredPhases
    BY <1>6 DEF StartRun, CheckPaths, Extract, StopServices, DumpDatabase, RemoveCopies,
                EndOfCleanup, StopReplacement, PutBack, EndOfRollback, ReloadDatabase,
                RollbackHook, RecordResult, RemoveStaging, Crash, OperatorPutsBack,
                OperatorRemoves, Item, GoTo, GoLoop, Halt, RestoredPhases
  <2> QED BY <2>1 DEF RestoredPhases
<1>7. CASE UNCHANGED vars
  BY <1>7 DEF vars
<1> QED BY <1>1, <1>2, <1>3, <1>4, <1>5, <1>6, <1>7 DEF Next, RunStep

-----------------------------------------------------------------------------
(* The restore swap implements the restore contract, for any paths, mounts, *)
(* entries and number of runs.  The invariants above say                    *)
(* where each path's owned state is; DumpInv says it of the database, and   *)
(* SaidInv what the run's facts say at each phase.                          *)

(* What a step leaves alone, when it only moves the controller on.          *)
LEMMA SameSaid ==
    ASSUME SaidInv, UNCHANGED <<fact, live, cut, db, owned, ownedDb>>,
           pc' \in Phases,
           pc' \in {"check", "extract", "stop", "cleanup"} => pc' = pc,
           pc' \in Swapping => pc \in Swapping \ {"extract", "stop"}
    PROVE  SaidInv'
  BY DEF SaidInv, Swapping, Phases

(* SaidInv is kept by every step.                                           *)
LEMMA StepSaid ==
    TypeOK /\ DatabaseInv /\ PathInv /\ SaidInv /\ [Next]_vars => SaidInv'
<1> SUFFICES ASSUME TypeOK, DatabaseInv, PathInv, SaidInv, [Next]_vars PROVE SaidInv'
  OBVIOUS
<1>1. CASE StartRun
  BY <1>1 DEF StartRun, GoTo, SaidInv, NoFacts, Swapping, Phases
<1>2. CASE CheckPaths
  <2>1. CASE pc' = "unstage"
    BY <1>2, <2>1 DEF CheckPaths, GoTo, SaidInv, facts, files, Swapping, Phases
  <2>2. CASE pc' = "extract"
    <3>1. \A p \in Paths : live[p].there /\ ~prev[p].there
      BY <1>2, <2>2 DEF CheckPaths, GoTo
    <3>2. \A p \in Paths \ cut : live[p] = owned[p]
      BY <3>1 DEF PathInv, OriginalKept, OwnedIsThere
    <3> QED BY <1>2, <2>2, <3>2 DEF CheckPaths, GoTo, SaidInv, facts, files, Swapping, Phases
  <2> QED BY <1>2, <2>1, <2>2 DEF CheckPaths, GoTo
<1>3. CASE Extract
  BY <1>3 DEF Extract, GoTo, SaidInv, facts, files, history, Swapping, Phases
<1>4. CASE StopServices
  <2>1. fact'.stopped /\ fact'.complete = fact.complete
    BY <1>4 DEF StopServices, TypeOK, Facts
  <2> QED BY <1>4, <2>1 DEF StopServices, GoTo, Halt, SaidInv, files, history, Swapping, Phases
<1>5. CASE \/ DumpDatabase \/ StoppedHook \/ EndOfLoop \/ ReplacedHook \/ StartRestored
           \/ StopReplacement \/ EndOfRollback \/ EndOfCleanup \/ RemoveStaging \/ Crash
  BY <1>5, SameSaid
     DEF DumpDatabase, StoppedHook, EndOfLoop, ReplacedHook, StartRestored, StopReplacement,
         EndOfRollback, EndOfCleanup, RemoveStaging, Crash, GoTo, GoLoop, Halt, facts, files,
         history, Swapping, Phases
<1>6. CASE MoveAside \/ InstallRestored \/ PutBack \/ RemoveCopies
  <2>1. /\ pc' = pc /\ pc \in {"aside", "install", "rollback", "cleanup"}
        /\ UNCHANGED <<fact, db, ownedDb>>
    BY <1>6 DEF MoveAside, InstallRestored, PutBack, RemoveCopies, Item, history
  <2> QED BY <2>1 DEF SaidInv, Swapping, Phases
<1>7. CASE LoadDatabase \/ ReloadDatabase \/ RollbackHook \/ RecordResult
  <2>1. /\ fact'.stopped = fact.stopped /\ fact'.complete = fact.complete
        /\ pc \in Swapping \ {"extract", "stop"}
        /\ pc' \in {"replacedHook", "halt", "rollbackHook", "result", "unstage"}
    BY <1>7 DEF LoadDatabase, ReloadDatabase, RollbackHook, RecordResult, GoTo, Halt, TypeOK,
                Facts, Swapping, Phases
  <2> QED BY <2>1 DEF SaidInv, Swapping, Phases
<1>8. CASE VerifyRestored
  <2>1. CASE pc' = "cleanup"
    <3>1. fact'.complete /\ fact'.stopped = fact.stopped /\ ownedDb' = db /\ db' = db
      BY <1>8, <2>1 DEF VerifyRestored, GoLoop, Halt, GoTo, TypeOK, Facts
    <3> QED BY <2>1, <3>1 DEF SaidInv, Swapping, Phases
  <2>2. CASE pc' = "halt"
    BY <1>8, <2>2 DEF VerifyRestored, GoLoop, Halt, GoTo, SaidInv, Swapping, Phases
  <2> QED BY <1>8, <2>1, <2>2 DEF VerifyRestored, GoLoop, Halt, GoTo
<1>9. ASSUME NEW p \in Paths, OperatorPutsBack(p) \/ OperatorRemoves(p) PROVE SaidInv'
  BY <1>9 DEF OperatorPutsBack, OperatorRemoves, SaidInv, facts, history, Swapping, Phases
<1>10. CASE UNCHANGED vars
  BY <1>10 DEF vars, SaidInv
<1> QED
  BY <1>1, <1>2, <1>3, <1>4, <1>5, <1>6, <1>7, <1>8, <1>9, <1>10 DEF Next, RunStep

-----------------------------------------------------------------------------
(* The database.                                                            *)

(* A step that touches neither the dumps nor what they are dumps of.        *)
LEMMA SameDump ==
    ASSUME DumpInv, UNCHANGED <<run, staging, db, ownedDb, startDb>>,
           fact'.stopped = fact.stopped, fact'.complete = fact.complete,
           pc' \in Phases,
           pc' \in Swapping => pc \in Swapping,
           pc' = "unstage" => \/ pc \in Swapping \cup {"unstage"}
                              \/ ~fact.stopped \/ fact.complete
    PROVE  DumpInv'
  BY DEF DumpInv, OwnedDatabaseKept, InEarlierRun

(* While the run's own dump holds what it found, the owned database is kept *)
(* whatever becomes of the live one.                                        *)
LEMMA DumpHolds ==
    ASSUME TypeOK, DumpInv, pc \in Swapping, run \in 1..MaxRuns,
           staging[run].dump = startDb
    PROVE  \E r \in 1..run : staging[r].there /\ staging[r].dump = ownedDb
<1>1. CASE startDb = ownedDb
  BY <1>1 DEF DumpInv
<1>2. CASE InEarlierRun(ownedDb)
  BY <1>2 DEF InEarlierRun
<1> QED BY <1>1, <1>2 DEF DumpInv

(* DumpInv is kept by every step.                                           *)
LEMMA StepDump ==
    TypeOK /\ DatabaseInv /\ SaidInv /\ DumpInv /\ [Next]_vars => DumpInv'
<1> SUFFICES ASSUME TypeOK, DatabaseInv, SaidInv, DumpInv, [Next]_vars PROVE DumpInv'
  OBVIOUS
<1> USE RunsAssumption, DatabaseAssumption
<1>0. /\ run \in 0..MaxRuns /\ db \in Torn..MaxRuns /\ ownedDb \in Torn..MaxRuns
      /\ staging \in [1..MaxRuns -> [there : BOOLEAN, dump : NoDump..MaxRuns]]
      /\ ownedDb # NoDump /\ MaxRuns \in Nat
  BY DEF TypeOK, Torn, NoDump
<1>1. CASE StartRun
  <2>1. /\ run' = run + 1 /\ pc' = "check" /\ ~fact'.stopped
        /\ UNCHANGED <<staging, db, ownedDb, startDb>>
    BY <1>1 DEF StartRun, GoTo, NoFacts, history
  <2> QED BY <1>0, <2>1 DEF DumpInv, OwnedDatabaseKept, Swapping, Phases
<1>2. CASE CheckPaths
  <2>1. /\ pc = "check" /\ run \in 1..MaxRuns /\ ~fact.stopped
        /\ UNCHANGED <<run, fact, db, ownedDb>>
        /\ staging' = [staging EXCEPT ![run].there = TRUE]
    BY <1>2 DEF CheckPaths, facts, DatabaseInv, SaidInv
  <2>2. /\ \A r \in 1..MaxRuns : staging'[r].dump = staging[r].dump
        /\ \A r \in 1..MaxRuns : staging[r].there => staging'[r].there
        /\ staging'[run].there
    BY <1>0, <2>1
  <2>3. OwnedDatabaseKept'
    BY <1>0, <2>1, <2>2 DEF DumpInv, OwnedDatabaseKept
  <2>4. CASE pc' = "unstage"
    BY <2>1, <2>2, <2>3, <2>4 DEF DumpInv, Swapping
  <2>5. CASE pc' = "extract"
    <3>1. startDb' = db
      BY <1>2, <2>5 DEF CheckPaths, GoTo
    <3>2. db = ownedDb \/ InEarlierRun(ownedDb)
      <4>1. staging[run].dump = NoDump
        BY <2>1 DEF DumpInv
      <4> QED BY <1>0, <2>1, <4>1 DEF DumpInv, OwnedDatabaseKept, InEarlierRun
    <3>3. startDb' = ownedDb' \/ InEarlierRun(ownedDb)'
      BY <1>0, <2>1, <2>2, <3>1, <3>2 DEF InEarlierRun
    <3> QED BY <2>1, <2>2, <2>3, <2>5, <3>3 DEF DumpInv
  <2> QED BY <1>2, <2>4, <2>5 DEF CheckPaths, GoTo
<1>3. CASE Extract
  BY <1>3, SameDump DEF Extract, GoTo, facts, history, Swapping, Phases
<1>4. CASE StopServices
  <2>1. /\ pc = "stop" /\ pc' \in {"dump", "halt"} /\ fact'.stopped
        /\ UNCHANGED <<run, db, staging, ownedDb, startDb>>
    BY <1>4 DEF StopServices, GoTo, Halt, history, TypeOK, Facts
  <2> QED BY <2>1 DEF DumpInv, OwnedDatabaseKept, InEarlierRun, Swapping, Phases
<1>5. CASE DumpDatabase
  <2>1. /\ pc = "dump" /\ pc' \in {"stoppedHook", "halt"} /\ run \in 1..MaxRuns
        /\ UNCHANGED <<run, fact, db, ownedDb, startDb>> /\ fact.stopped
    BY <1>5 DEF DumpDatabase, GoTo, Halt, facts, history, DatabaseInv, SaidInv, Swapping, Phases
  <2>2. CASE staging' = staging
    BY <2>1, <2>2, SameDump DEF Swapping, Phases
  <2>3. CASE staging' = [staging EXCEPT ![run].dump = db]
    <3>1. /\ \A r \in (1..MaxRuns) \ {run} : staging'[r] = staging[r]
          /\ staging'[run].dump = db /\ staging'[run].there = staging[run].there
      BY <1>0, <2>1, <2>3
    <3>2. startDb = ownedDb \/ InEarlierRun(ownedDb)
      BY <2>1 DEF DumpInv, Swapping, Phases
    <3>3. InEarlierRun(ownedDb) => InEarlierRun(ownedDb)'
      BY <1>0, <2>1, <3>1 DEF InEarlierRun
    <3>4. db = startDb /\ staging[run].there
      BY <2>1 DEF DatabaseInv, DumpInv, BeforeLoad, Swapping, Phases
    <3>5. OwnedDatabaseKept'
      BY <1>0, <2>1, <3>1, <3>2, <3>3, <3>4 DEF OwnedDatabaseKept, InEarlierRun
    <3> QED BY <2>1, <3>1, <3>2, <3>3, <3>4, <3>5 DEF DumpInv, Swapping, Phases
  <2> QED BY <1>5, <2>2, <2>3 DEF DumpDatabase
<1>6. CASE StoppedHook \/ EndOfLoop \/ ReplacedHook \/ StartRestored \/ StopReplacement
           \/ EndOfRollback \/ EndOfCleanup \/ Crash
  <2>1. pc = "cleanup" => fact.complete
    BY DEF SaidInv
  <2> QED
    BY <1>6, <2>1, SameDump
       DEF StoppedHook, EndOfLoop, ReplacedHook, StartRestored, StopReplacement, EndOfRollback,
           EndOfCleanup, Crash, GoTo, GoLoop, Halt, facts, history, Swapping, Phases
<1>7. CASE MoveAside \/ InstallRestored \/ PutBack \/ RemoveCopies
  BY <1>7, SameDump
     DEF MoveAside, InstallRestored, PutBack, RemoveCopies, Item, history, TypeOK, Swapping
<1>8. CASE LoadDatabase \/ ReloadDatabase
  <2>1. /\ pc \in {"load", "reload"} /\ pc' \in Swapping /\ run \in 1..MaxRuns
        /\ UNCHANGED <<run, staging, ownedDb, startDb>>
        /\ fact'.stopped = fact.stopped /\ fact'.complete = fact.complete
    BY <1>8 DEF LoadDatabase, ReloadDatabase, GoTo, Halt, history, DatabaseInv, TypeOK, Facts,
                Swapping, Phases
  <2>2. db' = db \/ staging[run].dump = startDb
    BY <1>8 DEF LoadDatabase, ReloadDatabase, DatabaseInv, Dumped
  <2>3. OwnedDatabaseKept'
    <3>1. pc \in Swapping
      BY <2>1 DEF Swapping, Phases
    <3> QED BY <2>1, <2>2, <3>1, DumpHolds DEF DumpInv, OwnedDatabaseKept
  <2>4. pc \in Swapping /\ pc' # "unstage"
    BY <2>1 DEF Swapping, Phases
  <2> QED BY <2>1, <2>3, <2>4 DEF DumpInv, InEarlierRun
<1>9. CASE RollbackHook \/ RecordResult
  <2>1. /\ fact'.stopped = fact.stopped /\ fact'.complete = fact.complete
    BY <1>9 DEF RollbackHook, RecordResult, TypeOK, Facts
  <2> QED BY <1>9, <2>1, SameDump
          DEF RollbackHook, RecordResult, GoTo, history, Swapping, Phases
<1>10. CASE VerifyRestored
  <2>1. CASE pc' = "cleanup"
    <3>1. /\ ownedDb' = db /\ db' = db /\ pc = "verify" /\ fact'.stopped = fact.stopped
          /\ UNCHANGED <<run, staging>>
      BY <1>10, <2>1 DEF VerifyRestored, GoLoop, Halt, GoTo, TypeOK, Facts
    <3> QED BY <2>1, <3>1 DEF DumpInv, OwnedDatabaseKept, Swapping
  <2>2. CASE pc' = "halt"
    BY <1>10, <2>2, SameDump DEF VerifyRestored, GoLoop, Halt, GoTo, Swapping, Phases
  <2> QED BY <1>10, <2>1, <2>2 DEF VerifyRestored, GoLoop, Halt, GoTo
<1>11. CASE RemoveStaging
  <2>1. /\ pc = "unstage" /\ pc' = "idle" /\ run \in 1..MaxRuns
        /\ UNCHANGED <<run, fact, db, ownedDb>>
    BY <1>11 DEF RemoveStaging, GoTo, facts, history, DatabaseInv
  <2>2. /\ \A r \in 1..MaxRuns : staging'[r].dump = staging[r].dump
        /\ \A r \in (1..MaxRuns) \ {run} : staging'[r] = staging[r]
    BY <1>0, <1>11, <2>1 DEF RemoveStaging
  <2>3. OwnedDatabaseKept'
    <3>1. CASE staging' = staging
      BY <2>1, <3>1 DEF DumpInv, OwnedDatabaseKept
    <3>2. CASE fact.complete
      BY <2>1, <3>2 DEF SaidInv, OwnedDatabaseKept
    <3>3. CASE ~fact.stopped
      <4>1. staging[run].dump = NoDump
        BY <2>1, <3>3 DEF DumpInv
      <4> QED BY <1>0, <2>1, <2>2, <4>1 DEF DumpInv, OwnedDatabaseKept
    <3>4. CASE fact.rolledBack /\ fact.stopped /\ ~fact.complete
      <4>1. db = startDb /\ (startDb = ownedDb \/ InEarlierRun(ownedDb))
        BY <2>1, <3>4 DEF DatabaseInv, DumpInv
      <4> QED BY <1>0, <2>1, <2>2, <4>1 DEF OwnedDatabaseKept, InEarlierRun
    <3> QED BY <1>11, <3>1, <3>2, <3>3, <3>4 DEF RemoveStaging, MayUnstage
  <2> QED BY <2>1, <2>2, <2>3 DEF DumpInv, Swapping
<1>12. ASSUME NEW p \in Paths, OperatorPutsBack(p) \/ OperatorRemoves(p) PROVE DumpInv'
  BY <1>12, SameDump DEF OperatorPutsBack, OperatorRemoves, facts, history, Swapping, Phases
<1>13. CASE UNCHANGED vars
  BY <1>13 DEF vars, DumpInv, OwnedDatabaseKept, InEarlierRun
<1> QED
  BY <1>1, <1>2, <1>3, <1>4, <1>5, <1>6, <1>7, <1>8, <1>9, <1>10, <1>11, <1>12, <1>13
     DEF Next, RunStep

-----------------------------------------------------------------------------
(* The refinement.                                                          *)

Inv == TypeOK /\ DatabaseInv /\ PathInv /\ RollbackInv /\ SaidInv /\ DumpInv

(* No part is without its owned state or a copy of it.                      *)
LEMMA MappedState == Inv => Contract!TypeOK /\ Contract!Whole
<1> SUFFICES ASSUME Inv PROVE Contract!TypeOK /\ Contract!Whole
  OBVIOUS
<1>1. Home \subseteq Paths \cup {Database} /\ Kept \subseteq Paths \cup {Database}
  BY DEF Home, Kept
<1>2. Found \subseteq Paths \cup {Database}
  BY <1>1 DEF Found, Ended
<1>3. Told \in Contract!Says
  BY DEF Told, Ended, Contract!Says
<1>4. \A p \in Paths : p \in Home \cup Kept
  BY DEF Home, Kept, Inv, PathInv, OriginalKept
<1>5. Database \in Home \cup Kept
  BY DEF Home, Kept, Inv, DumpInv, OwnedDatabaseKept
<1> QED BY <1>1, <1>2, <1>3, <1>4, <1>5 DEF Contract!TypeOK, Contract!Whole

LEMMA RunningSays ==
    ASSUME Inv, pc \in Swapping \cup {"check"}
    PROVE  Told = "running" /\ ~fact.complete /\ ~fact.rolledBack
  BY DEF Inv, SaidInv, DatabaseInv, Told, Ended, Swapping, Phases

(* A task of a run under way: what it found does not change any more.       *)
LEMMA Worked ==
    ASSUME Inv, pc \in Swapping \cup {"check"}, pc' # "idle",
           ~fact'.complete, ~fact'.rolledBack,
           UNCHANGED <<owned, ownedDb>>, Found' = Found
    PROVE  Contract!Work
  BY RunningSays DEF Contract!Work, Told, Ended

(* After the stop, the facts a contract reads are the run's own.            *)
LEMMA WorkedStopped ==
    ASSUME Inv, pc \in Swapping \ {"extract", "stop"}, pc' # "idle",
           fact'.stopped = fact.stopped, fact'.complete = fact.complete,
           fact'.rolledBack = fact.rolledBack, UNCHANGED <<owned, ownedDb, startDb>>
    PROVE  Contract!Work
<1>1. /\ fact.stopped /\ pc # "idle"
      /\ ~fact.complete /\ ~fact.rolledBack
  BY RunningSays DEF Inv, SaidInv, Swapping, Phases
<1>2. Found' = Found
  BY <1>1 DEF Found, Ended
<1> QED BY <1>1, <1>2, Worked

(* Between runs: only what is at home grows.                                *)
LEMMA Between ==
    ASSUME Inv, pc' = "idle" \/ fact.complete \/ fact.rolledBack,
           pc = "idle" \/ fact.complete \/ fact.rolledBack,
           UNCHANGED <<fact, run, owned, ownedDb>>,
           (~fact.complete /\ ~fact.rolledBack) => pc' = pc,
           Home \subseteq Home'
    PROVE  Contract!PutBack
<1>1. Told' = Told /\ Told # "running" /\ Found' = Found
  BY DEF Told, Found, Ended
<1> QED BY <1>1 DEF Contract!PutBack

(* Every step of the swap is a step of the contract.                        *)
LEMMA ContractStep ==
    Inv /\ Inv' /\ [Next]_vars => Contract!Step \/ UNCHANGED Contract!vars
<1> SUFFICES ASSUME Inv, Inv', [Next]_vars
             PROVE  Contract!Step \/ UNCHANGED Contract!vars
  OBVIOUS
<1> USE DEF Contract!Step
<1>1. CASE StartRun
  <2>1. /\ pc = "idle" /\ pc' = "check" /\ fact' = NoFacts
        /\ UNCHANGED <<live, cut, blind, db, owned, ownedDb>>
    BY <1>1 DEF StartRun, GoTo, files, history
  <2>2. Told # "running" /\ Told' = "running" /\ Home' = Home
    BY <2>1 DEF Told, Ended, NoFacts, Home
  <2>3. Found' = Home'
    BY <2>1 DEF Found, Ended, NoFacts
  <2> QED BY <2>1, <2>2, <2>3 DEF Contract!Begin
<1>2. CASE CheckPaths \/ Extract
  <2>1. /\ pc \in {"check", "extract"} /\ pc' # "idle"
        /\ UNCHANGED <<fact, live, cut, blind, db, owned, ownedDb>>
    BY <1>2 DEF CheckPaths, Extract, GoTo, facts, files, history
  <2>2. pc \in Swapping \cup {"check"} /\ ~fact.stopped
    BY <2>1 DEF Inv, SaidInv, Swapping, Phases
  <2>3. Found' = Found
    BY <2>1, <2>2, RunningSays DEF Found, Ended, Home
  <2> QED BY <2>1, <2>2, <2>3, Worked, RunningSays
<1>3. CASE StopServices
  <2>1. /\ pc = "stop" /\ pc' \in {"dump", "halt"} /\ fact'.stopped
        /\ fact'.complete = fact.complete /\ fact'.rolledBack = fact.rolledBack
        /\ UNCHANGED <<live, cut, blind, db, owned, ownedDb, startDb>>
    BY <1>3 DEF StopServices, GoTo, Halt, files, history, Inv, TypeOK, Facts
  <2>2. /\ ~fact.stopped /\ pc \in Swapping
        /\ \A p \in Paths \ cut : live[p] = owned[p]
        /\ db = startDb
    BY <2>1 DEF Inv, SaidInv, DatabaseInv, BeforeLoad, Swapping, Phases
  <2>3. Home = Paths \cup {x \in {Database} : startDb = ownedDb}
    BY <2>2 DEF Home
  <2>4. Found = Home
    BY <2>1, <2>2, RunningSays DEF Found, Ended
  <2>5. Found' = Paths \cup {x \in {Database} : startDb = ownedDb}
    BY <2>1, <2>2, RunningSays DEF Found, Ended
  <2>6. Found' = Found
    BY <2>3, <2>4, <2>5
  <2> QED BY <2>1, <2>2, <2>6, Worked, RunningSays
<1>4. CASE \/ DumpDatabase \/ StoppedHook \/ EndOfLoop \/ LoadDatabase \/ ReplacedHook
           \/ StartRestored \/ StopReplacement \/ EndOfRollback \/ ReloadDatabase
           \/ RollbackHook
  <2>1. /\ pc \in Swapping \ {"extract", "stop"} /\ pc' # "idle"
        /\ UNCHANGED <<owned, ownedDb, startDb>>
    BY <1>4 DEF DumpDatabase, StoppedHook, EndOfLoop, LoadDatabase, ReplacedHook,
                StartRestored, StopReplacement, EndOfRollback, ReloadDatabase, RollbackHook,
                GoTo, GoLoop, Halt, history, Swapping, Phases
  <2>2. /\ fact'.stopped = fact.stopped /\ fact'.complete = fact.complete
        /\ fact'.rolledBack = fact.rolledBack
    BY <1>4 DEF DumpDatabase, StoppedHook, EndOfLoop, LoadDatabase, ReplacedHook,
                StartRestored, StopReplacement, EndOfRollback, ReloadDatabase, RollbackHook,
                facts, Inv, TypeOK, Facts
  <2> QED BY <2>1, <2>2, WorkedStopped
<1>5. CASE MoveAside \/ InstallRestored \/ PutBack
  BY <1>5, WorkedStopped DEF MoveAside, InstallRestored, PutBack, Item, history, Swapping, Phases
<1>6. CASE VerifyRestored
  <2>1. pc = "verify" /\ pc \in Swapping \ {"extract", "stop"}
    BY <1>6 DEF VerifyRestored, Swapping, Phases
  <2>2. CASE pc' = "halt"
    BY <1>6, <2>1, <2>2, WorkedStopped DEF VerifyRestored, GoLoop
  <2>3. CASE pc' = "cleanup"
    <3>1. fact'.complete /\ owned' = live' /\ ownedDb' = db'
      BY <1>6, <2>3 DEF VerifyRestored, Halt, GoTo, Inv, TypeOK, Facts
    <3>2. Home' = Paths \cup {Database}
      BY <3>1 DEF Home
    <3>3. Told = "running" /\ Told' = "accepted" /\ Found' = {}
      BY <2>1, <3>1, RunningSays DEF Told, Found, Ended
    <3> QED BY <3>2, <3>3 DEF Contract!Accept
  <2> QED BY <1>6, <2>2, <2>3 DEF VerifyRestored, GoLoop, Halt, GoTo
<1>7. CASE RemoveCopies \/ EndOfCleanup
  <2>1. fact.complete
    BY <1>7 DEF RemoveCopies, EndOfCleanup, Inv, SaidInv
  <2>2. UNCHANGED <<fact, run, live, cut, blind, db, owned, ownedDb>>
    BY <1>7 DEF RemoveCopies, EndOfCleanup, Item, Cleanup, CleanupFails, Put, GoTo, facts,
                files, history, Inv, TypeOK
  <2>3. Home' = Home
    BY <2>2 DEF Home
  <2> QED BY <2>1, <2>2, <2>3, Between
<1>8. CASE RecordResult
  <2>1. /\ pc = "result" /\ pc' = "unstage" /\ fact'.stopped = fact.stopped
        /\ fact'.complete = fact.complete /\ fact.stopped /\ ~fact.complete
        /\ fact.rolledBack = FALSE /\ fact'.rolledBack \in BOOLEAN /\ Told = "running"
        /\ run' \in 1..MaxRuns /\ UNCHANGED <<db, owned, ownedDb, startDb>>
    BY <1>8, RunningSays
       DEF RecordResult, GoTo, history, Inv, TypeOK, Facts, SaidInv, DatabaseInv, Swapping,
           Phases
  <2>2. CASE ~fact'.rolledBack
    BY <2>1, <2>2, WorkedStopped DEF Swapping, Phases
  <2>3. CASE fact'.rolledBack
    <3>1. Found = Paths \cup {x \in {Database} : startDb = ownedDb}
      BY <2>1 DEF Found, Ended
    <3>2. \A p \in Paths : p \in Home'
      BY <2>3 DEF Home, Inv, RollbackInv, Back
    <3>3. startDb = ownedDb => Database \in Home'
      BY <2>1, <2>3 DEF Home, Inv, DatabaseInv
    <3>4. Told' = "unchanged" /\ Found' = {}
      BY <2>1, <2>3 DEF Told, Found, Ended
    <3> QED BY <2>1, <3>1, <3>2, <3>3, <3>4 DEF Contract!Return
  <2> QED BY <2>2, <2>3
<1>9. CASE RemoveStaging \/ Crash
  <2>1. /\ pc # "idle" /\ pc' = "idle" /\ run \in 1..MaxRuns
        /\ UNCHANGED <<fact, run, live, cut, blind, db, owned, ownedDb>>
    BY <1>9 DEF RemoveStaging, Crash, GoTo, facts, files, history, Inv, DatabaseInv
  <2>2. Home' = Home /\ Found' = {}
    BY <2>1 DEF Home, Found, Ended
  <2>3. CASE fact.complete \/ fact.rolledBack
    BY <2>1, <2>2, <2>3, Between
  <2>4. CASE ~fact.complete /\ ~fact.rolledBack
    <3>1. Told = "running"
      BY <2>1, <2>4 DEF Told, Ended
    <3>2. CASE fact.stopped
      <4>1. Told' = "unsettled"
        BY <2>1, <2>4, <3>2 DEF Told, Ended
      <4> QED BY <2>1, <2>2, <3>1, <4>1 DEF Contract!GiveUp
    <3>3. CASE ~fact.stopped
      <4>1. Told' = "unchanged" /\ Found = Home
        BY <2>1, <2>4, <3>3 DEF Told, Found, Ended
      <4> QED BY <2>1, <2>2, <3>1, <4>1 DEF Contract!Return
    <3> QED BY <3>2, <3>3
  <2> QED BY <2>3, <2>4
<1>10. ASSUME NEW p \in Paths, OperatorPutsBack(p) \/ OperatorRemoves(p)
       PROVE  Contract!Step
  <2>1. /\ pc = "idle" /\ pc' = pc
        /\ UNCHANGED <<fact, run, db, owned, ownedDb>>
    BY <1>10 DEF OperatorPutsBack, OperatorRemoves, facts, history
  <2>2. /\ \A q \in Paths \ {p} : live'[q] = live[q]
        /\ cut \subseteq cut' /\ blind \subseteq blind'
        /\ live[p] = owned[p] => live'[p] = live[p]
    BY <1>10 DEF OperatorPutsBack, OperatorRemoves, Rollback, RollbackFails, Cleanup, Put, files,
                 Inv, TypeOK
  <2>3. Home \subseteq Home'
    BY <2>1, <2>2 DEF Home
  <2> QED BY <2>1, <2>3, Between
<1>11. CASE UNCHANGED vars
  <2>1. Home' = Home /\ Kept' = Kept /\ Found' = Found /\ Told' = Told
    BY <1>11 DEF vars, Home, Kept, Found, Told, Ended
  <2> QED BY <1>11, <2>1 DEF vars, Contract!vars
<1> QED
  BY <1>1, <1>2, <1>3, <1>4, <1>5, <1>6, <1>7, <1>8, <1>9, <1>10, <1>11 DEF Next, RunStep

LEMMA InitContract == Init => Inv /\ Contract!Init
<1> SUFFICES ASSUME Init PROVE Inv /\ Contract!Init
  OBVIOUS
<1>1. Inv
  <2>1. TypeOK /\ DatabaseInv /\ PathInv
    BY InitType, InitDatabase, InitPaths
  <2>2. RollbackInv /\ SaidInv
    BY DEF Init, RollbackInv, SaidInv, NoFacts, Swapping
  <2>3. DumpInv
    BY DEF Init, DumpInv, OwnedDatabaseKept, Swapping
  <2> QED BY <2>1, <2>2, <2>3 DEF Inv
<1>2. Home = Paths \cup {Database} /\ Told = "nothing" /\ Found = {}
  BY DEF Init, Home, Told, Found, Ended, NoFacts
<1> QED BY <1>1, <1>2, MappedState DEF Contract!Init

(* The restore swap keeps the restore contract: seen from outside, no part  *)
(* is ever without its owned state or a copy of it, the restored state is   *)
(* accepted in all parts at once, and the original is said to be back only  *)
(* when it is (restore-swap.yml's rescue and always sections).              *)
THEOREM SwapKeepsContract == Spec => KeepsContract
<1>1. Init => Inv /\ Contract!Init
  BY InitContract
<1>2. Inv /\ [Next]_vars => Inv'
  BY StepType, StepDatabase, StepPaths, StepBack, StepSaid, StepDump DEF Inv
<1>3. Inv /\ Inv' /\ [Next]_vars => Contract!Step \/ UNCHANGED Contract!vars
  BY ContractStep
<1>4. Inv => Contract!TypeOK /\ Contract!Whole
  BY MappedState
<1>5. Contract!Step /\ (Contract!TypeOK /\ Contract!Whole)' => Contract!Next
  BY DEF Contract!Next
<1>6. Contract!Step \/ UNCHANGED Contract!vars => [Contract!Step]_(Contract!vars)
  OBVIOUS
<1>7. Inv /\ Inv' /\ [Next]_vars /\ (Contract!TypeOK /\ Contract!Whole)'
        => [Contract!Next]_(Contract!vars)
  BY <1>3, <1>5
<1> QED BY <1>1, <1>2, <1>4, <1>7, PTL DEF Spec, KeepsContract, Contract!Spec

-----------------------------------------------------------------------------
(* What services are started on.                                            *)

(* Services that were stopped are started only by a run that has installed  *)
(* everything, or by one that has put every path back, with the database it *)
(* found; where that is not the owned one, an earlier run's staging holds   *)
(* the owned one's dump (restore-swap.yml's "Start the services" and "Start *)
(* the original services").                                                 *)
THEOREM StartsAreAccounted == Spec => StartsOnAccountedState
<1>1. Init => Inv /\ RestoredInv
  BY InitContract DEF Init, RestoredInv
<1>2. Inv /\ RestoredInv /\ [Next]_vars => (Inv /\ RestoredInv)'
  BY StepType, StepDatabase, StepPaths, StepBack, StepSaid, StepDump, StepRestored DEF Inv
<1>3. Inv /\ RestoredInv /\ [Next]_vars
        => [services = "stopped" /\ services' = "running"
              => OriginalOrFound \/ WholeRestored]_vars
  <2> SUFFICES ASSUME Inv, RestoredInv, Next, services = "stopped", services' = "running"
               PROVE  OriginalOrFound \/ WholeRestored
    OBVIOUS
  <2>1. StartRestored \/ (RecordResult /\ RolledBack)
    BY DEF Next, RunStep, StartRun, CheckPaths, Extract, StopServices, DumpDatabase,
           StoppedHook, MoveAside, InstallRestored, EndOfLoop, LoadDatabase, ReplacedHook,
           VerifyRestored, RemoveCopies, EndOfCleanup, StopReplacement, PutBack,
           EndOfRollback, ReloadDatabase, RollbackHook, RecordResult, RemoveStaging, Crash,
           OperatorPutsBack, OperatorRemoves, Item
  <2>2. CASE StartRestored
    BY <2>2 DEF StartRestored, RestoredInv, WholeRestored
  <2>3. CASE RecordResult /\ RolledBack
    <3>1. /\ \A p \in Paths \ (cut \union blind) : live[p] = owned[p]
          /\ db = startDb
      BY <2>3 DEF Inv, RecordResult, RolledBack, RollbackInv, Back, DatabaseInv
    <3>2. startDb = ownedDb \/ InEarlierRun(ownedDb)
      BY <2>3 DEF Inv, RecordResult, DumpInv, Swapping, Phases
    <3> QED BY <3>1, <3>2 DEF OriginalOrFound
  <2> QED BY <2>1, <2>2, <2>3
<1> QED BY <1>1, <1>2, <1>3, PTL DEF Spec, StartsOnAccountedState
=============================================================================

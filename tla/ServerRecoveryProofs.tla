------------------------ MODULE ServerRecoveryProofs ------------------------
(* Proofs about a database server's recovery, for any schemas and versions, *)
(* any number of points and of runs: type correctness, that MariaDB's data  *)
(* is never lost, that what a run tells is so, and that the recovery        *)
(* implements the restore contract.                                         *)
EXTENDS ServerRecovery, TLAPS

(* The contents a drop and a load leave.                                    *)

LEMMA ItemFacts ==
    ASSUME NEW S \in SUBSET Items
    PROVE  /\ Dir(S) \in Place /\ Dir(S).there /\ Dir(S).items = S
           /\ Gone \in Place /\ ~Gone.there
           /\ HasGrants(S) <=> HasSchema(S, {Grants}) # {}
  BY DEF Dir, Place, Gone, HasGrants, Names, HasSchema

LEMMA PlaceFacts == ASSUME NEW x \in Place PROVE x.there \in BOOLEAN /\ x.items \in SUBSET Items
  BY DEF Place

LEMMA FreshFacts ==
    /\ Fresh \in SUBSET Items /\ HasGrants(Fresh) /\ Names(Fresh) = {Grants}
  BY BoundsAssumption, SchemasAssumption DEF Fresh, Items, Initial, HasGrants, Names

LEMMA VersionFacts ==
    ASSUME NEW v \in 0..MaxWrites
    PROVE  Version(v) \in SUBSET Items /\ HasGrants(Version(v))
<1>1. SchemasOf[v] \in SUBSET Schemas /\ Grants \in SchemasOf[v]
  BY SchemasAssumption
<1>2. v \in 0..Initial
  BY BoundsAssumption DEF Initial
<1>3. <<v, Grants>> \in Version(v) /\ <<v, Grants>>[2] = Grants
  BY <1>1 DEF Version
<1> QED BY <1>1, <1>2, <1>3 DEF Version, Items, HasGrants, Names

LEMMA EmptiedFacts ==
    ASSUME NEW S \in SUBSET Items, HasGrants(S)
    PROVE  /\ Emptied(S) \in SUBSET Items /\ HasGrants(Emptied(S))
           /\ Names(Emptied(S)) \subseteq {Grants}
           /\ \A R \in EmptiedPartly(S) : R \in SUBSET Items /\ HasGrants(R)
  BY DEF Emptied, EmptiedPartly, HasSchema, Without, HasGrants, Names

LEMMA LoadedFacts ==
    ASSUME NEW S \in SUBSET Items, NEW p \in DOMAIN points, points[p] \in SUBSET Items,
           HasGrants(points[p])
    PROVE  /\ Loaded(S, p) \in SUBSET Items /\ HasGrants(Loaded(S, p))
           /\ Names(S) \subseteq {Grants} => Loaded(S, p) = points[p]
  BY DEF Loaded, Without, HasGrants, Names

LEMMA LoadedPartlyFacts ==
    ASSUME NEW S \in SUBSET Items, HasGrants(S), NEW p \in DOMAIN points,
           points[p] \in SUBSET Items, NEW R \in LoadedPartly(S, p)
    PROVE  R \in SUBSET Items /\ HasGrants(R)
<1>1. PICK T \in SUBSET Names(points[p]), L \in SUBSET (Names(points[p]) \ {Grants}) :
        R = Without(S, T \cup L) \cup HasSchema(points[p], T)
  BY DEF LoadedPartly
<1>2. CASE Grants \in T
  BY <1>1, <1>2 DEF Without, HasSchema, HasGrants, Names
<1>3. CASE Grants \notin T
  BY <1>1, <1>3 DEF Without, HasSchema, HasGrants, Names
<1> QED BY <1>2, <1>3

LEMMA PointFacts ==
    ASSUME TypeOK, NEW p \in DOMAIN points
    PROVE  points[p] \in SUBSET Items /\ p \in 1..Len(points)
  BY DEF TypeOK

-----------------------------------------------------------------------------
(* Type correctness.                                                        *)

\* What Goto and Tell leave alone, and the types they give.
LEMMA MoveType ==
    ASSUME TypeOK, pc # "idle" => run \in 1..MaxRuns, pc # "idle",
           \/ \E there \in Phases : Goto(there)
           \/ \E what \in Reports : Tell(what),
           moved' \in BOOLEAN, up' \in BOOLEAN, data' \in Place,
           retained' \in [1..MaxRuns -> Place], owned' \in Place, before' \in Place
    PROVE  TypeOK'
  BY DEF TypeOK, Goto, Tell, request, backups, Phases

LEMMA InitType == Init => TypeOK
<1> SUFFICES ASSUME Init PROVE TypeOK
  OBVIOUS
<1>1. Version(0) \in SUBSET Items /\ Fresh \in SUBSET Items
  BY VersionFacts, FreshFacts, BoundsAssumption
<1>2. data \in Place /\ Gone \in Place
  BY <1>1, ItemFacts DEF Init
<1>3. points \in Seq(SUBSET Items) /\ Len(points) = 1
  BY <1>1 DEF Init
<1>4. retained \in [1..MaxRuns -> Place] /\ report \in [1..MaxRuns -> Reports]
  BY <1>2 DEF Init, Reports
<1>5. 0 \in 0..MaxRuns /\ 0 \in 0..MaxWrites
  BY BoundsAssumption
<1>6. engine \in Engines /\ pc \in Phases /\ up \in BOOLEAN /\ moved \in BOOLEAN
  BY DEF Init, Phases
<1>7. owned \in Place /\ before \in Place
  BY <1>2 DEF Init
<1> QED BY <1>2, <1>3, <1>4, <1>5, <1>6, <1>7 DEF Init, TypeOK, None

LEMMA StepType ==
    ASSUME TypeOK, ServerInv, [Next]_vars
    PROVE  TypeOK'
<1> USE DEF Kept, Disk
<1>0. /\ data \in Place /\ data.items \in SUBSET Items /\ owned \in Place /\ before \in Place
      /\ retained \in [1..MaxRuns -> Place]
      /\ pc # "idle" => run \in 1..MaxRuns
      /\ moved \in BOOLEAN /\ up \in BOOLEAN
  BY PlaceFacts DEF TypeOK, ServerInv, ControlInv
<1>1. /\ \A S \in SUBSET Items : Dir(S) \in Place
      /\ Gone \in Place /\ Fresh \in SUBSET Items
      /\ \A r \in 1..MaxRuns : \A x \in Place :
           [retained EXCEPT ![r] = x] \in [1..MaxRuns -> Place]
  BY <1>0, ItemFacts, FreshFacts
<1>2. CASE Request
  <2>1. run' \in 0..MaxRuns /\ source' \in 0..Len(points) /\ safety' \in 0..Len(points)
    BY <1>2, BoundsAssumption DEF Request, TypeOK, None
  <2>2. report' \in [1..MaxRuns -> Reports] /\ pc' \in Phases /\ moved' \in BOOLEAN
    BY <1>2 DEF Request, TypeOK, Reports, Phases
  <2> QED BY <1>2, <2>1, <2>2 DEF Request, TypeOK, backups
<1>3. CASE Check
  BY <1>3, <1>0, MoveType DEF Check, Phases, Reports
<1>4. CASE Stop \/ StartRebuilt \/ VerifyVersion \/ Undo \/ Restart
  BY <1>4, <1>0, MoveType
     DEF Stop, StartRebuilt, VerifyVersion, Undo, Restart, Phases, Reports
<1>5. CASE MoveOriginal \/ PutBack
  <2>1. run \in 1..MaxRuns
    BY <1>5, <1>0 DEF MoveOriginal, PutBack
  <2>2. data' \in Place /\ retained' \in [1..MaxRuns -> Place] /\ moved' \in BOOLEAN
    <3>1. /\ retained[run] \in Place
          /\ [retained EXCEPT ![run] = data] \in [1..MaxRuns -> Place]
          /\ [retained EXCEPT ![run] = Gone] \in [1..MaxRuns -> Place]
      BY <2>1, <1>0, <1>1
    <3> QED BY <1>5, <3>1, <1>0, <1>1 DEF MoveOriginal, PutBack
  <2> QED BY <1>5, <2>2, <1>0, MoveType DEF MoveOriginal, PutBack, Phases, Reports
<1>6. CASE InstallDb \/ RemoveRebuilt
  BY <1>6, <1>0, <1>1, MoveType DEF InstallDb, RemoveRebuilt, Phases, Reports
<1>7. CASE Load
  <2>1. source \in DOMAIN points /\ HasGrants(points[source]) /\ HasGrants(data.items)
    BY <1>7 DEF Load, ServerInv, ControlInv, ContentInv
  <2>2. data' \in Place
    BY <1>7, <2>1, <1>0, <1>1, LoadedFacts, LoadedPartlyFacts, PointFacts DEF Load
  <2> QED BY <1>7, <2>2, <1>0, MoveType DEF Load, Phases
<1>8. CASE DiscardOriginal
  <2>1. retained' \in [1..MaxRuns -> Place]
    BY <1>8, <1>0, <1>1, PlaceFacts DEF DiscardOriginal
  <2> QED BY <1>8, <2>1, <1>0, MoveType DEF DiscardOriginal, Reports
<1>9. CASE Reset \/ ResetAgain
  <2>1. HasGrants(data.items)
    BY <1>9 DEF Reset, ResetAgain, ServerInv, ControlInv, ContentInv, MysqlPhases
  <2>2. data' \in Place
    BY <1>9, <2>1, <1>0, <1>1, EmptiedFacts DEF Reset, ResetAgain
  <2> QED BY <1>9, <2>2, <1>0, MoveType DEF Reset, ResetAgain, Phases, Reports
<1>10. CASE Reload \/ Reapply
  <2>1. HasGrants(data.items)
    BY <1>10 DEF Reload, Reapply, ServerInv, ControlInv, ContentInv, MysqlPhases
  <2>2. /\ source \in DOMAIN points /\ HasGrants(points[source])
        /\ Reapply => safety \in DOMAIN points /\ HasGrants(points[safety])
    BY <1>10 DEF Reload, Reapply, ServerInv, ControlInv, ContentInv
  <2>3. data' \in Place
    BY <1>10, <2>1, <2>2, <1>0, <1>1, LoadedFacts, LoadedPartlyFacts, PointFacts
       DEF Reload, Reapply
  <2> QED BY <1>10, <2>3, <1>0, MoveType DEF Reload, Reapply, Phases, Reports
<1>11. CASE Kill
  BY <1>11, <1>0, MoveType DEF Kill, Reports
<1>12. CASE Write
  <2>1. written' \in 0..MaxWrites
    BY <1>12, BoundsAssumption DEF Write, TypeOK
  <2>2. data' \in Place /\ owned' = data'
    BY <1>12, <2>1, <1>1, VersionFacts DEF Write
  <2> QED BY <1>12, <2>1, <2>2 DEF Write, TypeOK, request
<1>13. CASE Backup
  <2>1. points' \in Seq(SUBSET Items) /\ Len(points') = Len(points) + 1
    BY <1>13, <1>0 DEF Backup, TypeOK
  <2> QED BY <1>13, <2>1 DEF Backup, TypeOK, request
<1>14. CASE StartService
  BY <1>14 DEF StartService, TypeOK, request, backups
<1>15. CASE OperatorPutsBack
  BY <1>15, <1>0, <1>1 DEF OperatorPutsBack, TypeOK, request, backups
<1>16. CASE UNCHANGED vars
  BY <1>16 DEF vars, TypeOK, request, backups
<1> QED
  BY <1>2, <1>3, <1>4, <1>5, <1>6, <1>7, <1>8, <1>9, <1>10, <1>11, <1>12, <1>13, <1>14,
     <1>15, <1>16 DEF Next, RunStep

-----------------------------------------------------------------------------
(* The control state.                                                       *)

LEMMA StepControl ==
    ASSUME TypeOK, ServerInv, [Next]_vars
    PROVE  ControlInv'
<1> USE DEF ControlInv, MariadbPhases, MysqlPhases
<1>0. /\ ControlInv /\ up \in BOOLEAN /\ moved \in BOOLEAN /\ engine \in Engines
      /\ run \in 0..MaxRuns
      /\ up' \in BOOLEAN /\ moved' \in BOOLEAN /\ run' \in 0..MaxRuns
  BY StepType DEF ServerInv, TypeOK
<1>1. CASE Request
  BY <1>1, <1>0 DEF Request, backups
<1>2. CASE Check
  BY <1>2, <1>0 DEF Check, Goto, Tell, request, backups, Engines
<1>3. CASE Stop \/ MoveOriginal
  BY <1>3, <1>0 DEF Stop, MoveOriginal, Goto, request, backups
<1>4. CASE InstallDb \/ StartRebuilt
  BY <1>4, <1>0 DEF InstallDb, StartRebuilt, Goto, request, backups
<1>5. CASE Load \/ VerifyVersion \/ DiscardOriginal
  BY <1>5, <1>0 DEF Load, VerifyVersion, DiscardOriginal, Goto, Tell, request, backups
<1>6. CASE Undo
  BY <1>6, <1>0 DEF Undo, Goto, Tell, request, backups
<1>7. CASE RemoveRebuilt \/ PutBack \/ Restart
  BY <1>7, <1>0 DEF RemoveRebuilt, PutBack, Restart, Goto, Tell, request, backups
<1>8. CASE Reset \/ Reload
  <2>1. safety # None => safety \in DOMAIN points
    BY DEF TypeOK, None
  <2> QED BY <1>8, <1>0, <2>1 DEF Reset, Reload, Goto, Tell, request, backups
<1>9. CASE ResetAgain \/ Reapply \/ Kill
  BY <1>9, <1>0 DEF ResetAgain, Reapply, Kill, Goto, Tell, request, backups
<1>10. CASE Write \/ StartService \/ OperatorPutsBack \/ Backup
  BY <1>10, <1>0 DEF Write, StartService, OperatorPutsBack, Backup, request, backups
<1>11. CASE UNCHANGED vars
  BY <1>11, <1>0 DEF vars, request, backups
<1> QED
  BY <1>1, <1>2, <1>3, <1>4, <1>5, <1>6, <1>7, <1>8, <1>9, <1>10, <1>11 DEF Next, RunStep

-----------------------------------------------------------------------------
(* The copies.                                                              *)

LEMMA StepCopy ==
    ASSUME TypeOK, ServerInv, [Next]_vars
    PROVE  CopyInv'
<1> USE DEF CopyInv, Aside, NotAside, MysqlPhases, Disk, Kept
<1>0. /\ ControlInv /\ CopyInv /\ moved \in BOOLEAN /\ run \in 0..MaxRuns
      /\ retained \in [1..MaxRuns -> Place] /\ data \in Place /\ owned \in Place
      /\ run' \in 0..MaxRuns /\ moved' \in BOOLEAN
  BY StepType DEF ServerInv, TypeOK
<1>1. \A S : Dir(S).there /\ ~Gone.there
  BY DEF Dir, Gone
<1>2. CASE Request
  BY <1>2, <1>0 DEF Request
<1>3. CASE Check
  BY <1>3, <1>0 DEF Check, Goto, Tell, ControlInv
<1>4. CASE Stop
  BY <1>4, <1>0 DEF Stop, Goto, ControlInv
<1>5. CASE MoveOriginal
  <2>1. /\ pc = "move" /\ run' = run /\ owned' = owned /\ before' = before /\ ~moved
        /\ run \in 1..MaxRuns /\ retained[run] = Gone /\ data = before /\ engine = "mariadb"
        /\ engine' = engine
    BY <1>5, <1>0 DEF MoveOriginal, Goto, ControlInv, ServerInv, ContentInv, MariadbPhases
  <2>2. CASE retained' = [retained EXCEPT ![run] = data] /\ pc' = "install"
    <3>1. retained'[run] = data /\ \A r \in 1..MaxRuns \ {run} : retained'[r] = retained[r]
      BY <2>1, <2>2, <1>0
    <3>2. \E r \in 1..MaxRuns : retained'[r] = owned
      BY <2>1, <3>1, <1>0, <1>1
    <3> QED BY <2>1, <2>2, <3>1, <3>2, <1>0
  <2>3. CASE UNCHANGED <<data, retained, moved>> /\ pc' = "undo"
    BY <2>1, <2>3, <1>0
  <2> QED BY <1>5, <2>2, <2>3 DEF MoveOriginal, Goto
<1>6. CASE InstallDb \/ StartRebuilt
  BY <1>6, <1>0 DEF InstallDb, StartRebuilt, Goto, ControlInv
<1>7. CASE Load
  BY <1>7, <1>0, <1>1 DEF Load, Goto, ControlInv
<1>8. CASE VerifyVersion
  BY <1>8, <1>0 DEF VerifyVersion, Goto, ControlInv
<1>9. CASE DiscardOriginal
  <2>1. /\ pc = "discard" /\ pc' = "idle" /\ UNCHANGED <<run, data, owned, engine>>
        /\ run \in 1..MaxRuns /\ engine = "mariadb"
    BY <1>9, <1>0 DEF DiscardOriginal, Tell, ControlInv, MariadbPhases
  <2>2. \A r \in 1..MaxRuns \ {run} : retained'[r] = retained[r]
    BY <1>9, <2>1, <1>0 DEF DiscardOriginal
  <2> QED BY <2>1, <2>2, <1>0
<1>10. CASE Undo
  BY <1>10, <1>0 DEF Undo, Goto, Tell, ControlInv
<1>11. CASE RemoveRebuilt
  BY <1>11, <1>0 DEF RemoveRebuilt, Goto, Tell, ControlInv
<1>12. CASE PutBack
  <2>1. /\ pc = "putback" /\ UNCHANGED <<run, owned, engine, before, moved>>
        /\ run \in 1..MaxRuns
    BY <1>12, <1>0 DEF PutBack, Goto, Tell, ControlInv
  <2>2. CASE data' = retained[run] /\ retained' = [retained EXCEPT ![run] = Gone]
             /\ pc' = "restart"
    <3>1. retained'[run] = Gone /\ \A r \in 1..MaxRuns \ {run} : retained'[r] = retained[r]
      BY <2>1, <2>2, <1>0
    <3>2. engine = "mariadb" => data' = owned \/ \E r \in 1..MaxRuns : retained'[r] = owned
      BY <2>1, <2>2, <3>1, <1>0
    <3> QED BY <2>1, <2>2, <3>1, <3>2, <1>0
  <2>3. CASE UNCHANGED <<data, retained>> /\ pc' = "idle"
    BY <2>1, <2>3, <1>0
  <2> QED BY <1>12, <2>2, <2>3 DEF PutBack, Goto, Tell
<1>13. CASE Restart
  BY <1>13, <1>0 DEF Restart, Tell, ControlInv
<1>14. CASE Reset \/ ResetAgain
  BY <1>14, <1>0 DEF Reset, ResetAgain, Goto, Tell, ControlInv
<1>15. CASE Reload \/ Reapply
  <2>1. /\ engine = "mysql" /\ engine' = engine /\ NotAside /\ ~moved
        /\ UNCHANGED <<run, retained, before, moved>> /\ pc' \in {"idle", "resetAgain"}
    BY <1>15, <1>0 DEF Reload, Reapply, Goto, Tell, ControlInv
  <2>2. (owned' = data' /\ data'.there) \/ owned' = owned
    BY <1>15, <1>1 DEF Reload, Reapply
  <2>3. owned'.there
    BY <2>2, <1>0
  <2> QED BY <2>1, <2>3, <1>0
<1>16. CASE Kill
  BY <1>16, <1>0 DEF Kill, Tell
<1>17. CASE Write
  BY <1>17, <1>0, <1>1 DEF Write, ControlInv
<1>18. CASE Backup \/ StartService
  BY <1>18, <1>0 DEF Backup, StartService
<1>19. CASE OperatorPutsBack
  <2>1. PICK r \in 1..MaxRuns : /\ retained[r].there /\ retained[r] = owned /\ data' = retained[r]
                               /\ retained' = [retained EXCEPT ![r] = Gone]
    BY <1>19 DEF OperatorPutsBack
  <2>2. pc = "idle" /\ UNCHANGED <<pc, run, owned, engine, before, moved>>
    BY <1>19 DEF OperatorPutsBack
  <2> QED BY <2>1, <2>2, <1>0
<1>20. CASE UNCHANGED vars
  BY <1>20, <1>0 DEF vars
<1> QED
  BY <1>2, <1>3, <1>4, <1>5, <1>6, <1>7, <1>8, <1>9, <1>10, <1>11, <1>12, <1>13, <1>14, <1>15,
     <1>16, <1>17, <1>18, <1>19, <1>20 DEF Next, RunStep

-----------------------------------------------------------------------------
(* The contents.                                                            *)

LEMMA StepContent ==
    ASSUME TypeOK, ServerInv, [Next]_vars
    PROVE  ContentInv'
<1> USE DEF ContentInv, Aside, Disk, Kept
<1>0. /\ ControlInv /\ CopyInv /\ ContentInv /\ moved \in BOOLEAN /\ up \in BOOLEAN
      /\ data.items \in SUBSET Items
      /\ run' \in 0..MaxRuns /\ moved' \in BOOLEAN /\ up' \in BOOLEAN
  BY StepType, PlaceFacts DEF ServerInv, TypeOK
<1>1. /\ \A S : Dir(S).items = S
      /\ HasGrants(Fresh) /\ Names(Fresh) = {Grants} /\ Fresh \in SUBSET Items
  BY FreshFacts DEF Dir
<1>2. CASE Request
  BY <1>2, <1>0 DEF Request, backups
<1>3. CASE Check
  BY <1>3, <1>0 DEF Check, Goto, Tell, request, backups
<1>4. CASE Stop
  BY <1>4, <1>0 DEF Stop, Goto, request, backups, ControlInv
<1>5. CASE MoveOriginal
  BY <1>5, <1>0 DEF MoveOriginal, Goto, request, backups, ControlInv
<1>6. CASE InstallDb
  BY <1>6, <1>0, <1>1 DEF InstallDb, Goto, request, backups, ControlInv
<1>7. CASE StartRebuilt
  BY <1>7, <1>0, <1>1 DEF StartRebuilt, Goto, request, backups, ControlInv
<1>8. CASE Load
  <2>1. /\ source \in DOMAIN points /\ HasGrants(points[source])
        /\ data = Dir(Fresh) /\ points[source] \in SUBSET Items
        /\ moved /\ moved' = moved /\ UNCHANGED <<source, points, before, up>>
    BY <1>8, <1>0, PointFacts DEF Load, Goto, request, backups, ControlInv
  <2>2. CASE data' = Dir(Loaded(data.items, source)) /\ pc' = "verify"
    BY <1>8, <2>1, <2>2, <1>0, <1>1, LoadedFacts DEF Load
  <2>3. ASSUME NEW S \in LoadedPartly(data.items, source), data' = Dir(S), pc' = "undo"
        PROVE  ContentInv'
    BY <1>8, <2>1, <2>3, <1>0, <1>1, LoadedPartlyFacts DEF Load
  <2> QED BY <1>8, <2>2, <2>3 DEF Load, Goto
<1>9. CASE VerifyVersion \/ DiscardOriginal
  BY <1>9, <1>0 DEF VerifyVersion, DiscardOriginal, Goto, Tell, request, backups, ControlInv
<1>10. CASE Undo
  BY <1>10, <1>0 DEF Undo, Goto, Tell, request, backups
<1>11. CASE RemoveRebuilt
  BY <1>11, <1>0 DEF RemoveRebuilt, Goto, Tell, request, backups, ControlInv
<1>12. CASE PutBack
  BY <1>12, <1>0 DEF PutBack, Goto, Tell, request, backups, ControlInv, CopyInv
<1>13. CASE Restart
  BY <1>13, <1>0 DEF Restart, Tell, request, backups
<1>14. CASE Reset \/ ResetAgain
  <2>1. /\ HasGrants(data.items) /\ UNCHANGED <<points, source, up, moved>>
        /\ pc' \in {"idle", "reload", "resetAgain", "reapply"}
    BY <1>14, <1>0 DEF Reset, ResetAgain, Goto, Tell, request, backups, ControlInv, MysqlPhases
  <2>2. CASE data' = Dir(Emptied(data.items))
    BY <2>1, <2>2, <1>0, <1>1, EmptiedFacts
  <2>3. ASSUME NEW S \in EmptiedPartly(data.items), data' = Dir(S),
               pc' \in {"idle", "resetAgain"}
        PROVE  ContentInv'
    BY <2>1, <2>3, <1>0, <1>1, EmptiedFacts
  <2> QED BY <1>14, <2>2, <2>3 DEF Reset, ResetAgain, Goto, Tell
<1>15. CASE Reload \/ Reapply
  <2>1. /\ HasGrants(data.items) /\ UNCHANGED <<points, source, up, moved>>
        /\ pc' \in {"idle", "resetAgain"}
    BY <1>15, <1>0 DEF Reload, Reapply, Goto, Tell, request, backups, ControlInv, MysqlPhases
  <2>2. PICK p \in DOMAIN points :
          \/ data' = Dir(Loaded(data.items, p))
          \/ data' \in {Dir(S) : S \in LoadedPartly(data.items, p)}
    BY <1>15, <1>0 DEF Reload, Reapply, ControlInv
  <2>3. HasGrants(data'.items)
    <3>1. points[p] \in SUBSET Items /\ HasGrants(points[p])
      BY <1>0, PointFacts
    <3>2. /\ HasGrants(Loaded(data.items, p))
          /\ \A S \in LoadedPartly(data.items, p) : HasGrants(S)
      BY <2>1, <3>1, <1>0, LoadedFacts, LoadedPartlyFacts
    <3> QED BY <2>2, <3>2, <1>1
  <2> QED BY <2>1, <2>3, <1>0
<1>16. CASE Kill
  BY <1>16, <1>0 DEF Kill, Tell, request, backups
<1>17. CASE Write
  <2>1. written' \in 0..MaxWrites /\ data' = Dir(Version(written'))
    BY <1>17, BoundsAssumption DEF Write, TypeOK
  <2>2. HasGrants(data'.items)
    BY <2>1, <1>1, VersionFacts
  <2> QED BY <1>17, <2>2, <1>0 DEF Write, request
<1>18. CASE Backup
  <2>1. /\ points' = Append(points, data.items) /\ HasGrants(data.items)
        /\ points \in Seq(SUBSET Items)
    BY <1>18, <1>0 DEF Backup, TypeOK
  <2>2. \A p \in DOMAIN points' : HasGrants(points'[p])
    BY <2>1, <1>0
  <2> QED BY <1>18, <2>2, <1>0 DEF Backup, request
<1>19. CASE StartService
  BY <1>19, <1>0, ItemFacts DEF StartService, request, backups
<1>20. CASE OperatorPutsBack
  BY <1>20, <1>0 DEF OperatorPutsBack, request, backups
<1>21. CASE UNCHANGED vars
  BY <1>21, <1>0 DEF vars, request, backups
<1> QED
  BY <1>2, <1>3, <1>4, <1>5, <1>6, <1>7, <1>8, <1>9, <1>10, <1>11, <1>12, <1>13, <1>14, <1>15,
     <1>16, <1>17, <1>18, <1>19, <1>20, <1>21 DEF Next, RunStep

-----------------------------------------------------------------------------
(* What the runs told.                                                      *)

LEMMA StepReported ==
    ASSUME TypeOK, ServerInv, RetainedIsReported, [Next]_vars
    PROVE  RetainedIsReported'
<1> USE DEF RetainedIsReported, Disk, MysqlPhases
<1>0. /\ ~Gone.there /\ run \in 0..MaxRuns /\ report \in [1..MaxRuns -> Reports]
      /\ pc # "idle" => run \in 1..MaxRuns
      /\ retained \in [1..MaxRuns -> Place]
      /\ \A r \in 1..MaxRuns : r > run' => ~retained'[r].there
  BY StepCopy DEF ServerInv, ControlInv, CopyInv, TypeOK, Gone
<1>1. pc # "idle" /\ NotAside => ~retained[run].there
  BY <1>0 DEF ServerInv, CopyInv
\* A step that tells: the run's own directory is told of, the others are as they were.
<1>2. ASSUME pc # "idle", NEW what, Tell(what),
             \A r \in 1..MaxRuns \ {run} : retained'[r] = retained[r],
             retained'[run].there => what \in {"retained", "unverified", "killed"}
      PROVE  RetainedIsReported'
  <2>1. /\ report'[run] = what /\ \A r \in 1..MaxRuns \ {run} : report'[r] = report[r]
        /\ run' = run
    BY <1>0, <1>2 DEF Tell
  <2> SUFFICES ASSUME NEW r \in 1..MaxRuns, retained'[r].there
               PROVE  report'[r] \in {"retained", "unverified", "killed"}
    OBVIOUS
  <2>2. CASE r = run
    BY <1>2, <2>1, <2>2
  <2>3. CASE r # run
    <3>1. r < run /\ retained[r].there
      BY <1>0, <1>2, <2>1, <2>3
    <3> QED BY <2>1, <2>3, <3>1
  <2> QED BY <2>2, <2>3
\* A step that goes on.
<1>3. ASSUME NEW there \in Phases \ {"idle"}, Goto(there),
             \A r \in 1..MaxRuns \ {run} : retained'[r] = retained[r]
      PROVE  RetainedIsReported'
  BY <1>0, <1>3 DEF Goto
<1>4. CASE Request
  <2>1. \A r \in 1..run : report'[r] = report[r] /\ retained'[r] = retained[r]
    BY <1>4, <1>0 DEF Request
  <2> QED BY <1>4, <1>0, <2>1 DEF Request
<1>5. CASE Check
  BY <1>5, <1>1, <1>2, <1>3 DEF Check, NotAside, Phases
<1>6. CASE Stop \/ InstallDb \/ StartRebuilt \/ Load \/ VerifyVersion
  BY <1>6, <1>3 DEF Stop, InstallDb, StartRebuilt, Load, VerifyVersion, Phases
<1>7. CASE MoveOriginal
  BY <1>7, <1>0, <1>3 DEF MoveOriginal, Phases
<1>8. CASE DiscardOriginal
  <2>1. \A r \in 1..MaxRuns \ {run} : retained'[r] = retained[r]
    BY <1>8, <1>0 DEF DiscardOriginal
  <2>2. CASE retained' = [retained EXCEPT ![run] = Gone] /\ Tell("restored")
    BY <1>8, <2>1, <2>2, <1>0, <1>2 DEF DiscardOriginal
  <2>3. CASE Tell("retained")
    BY <1>8, <2>1, <2>3, <1>2 DEF DiscardOriginal
  <2> QED BY <1>8, <2>2, <2>3 DEF DiscardOriginal
<1>9. CASE Undo
  BY <1>9, <1>1, <1>2, <1>3 DEF Undo, NotAside, Phases
<1>10. CASE RemoveRebuilt \/ Kill
  BY <1>10, <1>2, <1>3 DEF RemoveRebuilt, Kill, Phases
<1>11. CASE PutBack
  <2>1. \A r \in 1..MaxRuns \ {run} : retained'[r] = retained[r]
    BY <1>11, <1>0 DEF PutBack
  <2> QED BY <1>11, <2>1, <1>2, <1>3 DEF PutBack, Phases
<1>12. CASE Restart \/ Reset \/ Reload \/ ResetAgain \/ Reapply
  BY <1>12, <1>1, <1>2, <1>3
     DEF Restart, Reset, Reload, ResetAgain, Reapply, NotAside, Phases
<1>13. CASE Write \/ Backup \/ StartService
  BY <1>13 DEF Write, Backup, StartService
<1>14. CASE OperatorPutsBack
  BY <1>14, <1>0 DEF OperatorPutsBack
<1>15. CASE UNCHANGED vars
  BY <1>15 DEF vars
<1> QED
  BY <1>4, <1>5, <1>6, <1>7, <1>8, <1>9, <1>10, <1>11, <1>12, <1>13, <1>14, <1>15
     DEF Next, RunStep

-----------------------------------------------------------------------------
(* The theorems.                                                            *)

LEMMA InitInv == Init => ServerInv /\ RetainedIsReported
<1> SUFFICES ASSUME Init PROVE ServerInv /\ RetainedIsReported
  OBVIOUS
<1>1. /\ HasGrants(Version(0)) /\ HasGrants(Fresh)
      /\ \A S : Dir(S).there /\ Dir(S).items = S
      /\ ~Gone.there
  BY VersionFacts, FreshFacts, BoundsAssumption DEF Dir, Gone
<1>2. ControlInv
  BY DEF Init, ControlInv, MariadbPhases, MysqlPhases
<1>3. CopyInv
  BY <1>1 DEF Init, CopyInv, Aside, NotAside, MysqlPhases
<1>4. ContentInv
  BY <1>1 DEF Init, ContentInv, Aside
<1>5. RetainedIsReported
  BY <1>1 DEF Init, RetainedIsReported
<1> QED BY <1>2, <1>3, <1>4, <1>5 DEF ServerInv

LEMMA StepInv ==
    ASSUME TypeOK, ServerInv, [Next]_vars PROVE ServerInv'
  BY StepControl, StepCopy, StepContent DEF ServerInv

LEMMA Inductive == Spec => [](TypeOK /\ ServerInv /\ RetainedIsReported)
<1>1. Init => TypeOK /\ ServerInv /\ RetainedIsReported
  BY InitType, InitInv
<1>2. TypeOK /\ ServerInv /\ RetainedIsReported /\ [Next]_vars
        => (TypeOK /\ ServerInv /\ RetainedIsReported)'
  BY StepType, StepInv, StepReported
<1> QED BY <1>1, <1>2, PTL DEF Spec

(* Every variable keeps its type: in particular a run only loads points that *)
(* exist, and MySQL's undo only a pre-restore point that was given.          *)
THEOREM Typed == Spec => []TypeOK
  BY Inductive, PTL

(* The strengthened invariant of the phases.                                 *)
THEOREM Strengthened == Spec => []ServerInv
  BY Inductive, PTL

(* MariaDB's data survives every failure, kill and repeated run: it is whole *)
(* in the data directory or in a rollback directory.                         *)
THEOREM OriginalIsKept == Spec => []OriginalKept
<1>1. ServerInv => OriginalKept
  BY DEF ServerInv, ControlInv, CopyInv, OriginalKept
<1> QED BY <1>1, Inductive, PTL

(* No rollback directory is left by a run that did not say so.               *)
THEOREM RetainedAreReported == Spec => []RetainedIsReported
  BY Inductive, PTL

LEMMA TrueStep ==
    ASSUME TypeOK, ServerInv, [Next]_vars
    PROVE  /\ Tells("back") => up' /\ data' = before /\ ~retained'[run].there
           /\ Tells("reapplied") => up' /\ data'.items = points[safety]
           /\ Tells("restored") \/ Tells("retained") => up' /\ data'.items = points[source]
<1> USE DEF Disk, Kept
<1>0. /\ ControlInv /\ ContentInv /\ CopyInv /\ report \in [1..MaxRuns -> Reports]
      /\ run \in 0..MaxRuns /\ data.items \in SUBSET Items /\ up \in BOOLEAN
      /\ pc # "idle" => run \in 1..MaxRuns
  BY PlaceFacts DEF ServerInv, TypeOK, ControlInv
<1>1. \A what \in Reports : pc # "idle" /\ Tell(what) => report'[run] = what
  BY <1>0 DEF Tell
<1>2. \A there : Goto(there) => report' = report
  BY DEF Goto
\* Only these tell that something was restored.
<1>3. CASE Undo
  <2>1. ~moved /\ pc = "undo" => data = before /\ ~retained[run].there
    BY <1>0 DEF ContentInv, CopyInv, NotAside, Gone
  <2> QED BY <1>3, <2>1, <1>0, <1>1, <1>2 DEF Undo, Tells, Reports
<1>4. CASE Restart
  <2>1. pc = "restart" => data = before /\ ~retained[run].there
    BY <1>0 DEF ContentInv, CopyInv, NotAside, Gone
  <2> QED BY <1>4, <2>1, <1>0, <1>1 DEF Restart, Tells, Reports
<1>5. CASE DiscardOriginal
  <2>1. pc = "discard" => up /\ data.items = points[source]
    BY <1>0 DEF ContentInv, ControlInv
  <2> QED BY <1>5, <2>1, <1>0, <1>1 DEF DiscardOriginal, Tells, Reports
<1>6. CASE Reload \/ Reapply
  <2>1. /\ up /\ Names(data.items) \subseteq {Grants} /\ up' = up
        /\ source \in DOMAIN points /\ (Reapply => safety \in DOMAIN points)
    BY <1>6, <1>0 DEF Reload, Reapply, ContentInv, ControlInv, MysqlPhases
  <2>2. \A p \in DOMAIN points : Dir(Loaded(data.items, p)).items = points[p]
    BY <2>1, <1>0, PointFacts, LoadedFacts DEF Dir, ContentInv
  <2> QED BY <1>6, <2>1, <2>2, <1>0, <1>1, <1>2 DEF Reload, Reapply, Tells, Reports
<1>7. CASE Check \/ RemoveRebuilt \/ PutBack \/ Reset \/ ResetAgain \/ Kill
  BY <1>7, <1>0, <1>1, <1>2
     DEF Check, RemoveRebuilt, PutBack, Reset, ResetAgain, Kill, Tells, Reports
<1>8. CASE Stop \/ MoveOriginal \/ InstallDb \/ StartRebuilt \/ Load \/ VerifyVersion
  BY <1>8, <1>2 DEF Stop, MoveOriginal, InstallDb, StartRebuilt, Load, VerifyVersion, Tells
<1>9. CASE Request
  BY <1>9, <1>0 DEF Request, Tells
<1>10. CASE Write \/ Backup \/ StartService \/ OperatorPutsBack \/ UNCHANGED vars
  BY <1>10 DEF Write, Backup, StartService, OperatorPutsBack, vars, Tells
<1> QED
  BY <1>3, <1>4, <1>5, <1>6, <1>7, <1>8, <1>9, <1>10 DEF Next, RunStep

(* What a run tells is what is there.                                        *)
THEOREM ReportsAreTrue == Spec => ReportIsTrue
<1>1. TypeOK /\ ServerInv /\ [Next]_vars =>
        [/\ Tells("back") => up' /\ data' = before /\ ~retained'[run].there
         /\ Tells("reapplied") => up' /\ data'.items = points[safety]
         /\ Tells("restored") \/ Tells("retained") => up' /\ data'.items = points[source]
        ]_vars
  BY TrueStep
<1> QED BY <1>1, Inductive, PTL DEF Spec, ReportIsTrue
-----------------------------------------------------------------------------
(* A database server's restore implements the restore contract, for any     *)
(* schemas, points, writes and number of runs.  ServerInv says where the    *)
(* owned data is; here each step is shown to be a step of the contract.     *)

(* What the mapping makes of the phases.                                    *)
LEMMA Phase ==
    /\ pc \notin {"idle", "discard"} => Told = "running"
    /\ pc = "idle" => Told # "running" /\ Found = {}
    /\ pc = "discard" => Told = "accepted" /\ Found = {}
  BY DEF Told, Found

LEMMA MappedState ==
    ASSUME TypeOK, ServerInv PROVE Contract!TypeOK /\ Contract!Whole
<1>1. Contract!TypeOK
  BY DEF Contract!TypeOK, Contract!Says, Told, Tale, Home, Copied, Found, Server, TypeOK
<1>2. engine = "mariadb" => data = owned \/ \E r \in 1..MaxRuns : retained[r] = owned
  BY DEF ServerInv, ControlInv, CopyInv
<1> QED BY <1>1, <1>2 DEF Contract!Whole, Home, Copied, Server

(* What a step of a run, which tells nothing, does to the mapping.          *)
LEMMA Working ==
    ASSUME UNCHANGED owned, Found' = Found, pc \notin {"idle", "discard"},
           pc' \notin {"idle", "discard"}
    PROVE  Contract!Work
  BY DEF Contract!Work, Told

(* What a run that tells ends with.                                         *)
LEMMA Telling ==
    ASSUME TypeOK, ServerInv, pc # "idle", NEW what, Tell(what)
    PROVE  /\ Found' = {}
           /\ what \in {"restored", "retained", "reapplied"} => Told' = "accepted"
           /\ what \in {"refused", "back"} => Told' = "unchanged"
           /\ what \in {"unverified", "failed", "unapplied", "killed"} => Told' = "unsettled"
<1>1. /\ run \in 1..MaxRuns /\ pc' = "idle" /\ run' = run /\ run # 0
      /\ report \in [1..MaxRuns -> Reports] /\ report' = [report EXCEPT ![run] = what]
  BY DEF Tell, ServerInv, ControlInv, TypeOK
<1>2. Tale' = what
  BY <1>1 DEF Tale
<1> QED BY <1>1, <1>2 DEF Told, Found

LEMMA GivingUp ==
    ASSUME TypeOK, ServerInv, pc \notin {"idle", "discard"}, UNCHANGED owned,
           NEW what \in {"unverified", "failed", "unapplied", "killed"}, Tell(what)
    PROVE  Contract!GiveUp
  BY Telling, Phase DEF Contract!GiveUp

LEMMA Accepting ==
    ASSUME TypeOK, ServerInv, pc \notin {"idle", "discard"}, owned' = data',
           NEW what \in {"restored", "retained", "reapplied"}, Tell(what)
    PROVE  Contract!Accept
  BY Telling, Phase DEF Contract!Accept, Home

(* Every step of a restore is a step of the contract.                       *)
LEMMA ContractStep ==
    ASSUME TypeOK, ServerInv, [Next]_vars
    PROVE  Contract!Step \/ UNCHANGED Contract!vars
<1> USE DEF Contract!Step, Kept, Disk
<1>0. pc \in Phases /\ moved \in BOOLEAN
  BY DEF TypeOK
<1>1. CASE Request
  <2>1. pc = "idle" /\ pc' = "check" /\ UNCHANGED <<owned, data>>
    BY <1>1 DEF Request
  <2> QED BY <2>1 DEF Contract!Begin, Told, Found, Home
<1>2. CASE Check
  <2>1. /\ pc = "check" /\ pc' \in {"stop", "reset", "idle"} /\ UNCHANGED <<owned, data>>
        /\ pc' = "idle" => Tell("refused")
    BY <1>2 DEF Check, Goto, Tell
  <2>2. Found = Home /\ Home' = Home /\ Told = "running"
    BY <2>1 DEF Found, Home, Told
  <2>3. CASE pc' = "idle"
    BY <2>1, <2>2, <2>3, Telling DEF Contract!Return
  <2>4. CASE pc' # "idle"
    BY <2>1, <2>2, <2>4, Working DEF Found, Home
  <2> QED BY <2>3, <2>4
<1>3. CASE Stop
  <2>1. /\ pc = "stop" /\ pc' \in {"move", "undo"} /\ before' = data
        /\ UNCHANGED <<owned, data>>
    BY <1>3 DEF Stop, Goto
  <2> QED BY <2>1, Working DEF Found, Home
<1>4. CASE MoveOriginal \/ InstallDb \/ StartRebuilt \/ Load
  <2>1. /\ pc \in {"move", "install", "start", "load"} /\ UNCHANGED <<owned, before>>
        /\ pc' \in {"install", "start", "load", "verify", "undo"}
    BY <1>4 DEF MoveOriginal, InstallDb, StartRebuilt, Load, Goto
  <2> QED BY <2>1, Working DEF Found
<1>5. CASE VerifyVersion
  <2>1. pc = "verify" /\ before' = before /\ data' = data
    BY <1>5 DEF VerifyVersion
  <2>2. CASE owned' = data /\ pc' = "discard"
    BY <2>1, <2>2, Phase DEF Contract!Accept, Home, Told, Found
  <2>3. CASE owned' = owned /\ pc' = "undo"
    BY <2>1, <2>3, Working DEF Found
  <2> QED BY <1>5, <2>2, <2>3 DEF VerifyVersion, Goto
<1>6. CASE DiscardOriginal
  <2>1. /\ pc = "discard" /\ UNCHANGED <<owned, data>>
        /\ Tell("restored") \/ Tell("retained")
    BY <1>6 DEF DiscardOriginal
  <2>2. Told = "accepted" /\ Told' = "accepted" /\ Found = {} /\ Found' = {}
    BY <2>1, Phase, Telling
  <2> QED BY <2>1, <2>2 DEF Contract!PutBack, Home
<1>7. CASE Undo \/ Restart
  <2>1. /\ pc \in {"undo", "restart"} /\ UNCHANGED <<owned, data, before>>
        /\ pc' = "remove" \/ Tell("unverified") \/ (Tell("back") /\ (pc = "restart" \/ ~moved))
    BY <1>7 DEF Undo, Restart, Goto
  <2>2. CASE pc' = "remove"
    BY <2>1, <2>2, Working DEF Found
  <2>3. CASE Tell("unverified")
    BY <2>1, <2>3, GivingUp
  <2>4. CASE Tell("back") /\ (pc = "restart" \/ ~moved)
    <3>1. data = before
      BY <2>1, <2>4 DEF ServerInv, ContentInv
    <3>2. Found \subseteq Home'
      BY <2>1, <3>1 DEF Found, Home
    <3> QED BY <2>1, <2>4, <3>2, Telling, Phase DEF Contract!Return
  <2> QED BY <2>1, <2>2, <2>3, <2>4
<1>8. CASE RemoveRebuilt \/ PutBack
  <2>1. /\ pc \in {"remove", "putback"} /\ UNCHANGED <<owned, before>>
        /\ pc' \in {"putback", "restart"} \/ Tell("unverified")
    BY <1>8 DEF RemoveRebuilt, PutBack, Goto
  <2>2. CASE pc' \in {"putback", "restart"}
    BY <2>1, <2>2, Working DEF Found
  <2> QED BY <2>1, <2>2, GivingUp
<1>9. CASE Reset
  <2>1. pc = "reset" /\ before' = data /\ owned' = owned
    BY <1>9 DEF Reset
  <2>2. pc' \in {"reload", "resetAgain"} \/ Tell("failed")
    BY <1>9 DEF Reset, Goto
  <2>3. CASE pc' \in {"reload", "resetAgain"}
    BY <2>1, <2>3, Working DEF Found, Home
  <2> QED BY <2>1, <2>2, <2>3, GivingUp
<1>10. CASE Reload \/ ResetAgain \/ Reapply
  <2>1. /\ pc \in {"reload", "resetAgain", "reapply"} /\ before' = before
        /\ \/ owned' = data' /\ (Tell("restored") \/ Tell("reapplied"))
           \/ owned' = owned /\ (Tell("failed") \/ Tell("unapplied"))
           \/ owned' = owned /\ pc' \in {"resetAgain", "reapply"}
    BY <1>10 DEF Reload, ResetAgain, Reapply, Goto
  <2>2. CASE owned' = data' /\ (Tell("restored") \/ Tell("reapplied"))
    BY <2>1, <2>2, Accepting
  <2>3. CASE owned' = owned /\ (Tell("failed") \/ Tell("unapplied"))
    BY <2>1, <2>3, GivingUp
  <2>4. CASE owned' = owned /\ pc' \in {"resetAgain", "reapply"}
    BY <2>1, <2>4, Working DEF Found
  <2> QED BY <2>1, <2>2, <2>3, <2>4
<1>11. CASE Kill
  <2>1. pc # "idle" /\ Tell("killed") /\ UNCHANGED <<owned, data>>
    BY <1>11 DEF Kill
  <2>2. CASE pc = "discard"
    BY <2>1, <2>2, Phase, Telling DEF Contract!Forget, Home
  <2> QED BY <2>1, <2>2, GivingUp
<1>12. CASE Write
  <2>1. /\ pc \in {"idle", "check", "stop"} /\ data = owned /\ data' = owned'
        /\ UNCHANGED <<pc, run, report>>
    BY <1>12 DEF Write
  <2>2. Home = Server /\ Home' = Server /\ Found' = Found /\ Told' = Told
    BY <2>1 DEF Home, Found, Told, Tale
  <2> QED BY <2>2 DEF Contract!Write
<1>13. CASE Backup \/ StartService \/ OperatorPutsBack
  <2>1. /\ pc = "idle" /\ UNCHANGED <<pc, run, report, owned>>
        /\ data' = data \/ data' = owned
    BY <1>13 DEF Backup, StartService, OperatorPutsBack
  <2>2. Home \subseteq Home' /\ Found' = Found /\ Told' = Told
    BY <2>1 DEF Home, Found, Told, Tale
  <2> QED BY <2>1, <2>2, Phase DEF Contract!PutBack
<1>14. CASE UNCHANGED vars
  <2>1. UNCHANGED <<engine, pc, run, report, data, retained, owned, before>>
    BY <1>14 DEF vars
  <2>2. Home' = Home /\ Copied' = Copied /\ Told' = Told /\ Found' = Found
    BY <2>1 DEF Home, Copied, Told, Tale, Found
  <2> QED BY <2>1, <2>2 DEF Contract!vars
<1> QED
  BY <1>1, <1>2, <1>3, <1>4, <1>5, <1>6, <1>7, <1>8, <1>9, <1>10, <1>11, <1>12, <1>13, <1>14
     DEF Next, RunStep

LEMMA SameEngine == ASSUME [Next]_vars PROVE engine' = engine
  BY DEF Next, RunStep, Request, Check, Stop, MoveOriginal, InstallDb, StartRebuilt, Load,
         VerifyVersion, DiscardOriginal, Undo, RemoveRebuilt, PutBack, Restart, Reset, Reload,
         ResetAgain, Reapply, Kill, Write, Backup, StartService, OperatorPutsBack, Goto, Tell,
         vars

LEMMA InitContract == Init => Contract!Init
<1> SUFFICES ASSUME Init PROVE Contract!Init
  OBVIOUS
<1>1. Contract!TypeOK
  BY InitType, InitInv, MappedState
<1>2. Home = Server /\ Told = "nothing" /\ Found = {}
  BY DEF Init, Home, Told, Found
<1> QED BY <1>1, <1>2 DEF Contract!Init

(* A restore of a database server keeps the restore contract: MariaDB's     *)
(* data is never without a copy, what is accepted is in place, and the      *)
(* original is said to be restored only when the data is as it was found    *)
(* (server-recovery.py's rebuild and reload, and their except clauses).     *)
THEOREM ServerKeepsContract == Spec => KeepsContract
<1> DEFINE Inv == TypeOK /\ ServerInv
<1>1. Init => Inv /\ Contract!Init
  BY InitType, InitInv, InitContract
<1>2. Inv /\ [Next]_vars => Inv'
  BY StepType, StepInv
<1>3. Inv /\ [Next]_vars => Contract!Step \/ UNCHANGED Contract!vars
  BY ContractStep
<1>4. Inv => Contract!TypeOK /\ Contract!Whole
  BY MappedState
<1>5. ASSUME Contract!Step, (Contract!TypeOK /\ Contract!Whole)', engine' = engine
      PROVE  Contract!Next
  BY <1>5 DEF Contract!Next
<1>6. Inv /\ [Next]_vars /\ (Contract!TypeOK /\ Contract!Whole)'
        => [Contract!Next]_(Contract!vars)
  BY <1>3, <1>5, SameEngine
<1> HIDE DEF Inv
<1> QED BY <1>1, <1>2, <1>4, <1>6, PTL DEF Spec, KeepsContract, Contract!Spec
=============================================================================

---------------------------- MODULE ServerRecovery ----------------------------
(***************************************************************************)
(* Restoring a database server's guest from a recovery point:              *)
(* ansible/tasks/database/scripts/server-recovery.py as the mariadb and    *)
(* mysql roles' restore.yml run it.  The two engines differ.  MariaDB's    *)
(* data directory is moved aside and rebuilt, and put back when anything   *)
(* fails.  MySQL's schemas are dropped and loaded in place, and on failure *)
(* the pre-restore point is loaded instead.                                *)
(*                                                                         *)
(* A program is killed between any two of its steps, a step fails halfway, *)
(* and what is left meets a later run, the operator or a reboot.  Contents *)
(* are sets of items <<version, schema>>; a dump replaces the schemas it   *)
(* holds and leaves the others.                                            *)
(***************************************************************************)
EXTENDS Naturals, Sequences

CONSTANTS
    Schemas,     \* schemas of the server
    Grants,      \* the system schema: never dropped, replaced by a load
    SchemasOf,   \* the schemas each version of the data has
    MaxWrites,   \* bound: versions the applications write
    MaxPoints,   \* bound: recovery points
    MaxRuns      \* bound: restore runs

ASSUME BoundsAssumption == {MaxWrites, MaxPoints, MaxRuns} \subseteq Nat
ASSUME SchemasAssumption ==
    /\ Grants \in Schemas
    /\ SchemasOf \in [0..MaxWrites -> SUBSET Schemas]
    /\ \A v \in 0..MaxWrites : Grants \in SchemasOf[v]

Initial    == MaxWrites + 1       \* what mariadb-install-db creates
Items      == (0..Initial) \X Schemas
Version(v) == {v} \X SchemasOf[v]
Fresh      == {<<Initial, Grants>>}

Place    == [there : BOOLEAN, items : SUBSET Items]
Gone     == [there |-> FALSE, items |-> {}]
Dir(S)   == [there |-> TRUE, items |-> S]
None     == 0

Engines  == {"mariadb", "mysql"}
Reports  == {"none", "running", "refused", "restored", "retained", "back",
             "unverified", "failed", "reapplied", "unapplied", "killed"}

VARIABLES
    engine,    \* the guest's engine
    pc,        \* the script's next step, "idle" between runs
    run,       \* number of the current (or last) run
    source,    \* index of the point it restores
    safety,    \* index of the pre-restore point, or None for a new target
    moved,     \* moved_original
    up,        \* the service is active
    data,      \* the data directory
    retained,  \* each run's rollback directory
    points,    \* the contents of the recovery points
    written,   \* the newest version an application wrote
    report,    \* what each run told
    \* History, read by the properties only:
    owned,     \* what the applications own: last written, restored or reapplied
    before     \* the data directory when the run stopped the service

request == <<source, safety>>
backups == <<points, written>>
vars    == <<engine, pc, run, request, moved, up, data, retained, backups, report,
             owned, before>>

Init ==
    /\ engine \in Engines /\ pc = "idle" /\ run = 0
    /\ source = None /\ safety = None /\ moved = FALSE /\ up = TRUE
    /\ data \in {Dir(Version(0)), Dir(Fresh)}
    /\ retained = [r \in 1..MaxRuns |-> Gone]
    /\ points = <<Version(0)>> /\ written = 0
    /\ report = [r \in 1..MaxRuns |-> "none"]
    /\ owned = data /\ before = data

-----------------------------------------------------------------------------
(* What a load and a drop do to the contents *)

HasSchema(S, names) == {i \in S : i[2] \in names}
Without(S, names)   == {i \in S : i[2] \notin names}
Names(S)            == {i[2] : i \in S}
Loaded(S, p)        == Without(S, Names(points[p])) \cup points[p]

\* The schemas T of the point were loaded, and those of L dropped, when the load failed.
LoadedPartly(S, p) ==
    UNION {{Without(S, T \cup L) \cup HasSchema(points[p], T) :
                L \in SUBSET (Names(points[p]) \ {Grants})} : T \in SUBSET Names(points[p])}

\* reset_application_databases
Emptied(S)       == HasSchema(S, {Grants})
EmptiedPartly(S) == {Without(S, T) : T \in SUBSET (Schemas \ {Grants})}

-----------------------------------------------------------------------------
(* The steps of a run *)

Goto(there) == pc' = there /\ UNCHANGED <<run, request, report, engine, backups>>
Tell(what)  == /\ pc' = "idle" /\ report' = [report EXCEPT ![run] = what]
               /\ UNCHANGED <<run, request, engine, backups>>
Kept        == UNCHANGED <<owned, before>>
Disk        == UNCHANGED <<data, retained>>

\* Mutant: the point's number is taken from a list one longer than the group's.
MutantRequest ==
    /\ pc = "idle" /\ run < MaxRuns
    /\ run' = run + 1 /\ pc' = "check" /\ moved' = FALSE
    /\ report' = [report EXCEPT ![run + 1] = "running"]
    /\ source' \in 1..(Len(points) + 1)
    /\ safety' \in (IF data = Dir(Fresh) THEN {None} ELSE DOMAIN points \ {source'})
    /\ UNCHANGED <<engine, up, backups, owned, before>> /\ Disk

\* A run is asked for: a point of the group, and for an existing target another one
\* (restore.yml's contract; validate-restore.yml's "distinct").
Request ==
    /\ pc = "idle" /\ run < MaxRuns
    /\ run' = run + 1 /\ pc' = "check" /\ moved' = FALSE
    /\ report' = [report EXCEPT ![run + 1] = "running"]
    /\ source' \in DOMAIN points
    /\ safety' \in (IF data = Dir(Fresh) THEN {None} ELSE DOMAIN points \ {source'})
    /\ UNCHANGED <<engine, up, backups, owned, before>> /\ Disk

\* read_bundle, the version families, and that the server answers; nothing has changed
Check ==
    /\ pc = "check"
    /\ \/ up /\ data.there /\ Goto(IF engine = "mariadb" THEN "stop" ELSE "reset")
       \/ Tell("refused")
    /\ before' = data
    /\ UNCHANGED <<moved, up, owned>> /\ Disk

(* rebuild(): MariaDB.  Its except clause is "undo".                       *)

Stop ==
    /\ pc = "stop"
    /\ \/ up' = FALSE /\ Goto("move")
       \/ up' \in {up, FALSE} /\ Goto("undo")
    /\ before' = data
    /\ UNCHANGED <<moved, owned>> /\ Disk

MoveOriginal ==
    /\ pc = "move"
    /\ \/ /\ retained' = [retained EXCEPT ![run] = data] /\ data' = Gone
          /\ moved' = TRUE /\ Goto("install")
       \/ Disk /\ UNCHANGED moved /\ Goto("undo")
    /\ UNCHANGED up /\ Kept

InstallDb ==
    /\ pc = "install"
    /\ \/ data' = Dir(Fresh) /\ Goto("start")
       \/ data' \in {data, Dir({}), Dir(Fresh)} /\ Goto("undo")
    /\ UNCHANGED <<moved, up, retained>> /\ Kept

StartRebuilt ==
    /\ pc = "start"
    /\ \/ up' = TRUE /\ Goto("load")
       \/ up' \in BOOLEAN /\ Goto("undo")
    /\ UNCHANGED moved /\ Disk /\ Kept

\* load(): the dump, FLUSH PRIVILEGES and the health check
Load ==
    /\ pc = "load"
    /\ \/ data' = Dir(Loaded(data.items, source)) /\ Goto("verify")
       \/ /\ data' \in {Dir(S) : S \in LoadedPartly(data.items, source)}
          /\ Goto("undo")
    /\ UNCHANGED <<moved, up, retained>> /\ Kept

\* The restored server's version family; after it nothing is undone any more.
VerifyVersion ==
    /\ pc = "verify"
    /\ \/ owned' = data /\ Goto("discard")
       \/ UNCHANGED owned /\ Goto("undo")
    /\ UNCHANGED <<moved, up, before>> /\ Disk

\* Mutant: the removal's errors are ignored.
MutantDiscardOriginal ==
    /\ pc = "discard"
    /\ \E S \in SUBSET retained[run].items :
         retained' \in {[retained EXCEPT ![run] = P] : P \in {Gone, Dir(S)}}
    /\ Tell("restored")
    /\ UNCHANGED <<moved, up, data>> /\ Kept

DiscardOriginal ==
    /\ pc = "discard"
    /\ \/ retained' = [retained EXCEPT ![run] = Gone] /\ Tell("restored")
       \/ /\ \E S \in SUBSET retained[run].items :
               retained' = [retained EXCEPT ![run] = Dir(S)]
          /\ Tell("retained")
    /\ UNCHANGED <<moved, up, data>> /\ Kept

\* Mutant: the original is taken to have moved whatever failed.
MutantUndo ==
    /\ pc = "undo"
    /\ \/ up' = FALSE /\ Goto("remove")
       \/ up' \in {up, FALSE} /\ Tell("unverified")
    /\ UNCHANGED moved /\ Disk /\ Kept

\* The service is stopped again, when there is something to put back.
Undo ==
    /\ pc = "undo"
    /\ \/ moved /\ up' = FALSE /\ Goto("remove")
       \/ moved /\ up' \in {up, FALSE} /\ Tell("unverified")
       \/ ~moved /\ up' = TRUE /\ Tell("back")
       \/ ~moved /\ up' \in BOOLEAN /\ Tell("unverified")
    /\ UNCHANGED moved /\ Disk /\ Kept

RemoveRebuilt ==
    /\ pc = "remove"
    /\ \/ data' = Gone /\ Goto("putback")
       \/ /\ data.there
          /\ \E S \in SUBSET data.items : data' = Dir(S)
          /\ Tell("unverified")
    /\ UNCHANGED <<moved, up, retained>> /\ Kept

PutBack ==
    /\ pc = "putback"
    /\ \/ /\ retained[run].there
          /\ data' = retained[run] /\ retained' = [retained EXCEPT ![run] = Gone]
          /\ Goto("restart")
       \/ Disk /\ Tell("unverified")
    /\ UNCHANGED <<moved, up>> /\ Kept

\* Mutant: the original is reported back without being started and looked at.
MutantRestart ==
    /\ pc = "restart"
    /\ up' \in BOOLEAN /\ Tell("back")
    /\ UNCHANGED moved /\ Disk /\ Kept

\* Start, version and health
Restart ==
    /\ pc = "restart"
    /\ \/ up' = TRUE /\ Tell("back")
       \/ up' \in BOOLEAN /\ Tell("unverified")
    /\ UNCHANGED moved /\ Disk /\ Kept

(* reload(): MySQL *)

Reset ==
    /\ pc = "reset"
    /\ \/ data' = Dir(Emptied(data.items)) /\ Goto("reload")
       \/ /\ data' \in {Dir(S) : S \in EmptiedPartly(data.items)}
          /\ IF safety = None THEN Tell("failed") ELSE Goto("resetAgain")
    /\ before' = data
    /\ UNCHANGED <<moved, up, retained, owned>>

Reload ==
    /\ pc = "reload"
    /\ \/ /\ data' = Dir(Loaded(data.items, source)) /\ owned' = data'
          /\ Tell("restored")
       \/ /\ data' \in {Dir(S) : S \in LoadedPartly(data.items, source)}
          /\ UNCHANGED owned
          /\ IF safety = None THEN Tell("failed") ELSE Goto("resetAgain")
    /\ UNCHANGED <<moved, up, retained, before>>

ResetAgain ==
    /\ pc = "resetAgain"
    /\ \/ data' = Dir(Emptied(data.items)) /\ Goto("reapply")
       \/ data' \in {Dir(S) : S \in EmptiedPartly(data.items)} /\ Tell("unapplied")
    /\ UNCHANGED <<moved, up, retained>> /\ Kept

\* Mutant: errors of the second load are not looked at.
MutantReapply ==
    /\ pc = "reapply"
    /\ data' \in {Dir(S) : S \in LoadedPartly(data.items, safety)}
    /\ UNCHANGED owned /\ Tell("reapplied")
    /\ UNCHANGED <<moved, up, retained, before>>

Reapply ==
    /\ pc = "reapply"
    /\ \/ data' = Dir(Loaded(data.items, safety)) /\ owned' = data' /\ Tell("reapplied")
       \/ /\ data' \in {Dir(S) : S \in LoadedPartly(data.items, safety)}
          /\ UNCHANGED owned /\ Tell("unapplied")
    /\ UNCHANGED <<moved, up, retained, before>>

RunStep ==
    \/ Check
    \/ Stop \/ MoveOriginal \/ InstallDb \/ StartRebuilt \/ Load \/ VerifyVersion
    \/ DiscardOriginal \/ Undo \/ RemoveRebuilt \/ PutBack \/ Restart
    \/ Reset \/ Reload \/ ResetAgain \/ Reapply

-----------------------------------------------------------------------------
(* Everybody else *)

\* The script is killed, or an exception it does not catch ends it.
Kill ==
    /\ pc # "idle" /\ Tell("killed")
    /\ UNCHANGED <<moved, up>> /\ Disk /\ Kept

\* The applications write, until the service stops.
Write ==
    /\ pc \in {"idle", "check", "stop"} /\ up /\ data = owned /\ written < MaxWrites
    /\ written' = written + 1
    /\ data' = Dir(Version(written')) /\ owned' = data'
    /\ UNCHANGED <<engine, pc, run, request, moved, up, retained, points, report, before>>

\* backup(): an export of every schema under the global read lock.
Backup ==
    /\ pc = "idle" /\ up /\ Len(points) < MaxPoints
    /\ points' = Append(points, data.items)
    /\ UNCHANGED <<engine, pc, run, request, moved, up, written, report>> /\ Disk /\ Kept

\* A reboot, or the operator, starts a service that was left stopped.
StartService ==
    /\ pc = "idle" /\ ~up /\ HasSchema(data.items, {Grants}) # {}
    /\ up' = TRUE
    /\ UNCHANGED <<engine, pc, run, request, moved, backups, report>> /\ Disk /\ Kept

\* The operator puts a retained original back by hand.
OperatorPutsBack ==
    /\ pc = "idle" /\ ~up
    /\ \E r \in 1..MaxRuns :
         /\ retained[r].there /\ retained[r] = owned
         /\ data' = retained[r] /\ retained' = [retained EXCEPT ![r] = Gone]
    /\ UNCHANGED <<engine, pc, run, request, moved, up, backups, report>> /\ Kept

Next ==
    \/ Request \/ RunStep \/ Kill
    \/ Write \/ Backup \/ StartService \/ OperatorPutsBack

Spec == Init /\ [][Next]_vars

-----------------------------------------------------------------------------
(* Properties *)

Phases == {"idle", "check", "stop", "move", "install", "start", "load", "verify",
           "discard", "undo", "remove", "putback", "restart", "reset", "reload",
           "resetAgain", "reapply"}

TypeOK ==
    /\ engine \in Engines /\ pc \in Phases /\ run \in 0..MaxRuns
    /\ source \in 0..Len(points) /\ safety \in 0..Len(points)
    /\ moved \in BOOLEAN /\ up \in BOOLEAN /\ data \in Place
    /\ retained \in [1..MaxRuns -> Place]
    /\ points \in Seq(SUBSET Items) /\ written \in 0..MaxWrites
    /\ report \in [1..MaxRuns -> Reports]
    /\ owned \in Place /\ before \in Place

\* Whatever fails, is killed, is run again or is started on what was left, MariaDB's
\* data is whole in the data directory or in some run's rollback directory.
OriginalKept ==
    engine = "mariadb" => data = owned \/ \E r \in 1..MaxRuns : retained[r] = owned

\* What a run tells is what is there: "the original data directory was restored" means
\* the directory it stopped the service on, with nothing retained; "the pre-restore
\* point was reapplied" means that point and none of the failed load's schemas; a
\* restored server holds the selected point and nothing of what was there before.
\* Each is told of a server that runs.
Tells(what) == run > 0 /\ run' = run /\ report[run] # what /\ report'[run] = what
ReportIsTrue ==
    [][/\ Tells("back") => up' /\ data' = before /\ ~retained'[run].there
       /\ Tells("reapplied") => up' /\ data'.items = points[safety]
       /\ Tells("restored") \/ Tells("retained") => up' /\ data'.items = points[source]
      ]_vars

\* A rollback directory left on the disk was told of, by a run that was killed, could
\* not verify what it put back, or could not remove it.
RetainedIsReported ==
    \A r \in 1..MaxRuns :
        retained[r].there /\ (r < run \/ pc = "idle") =>
            report[r] \in {"retained", "unverified", "killed"}

-----------------------------------------------------------------------------
(* The contract a restore implements.  The one part is the server's data.  *)
(* MySQL keeps no copy of what it drops.                                   *)

Server == {"server"}
Home   == {x \in Server : data = owned}
Copied == {x \in Server : \E r \in 1..MaxRuns : retained[r] = owned}
Tale   == report[run]
Told   ==
    IF pc = "discard" THEN "accepted"
    ELSE IF pc # "idle" THEN "running"
    ELSE IF run = 0 THEN "nothing"
    ELSE IF Tale \in {"restored", "retained", "reapplied"} THEN "accepted"
    ELSE IF Tale \in {"refused", "back"} THEN "unchanged" ELSE "unsettled"
Found  ==
    IF pc \in {"idle", "discard"} THEN {}
    ELSE IF pc \in {"check", "stop", "reset"} THEN Home
    ELSE {x \in Server : before = owned}

Contract == INSTANCE RestoreContract
    WITH Parts <- Server, keeps <- engine = "mariadb", home <- Home, told <- Told,
         kept <- Copied, found <- Found

\* Seen from outside, a restore of a server keeps the restore contract: MariaDB's data is
\* never without a copy, the applications' writes never meet a displaced server, what is
\* accepted is in place, and "the original was restored" is said when the data is as found.
KeepsContract == Contract!Spec

-----------------------------------------------------------------------------
(* The inductive invariant of the proofs *)

MariadbPhases == {"stop", "move", "install", "start", "load", "verify", "discard",
                  "undo", "remove", "putback", "restart"}
MysqlPhases   == {"reset", "reload", "resetAgain", "reapply"}

\* The run has moved the original aside and not put it back.
Aside     == \/ pc \in {"install", "start", "load", "verify", "remove", "putback"}
             \/ pc = "undo" /\ moved
\* The run holds nothing aside: not yet, not any more, or never.
NotAside  == \/ pc \in {"check", "stop", "move", "restart"} \cup MysqlPhases
             \/ pc = "undo" /\ ~moved
HasGrants(S) == Grants \in Names(S)

\* The control state: which engine takes which steps, and on which points.
ControlInv ==
    /\ pc # "idle" => run \in 1..MaxRuns /\ source \in DOMAIN points
    /\ pc \in {"resetAgain", "reapply"} => safety \in DOMAIN points
    /\ pc \in MariadbPhases => engine = "mariadb"
    /\ pc \in MysqlPhases => engine = "mysql"
    /\ pc \in {"check", "stop", "move"} \cup MysqlPhases => ~moved
    /\ pc \in {"install", "start", "load", "verify"} => moved
    /\ pc \in {"move", "install", "start", "remove", "putback", "restart"} => ~up
    /\ pc \in {"stop", "load", "verify", "discard"} \cup MysqlPhases => up

\* The copies: a run's rollback directory holds what it found while the data directory
\* is being replaced, and the owned data is where the next step does not destroy it.
CopyInv ==
    /\ owned.there
    /\ pc \in {"verify", "discard"} => data.there
    /\ \A r \in 1..MaxRuns : r > run => retained[r] = Gone
    /\ NotAside => retained[run] = Gone
    /\ Aside => retained[run] = before
    /\ engine = "mariadb" =>
         /\ Aside => \E r \in 1..MaxRuns : retained[r] = owned
         /\ pc = "discard" => data = owned
         /\ ~Aside => data = owned \/ \E r \in 1..MaxRuns : retained[r] = owned

\* The contents: what each phase has in the data directory.  Every server that runs, and
\* every point, has grants.
ContentInv ==
    /\ \A p \in DOMAIN points : HasGrants(points[p])
    /\ up => HasGrants(data.items)
    /\ Aside => HasGrants(before.items)
    /\ pc \in {"move", "restart"} \/ (pc = "undo" /\ ~moved) =>
         data = before /\ HasGrants(data.items)
    /\ pc \in {"start", "load"} => data = Dir(Fresh)
    /\ pc \in {"verify", "discard"} => data.items = points[source]
    /\ pc \in {"reload", "reapply"} => Names(data.items) \subseteq {Grants}

\* At every step each engine is where its own steps lead, the owned data is where the next
\* step does not destroy it, and the data directory holds what the phase has put there.
ServerInv == ControlInv /\ CopyInv /\ ContentInv
=============================================================================

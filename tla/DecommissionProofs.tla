------------------------- MODULE DecommissionProofs -------------------------
(* For every set of guests, and any number of interruptions, of faulty     *)
(* node tasks and of interventions: the executor deletes in order, only    *)
(* what it last saw as planned, never beside a task that goes on, and      *)
(* reports completion only of what is gone or was brought back.            *)
EXTENDS Decommission, TLAPS

(* ---- the inductive invariant ---- *)

AtGuest    == {"stop", "stopping", "again", "destroy", "destroying", "absent"}
AtWithdraw == {"withdraw", "unregister", "verify", "compare", "retire", "reread"}
States     == {"running", "stopped", "planned", "changed", "gone", "torn"}

Control ==
  /\ pc \in {"idle", "next", "done"} \cup Calls
  /\ now \in Things /\ todo \subseteq Things \cup {"gate"}
  /\ journal \subseteq Things

Recorded ==
  /\ records \in Record /\ held \in Record /\ file \in Record
  /\ stamped \subseteq {"storage", "second"}
  /\ seam.at \in {"register", "write"} => seam.key \in {"storage", "second"}
  /\ seam.at = "write" => /\ seam.stamp \in {"planned", "changed"}
                          /\ seam.key = "second" => seam.stamp = "planned"
                          /\ seam.read \in Record

Resources(r) ==
  /\ r \in [Things -> States] /\ r["storage"] # "torn"
  /\ \A g \in Guests : r[g] \in {"running", "stopped", "changed", "gone"}
  /\ \A o \in Objects : r[o] \in {"planned", "changed", "gone", "torn"}

Around ==
  /\ left \subseteq Guests /\ shared \subseteq {"storage", "user", "role"}
  /\ newcomer \in {"none", "early", "late"}
  /\ Idle \/ task \in [kind : {"stop", "destroy"}, guest : Guests]
  /\ outcome \in {"ok", "failed"}

Flags == alone \in BOOLEAN /\ drift \in BOOLEAN

Typed == Control /\ Recorded /\ Resources(res) /\ Around /\ Flags

\* What each call of the executor is about
Place ==
  /\ pc \in AtGuest => now \in Guests
  /\ pc \in AtWithdraw => now = "storage"
  /\ pc \in {"delete", "deleted"} => now \in Objects
  /\ pc = "delete" => now # "keys"
  /\ pc = "rewrite" => now = "keys"
  /\ alone => pc \in {"idle"} \cup (AtWithdraw \ {"reread"})
  /\ pc = "done" => todo = {}
  /\ pc \in Calls /\ ~alone => now \in First(todo)

\* A node task outlives its run; the next run does not begin a step beside it
OneTask ==
  ~Idle => /\ pc \in {"idle", "next", "stopping", "destroying", "withdraw"}
           /\ pc = "next" => todo = Things \cup {"gate"}
           /\ pc = "withdraw" => alone
           /\ pc \in {"stopping", "destroying"} => task.guest = now

\* What a run has passed is gone, or others brought it back
Passed ==
  /\ ~alone /\ pc # "idle" =>
       /\ \A x \in Things \ todo : res[x] = "gone" \/ x \in returned
       /\ left \subseteq todo
       /\ "gate" \notin todo => newcomer # "early"
  /\ pc \in {"compare", "retire", "reread", "journal"} =>
       res[now] = "gone" \/ now \in returned
  /\ pc = "journal" => now \notin left
  /\ pc = "unregister" => res["backup"] = "gone" \/ "backup" \in returned

\* What the executor read last still holds, unless others acted since
Current ==
  meddled # "after" =>
    /\ pc = "stop" => res[now] = "running"
    /\ pc = "destroy" => res[now] \notin {"gone", "changed"}
    /\ pc = "delete" => Deletable(now)
    /\ pc = "unregister" => Deletable("storage")
    /\ pc = "rewrite" => res["keys"] = "planned"
    /\ pc \in {"compare", "retire"} => res["storage"] = "gone"
    /\ pc = "retire" => file = held

\* A step of what is already completed found it gone
Completed ==
  meddled = "no" /\ ~alone /\ pc \in Calls /\ now \in journal =>
    now # "keys" /\ res[now] = "gone"

\* A stamp that anyone remembers is in the file, unless its registration is gone
Stamps ==
  /\ "storage" \in stamped => res["storage"] # "gone"
  /\ held.second = "planned" => file.second = "planned"
  /\ seam.at = "write" /\ seam.key = "storage" /\ file.second = "planned" =>
       seam.read.second = "planned"
  /\ seam.at = "write" /\ seam.key = "second" /\ file.storage # "none" =>
       seam.read.storage # "none"

IInv == Typed /\ Place /\ OneTask /\ Passed /\ Current /\ Completed /\ Stamps
(* ---- operators ---- *)

\* Where the order of execute() puts each kind of resource
LEMMA Ranks ==
  /\ Rank("backup") = 1 /\ Rank("storage") = 2 /\ Rank("gate") = 6
  /\ Rank("token") = 7 /\ Rank("acl") = 8 /\ Rank("user") = 9
  /\ Rank("role") = 10 /\ Rank("keys") = 11
  /\ \A g \in Guests : Rank(g) \in 3..5
<1>. DEFINE At(s) == CHOOSE i \in DOMAIN Turn : Turn[i] = s
<1>1. DOMAIN Turn = 1..11  BY DEF Turn
<1>2. /\ At("backup") = 1 /\ At("storage") = 2 /\ At("guest") = 3 /\ At("template") = 4
      /\ At("runner") = 5 /\ At("gate") = 6 /\ At("token") = 7 /\ At("acl") = 8
      /\ At("user") = 9 /\ At("role") = 10 /\ At("keys") = 11
  BY <1>1 DEF Turn
<1>3. \A x : Rank(x) = At(Stage(x))  BY DEF Rank
<1>. HIDE DEF At
<1>4. \A x \in Objects \cup {"gate"} : Stage(x) = x  BY DisjointAssumption DEF Stage
<1>5. \A g \in Guests : Stage(g) \in {"guest", "template", "runner"}  BY DEF Stage
<1>. QED  BY <1>2, <1>3, <1>4, <1>5 DEF Objects

\* The gate is not reached before the backup job, nor a credential before the gate
LEMMA GateAfterBackup ==
  ASSUME NEW S, "gate" \in First(S)  PROVE "backup" \notin S
BY Ranks DEF First

LEMMA GateBeforeCredentials ==
  ASSUME NEW S, NEW x \in Credentials, x \in First(S)  PROVE "gate" \notin S
BY Ranks DEF First, Credentials

LEMMA Parts ==
  /\ Objects \subseteq Things /\ Guests \subseteq Things
  /\ "storage" \in Objects /\ "keys" \in Objects /\ "keys" \notin Guests
BY DisjointAssumption DEF Objects, Things

\* One resource changes to a state a resource of its kind can be in
LEMMA Updated ==
  ASSUME Resources(res), NEW x \in Things, NEW s \in States,
         x \in Guests => s \in {"running", "stopped", "changed", "gone"},
         x \in Objects => s \in {"planned", "changed", "gone", "torn"},
         s = "torn" => x # "storage"
  PROVE  Resources([res EXCEPT ![x] = s])
BY Parts DEF Resources

LEMMA Gone ==
  ASSUME Resources(res), NEW x \in Things, Vanishes(x)  PROVE Resources(res')
BY Updated DEF Vanishes, States

(* ---- the invariant is inductive ---- *)

USE DEF Goto, Elsewhere, Reads, Unread, executor, world, tasks

LEMMA Initially ==
  ASSUME Init  PROVE IInv
<1>1. Typed
  <2>1. Control /\ Recorded /\ Flags
    BY DEF Init, Control, Recorded, Flags, Things, Objects, Record
  <2>2. Resources(res)
    <3>1. res \in [Things -> States]  BY DEF Init, States
    <3>2. \A g \in Guests : res[g] \in {"running", "stopped"}
      BY DisjointAssumption, Parts DEF Init
    <3>3. \A o \in Objects : res[o] = "planned"
      BY DisjointAssumption, Parts DEF Init
    <3>. QED  BY <3>1, <3>2, <3>3, Parts DEF Resources
  <2>3. Around  BY DEF Init, Around, Idle
  <2>. QED  BY <2>1, <2>2, <2>3 DEF Typed
<1>2. Place /\ OneTask /\ Passed /\ Current /\ Completed
  BY DEF Init, Place, OneTask, Passed, Current, Completed, Idle, Calls, AtGuest, AtWithdraw
<1>3. Stamps
  <2>1. "storage" \in Things /\ "storage" \notin Guests
    BY DisjointAssumption DEF Things, Objects
  <2>. QED  BY <2>1 DEF Init, Stamps
<1>. QED  BY <1>1, <1>2, <1>3 DEF IInv

LEMMA ControlKept ==
  ASSUME Control, Next  PROVE Control'
<1>1. CASE Execution
  BY <1>1, SMTT(60) DEF Execution, StartExecute, BeginStep, KeysWithdrawn, Gate, Finish,
     WriteJournal, ReadObject, DeleteObject, VerifyDeleted, ReadForWithdraw, Unregister,
     VerifyUnregistered, CompareRecord, RetireStamp, RereadRecord, ReadGuest, RequestStop,
     Request, Stopped, ReadAgain, RequestDestroy, Destroyed, VerifyAbsent, ReadKeys,
     RewriteKeys, AfterDelete, First, Control, Calls, Things
<1>2. CASE StartWithdraw \/ WaitTimesOut \/ TaskEnds \/ Interrupt
  BY <1>2, SMTT(30) DEF StartWithdraw, WaitTimesOut, TaskEnds, Interrupt, Control, Calls,
     Things, Objects
<1>3. CASE Others
  BY <1>3, SMTT(30) DEF Others, Change, Surround, SeamRegisters, SeamReads, SeamWrites, Control
<1>. QED  BY <1>1, <1>2, <1>3 DEF Next

LEMMA FlagsKept ==
  ASSUME Flags, Next  PROVE Flags'
<1>1. alone' \in {alone, TRUE, FALSE}
  <2>1. CASE Execution
    <3>1. UNCHANGED alone \/ StartExecute
      BY <2>1, SMTT(60) DEF Execution, BeginStep, KeysWithdrawn, Gate, Finish, WriteJournal,
         ReadObject, DeleteObject, VerifyDeleted, ReadForWithdraw, Unregister,
         VerifyUnregistered, CompareRecord, RetireStamp, RereadRecord, ReadGuest,
         RequestStop, Request, Stopped, ReadAgain, RequestDestroy, Destroyed,
         VerifyAbsent, ReadKeys, RewriteKeys
    <3>. QED  BY <3>1 DEF StartExecute
  <2>2. CASE StartWithdraw \/ WaitTimesOut \/ TaskEnds \/ Interrupt
    BY <2>2 DEF StartWithdraw, WaitTimesOut, TaskEnds, Interrupt
  <2>3. CASE Others
    BY <2>3 DEF Others, Change, Surround, SeamRegisters, SeamReads, SeamWrites
  <2>. QED  BY <2>1, <2>2, <2>3 DEF Next
<1>2. drift' \in {drift, ~drift}
  <2>1. CASE Execution
    BY <2>1, SMTT(60) DEF Execution, StartExecute, BeginStep, KeysWithdrawn, Gate, Finish,
       WriteJournal, ReadObject, DeleteObject, VerifyDeleted, ReadForWithdraw, Unregister,
       VerifyUnregistered, CompareRecord, RetireStamp, RereadRecord, ReadGuest, RequestStop,
       Request, Stopped, ReadAgain, RequestDestroy, Destroyed, VerifyAbsent, ReadKeys,
       RewriteKeys
  <2>2. CASE StartWithdraw \/ WaitTimesOut \/ TaskEnds \/ Interrupt
    BY <2>2 DEF StartWithdraw, WaitTimesOut, TaskEnds, Interrupt
  <2>3. CASE Surround  BY <2>3 DEF Surround
  <2>4. CASE Others /\ ~Surround
    BY <2>4 DEF Others, Change, SeamRegisters, SeamReads, SeamWrites
  <2>. QED  BY <2>1, <2>2, <2>3, <2>4 DEF Next
<1>. QED  BY <1>1, <1>2 DEF Flags

LEMMA AroundKept ==
  ASSUME Around, Place, Next  PROVE Around'
<1>1. CASE UNCHANGED <<world, tasks>>
  BY <1>1 DEF Around, Idle
<1>2. CASE RequestStop
  BY <1>2 DEF RequestStop, Request, Ask, Around, Idle, Place, AtGuest
<1>3. CASE RequestDestroy
  BY <1>3 DEF RequestDestroy, Request, Ask, Around, Idle, Place, AtGuest
<1>4. CASE TaskEnds
  BY <1>4, SMTT(30) DEF TaskEnds, Around, Idle
<1>5. CASE Surround
  <2>1. left' \subseteq Guests  BY <1>5 DEF Surround, Around
  <2>2. shared' \subseteq {"storage", "user", "role"}
    <3>1. \/ shared' = shared
          \/ \E x \in {"storage", "user", "role"} : shared' \in {shared \cup {x}, shared \ {x}}
      BY <1>5 DEF Surround
    <3>. QED  BY <3>1 DEF Around
  <2>3. newcomer' \in {"none", "early", "late"}  BY <1>5 DEF Surround, Around
  <2>4. UNCHANGED tasks  BY <1>5 DEF Surround
  <2>. QED  BY <2>1, <2>2, <2>3, <2>4 DEF Around, Idle
<1>6. CASE Execution
  <2>1. UNCHANGED world /\ (UNCHANGED tasks \/ RequestStop \/ RequestDestroy)
    BY <1>6, SMTT(60) DEF Execution, StartExecute, BeginStep, KeysWithdrawn, Gate, Finish,
       WriteJournal, ReadObject, DeleteObject, VerifyDeleted, ReadForWithdraw, Unregister,
       VerifyUnregistered, CompareRecord, RetireStamp, RereadRecord, ReadGuest,
       Stopped, ReadAgain, Destroyed, VerifyAbsent, ReadKeys, RewriteKeys,
       RequestStop, RequestDestroy, Request
  <2>. QED  BY <2>1, <1>1, <1>2, <1>3
<1>7. CASE StartWithdraw \/ WaitTimesOut \/ Interrupt
  BY <1>1, <1>7 DEF StartWithdraw, WaitTimesOut, Interrupt
<1>8. CASE \E x \in Things : Change(x)
  BY <1>1, <1>8 DEF Change
<1>9. CASE (\E key \in {"storage", "second"} : SeamRegisters(key)) \/ SeamReads \/ SeamWrites
  BY <1>1, <1>9 DEF SeamRegisters, SeamReads, SeamWrites
<1>. QED  BY <1>4, <1>5, <1>6, <1>7, <1>8, <1>9 DEF Next, Others

LEMMA ResourcesKept ==
  ASSUME Resources(res), Around, Place, Next  PROVE Resources(res')
<1>1. CASE UNCHANGED res
  BY <1>1
<1>2. CASE DeleteObject \/ Unregister \/ RewriteKeys
  <2>1. UNCHANGED res \/ \E x \in Things : Vanishes(x)
    BY <1>2, Parts DEF DeleteObject, Unregister, RewriteKeys, Place
  <2>. QED  BY <2>1, <1>1, Gone
<1>3. CASE TaskEnds
  <2>1. task.guest \in Guests  BY <1>3 DEF TaskEnds, Around
  <2>2. \/ UNCHANGED res \/ Vanishes(task.guest)
        \/ res' = [res EXCEPT ![task.guest] = "stopped"]
        \/ res' = [res EXCEPT ![task.guest] = res[task.guest]]
    BY <1>3 DEF TaskEnds
  <2>3. CASE res' = [res EXCEPT ![task.guest] = "stopped"]
    BY <2>1, <2>3, Updated, Parts, DisjointAssumption DEF States
  <2>4. CASE res' = [res EXCEPT ![task.guest] = res[task.guest]]
    BY <2>4, <1>1 DEF Resources
  <2>. QED  BY <2>1, <2>2, <2>3, <2>4, <1>1, Gone, Parts
<1>4. CASE Interrupt
  <2>1. UNCHANGED res \/ res' = [res EXCEPT !["keys"] = "torn"]  BY <1>4 DEF Interrupt
  <2>. QED  BY <2>1, <1>1, Updated, Parts DEF States
<1>5. CASE \E x \in Things : Change(x)
  <2>1. PICK x \in Things : Change(x)  BY <1>5
  <2>2. CASE Vanishes(x)  BY <2>2, Gone
  <2>3. CASE \E s \in {Alike(x), "changed"} : res' = [res EXCEPT ![x] = s]
    BY <2>3, Updated, DisjointAssumption DEF Alike, States
  <2>4. CASE res[x] = "stopped" /\ res' = [res EXCEPT ![x] = "running"]
    <3>1. x \in Guests  BY <2>4 DEF Things, Resources
    <3>. QED  BY <2>4, <3>1, Updated, DisjointAssumption DEF States
  <2>. QED  BY <2>1, <2>2, <2>3, <2>4 DEF Change
<1>6. CASE \E key \in {"storage", "second"} : SeamRegisters(key)
  <2>1. UNCHANGED res \/ \E s \in {"planned", "changed"} : res' = [res EXCEPT !["storage"] = s]
    BY <1>6 DEF SeamRegisters
  <2>2. /\ "storage" \in Things /\ "storage" \notin Guests
        /\ {"planned", "changed"} \subseteq States
    BY Parts, DisjointAssumption DEF States
  <2>3. ASSUME NEW s \in {"planned", "changed"}, res' = [res EXCEPT !["storage"] = s]
        PROVE  Resources(res')
    BY <2>2, <2>3, Updated
  <2>. QED  BY <2>1, <1>1, <2>3
<1>7. CASE Execution
  <2>1. UNCHANGED res \/ DeleteObject \/ Unregister \/ RewriteKeys
    BY <1>7, SMTT(60) DEF Execution, StartExecute, BeginStep, KeysWithdrawn, Gate, Finish,
       WriteJournal, ReadObject, VerifyDeleted, ReadForWithdraw, VerifyUnregistered,
       CompareRecord, RetireStamp, RereadRecord, ReadGuest, RequestStop, Request, Stopped,
       ReadAgain, RequestDestroy, Destroyed, VerifyAbsent, ReadKeys
  <2>. QED  BY <2>1, <1>1, <1>2
<1>8. CASE StartWithdraw \/ WaitTimesOut \/ Surround \/ SeamReads \/ SeamWrites
  BY <1>8, <1>1 DEF StartWithdraw, WaitTimesOut, Surround, SeamReads, SeamWrites
<1>. QED  BY <1>3, <1>4, <1>5, <1>6, <1>7, <1>8 DEF Next, Others

LEMMA RecordedKept ==
  ASSUME Recorded, Resources(res), Next  PROVE Recorded'
<1>1. CASE StartExecute \/ ReadForWithdraw \/ RereadRecord
  BY <1>1 DEF StartExecute, ReadForWithdraw, RereadRecord, Recorded
<1>2. CASE RetireStamp
  <2>1. file' \in Record  BY <1>2 DEF RetireStamp, Recorded, Record
  <2>. QED  BY <1>2, <2>1 DEF RetireStamp, Recorded
<1>3. CASE DeleteObject \/ Unregister \/ RewriteKeys
  BY <1>3, SMTT(30) DEF DeleteObject, Unregister, RewriteKeys, Vanishes, Recorded
<1>4. CASE TaskEnds
  <2>1. stamped' \subseteq stamped /\ UNCHANGED <<records, held, file, seam>>
    BY <1>4 DEF TaskEnds, Vanishes
  <2>. QED  BY <2>1 DEF Recorded
<1>5. CASE \E x \in Things : Change(x)
  <2>1. stamped' \subseteq stamped /\ UNCHANGED <<records, held, file, seam>>
    BY <1>5 DEF Change, Vanishes
  <2>. QED  BY <2>1 DEF Recorded
<1>6. CASE \E key \in {"storage", "second"} : SeamRegisters(key)
  BY <1>6, SMTT(30) DEF SeamRegisters, Recorded
<1>7. CASE SeamReads
  <2>1. res["storage"] \in {"planned", "changed", "gone"}  BY Parts DEF Resources
  <2>2. seam'.at = "write" => /\ seam'.key \in {"storage", "second"} /\ seam'.read = file
                              /\ seam'.stamp = StampOf(seam'.key)
                              /\ seam'.key = "storage" => res["storage"] # "gone"
    BY <1>7 DEF SeamReads, Recorded
  <2>3. seam'.at # "register"  BY <1>7 DEF SeamReads
  <2>4. UNCHANGED <<records, held, file, stamped>>  BY <1>7 DEF SeamReads
  <2>. QED  BY <2>1, <2>2, <2>3, <2>4 DEF Recorded, StampOf
<1>8. CASE SeamWrites
  <2>1. file' \in Record  BY <1>8, SMTT(30) DEF SeamWrites, Recorded, Record
  <2>2. stamped' \subseteq {"storage", "second"}  BY <1>8 DEF SeamWrites, Recorded
  <2>3. seam'.at = "idle" /\ UNCHANGED <<records, held>>  BY <1>8 DEF SeamWrites
  <2>. QED  BY <2>1, <2>2, <2>3 DEF Recorded
<1>9. CASE UNCHANGED <<records, held, file, stamped, seam>>
  BY <1>9 DEF Recorded
<1>10. CASE Execution
  <2>1. \/ UNCHANGED <<records, held, file, stamped, seam>>
        \/ StartExecute \/ ReadForWithdraw \/ RereadRecord \/ RetireStamp
        \/ DeleteObject \/ Unregister \/ RewriteKeys
    BY <1>10, SMTT(60) DEF Execution, BeginStep, KeysWithdrawn, Gate, Finish, WriteJournal,
       ReadObject, VerifyDeleted, VerifyUnregistered, CompareRecord, ReadGuest, RequestStop,
       Request, Stopped, ReadAgain, RequestDestroy, Destroyed, VerifyAbsent, ReadKeys
  <2>. QED  BY <2>1, <1>1, <1>2, <1>3, <1>9
<1>11. CASE StartWithdraw \/ WaitTimesOut \/ Interrupt \/ Surround
  BY <1>11, <1>9 DEF StartWithdraw, WaitTimesOut, Interrupt, Surround
<1>. QED  BY <1>4, <1>5, <1>6, <1>7, <1>8, <1>10, <1>11 DEF Next, Others

LEMMA PlaceKept ==
  ASSUME Control, Place, Next
  PROVE  Place'
<1>1. CASE Execution
  BY <1>1, SMTT(60) DEF Execution, StartExecute, BeginStep, KeysWithdrawn, Gate, Finish,
     WriteJournal, ReadObject, DeleteObject, VerifyDeleted, ReadForWithdraw, Unregister,
     VerifyUnregistered, CompareRecord, RetireStamp, RereadRecord, ReadGuest, RequestStop,
     Request, Stopped, ReadAgain, RequestDestroy, Destroyed, VerifyAbsent, ReadKeys,
     RewriteKeys, AfterDelete, First, Things, Control, Place, AtGuest, AtWithdraw, Calls,
     Objects
<1>2. CASE StartWithdraw \/ WaitTimesOut \/ TaskEnds \/ Interrupt
  BY <1>2, SMTT(30) DEF StartWithdraw, WaitTimesOut, TaskEnds, Interrupt, Control,
     Place, AtGuest, AtWithdraw, Calls, Objects
<1>3. CASE Others
  BY <1>3, SMTT(30) DEF Others, Change, Surround, SeamRegisters, SeamReads, SeamWrites,
     Control, Place, AtGuest, AtWithdraw, Calls, Objects
<1>. QED  BY <1>1, <1>2, <1>3 DEF Next

LEMMA OneTaskKept ==
  ASSUME Place, Around, OneTask, Next
  PROVE  OneTask'
<1>1. CASE Execution
  BY <1>1, GateAfterBackup, SMTT(60) DEF Execution, StartExecute, BeginStep,
     KeysWithdrawn, Gate, Finish, WriteJournal, ReadObject, DeleteObject, VerifyDeleted,
     ReadForWithdraw, Unregister, VerifyUnregistered, CompareRecord, RetireStamp,
     RereadRecord, ReadGuest, RequestStop, Request, Stopped, ReadAgain, RequestDestroy,
     Destroyed, VerifyAbsent, ReadKeys, RewriteKeys, Begin, AfterDelete, Ask,
     WithdrawChecks, Things, Objects, OneTask, Around, Place, Idle, NoTask, AtGuest,
     AtWithdraw, Calls
<1>2. CASE StartWithdraw \/ WaitTimesOut \/ TaskEnds \/ Interrupt
  BY <1>2, GateAfterBackup, SMTT(30) DEF StartWithdraw, WaitTimesOut, TaskEnds,
     Interrupt, OneTask, Around, Place, Idle, NoTask, AtGuest, AtWithdraw, Calls
<1>3. CASE Others
  BY <1>3, GateAfterBackup, SMTT(30) DEF Others, Change, Surround, SeamRegisters,
     SeamReads, SeamWrites, OneTask, Around, Place, Idle, NoTask, AtGuest, AtWithdraw,
     Calls
<1>. QED  BY <1>1, <1>2, <1>3 DEF Next

LEMMA PassedKept ==
  ASSUME Control, Resources(res), Around, Place, OneTask, Passed, Next
  PROVE  Passed'
<1>1. CASE Execution
  BY <1>1, GuestsAssumption, DisjointAssumption, SMTT(60) DEF Execution, StartExecute,
     BeginStep, KeysWithdrawn, Gate, Finish, WriteJournal, ReadObject, DeleteObject,
     VerifyDeleted, ReadForWithdraw, Unregister, VerifyUnregistered, CompareRecord,
     RetireStamp, RereadRecord, ReadGuest, RequestStop, Request, Stopped, ReadAgain,
     RequestDestroy, Destroyed, VerifyAbsent, ReadKeys, RewriteKeys, GatePasses,
     AfterDelete, Vanishes, WithdrawChecks, Absent, Ask, Begin, First, Passed, OneTask,
     Place, Control, Resources, Around, Idle, AtGuest, AtWithdraw, Calls, Things, Objects
<1>2. CASE StartWithdraw \/ WaitTimesOut \/ TaskEnds \/ Interrupt
  BY <1>2, GuestsAssumption, DisjointAssumption, SMTT(30) DEF StartWithdraw,
     WaitTimesOut, TaskEnds, Interrupt, Vanishes, First, NoTask, Passed, OneTask, Place,
     Control, Resources, Around, Idle, AtGuest, AtWithdraw, Calls, Things, Objects
<1>3. CASE Others
  BY <1>3, GuestsAssumption, DisjointAssumption, SMTT(30) DEF Others, Change, Surround,
     SeamRegisters, SeamReads, SeamWrites, Outside, Vanishes, Alike, Passed, OneTask,
     Place, Control, Resources, Around, Idle, AtGuest, AtWithdraw, Calls, Things, Objects
<1>. QED  BY <1>1, <1>2, <1>3 DEF Next

LEMMA CurrentKept ==
  ASSUME Control, Resources(res), Around, Place, OneTask, Current, Next
  PROVE  Current'
<1>1. CASE Execution
  BY <1>1, GuestsAssumption, DisjointAssumption, SMTT(60) DEF Execution, StartExecute,
     BeginStep, KeysWithdrawn, Gate, Finish, WriteJournal, ReadObject, DeleteObject,
     VerifyDeleted, ReadForWithdraw, Unregister, VerifyUnregistered, CompareRecord,
     RetireStamp, RereadRecord, ReadGuest, RequestStop, Request, Stopped, ReadAgain,
     RequestDestroy, Destroyed, VerifyAbsent, ReadKeys, RewriteKeys, AfterDelete, Vanishes,
     WithdrawChecks, Ask, Begin, Current, OneTask, Place, Control, Resources, Around, Idle,
     Deletable, Dedicated, AtGuest, AtWithdraw, Calls, Things, Objects
<1>2. CASE StartWithdraw \/ WaitTimesOut \/ TaskEnds \/ Interrupt
  BY <1>2, GuestsAssumption, DisjointAssumption, SMTT(30) DEF StartWithdraw,
     WaitTimesOut, TaskEnds, Interrupt, Vanishes, Current, OneTask, Place, Control,
     Resources, Around, Idle, Deletable, Dedicated, AtGuest, AtWithdraw, Calls, Things,
     Objects
<1>3. CASE Others
  BY <1>3, GuestsAssumption, DisjointAssumption, SMTT(30) DEF Others, Change, Surround,
     SeamRegisters, SeamReads, SeamWrites, Outside, Vanishes, Current, OneTask, Place,
     Control, Resources, Around, Idle, Deletable, Dedicated, AtGuest, AtWithdraw, Calls,
     Things, Objects
<1>. QED  BY <1>1, <1>2, <1>3 DEF Next

LEMMA CompletedKept ==
  ASSUME Control, Resources(res), Place, OneTask, Completed, Next
  PROVE  Completed'
<1>1. CASE Execution
  BY <1>1, GuestsAssumption, DisjointAssumption, SMTT(60) DEF Execution, StartExecute,
     BeginStep, KeysWithdrawn, Gate, Finish, WriteJournal, ReadObject, DeleteObject,
     VerifyDeleted, ReadForWithdraw, Unregister, VerifyUnregistered, CompareRecord,
     RetireStamp, RereadRecord, ReadGuest, RequestStop, Request, Stopped, ReadAgain,
     RequestDestroy, Destroyed, VerifyAbsent, ReadKeys, RewriteKeys, Begin, AfterDelete,
     Vanishes, Completed, OneTask, Place, Control, Resources, Idle, AtGuest, AtWithdraw,
     Calls, Things, Objects
<1>2. CASE StartWithdraw \/ WaitTimesOut \/ TaskEnds \/ Interrupt
  BY <1>2, GuestsAssumption, DisjointAssumption, SMTT(30) DEF StartWithdraw,
     WaitTimesOut, TaskEnds, Interrupt, Vanishes, Completed, OneTask, Place, Control,
     Resources, Idle, AtGuest, AtWithdraw, Calls, Things, Objects
<1>3. CASE Others
  BY <1>3, GuestsAssumption, DisjointAssumption, SMTT(30) DEF Others, Change, Surround,
     SeamRegisters, SeamReads, SeamWrites, Outside, Vanishes, Completed, OneTask, Place,
     Control, Resources, Idle, AtGuest, AtWithdraw, Calls, Things, Objects
<1>. QED  BY <1>1, <1>2, <1>3 DEF Next

LEMMA StampsKeptByAll ==
  ASSUME Recorded, Resources(res), Place, Current, Stamps, Next
  PROVE  Stamps'
<1>1. CASE Execution
  BY <1>1, GuestsAssumption, DisjointAssumption, SMTT(60) DEF Execution, StartExecute,
     BeginStep, KeysWithdrawn, Gate, Finish, WriteJournal, ReadObject, DeleteObject,
     VerifyDeleted, ReadForWithdraw, Unregister, VerifyUnregistered, CompareRecord,
     RetireStamp, RereadRecord, ReadGuest, RequestStop, Request, Stopped, ReadAgain,
     RequestDestroy, Destroyed, VerifyAbsent, ReadKeys, RewriteKeys, AfterDelete, Vanishes,
     WithdrawChecks, Stamps, Current, Recorded, Resources, Place, AtGuest, AtWithdraw,
     Record, Things, Objects
<1>2. CASE StartWithdraw \/ WaitTimesOut \/ TaskEnds \/ Interrupt
  BY <1>2, GuestsAssumption, DisjointAssumption, SMTT(30) DEF StartWithdraw,
     WaitTimesOut, TaskEnds, Interrupt, Vanishes, Stamps, Current, Recorded, Resources,
     Place, AtGuest, AtWithdraw, Record, Things, Objects
<1>3. CASE Others
  BY <1>3, GuestsAssumption, DisjointAssumption, SMTT(30) DEF Others, Change, Surround,
     SeamRegisters, SeamReads, SeamWrites, Outside, Vanishes, StampOf, Stamps, Current,
     Recorded, Resources, Place, AtGuest, AtWithdraw, Record, Things, Objects
<1>. QED  BY <1>1, <1>2, <1>3 DEF Next

THEOREM Inductive ==
  ASSUME IInv, [Next]_vars  PROVE IInv'
<1>1. CASE Next
  BY <1>1, ControlKept, FlagsKept, AroundKept, ResourcesKept, RecordedKept, PlaceKept,
     OneTaskKept, PassedKept, CurrentKept, CompletedKept, StampsKeptByAll DEF IInv, Typed
<1>2. CASE UNCHANGED vars
  <2>1. Typed'
    BY <1>2 DEF IInv, Typed, vars, Control, Recorded, Resources, Around, Flags, Idle
  <2>2. Place' /\ OneTask' /\ Passed' /\ Completed' /\ Stamps'
    BY <1>2 DEF IInv, vars, Place, OneTask, Passed, Completed, Stamps, Idle
  <2>3. Current'
    BY <1>2 DEF IInv, vars, Current, Deletable, Dedicated
  <2>. QED  BY <2>1, <2>2, <2>3 DEF IInv
<1>. QED  BY <1>1, <1>2

\* The invariant holds in every state, whatever the guests and the bounds.
THEOREM Invariant == Spec => []IInv
<1>1. Init => IInv  BY Initially
<1>2. IInv /\ [Next]_vars => IInv'  BY Inductive
<1>. QED  BY <1>1, <1>2, PTL DEF Spec

(* ---- what follows ---- *)

\* Every variable holds a value of its type, in labs of any size.
THEOREM TypeCorrect == Spec => []TypeOK
<1>1. IInv => TypeOK
  BY DEF IInv, Typed, TypeOK, Control, Recorded, Resources, Around, Flags
<1>. QED  BY <1>1, Invariant, PTL

\* When lab.py --execute reports the planned resources absent, what is there was
\* brought back by others, and no guest left a volume behind.
THEOREM DoneIsGone == Spec => []DoneMeansGone
<1>1. IInv => DoneMeansGone
  <2>. SUFFICES ASSUME IInv, pc = "done"
                PROVE  (\A x \in Things : res[x] # "gone" => x \in returned) /\ left = {}
    BY DEF DoneMeansGone
  <2>1. ~alone /\ todo = {}  BY DEF IInv, Place, AtWithdraw
  <2>. QED  BY <2>1 DEF IInv, Passed
<1>. QED  BY <1>1, Invariant, PTL

\* The calls that change the node, and what the node requires of them
LEMMA Requested ==
  ASSUME IInv, Next, NEW x \in Things, Requests(x)
  PROVE  /\ pc \in {"delete", "unregister", "stop", "destroy", "rewrite"}
         /\ x = now /\ pc \in Calls
         /\ pc # "rewrite" => res[x] # "gone"
         /\ pc = "destroy" => res[x] # "running"
<1>1. CASE Execution
  BY <1>1, SMTT(60) DEF IInv, Place, AtWithdraw, Requests, Calls, Execution,
     StartExecute, BeginStep, KeysWithdrawn, Gate, Finish, WriteJournal, ReadObject,
     DeleteObject, VerifyDeleted, ReadForWithdraw, Unregister, VerifyUnregistered,
     CompareRecord, RetireStamp, RereadRecord, ReadGuest, RequestStop, Request, Stopped,
     ReadAgain, RequestDestroy, Destroyed, VerifyAbsent, ReadKeys, RewriteKeys
<1>2. CASE StartWithdraw \/ WaitTimesOut \/ TaskEnds \/ Interrupt
  BY <1>2 DEF StartWithdraw, WaitTimesOut, TaskEnds, Interrupt, Requests
<1>3. CASE Others
  BY <1>3 DEF Others, Change, Surround, SeamRegisters, SeamReads, SeamWrites, Requests
<1>. QED  BY <1>1, <1>2, <1>3 DEF Next

\* Across interruptions and retries a resource is deleted only when everything the
\* order puts before it is gone, or was brought back by others; and a credential
\* only after every guest the platform owns.
THEOREM DeletedInOrder == Spec => TeardownOrder
<1>1. ASSUME IInv, Next, NEW x \in Things, Requests(x)
      PROVE  /\ \A y \in Things : Rank(y) < Rank(x) => res[y] = "gone" \/ y \in returned
             /\ x \in Credentials => newcomer # "early"
  <2>1. x = now /\ pc \in Calls /\ pc # "idle"  BY <1>1, Requested DEF Calls
  <2>2. \A y \in Things : Rank(y) \in 1..11  BY Ranks DEF Things, Objects
  <2>3. CASE alone
    <3>1. pc = "unregister" /\ x = "storage"
      BY <1>1, <2>1, <2>3, Requested DEF IInv, Place, AtWithdraw
    <3>2. \A y \in Things : Rank(y) < Rank(x) => y = "backup"
      BY <3>1, Ranks DEF Things, Objects
    <3>. QED  BY <1>1, <3>1, <3>2 DEF IInv, Passed, Credentials
  <2>4. CASE ~alone
    <3>1. now \in First(todo)  BY <1>1, <2>1, <2>4 DEF IInv, Place
    <3>2. \A y \in Things : Rank(y) < Rank(x) => y \notin todo
      BY <2>1, <2>2, <3>1 DEF First
    <3>3. x \in Credentials => "gate" \notin todo
      BY <2>1, <3>1, GateBeforeCredentials
    <3>. QED  BY <1>1, <2>1, <2>4, <3>2, <3>3 DEF IInv, Passed
  <2>. QED  BY <2>3, <2>4
<1>2. IInv /\ [Next]_vars => [\A x \in Things : Requests(x) =>
          /\ \A y \in Things : Rank(y) < Rank(x) => res[y] = "gone" \/ y \in returned
          /\ x \in Credentials => newcomer # "early"]_vars
  BY <1>1
<1>. QED  BY <1>2, Invariant, PTL DEF Spec, TeardownOrder

\* A completed resource that came back is not deleted under the same plan.
THEOREM CompletedStays == Spec => CompletedIsLeftAlone
<1>1. ASSUME IInv, Next, NEW x \in Things, Requests(x), x \in journal, ~alone
      PROVE  meddled # "no"
  BY <1>1, Requested DEF IInv, Completed, Place
<1>2. IInv /\ [Next]_vars =>
        [\A x \in Things : Requests(x) /\ x \in journal /\ ~alone => meddled # "no"]_vars
  BY <1>1
<1>. QED  BY <1>2, Invariant, PTL DEF Spec, CompletedIsLeftAlone

\* What the executor stops or deletes is what the plan describes, unless someone
\* changed the cluster after its last read.
THEOREM OnlyAsPlanned == Spec => NeverTouchesForeign
<1>1. ASSUME IInv, Next, NEW x \in Things, Requests(x), meddled # "after"
      PROVE  AsPlanned(x)
  <2>1. /\ x = now /\ pc \in {"delete", "unregister", "stop", "destroy", "rewrite"}
        /\ pc # "rewrite" => res[x] # "gone"
        /\ pc = "destroy" => res[x] # "running"
    BY <1>1, Requested
  <2>2. CASE pc \in {"stop", "destroy"}
    <3>1. x \in Guests /\ x \notin Objects
      BY <1>1, <2>1, <2>2, DisjointAssumption DEF IInv, Place, AtGuest
    <3>2. res[x] \in {"running", "stopped", "changed", "gone"}
      BY <1>1, <3>1 DEF IInv, Typed, Resources
    <3>. QED  BY <1>1, <2>1, <2>2, <3>1, <3>2 DEF IInv, Current, AsPlanned
  <2>3. CASE pc \in {"delete", "unregister"}
    <3>1. Deletable(x) /\ x \in Objects /\ x \notin Guests
      BY <1>1, <2>1, <2>3, Parts, DisjointAssumption DEF IInv, Place, Current, AtWithdraw
    <3>. QED  BY <3>1 DEF AsPlanned, Deletable
  <2>4. CASE pc = "rewrite"
    BY <1>1, <2>1, <2>4, Parts DEF IInv, Place, Current, AsPlanned
  <2>. QED  BY <2>1, <2>2, <2>3, <2>4
<1>2. IInv /\ [Next]_vars =>
        [\A x \in Things : Requests(x) => AsPlanned(x) \/ meddled = "after"]_vars
  BY <1>1
<1>. QED  BY <1>2, Invariant, PTL DEF Spec, NeverTouchesForeign

\* Nothing is asked of the node while a task an earlier run timed out on goes on.
THEOREM OneTaskAtATime == Spec => NoOverlappingTasks
<1>1. ASSUME IInv, Next, ~Idle
      PROVE  task' \in {task, NoTask} /\ \A x \in Things : ~Requests(x)
  <2>1. pc \notin {"delete", "unregister", "stop", "destroy", "rewrite"}
    BY <1>1 DEF IInv, OneTask
  <2>2. task' \in {task, NoTask}
    <3>1. CASE Execution
      BY <2>1, <3>1, SMTT(60) DEF Execution, StartExecute, BeginStep, KeysWithdrawn,
         Gate, Finish, WriteJournal, ReadObject, DeleteObject, VerifyDeleted,
         ReadForWithdraw, Unregister, VerifyUnregistered, CompareRecord, RetireStamp,
         RereadRecord, ReadGuest, RequestStop, Request, Stopped, ReadAgain, RequestDestroy,
         Destroyed, VerifyAbsent, ReadKeys, RewriteKeys
    <3>2. CASE StartWithdraw \/ WaitTimesOut \/ TaskEnds \/ Interrupt
      BY <3>2 DEF StartWithdraw, WaitTimesOut, TaskEnds, Interrupt
    <3>3. CASE Others
      BY <3>3 DEF Others, Change, Surround, SeamRegisters, SeamReads, SeamWrites
    <3>. QED  BY <1>1, <3>1, <3>2, <3>3 DEF Next
  <2>. QED  BY <1>1, <2>1, <2>2, Requested
<1>2. IInv /\ [Next]_vars =>
        [~Idle => task' \in {task, NoTask} /\ \A x \in Things : ~Requests(x)]_vars
  BY <1>1
<1>. QED  BY <1>2, Invariant, PTL DEF Spec, NoOverlappingTasks

\* A registration that exists loses its stamp only if others acted after the storage
\* was seen absent (lab.py:434).
THEOREM StampedStays == Spec => StampsKept
<1>1. ASSUME IInv, Next, NEW key \in stamped \cap stamped',
             file[key] # "none", file'[key] = "none", meddled # "after"
      PROVE  FALSE
  <2>1. key \in {"storage", "second"}  BY <1>1 DEF IInv, Typed, Recorded
  <2>2. file' # file  BY <1>1
  <2>3. RetireStamp \/ SeamWrites
    <3>1. CASE Execution
      BY <2>2, <3>1, SMTT(60) DEF Execution, StartExecute, BeginStep, KeysWithdrawn,
         Gate, Finish, WriteJournal, ReadObject, DeleteObject, VerifyDeleted,
         ReadForWithdraw, Unregister, VerifyUnregistered, CompareRecord, RetireStamp,
         RereadRecord, ReadGuest, RequestStop, Request, Stopped, ReadAgain, RequestDestroy,
         Destroyed, VerifyAbsent, ReadKeys, RewriteKeys
    <3>2. CASE StartWithdraw \/ WaitTimesOut \/ TaskEnds \/ Interrupt
      BY <2>2, <3>2 DEF StartWithdraw, WaitTimesOut, TaskEnds, Interrupt
    <3>3. CASE Others
      BY <2>2, <3>3 DEF Others, Change, Surround, SeamRegisters, SeamReads
    <3>. QED  BY <1>1, <3>1, <3>2, <3>3 DEF Next
  <2>4. CASE RetireStamp
    <3>1. file = held /\ res["storage"] = "gone"
      BY <1>1, <2>4 DEF RetireStamp, IInv, Current
    <3>2. key # "storage"  BY <1>1, <3>1 DEF IInv, Stamps
    <3>3. file'["second"] = file["second"]  BY <2>4, <3>1 DEF RetireStamp
    <3>. QED  BY <1>1, <2>1, <3>2, <3>3
  <2>5. CASE SeamWrites
    <3>1. /\ seam.at = "write" /\ seam.key \in {"storage", "second"}
          /\ seam.stamp # "none" /\ seam.read \in Record /\ file \in Record
          /\ file' = [seam.read EXCEPT ![seam.key] = seam.stamp]
      BY <1>1, <2>5 DEF SeamWrites, IInv, Typed, Recorded
    <3>2. CASE seam.key = "storage"
      <4>1. file'["storage"] # "none" /\ file'["second"] = seam.read["second"]
        BY <3>1, <3>2 DEF Record
      <4>2. file["second"] = "planned" => seam.read["second"] = "planned"
        BY <1>1, <3>1, <3>2 DEF IInv, Stamps
      <4>. QED  BY <1>1, <2>1, <3>1, <4>1, <4>2 DEF Record
    <3>3. CASE seam.key = "second"
      <4>1. file'["second"] # "none" /\ file'["storage"] = seam.read["storage"]
        BY <3>1, <3>3 DEF Record
      <4>2. file["storage"] # "none" => seam.read["storage"] # "none"
        BY <1>1, <3>1, <3>3 DEF IInv, Stamps
      <4>. QED  BY <1>1, <2>1, <4>1, <4>2
    <3>. QED  BY <3>1, <3>2, <3>3
  <2>. QED  BY <2>3, <2>4, <2>5
<1>2. IInv /\ [Next]_vars => [\A key \in stamped \cap stamped' :
          file[key] # "none" /\ file'[key] = "none" => meddled = "after"]_vars
  BY <1>1
<1>. QED  BY <1>2, Invariant, PTL DEF Spec, StampsKept

=============================================================================

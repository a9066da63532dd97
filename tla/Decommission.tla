---------------------------- MODULE Decommission ----------------------------
(***************************************************************************)
(* The node-side decommission: ansible/files/decommission/lab.py.  One     *)
(* executor, alone under the node's lock, works through a confirmed plan:  *)
(* the backup job, the PBS registration, the guests (templates after the   *)
(* others, the runner last), then the credentials.  Every step re-reads    *)
(* what it is about to delete and is recorded in a journal afterwards; a   *)
(* retry of the same plan goes through every step again.                   *)
(*                                                                         *)
(* Meanwhile others act on the cluster: operators edit, remove and restore *)
(* things, a node task outlives the run that asked for it, and a creation  *)
(* seam (configure-pbs) registers a storage and stamps it with record(),   *)
(* which takes no lock.  A call of lab.py to the node is one step, so      *)
(* anything may happen between a read and the deletion it led to.          *)
(***************************************************************************)
EXTENDS Integers, FiniteSets

CONSTANTS
    Guests,         \* the planned guests
    Runner,         \* the guest that runs Rundeck
    Templates,      \* the planned guests that are templates
    Bounds          \* bounds, of which any one holds: times an executor is killed or
                    \* a call of it fails; node tasks that fail, hang or leave volumes
                    \* behind; interventions of others

Objects == {"backup", "storage", "token", "acl", "user", "role", "keys"}

ASSUME GuestsAssumption == Runner \in Guests /\ Templates \subseteq Guests
ASSUME DisjointAssumption == Guests \cap (Objects \cup {"gate"}) = {}
ASSUME BoundsAssumption == Bounds \subseteq [interrupts : Nat, faults : Nat, outside : Nat]

Things      == Guests \cup Objects
Credentials == {"token", "acl", "user", "role", "keys"}
NoTask      == [kind |-> "none"]
Record      == [storage : {"none", "planned", "changed"},
                second : {"none", "planned"}, retired : BOOLEAN]

\* The order of execute(): the loops over kinds, and the guests' sort key
Turn     == <<"backup", "storage", "guest", "template", "runner", "gate",
              "token", "acl", "user", "role", "keys">>
Stage(x) == IF x \notin Guests THEN x
            ELSE IF x = Runner THEN "runner"
            ELSE IF x \in Templates THEN "template" ELSE "guest"
Rank(x)  == CHOOSE i \in DOMAIN Turn : Turn[i] = Stage(x)
\* Mutant for TeardownOrder: the guests are not sorted
MutantFirst(S) == {x \in S : \A y \in S : Rank(x) <= Rank(y) \/ {x, y} \subseteq Guests}

First(S) == {x \in S : \A y \in S : Rank(x) <= Rank(y)}

VARIABLES
    pc,        \* the executor's next call, "idle" between runs, "done" at the end
    now,       \* the step's resource
    todo,      \* steps this run has not reached
    alone,     \* this is lab.py --withdraw, not --execute
    records,   \* creation record as execute() holds it
    held,      \* creation record as withdraw() holds it
    journal,   \* the journal's completed steps
    file,      \* the creation record on disk
    res,       \* what is on the cluster for each planned resource:
               \* as planned ("planned"; "running", "stopped"), "changed" or "gone"
    left,      \* guests gone with volumes left behind
    shared,    \* objects with a consumer outside the platform
    newcomer,  \* an owned guest outside the plan; "late" if it came after the gate
    drift,     \* something that had to be preserved has changed
    task,      \* the node task under way, asked for by some run
    outcome,   \* how the last one ended
    seam,      \* the creation seam's progress
    \* History, read by the properties only:
    meddled,   \* others acted: "no" since the step began, or "before"/"after" its last read
    returned,  \* resources others brought back
    stamped,   \* registrations whose record() completed and that still exist
    spent      \* the bounds used up

executor == <<pc, now, todo, alone, records, held>>
world    == <<left, shared, newcomer, drift>>
tasks    == <<task, outcome>>
vars     == <<executor, journal, file, res, world, tasks, seam, meddled, returned,
              stamped, spent>>

Init ==
    /\ pc = "idle" /\ now = "backup" /\ todo = {} /\ alone = FALSE
    /\ file = [storage |-> "planned", second |-> "none", retired |-> FALSE]
    /\ records = file /\ held = file /\ journal = {}
    /\ res = [x \in Things |-> IF x \notin Guests THEN "planned"
                               ELSE IF x \in Templates THEN "stopped" ELSE "running"]
    /\ left = {} /\ shared = {} /\ newcomer = "none" /\ drift = FALSE
    /\ task = NoTask /\ outcome = "ok"
    /\ seam = [at |-> "idle"]
    /\ meddled = "no" /\ returned = {} /\ stamped = {"storage"}
    /\ spent = [interrupts |-> 0, faults |-> 0, outside |-> 0]

-----------------------------------------------------------------------------
(* The parts of a step *)

\* A call that only moves the executor on; what it read is now up to date
Goto(there) == pc' = there /\ UNCHANGED <<now, todo, alone, records, held>>
Reads       == meddled' = IF meddled = "no" THEN "no" ELSE "before"
Unread      == UNCHANGED meddled
Elsewhere   == UNCHANGED <<journal, file, res, world, tasks, seam, returned,
                           stamped, spent>>
Spend(what) == /\ spent' = [spent EXCEPT ![what] = @ + 1]
               /\ \E b \in Bounds : \A k \in DOMAIN b : spent'[k] <= b[k]

\* A resource disappears from the cluster
Vanishes(x) == /\ res' = [res EXCEPT ![x] = "gone"]
               /\ returned' = returned \ {x}
               /\ stamped' = IF x = "storage" THEN stamped \ {x} ELSE stamped

\* verify_idle and verify_preserved
Idle      == task = NoTask
Preserved == ~drift /\ res["keys"] # "torn"

\* dedicated_user: every credential of the user is the platform's own
Dedicated == /\ res["user"] = "planned" /\ "user" \notin shared
             /\ {res["token"], res["acl"]} \subseteq {"planned", "gone"}

\* What delete_object requires of the object and of those that refer to it
Deletable(x) ==
    /\ res[x] = "planned"
    /\ x \in {"token", "acl", "user"} => Dedicated
    /\ x = "user" => res["token"] = "gone" /\ res["acl"] = "gone"
    /\ x = "role" => res["acl"] = "gone" /\ "role" \notin shared
    /\ x = "storage" => res["backup"] = "gone" /\ "storage" \notin shared

-----------------------------------------------------------------------------
(* execute() *)

\* Preconditions: the plan's guests are unchanged or gone, nothing owned is outside it
StartExecute ==
    /\ pc = "idle"
    /\ \A g \in Guests : res[g] # "changed"
    /\ newcomer = "none"
    /\ pc' = "next" /\ todo' = Things \cup {"gate"} /\ alone' = FALSE
    /\ records' = file
    /\ UNCHANGED <<now, held>> /\ Unread /\ Elsewhere

\* Mutant for CompletedIsLeftAlone: a completed step is not verified again
MutantTrusting(x) == Idle /\ Preserved

\* Mutant for NoOverlappingTasks: the step does not wait for the node to be idle
MutantBusy(x) == Preserved /\ (x \in journal \ {"keys"} => res[x] = "gone")

\* step(): idle, nothing unrelated changed, nothing completed has come back
Begin(x) == Idle /\ Preserved /\ (x \in journal \ {"keys"} => res[x] = "gone")

BeginStep ==
    /\ pc = "next"
    /\ \E x \in First(todo) :
         /\ x # "gate"
         /\ x = "keys" => x \notin journal
         /\ now' = x
         /\ pc' = IF Begin(x) THEN "act" ELSE "idle"
    /\ meddled' = "no"
    /\ UNCHANGED <<todo, alone, records, held>> /\ Elsewhere

\* Keys already withdrawn are only looked at
KeysWithdrawn ==
    /\ pc = "next" /\ todo = {"keys"} /\ "keys" \in journal
    /\ IF res["keys"] = "gone" THEN pc' = "next" /\ todo' = {}
                               ELSE pc' = "idle" /\ UNCHANGED todo
    /\ UNCHANGED <<now, alone, records, held>> /\ Unread /\ Elsewhere

\* No platform guest may be left before the credentials go.  A guest that replaced
\* a planned one may or may not be the platform's.
GatePasses == newcomer = "none" /\ \A g \in Guests : res[g] \in {"gone", "changed"}

Gate ==
    /\ pc = "next" /\ "gate" \in First(todo)
    /\ \/ GatePasses /\ pc' = "next" /\ todo' = todo \ {"gate"}
       \/ ~(GatePasses /\ \A g \in Guests : res[g] = "gone") /\ pc' = "idle"
                                                            /\ UNCHANGED todo
    /\ UNCHANGED <<now, alone, records, held>> /\ Unread /\ Elsewhere

Finish ==
    /\ pc = "next" /\ todo = {}
    /\ Goto(IF Preserved THEN "done" ELSE "idle") /\ Unread /\ Elsewhere

WriteJournal ==
    /\ pc = "journal"
    /\ journal' = journal \cup {now}
    /\ todo' = todo \ {now} /\ pc' = "next"
    /\ UNCHANGED <<now, alone, records, held, file, res, world, tasks, seam,
                   returned, stamped, spent>> /\ Unread

-----------------------------------------------------------------------------
(* delete_object(), and delete_storage() around it *)

\* Mutant for RetriesFinish: a complete step withdraws again
MutantAfterDelete == IF now = "storage" THEN "withdraw" ELSE "journal"

\* delete_storage withdraws unless the step is complete and the stamp retired
AfterDelete ==
    IF now = "storage" /\ (now \notin journal \/ records.storage # "none")
    THEN "withdraw" ELSE "journal"

ReadObject ==
    /\ pc = "act" /\ now \in Objects \ {"keys"}
    /\ Reads /\ Elsewhere
    /\ Goto(IF file # records THEN "idle"
            ELSE IF res[now] = "gone" THEN AfterDelete
            ELSE IF Deletable(now) /\ (now = "storage" => records.storage = "planned")
                 THEN "delete" ELSE "idle")

\* The node refuses to delete what is no longer there
DeleteObject ==
    /\ pc = "delete"
    /\ IF res[now] = "gone"
       THEN Goto("idle") /\ UNCHANGED <<res, returned, stamped>>
       ELSE Goto("deleted") /\ Vanishes(now)
    /\ UNCHANGED <<journal, file, world, tasks, seam, spent>> /\ Unread

VerifyDeleted ==
    /\ pc = "deleted"
    /\ Goto(IF res[now] = "gone" THEN AfterDelete ELSE "idle") /\ Reads /\ Elsewhere

-----------------------------------------------------------------------------
(* withdraw(): delete the registration, then retire its stamp *)

StartWithdraw ==
    /\ pc = "idle" /\ Spend("outside")
    /\ pc' = "withdraw" /\ now' = "storage" /\ todo' = {} /\ alone' = TRUE
    /\ meddled' = "no"
    /\ UNCHANGED <<records, held, journal, file, res, world, tasks, seam, returned,
                   stamped>>

WithdrawChecks ==
    /\ file.storage = "planned"
    /\ Idle
    /\ res["backup"] = "gone" /\ "storage" \notin shared
    /\ res["storage"] \in {"planned", "gone"}

ReadForWithdraw ==
    /\ pc = "withdraw"
    /\ held' = file
    /\ pc' = IF ~WithdrawChecks THEN "idle"
             ELSE IF res["storage"] = "gone" THEN "verify" ELSE "unregister"
    /\ UNCHANGED <<now, todo, alone, records>> /\ Reads /\ Elsewhere

Unregister ==
    /\ pc = "unregister"
    /\ IF res["storage"] = "gone"
       THEN Goto("idle") /\ UNCHANGED <<res, returned, stamped>>
       ELSE Goto("verify") /\ Vanishes("storage")
    /\ UNCHANGED <<journal, file, world, tasks, seam, spent>> /\ Unread

VerifyUnregistered ==
    /\ pc = "verify"
    /\ Goto(IF res["storage"] = "gone" THEN "compare" ELSE "idle")
    /\ Reads /\ Elsewhere

\* Mutant for StampsKept: the record is not read a second time
MutantCompareRecord ==
    /\ pc = "compare"
    /\ Goto("retire") /\ Unread /\ Elsewhere

CompareRecord ==
    /\ pc = "compare"
    /\ Goto(IF file = held THEN "retire" ELSE "idle")
    /\ Unread /\ Elsewhere

RetireStamp ==
    /\ pc = "retire"
    /\ file' = [storage |-> "none", second |-> held.second, retired |-> TRUE]
    /\ Goto(IF alone THEN "idle" ELSE "reread")
    /\ UNCHANGED <<journal, res, world, tasks, seam, returned, stamped, spent>> /\ Unread

\* execute() goes on with the record as it now is
RereadRecord ==
    /\ pc = "reread"
    /\ records' = file /\ pc' = "journal"
    /\ UNCHANGED <<now, todo, alone, held>> /\ Unread /\ Elsewhere

-----------------------------------------------------------------------------
(* destroy_guest(), with a node task for the stop and one for the deletion *)

Ask(kind) == task' = [kind |-> kind, guest |-> now] /\ UNCHANGED outcome

ReadGuest ==
    /\ pc = "act" /\ now \in Guests
    /\ Reads /\ Elsewhere
    /\ \/ res[now] = "gone"    /\ Goto("absent")
       \/ res[now] = "changed" /\ Goto("idle")
       \/ res[now] = "running" /\ Goto("stop")
       \/ res[now] = "stopped" /\ Goto("again")

\* A request for a guest that is gone, or to delete one that runs, is refused
Request(kind, fails, waiting) ==
    /\ IF fails THEN Goto("idle") /\ UNCHANGED tasks
                ELSE Goto(waiting) /\ Ask(kind)
    /\ UNCHANGED <<journal, file, res, world, seam, returned, stamped, spent>> /\ Unread

RequestStop ==
    /\ pc = "stop"
    /\ Request("stop", res[now] = "gone", "stopping")

\* wait(): the task stopped with exit status OK
Stopped ==
    /\ pc = "stopping" /\ Idle
    /\ Goto(IF outcome = "ok" THEN "again" ELSE "idle") /\ Unread /\ Elsewhere

\* Mutant for NeverTouchesForeign: the second read only finds the guest
MutantReadAgain ==
    /\ pc = "again"
    /\ Goto(IF res[now] = "gone" THEN "idle" ELSE "destroy") /\ Reads /\ Elsewhere

\* The deletion gets a fresh read of ownership and configuration
ReadAgain ==
    /\ pc = "again"
    /\ Goto(IF res[now] \in {"gone", "changed"} THEN "idle" ELSE "destroy")
    /\ Reads /\ Elsewhere

RequestDestroy ==
    /\ pc = "destroy"
    /\ Request("destroy", res[now] \in {"gone", "running"}, "destroying")

Destroyed ==
    /\ pc = "destroying" /\ Idle
    /\ Goto(IF outcome = "ok" THEN "absent" ELSE "idle") /\ Unread /\ Elsewhere

\* Mutant for DoneMeansGone: volumes are not looked for
MutantAbsent(g) == res[g] = "gone"

\* The guest is gone, and so are its volumes
Absent(g) == res[g] = "gone" /\ g \notin left

VerifyAbsent ==
    /\ pc = "absent"
    /\ Goto(IF Absent(now) THEN "journal" ELSE "idle") /\ Reads /\ Elsewhere

\* wait() gives up; the task goes on
WaitTimesOut ==
    /\ pc \in {"stopping", "destroying"} /\ ~Idle
    /\ Spend("faults") /\ Goto("idle")
    /\ UNCHANGED <<journal, file, res, world, tasks, seam, returned, stamped>> /\ Unread

\* The node's side of a task.  A destroyed guest may leave volumes behind.
TaskEnds ==
    /\ ~Idle
    /\ task' = NoTask
    /\ \/ /\ outcome' = "ok" /\ UNCHANGED spent
          /\ IF task.kind = "destroy"
             THEN Vanishes(task.guest) /\ UNCHANGED left
             ELSE /\ res' = [res EXCEPT ![task.guest] =
                                 IF @ = "running" THEN "stopped" ELSE @]
                  /\ UNCHANGED <<returned, stamped, left>>
       \/ /\ Spend("faults")
          /\ \/ outcome' = "failed" /\ UNCHANGED <<res, returned, stamped, left>>
             \/ /\ task.kind = "destroy" /\ outcome' = "ok"
                /\ Vanishes(task.guest) /\ left' = left \cup {task.guest}
    /\ UNCHANGED <<executor, journal, file, shared, newcomer, drift, seam>> /\ Unread

-----------------------------------------------------------------------------
(* withdraw_keys(): rewrite the key file in place, then truncate it *)

ReadKeys ==
    /\ pc = "act" /\ now = "keys"
    /\ \/ res["keys"] = "gone"    /\ Goto("journal")
       \/ res["keys"] = "planned" /\ Goto("rewrite")
       \/ res["keys"] \notin {"gone", "planned"} /\ Goto("idle")
    /\ Reads /\ Elsewhere

RewriteKeys ==
    /\ pc = "rewrite"
    /\ Goto("deleted") /\ Vanishes("keys")
    /\ UNCHANGED <<journal, file, world, tasks, seam, spent>> /\ Unread

\* The executor is killed, or a call it makes fails, at any point.  Between the
\* rewrite and the truncation that leaves a part of the old file behind.
Interrupt ==
    /\ pc \notin {"idle", "done"}
    /\ Spend("interrupts") /\ Goto("idle")
    /\ \/ UNCHANGED res
       \/ pc = "rewrite" /\ res' = [res EXCEPT !["keys"] = "torn"]
    /\ UNCHANGED <<journal, file, world, tasks, seam, returned, stamped>> /\ Unread

-----------------------------------------------------------------------------
(* Others.  A guest under a node task is locked. *)

Outside == Spend("outside") /\ meddled' = "after"
Free(x) == task \notin [kind : {"stop", "destroy"}, guest : {x}]
Alike(x) == IF x \in Guests THEN "stopped" ELSE "planned"

\* Someone edits, removes, restores or recreates a planned resource, or starts a guest
Change(x) ==
    /\ Outside /\ Free(x)
    /\ \/ res[x] # "gone" /\ res' = [res EXCEPT ![x] = "changed"]
                          /\ UNCHANGED <<returned, stamped>>
       \/ res[x] # "gone" /\ Vanishes(x)
       \/ res[x] = "gone" /\ x # "storage"
          /\ \E s \in {Alike(x), "changed"} : res' = [res EXCEPT ![x] = s]
          /\ returned' = returned \cup {x} /\ UNCHANGED stamped
       \/ res[x] = "stopped" /\ x \notin Templates
                          /\ res' = [res EXCEPT ![x] = "running"]
                          /\ UNCHANGED <<returned, stamped>>
    /\ UNCHANGED <<executor, journal, file, world, tasks, seam>>

\* A foreign consumer, an owned guest or an unrelated change comes or goes; an
\* operator clears volumes
Surround ==
    /\ Outside
    /\ \/ /\ \E x \in {"storage", "user", "role"} :
               shared' \in {shared \cup {x}, shared \ {x}} \ {shared}
          /\ UNCHANGED <<left, newcomer, drift>>
       \/ /\ newcomer' = IF newcomer # "none" THEN "none"
                         ELSE IF pc # "idle" /\ "gate" \notin todo THEN "late" ELSE "early"
          /\ UNCHANGED <<left, shared, drift>>
       \/ drift' = ~drift /\ UNCHANGED <<left, shared, newcomer>>
       \/ left # {} /\ left' = {} /\ UNCHANGED <<shared, newcomer, drift>>
    /\ UNCHANGED <<executor, journal, file, res, tasks, seam, returned, stamped>>

\* configure-pbs registers pbs-homelab, configure-pbs-second-copy the second storage
SeamRegisters(key) ==
    /\ Outside /\ seam.at = "idle"
    /\ seam' = [at |-> "register", key |-> key]
    /\ \/ /\ key = "storage" /\ res[key] = "gone"
          /\ \E s \in {"planned", "changed"} : res' = [res EXCEPT ![key] = s]
          /\ returned' = returned \cup {key}
       \/ key = "second" /\ file.second = "none" /\ UNCHANGED <<res, returned>>
    /\ UNCHANGED <<executor, journal, file, world, tasks, stamped>>

\* record(): the registration must exist, and must not differ from an existing stamp
StampOf(key) == IF key = "storage" THEN res[key] ELSE "planned"

\* Mutant for TypeOK: record() does not require the registration to exist
MutantSeamReads ==
    /\ seam.at = "register"
    /\ seam' = IF file[seam.key] \notin {"none", StampOf(seam.key)}
               THEN [at |-> "idle"]
               ELSE [at |-> "write", key |-> seam.key, stamp |-> StampOf(seam.key),
                     read |-> file]
    /\ UNCHANGED <<executor, journal, file, res, world, tasks, returned, stamped,
                   spent>> /\ Unread

SeamReads ==
    /\ seam.at = "register"
    /\ seam' = IF \/ seam.key = "storage" /\ res["storage"] = "gone"
                  \/ file[seam.key] \notin {"none", StampOf(seam.key)}
               THEN [at |-> "idle"]
               ELSE [at |-> "write", key |-> seam.key, stamp |-> StampOf(seam.key),
                     read |-> file]
    /\ UNCHANGED <<executor, journal, file, res, world, tasks, returned, stamped,
                   spent>> /\ Unread

SeamWrites ==
    /\ seam.at = "write"
    /\ file' = [seam.read EXCEPT ![seam.key] = seam.stamp]
    /\ stamped' = IF seam.key = "storage" /\ res["storage"] # seam.stamp
                  THEN stamped ELSE stamped \cup {seam.key}
    /\ seam' = [at |-> "idle"]
    /\ meddled' = "after"
    /\ UNCHANGED <<executor, journal, res, world, tasks, returned, spent>>

-----------------------------------------------------------------------------
Execution ==
    \/ StartExecute \/ BeginStep \/ KeysWithdrawn \/ Gate \/ Finish \/ WriteJournal
    \/ ReadObject \/ DeleteObject \/ VerifyDeleted
    \/ ReadForWithdraw \/ Unregister \/ VerifyUnregistered \/ CompareRecord
    \/ RetireStamp \/ RereadRecord
    \/ ReadGuest \/ RequestStop \/ Stopped \/ ReadAgain \/ RequestDestroy \/ Destroyed
    \/ VerifyAbsent \/ ReadKeys \/ RewriteKeys

Others == \/ \E x \in Things : Change(x)
          \/ Surround
          \/ \E key \in {"storage", "second"} : SeamRegisters(key)
          \/ SeamReads \/ SeamWrites

Next == Execution \/ StartWithdraw \/ WaitTimesOut \/ TaskEnds \/ Interrupt \/ Others

Spec == Init /\ [][Next]_vars

\* Fairness: the operator retries the plan and a running executor goes on; a node
\* task ends.  Interventions, interrupts and lab.py --withdraw need not happen.
FairSpec == Spec /\ WF_vars(Execution) /\ WF_vars(TaskEnds)

-----------------------------------------------------------------------------
(* Properties *)

Calls == {"act", "delete", "deleted", "withdraw", "unregister", "verify", "compare",
          "retire", "reread", "stop", "stopping", "again", "destroy", "destroying", "absent",
          "rewrite", "journal"}

\* Every variable holds a value of its type.
TypeOK ==
    /\ pc \in {"idle", "next", "done"} \cup Calls
    /\ now \in Things /\ todo \subseteq Things \cup {"gate"} /\ alone \in BOOLEAN
    /\ journal \subseteq Things
    /\ records \in Record /\ held \in Record /\ file \in Record
    /\ \A g \in Guests : res[g] \in {"running", "stopped", "changed", "gone"}
    /\ \A o \in Objects : res[o] \in {"planned", "changed", "gone", "torn"}
    /\ left \subseteq Guests /\ shared \subseteq {"storage", "user", "role"}
    /\ newcomer \in {"none", "early", "late"} /\ drift \in BOOLEAN
    /\ Idle \/ task \in [kind : {"stop", "destroy"}, guest : Guests]
    /\ outcome \in {"ok", "failed"}

\* The executor asks the node to change x in this step
Requests(x) ==
    /\ now = x /\ pc' # "idle"
    /\ pc \in {"delete", "unregister", "stop", "destroy", "rewrite"}
    /\ pc' # pc

\* x is what the plan describes, in a state its deletion (or stop) may start from
AsPlanned(x) ==
    /\ res[x] = IF x \notin Guests THEN "planned"
                ELSE IF pc = "stop" THEN "running" ELSE "stopped"
    /\ x \in Objects \ {"keys"} => Deletable(x)

\* What the executor stops or deletes is what the plan describes, unless someone
\* changed the cluster after the executor's last read: an edit made while it waited
\* for the guest to stop is seen (destroy_guest's second current_guest).
NeverTouchesForeign ==
    [][\A x \in Things : Requests(x) => AsPlanned(x) \/ meddled = "after"]_vars

\* Across interruptions and retries a resource is deleted only when everything the
\* order puts before it is gone, or was brought back by others: schedules before
\* the storage, both before any guest, templates after the guests cloned from
\* them, the runner last, credentials after every guest, an owned one outside the
\* plan that was there when the run checked included (lines 463 and 520).
TeardownOrder ==
    [][\A x \in Things : Requests(x) =>
         /\ \A y \in Things : Rank(y) < Rank(x) => res[y] = "gone" \/ y \in returned
         /\ x \in Credentials => newcomer # "early"]_vars

\* A completed resource that came back is not deleted under the same plan, even if
\* it looks exactly as planned (a guest restored from backup), unless it came back
\* after the step had looked.
CompletedIsLeftAlone ==
    [][\A x \in Things : Requests(x) /\ x \in journal /\ ~alone => meddled # "no"]_vars

\* Nothing is asked of the node while a task an earlier run timed out on goes on.
NoOverlappingTasks ==
    [][~Idle => task' \in {task, NoTask} /\ \A x \in Things : ~Requests(x)]_vars

\* Retiring the storage's stamp loses the stamp of a registration that exists only if
\* others acted after the storage was seen absent (line 434).  Before that a new
\* registration is met there or refused.  After it, the comparison (line 438) notices
\* a record that differs from the one withdraw() read; not the same registration made
\* and recorded again, nor what record(), which takes no lock, writes afterwards.
StampsKept ==
    [][\A key \in stamped \cap stamped' :
         file[key] # "none" /\ file'[key] = "none" => meddled = "after"]_vars

\* When execution reports the planned resources absent, what is there was brought
\* back by others, and no guest left a volume behind.
DoneMeansGone ==
    pc = "done" => /\ \A x \in Things : res[x] # "gone" => x \in returned
                   /\ left = {}

\* Without interruption, and with nobody interfering, retries finish the plan
\* through failed and timed-out tasks, unless a guest leaves volumes behind.
RetriesFinish ==
    <>(pc = "done" \/ left # {} \/ spent.interrupts + spent.outside > 0)

\* README.md of playbooks/maintenance: a rerun of the same plan after an
\* interruption accepts what is already absent and resumes.
ResumesAfterInterruption == <>(pc = "done" \/ left # {} \/ res["keys"] = "torn")
=============================================================================

---------------------------- MODULE GuestRecord ----------------------------
(***************************************************************************)
(* The configuration of one Proxmox guest that many jobs share: its tags,  *)
(* the table of applications in its notes, and the devices passed to it.   *)
(* Jobs that deploy or remove an application record or withdraw it         *)
(* (files/proxmox/guest-app-record.py); a job that deploys the guest again *)
(* rewrites tags and notes (tasks/proxmox/vm-clone.yml); jobs that attach  *)
(* or detach a device write the tags together with the device              *)
(* (attach- and detach-usb-passthrough.yml).                               *)
(*                                                                         *)
(* Each of them reads, computes, and then writes whole fields: a read and  *)
(* a write are steps of their own, and jobs of different applications run  *)
(* side by side.  A job that is refused, or dies, has no write.            *)
(***************************************************************************)
EXTENDS Naturals

CONSTANTS
    Instances,     \* applications
    Details,       \* what a row may say: kind and url
    Token,         \* the tag of an instance, in PVE's alphabet
    Devices,       \* devices with a resource mapping
    Slug,          \* of a mapping's name: lower case, with - for all but letters and digits
    Requested,     \* the platform's own tags, as every deploy of the guest requests them
    OperatorTags,  \* tags applied by hand
    Jobs,          \* jobs that may run side by side
    NoRow, Unknown,
    MaxJobs        \* bound: jobs started

Provenance(d) == <<"_.dev+", Slug[d]>>
AppTags       == {Token[i] : i \in Instances}
Lanes         == Requested \cup {Provenance(d) : d \in Devices}   \* "_+", "_-" and "_."
Tags          == AppTags \cup Lanes \cup OperatorTags
Rows          == [Instances -> Details \cup {NoRow}]

ASSUME TokenAssumption   == Token \in [Instances -> AppTags]
ASSUME LanesAssumption   == (AppTags \cup OperatorTags) \cap Lanes = {}
ASSUME RequestAssumption == \A d \in Devices : Provenance(d) \notin Requested
ASSUME TagsAssumption    == AppTags \cap OperatorTags = {}
ASSUME DetailsAssumption == NoRow \notin Details /\ Unknown \notin Details \cup {NoRow}
ASSUME BoundAssumption   == MaxJobs \in Nat

VARIABLES
    rows, tags,  \* the guest's notes and tags
    held,        \* the devices in its configuration
    job,         \* what each job is for, and what it has read
    started,     \* how many jobs have been started
    (* Known to no job: *)
    assigned,    \* the devices in the configuration that this platform assigned
    recorded,    \* what the last job of each instance reported, until a write that
                 \* rests on an outdated read
    outdated     \* there was such a write

guest == <<rows, tags, held>>
ghost == <<assigned, recorded, outdated>>
vars  == <<guest, job, started, ghost>>

Idle  == [at |-> "idle"]
Tasks == [task : {"record"}, instance : Instances, detail : Details]
            \cup [task : {"withdraw"}, instance : Instances]
            \cup [task : {"clone"}, described : BOOLEAN]
            \cup [task : {"attach", "detach"}, device : Devices]

Init ==
    /\ rows = [i \in Instances |-> NoRow] /\ tags = Requested \cup OperatorTags /\ held = {}
    /\ job = [j \in Jobs |-> Idle] /\ started = 0
    /\ assigned = {} /\ recorded = rows /\ outdated = FALSE

\* One call returns tags and notes (a device's job reads the list of guests,
\* and the devices in a second call)
Read(j, what) ==
    /\ job[j] = Idle /\ started < MaxJobs /\ started' = started + 1
    /\ job' = [job EXCEPT ![j] =
          [at |-> IF what.task \in {"attach", "detach"} THEN "look" ELSE "write",
           for |-> what, rows |-> rows, tags |-> tags, held |-> {}]]
    /\ UNCHANGED <<guest, ghost>>

Look(j) ==
    /\ job[j].at = "look"
    /\ job' = [job EXCEPT ![j].at = "write", ![j].held = held]
    /\ UNCHANGED <<guest, started, ghost>>

Ends(j) == job' = [job EXCEPT ![j] = Idle] /\ UNCHANGED started
Current(j) == job[j].tags = tags /\ job[j].rows = rows

GivesUp(j) == job[j] # Idle /\ Ends(j) /\ UNCHANGED <<guest, ghost>>

\* A write that rests on an outdated read may undo what others recorded
Notes(j, known) ==
    /\ outdated' = (outdated \/ ~Current(j))
    /\ recorded' = IF Current(j) THEN known ELSE [i \in Instances |-> Unknown]

Begun(j, tasks) == job[j].at = "write" /\ job[j].for.task \in tasks

-----------------------------------------------------------------------------
(* guest-app-record.py *)

Present(rs)   == {i \in Instances : rs[i] # NoRow}
TagsOf(is)    == {Token[i] : i \in is}

\* Mutant for RecordsStand: the tags of all rows but the own are candidates
\* for removal.
MutantMergeTags(ts, previous, rs) == (ts \ TagsOf(Present(previous))) \cup
                                     TagsOf({i \in Present(rs) : rs[i] # previous[i]})

\* Mutant for PlatformTagsKept: tags are rendered from the table alone.
MutantRender(ts, previous, rs) == TagsOf(Present(rs))

\* Only the tags of rows that are gone are ever removed
MergeTags(ts, previous, rs) ==
    LET managed == TagsOf(Present(rs))
    IN (ts \ (TagsOf(Present(previous)) \ managed)) \cup managed

MergeRows(previous, what) ==
    [previous EXCEPT ![what.instance] = IF what.task = "withdraw" THEN NoRow ELSE what.detail]

\* Nothing is written when nothing would change
Record(j) ==
    /\ Begun(j, {"record", "withdraw"})
    /\ LET new   == MergeRows(job[j].rows, job[j].for)
           ntags == MergeTags(job[j].tags, job[j].rows, new)
           i     == job[j].for.instance
       IN IF new = job[j].rows /\ ntags = job[j].tags
          THEN UNCHANGED <<rows, tags, outdated>> /\
               recorded' = [recorded EXCEPT ![i] = IF Current(j) THEN new[i] ELSE Unknown]
          ELSE rows' = new /\ tags' = ntags /\ Notes(j, [recorded EXCEPT ![i] = new[i]])
    /\ Ends(j) /\ UNCHANGED <<held, assigned>>

-----------------------------------------------------------------------------
(* vm-clone.yml, on a guest that exists *)

\* The notes are written only when the deploy declares a description
Clone(j) ==
    /\ Begun(j, {"clone"})
    /\ tags' = Requested \cup {t \in job[j].tags : t \notin Lanes}
    /\ rows' = IF job[j].for.described THEN job[j].rows ELSE rows
    /\ Notes(j, recorded) /\ Ends(j) /\ UNCHANGED <<held, assigned>>

-----------------------------------------------------------------------------
(* attach- and detach-usb-passthrough.yml *)

\* Mutant for TypeOK: a call of its own writes the tag, and the one for the
\* device is forgotten.
MutantAttach(j) ==
    /\ Begun(j, {"attach"})
    /\ LET d == job[j].for.device
       IN tags' = job[j].tags \cup {Provenance(d)} /\ assigned' = assigned \cup {d}
    /\ Notes(j, recorded) /\ Ends(j) /\ UNCHANGED <<rows, held>>

\* A device that is there already is not tagged after the fact
Attach(j) ==
    /\ Begun(j, {"attach"})
    /\ LET d == job[j].for.device
       IN IF d \in job[j].held
          THEN UNCHANGED <<tags, held, ghost>>
          ELSE /\ held' = held \cup {d} /\ tags' = job[j].tags \cup {Provenance(d)}
               /\ assigned' = assigned \cup {d} /\ Notes(j, recorded)
    /\ Ends(j) /\ UNCHANGED rows

\* Mutant for OnlyProvenDetached: a device is the platform's when its mapping matches.
MutantOwned(j, d) == d \in job[j].held

\* The tag is that of every mapping with the slug
Owned(j, d) == d \in job[j].held /\ Provenance(d) \in job[j].tags

Detach(j) ==
    /\ Begun(j, {"detach"})
    /\ LET d == job[j].for.device
       IN IF ~Owned(j, d)
          THEN UNCHANGED <<tags, held, ghost>>
          ELSE /\ held' = held \ {d} /\ tags' = job[j].tags \ {Provenance(d)}
               /\ assigned' = assigned \ {d} /\ Notes(j, recorded)
    /\ Ends(j) /\ UNCHANGED rows

\* The operator passes a device through by hand
OperatorAttaches ==
    /\ \E d \in Devices \ held : held' = held \cup {d}
    /\ UNCHANGED <<rows, tags, job, started, ghost>>

Writes(j) == Record(j) \/ Clone(j) \/ Attach(j) \/ Detach(j)

Next ==
    \/ \E j \in Jobs : Look(j) \/ GivesUp(j) \/ Writes(j) \/ \E what \in Tasks : Read(j, what)
    \/ OperatorAttaches

Spec == Init /\ [][Next]_vars

-----------------------------------------------------------------------------

TypeOK ==
    /\ rows \in Rows /\ tags \subseteq Tags /\ held \subseteq Devices
    /\ job \in [Jobs -> {Idle} \cup [at : {"look", "write"}, for : Tasks, rows : Rows,
                                     tags : SUBSET Tags, held : SUBSET Devices]]
    /\ started \in 0..MaxJobs
    /\ assigned \subseteq held /\ outdated \in BOOLEAN
    /\ recorded \in [Instances -> Details \cup {NoRow, Unknown}]

(* What a job reported of an instance stands: its row says so and its tag   *)
(* is there, whatever jobs of other instances, deploys of the guest and     *)
(* device jobs have done since, unless one of them wrote over a change it   *)
(* had not read.  While none has, the application tags are those of the     *)
(* rows and no others (guest-app-record.py, MANY WRITERS, ONE FIELD).       *)
RecordsStand ==
    /\ \A i \in Instances : recorded[i] # Unknown =>
          /\ rows[i] = recorded[i]
          /\ rows[i] # NoRow => Token[i] \in tags
    /\ ~outdated => tags \cap AppTags = TagsOf(Present(rows))

(* The platform's own tags and the operator's survive every write, the ones *)
(* that rest on an outdated read included (guest-app-record.py: "nothing    *)
(* else is ever a candidate for removal").                                  *)
PlatformTagsKept == Requested \cup OperatorTags \subseteq tags

(* While no job wrote over a change it had not read, a device is removed    *)
(* only if this platform assigned it, or assigned another whose mapping has *)
(* the same slug: a mapping alone proves nothing, whoever passed the device *)
(* through (detach-usb-passthrough.yml: "removed only when BOTH are true"), *)
(* but the tag does not tell `ha-zigbee` from `ha_zigbee`.                  *)
Proven(d) == \E e \in assigned : Provenance(e) = Provenance(d)
OnlyProvenDetached == [][\A d \in held \ held' : Proven(d) \/ outdated']_vars

-----------------------------------------------------------------------------
(* The inductive strengthening: what a job has read keeps what nobody may   *)
(* drop, and a tag that proves authorship is there only for an own device   *)
(* or one with its slug.                                                    *)

ReadInv == \A j \in Jobs : job[j] # Idle => Requested \cup OperatorTags \subseteq job[j].tags

ProvenanceInv == ~outdated => \A d \in Devices : Provenance(d) \in tags => Proven(d)

RecordInv == RecordsStand /\ PlatformTagsKept /\ ReadInv /\ ProvenanceInv
=============================================================================

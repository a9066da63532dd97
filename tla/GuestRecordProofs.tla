-------------------------- MODULE GuestRecordProofs --------------------------
(* What one guest's record promises, for any applications, devices, tags    *)
(* and jobs side by side: the jobs write whole fields after a separate      *)
(* read, so each invariant also says what the reads of running jobs hold.   *)
EXTENDS GuestRecord, TLAPS

LEMMA TagFacts ==
    /\ \A i \in Instances : Token[i] \in AppTags
    /\ \A is \in SUBSET Instances : TagsOf(is) \subseteq AppTags
    /\ \A d \in Devices : Provenance(d) \in Lanes /\ Provenance(d) \notin AppTags
    /\ \A d \in Devices : Provenance(d) \notin Requested \cup OperatorTags
    /\ Requested \subseteq Lanes /\ AppTags \cap Lanes = {} /\ OperatorTags \cap Lanes = {}
    /\ AppTags \cup Lanes \cup OperatorTags = Tags /\ AppTags \cap OperatorTags = {}
<1>1. \A is \in SUBSET Instances : TagsOf(is) \subseteq AppTags
  BY DEF TagsOf, AppTags
<1>3. \A d \in Devices : Provenance(d) \in Lanes
  BY DEF Lanes
<1>4. /\ AppTags \cap Lanes = {} /\ OperatorTags \cap Lanes = {} /\ Requested \subseteq Lanes
      /\ AppTags \cup Lanes \cup OperatorTags = Tags
  BY LanesAssumption DEF Lanes, Tags
<1>5. \A i \in Instances : Token[i] \in AppTags
  BY DEF AppTags
<1> QED BY <1>1, <1>3, <1>4, <1>5, TagsAssumption, RequestAssumption

LEMMA JobFacts ==
    ASSUME TypeOK, NEW j \in Jobs, NEW tasks, Begun(j, tasks)
    PROVE  /\ job[j] # Idle /\ job[j].for \in Tasks /\ job[j].for.task \in tasks
           /\ job[j].rows \in Rows /\ job[j].tags \in SUBSET Tags
           /\ job[j].held \in SUBSET Devices
  BY DEF Begun, TypeOK, Idle

(* What a record or a withdrawal makes of the table.                        *)
LEMMA MergedRows ==
    ASSUME TypeOK, NEW j \in Jobs, Begun(j, {"record", "withdraw"}),
           NEW new, new = MergeRows(job[j].rows, job[j].for)
    PROVE  /\ job[j].for.instance \in Instances /\ new \in Rows
           /\ \A i \in Instances \ {job[j].for.instance} : new[i] = job[j].rows[i]
           /\ Present(new) \subseteq Instances /\ Present(job[j].rows) \subseteq Instances
<1>1. /\ job[j].for \in Tasks /\ job[j].for.task \in {"record", "withdraw"}
      /\ job[j].rows \in Rows
  BY JobFacts
<1>2. /\ job[j].for.instance \in Instances
      /\ job[j].for.task # "withdraw" => job[j].for.detail \in Details
  BY <1>1 DEF Tasks
<1>3. new \in Rows
  BY <1>1, <1>2 DEF MergeRows, Rows
<1>4. \A i \in Instances \ {job[j].for.instance} : new[i] = job[j].rows[i]
  BY <1>1, <1>2 DEF MergeRows, Rows
<1>5. Present(new) \subseteq Instances /\ Present(job[j].rows) \subseteq Instances
  BY DEF Present
<1> QED BY <1>2, <1>3, <1>4, <1>5

(* What it makes of the tags: those of the rows that are left are there,    *)
(* and only application tags are ever dropped.                              *)
LEMMA MergedTags ==
    ASSUME NEW ts \in SUBSET Tags, NEW old \in Rows, NEW new \in Rows,
           NEW merged, merged = MergeTags(ts, old, new)
    PROVE  /\ merged \in SUBSET Tags /\ ts \ AppTags \subseteq merged
           /\ merged \ AppTags \subseteq ts
           /\ TagsOf(Present(new)) \subseteq merged
<1>1. /\ Present(new) \in SUBSET Instances /\ Present(old) \in SUBSET Instances
  BY DEF Present
<1>2. /\ TagsOf(Present(new)) \subseteq AppTags /\ TagsOf(Present(old)) \subseteq AppTags
      /\ AppTags \subseteq Tags
  BY <1>1, TagFacts
<1>3. merged = (ts \ (TagsOf(Present(old)) \ TagsOf(Present(new)))) \cup TagsOf(Present(new))
  BY DEF MergeTags
<1> QED BY <1>2, <1>3

(* What the writes of the other jobs make of the tags.                      *)
LEMMA OtherTags ==
    ASSUME TypeOK, NEW j \in Jobs, Clone(j) \/ Attach(j) \/ Detach(j),
           tags' # tags \/ held' # held \/ rows' # rows
    PROVE  /\ job[j] # Idle /\ tags' \in SUBSET Tags
           /\ rows' \in Rows /\ (Current(j) => rows' = rows)
           /\ tags' \cap AppTags = job[j].tags \cap AppTags
           /\ Requested \cup OperatorTags \subseteq job[j].tags
                => Requested \cup OperatorTags \subseteq tags'
           /\ outdated' = (outdated \/ ~Current(j))
           /\ recorded' = (IF Current(j) THEN recorded ELSE [i \in Instances |-> Unknown])
<1>1. CASE Clone(j)
  <2>1. /\ job[j] # Idle /\ job[j].rows \in Rows /\ job[j].tags \in SUBSET Tags
    BY <1>1, JobFacts DEF Clone
  <2>2. /\ tags' = Requested \cup {t \in job[j].tags : t \notin Lanes}
        /\ rows' = (IF job[j].for.described THEN job[j].rows ELSE rows)
        /\ Notes(j, recorded)
    BY <1>1 DEF Clone
  <2>3. tags' \in SUBSET Tags /\ tags' \cap AppTags = job[j].tags \cap AppTags
    BY <2>1, <2>2, TagFacts
  <2>4. Requested \cup OperatorTags \subseteq job[j].tags
          => Requested \cup OperatorTags \subseteq tags'
    BY <2>2, TagFacts
  <2>5. rows' \in Rows /\ (Current(j) => rows' = rows)
    BY <2>1, <2>2 DEF TypeOK, Current
  <2> QED BY <2>1, <2>2, <2>3, <2>4, <2>5 DEF Notes
<1>2. CASE Attach(j) \/ Detach(j)
  <2>1. PICK d \in Devices :
          /\ job[j] # Idle /\ job[j].tags \in SUBSET Tags
          /\ tags' = job[j].tags \cup {Provenance(d)} \/ tags' = job[j].tags \ {Provenance(d)}
          /\ rows' = rows /\ Notes(j, recorded)
    <3>1. CASE Attach(j)
      <4>1. job[j] # Idle /\ job[j].tags \in SUBSET Tags /\ job[j].for.device \in Devices
        BY <3>1, JobFacts DEF Attach, Tasks
      <4> QED BY <3>1, <4>1 DEF Attach
    <3>2. CASE Detach(j)
      <4>1. job[j] # Idle /\ job[j].tags \in SUBSET Tags /\ job[j].for.device \in Devices
        BY <3>2, JobFacts DEF Detach, Tasks
      <4> QED BY <3>2, <4>1 DEF Detach
    <3> QED BY <1>2, <3>1, <3>2
  <2>2. tags' \in SUBSET Tags /\ tags' \cap AppTags = job[j].tags \cap AppTags
    BY <2>1, TagFacts
  <2>3. Requested \cup OperatorTags \subseteq job[j].tags
          => Requested \cup OperatorTags \subseteq tags'
    BY <2>1, TagFacts
  <2> QED BY <2>1, <2>2, <2>3 DEF Notes, TypeOK
<1> QED BY <1>1, <1>2

-----------------------------------------------------------------------------
(* Every variable keeps its type.                                           *)

LEMMA InitType == Init => TypeOK
<1> SUFFICES ASSUME Init PROVE TypeOK
  OBVIOUS
<1>1. rows \in Rows /\ recorded \in [Instances -> Details \cup {NoRow, Unknown}]
  BY DEF Init, Rows
<1>2. tags \subseteq Tags
  BY TagFacts DEF Init
<1>3. job \in [Jobs -> {Idle} \cup [at : {"look", "write"}, for : Tasks, rows : Rows,
                                  tags : SUBSET Tags, held : SUBSET Devices]]
  BY DEF Init
<1>4. /\ started \in 0..MaxJobs /\ held = {} /\ assigned = {} /\ outdated = FALSE
  BY BoundAssumption DEF Init
<1> QED BY <1>1, <1>2, <1>3, <1>4 DEF TypeOK

LEMMA JobType ==
    ASSUME TypeOK, NEW j \in Jobs, Ends(j)
    PROVE  /\ started' \in 0..MaxJobs
           /\ job' \in [Jobs -> {Idle} \cup [at : {"look", "write"}, for : Tasks, rows : Rows,
                                     tags : SUBSET Tags, held : SUBSET Devices]]
  BY DEF Ends, TypeOK

LEMMA StepType == TypeOK /\ [Next]_vars => TypeOK'
<1> SUFFICES ASSUME TypeOK, [Next]_vars PROVE TypeOK'
  OBVIOUS
<1>0. /\ rows \in Rows /\ tags \in SUBSET Tags /\ assigned \subseteq held
      /\ held \in SUBSET Devices /\ outdated \in BOOLEAN
      /\ recorded \in [Instances -> Details \cup {NoRow, Unknown}]
      /\ started \in 0..MaxJobs
  BY DEF TypeOK
<1>1. ASSUME NEW j \in Jobs, NEW what \in Tasks, Read(j, what) PROVE TypeOK'
  <2>1. started' \in 0..MaxJobs
    BY <1>1, <1>0, BoundAssumption DEF Read
  <2>2. [at |-> IF what.task \in {"attach", "detach"} THEN "look" ELSE "write",
         for |-> what, rows |-> rows, tags |-> tags, held |-> {}]
           \in [at : {"look", "write"}, for : Tasks, rows : Rows,
                tags : SUBSET Tags, held : SUBSET Devices]
    BY <1>0
  <2> QED BY <1>1, <2>1, <2>2 DEF Read, TypeOK, guest, ghost
<1>2. ASSUME NEW j \in Jobs, Look(j) PROVE TypeOK'
  <2>1. job[j] \in [at : {"look", "write"}, for : Tasks, rows : Rows,
                    tags : SUBSET Tags, held : SUBSET Devices]
    BY <1>2 DEF Look, TypeOK, Idle
  <2>2. [[job[j] EXCEPT !.at = "write"] EXCEPT !.held = held]
           \in [at : {"look", "write"}, for : Tasks, rows : Rows,
                tags : SUBSET Tags, held : SUBSET Devices]
    BY <2>1, <1>0
  <2> QED BY <1>2, <2>1, <2>2, <1>0 DEF Look, TypeOK, guest, ghost
<1>3. ASSUME NEW j \in Jobs, GivesUp(j) PROVE TypeOK'
  BY <1>3, JobType DEF GivesUp, TypeOK, guest, ghost
<1>4. ASSUME NEW j \in Jobs, Record(j) PROVE TypeOK'
  <2> DEFINE new   == MergeRows(job[j].rows, job[j].for)
             ntags == MergeTags(job[j].tags, job[j].rows, new)
             i     == job[j].for.instance
  <2>1. /\ job[j].rows \in Rows /\ job[j].tags \in SUBSET Tags
        /\ i \in Instances /\ new \in Rows
    BY <1>4, JobFacts, MergedRows DEF Record
  <2>2. ntags \in SUBSET Tags
    BY <2>1, MergedTags
  <2>3. new[i] \in Details \cup {NoRow, Unknown}
    BY <2>1 DEF Rows
  <2>4. /\ rows' \in Rows /\ tags' \in SUBSET Tags /\ outdated' \in BOOLEAN
        /\ recorded' \in [Instances -> Details \cup {NoRow, Unknown}]
        /\ UNCHANGED <<held, assigned>> /\ Ends(j)
    <3>1. CASE new = job[j].rows /\ ntags = job[j].tags
      BY <1>4, <3>1, <1>0, <2>3 DEF Record
    <3>2. CASE ~(new = job[j].rows /\ ntags = job[j].tags)
      BY <1>4, <3>2, <1>0, <2>1, <2>2, <2>3 DEF Record, Notes
    <3> QED BY <3>1, <3>2
  <2> QED BY <2>4, <1>0, JobType DEF TypeOK
<1>5. ASSUME NEW j \in Jobs, Clone(j) \/ Attach(j) \/ Detach(j) PROVE TypeOK'
  <2>1. Ends(j)
    BY <1>5 DEF Clone, Attach, Detach
  <2>2. rows' \in Rows /\ tags' \in SUBSET Tags
    BY <1>5, <1>0, OtherTags
  <2>3. /\ outdated' \in BOOLEAN
        /\ recorded' \in [Instances -> Details \cup {NoRow, Unknown}]
    BY <1>5, <1>0 DEF Clone, Attach, Detach, Notes, ghost
  <2>4. held' \in SUBSET Devices /\ assigned' \subseteq held'
    <3>1. CASE Clone(j)
      BY <3>1, <1>0 DEF Clone
    <3>2. CASE Attach(j)
      <4>1. job[j].for.device \in Devices
        BY <3>2, JobFacts DEF Attach, Tasks
      <4> QED BY <3>2, <4>1, <1>0 DEF Attach, ghost
    <3>3. CASE Detach(j)
      BY <3>3, <1>0 DEF Detach, ghost
    <3> QED BY <1>5, <3>1, <3>2, <3>3
  <2> QED BY <2>1, <2>2, <2>3, <2>4, JobType DEF TypeOK
<1>6. CASE OperatorAttaches
  BY <1>6, <1>0 DEF OperatorAttaches, TypeOK, ghost
<1>7. CASE UNCHANGED vars
  BY <1>7 DEF vars, guest, ghost, TypeOK
<1> QED BY <1>1, <1>2, <1>3, <1>4, <1>5, <1>6, <1>7 DEF Next, Writes

-----------------------------------------------------------------------------
(* What a job has read keeps what no job may drop.                          *)

LEMMA StepRead ==
    TypeOK /\ PlatformTagsKept /\ ReadInv /\ [Next]_vars => ReadInv' /\ PlatformTagsKept'
<1> SUFFICES ASSUME TypeOK, PlatformTagsKept, ReadInv, [Next]_vars
             PROVE  ReadInv' /\ PlatformTagsKept'
  OBVIOUS
<1> USE DEF ReadInv, PlatformTagsKept
<1>0. ASSUME NEW j \in Jobs, Ends(j) PROVE ReadInv'
  BY <1>0 DEF Ends, TypeOK
<1>1. ASSUME NEW j \in Jobs, NEW what \in Tasks, Read(j, what)
      PROVE  ReadInv' /\ PlatformTagsKept'
  BY <1>1 DEF Read, TypeOK, guest
<1>2. ASSUME NEW j \in Jobs, Look(j) PROVE ReadInv' /\ PlatformTagsKept'
  <2>1. job[j] \in [at : {"look", "write"}, for : Tasks, rows : Rows,
                    tags : SUBSET Tags, held : SUBSET Devices]
    BY <1>2 DEF Look, TypeOK, Idle
  <2>2. job[j] # Idle
    BY <1>2 DEF Look, Idle
  <2>3. /\ \A k \in Jobs \ {j} : job'[k] = job[k]
        /\ job'[j].tags = job[j].tags
    BY <1>2, <2>1 DEF Look, TypeOK
  <2> QED BY <1>2, <2>2, <2>3 DEF Look, guest
<1>3. ASSUME NEW j \in Jobs, GivesUp(j) PROVE ReadInv' /\ PlatformTagsKept'
  BY <1>3, <1>0 DEF GivesUp, guest
<1>4. ASSUME NEW j \in Jobs, Record(j) PROVE ReadInv' /\ PlatformTagsKept'
  <2> DEFINE new   == MergeRows(job[j].rows, job[j].for)
             ntags == MergeTags(job[j].tags, job[j].rows, new)
  <2>1. /\ job[j] # Idle /\ job[j].rows \in Rows /\ job[j].tags \in SUBSET Tags
        /\ new \in Rows
    BY <1>4, JobFacts, MergedRows DEF Record
  <2>2. job[j].tags \ AppTags \subseteq ntags
    BY <2>1, MergedTags
  <2>3. Requested \cup OperatorTags \subseteq ntags
    BY <2>1, <2>2, TagFacts
  <2>4. tags' \in {tags, ntags}
    BY <1>4 DEF Record
  <2> QED BY <1>4, <1>0, <2>3, <2>4 DEF Record
<1>5. ASSUME NEW j \in Jobs, Clone(j) \/ Attach(j) \/ Detach(j)
      PROVE  ReadInv' /\ PlatformTagsKept'
  <2>1. Ends(j)
    BY <1>5 DEF Clone, Attach, Detach
  <2>2. CASE tags' = tags
    BY <2>1, <2>2, <1>0
  <2>3. CASE tags' # tags
    BY <1>5, <2>1, <2>3, <1>0, OtherTags
  <2> QED BY <2>2, <2>3
<1>6. CASE OperatorAttaches \/ UNCHANGED vars
  BY <1>6 DEF OperatorAttaches, vars, guest
<1> QED BY <1>1, <1>2, <1>3, <1>4, <1>5, <1>6 DEF Next, Writes

-----------------------------------------------------------------------------
(* What a job reported stands.                                              *)

LEMMA StepRecords ==
    TypeOK /\ RecordsStand /\ [Next]_vars => RecordsStand'
<1> SUFFICES ASSUME TypeOK, RecordsStand, [Next]_vars PROVE RecordsStand'
  OBVIOUS
<1> USE DEF RecordsStand
<1>0. rows \in Rows /\ recorded \in [Instances -> Details \cup {NoRow, Unknown}]
  BY DEF TypeOK
<1>1. CASE UNCHANGED <<rows, tags, recorded, outdated>>
  BY <1>1
<1>2. ASSUME NEW j \in Jobs, Record(j) PROVE RecordsStand'
  <2> DEFINE new   == MergeRows(job[j].rows, job[j].for)
             ntags == MergeTags(job[j].tags, job[j].rows, new)
             i     == job[j].for.instance
  <2>1. /\ job[j].rows \in Rows /\ job[j].tags \in SUBSET Tags /\ i \in Instances
        /\ new \in Rows /\ \A k \in Instances \ {i} : new[k] = job[j].rows[k]
    BY <1>2, JobFacts, MergedRows DEF Record
  <2>2. \A k \in Instances : new[k] # NoRow => Token[k] \in ntags
    <3>1. TagsOf(Present(new)) \subseteq ntags
      BY <2>1, MergedTags
    <3> QED BY <3>1 DEF TagsOf, Present
  <2>3. job[j].tags \cap AppTags = TagsOf(Present(job[j].rows))
          => ntags \cap AppTags = TagsOf(Present(new))
    <3>1. Present(new) \in SUBSET Instances /\ Present(job[j].rows) \in SUBSET Instances
      BY DEF Present
    <3>2. TagsOf(Present(new)) \subseteq AppTags /\ TagsOf(Present(job[j].rows)) \subseteq AppTags
      BY <3>1, TagFacts
    <3>3. ntags = (job[j].tags \ (TagsOf(Present(job[j].rows)) \ TagsOf(Present(new))))
                    \cup TagsOf(Present(new))
      BY DEF MergeTags
    <3> HIDE DEF new, ntags
    <3> QED BY <3>2, <3>3
  <2>4. CASE new = job[j].rows /\ ntags = job[j].tags
    <3>1. /\ UNCHANGED <<rows, tags, outdated>>
          /\ recorded' = [recorded EXCEPT ![i] = IF Current(j) THEN new[i] ELSE Unknown]
      BY <1>2, <2>4 DEF Record
    <3>2. ASSUME Current(j) PROVE RecordsStand'
      BY <3>1, <3>2, <2>1, <2>2, <2>4, <1>0 DEF Current
    <3>3. ASSUME ~Current(j) PROVE RecordsStand'
      BY <3>1, <3>3, <2>1, <1>0
    <3> QED BY <3>2, <3>3
  <2>5. CASE ~(new = job[j].rows /\ ntags = job[j].tags)
    <3>1. /\ rows' = new /\ tags' = ntags /\ outdated' = (outdated \/ ~Current(j))
          /\ recorded' = (IF Current(j) THEN [recorded EXCEPT ![i] = new[i]]
                           ELSE [k \in Instances |-> Unknown])
      BY <1>2, <2>5 DEF Record, Notes
    <3>2. ASSUME Current(j) PROVE RecordsStand'
      BY <3>1, <3>2, <2>1, <2>2, <2>3, <1>0 DEF Current
    <3>3. ASSUME ~Current(j) PROVE RecordsStand'
      BY <3>1, <3>3
    <3> QED BY <3>2, <3>3
  <2> QED BY <2>4, <2>5
<1>3. ASSUME NEW j \in Jobs, Clone(j) \/ Attach(j) \/ Detach(j) PROVE RecordsStand'
  <2>1. CASE tags' # tags \/ held' # held \/ rows' # rows
    <3>1. /\ Current(j) => rows' = rows
          /\ tags' \cap AppTags = job[j].tags \cap AppTags
          /\ outdated' = (outdated \/ ~Current(j))
          /\ recorded' = (IF Current(j) THEN recorded ELSE [i \in Instances |-> Unknown])
      BY <1>3, <2>1, OtherTags
    <3>2. ASSUME Current(j) PROVE RecordsStand'
      <4>1. rows' = rows /\ tags' \cap AppTags = tags \cap AppTags /\ recorded' = recorded
        BY <3>1, <3>2 DEF Current
      <4> QED BY <3>1, <3>2, <4>1, TagFacts
    <3>3. ASSUME ~Current(j) PROVE RecordsStand'
      BY <3>1, <3>3
    <3> QED BY <3>2, <3>3
  <2>2. CASE UNCHANGED <<rows, tags, held>>
    <3>1. recorded' = recorded \/ recorded' = [i \in Instances |-> Unknown]
      BY <1>3 DEF Clone, Attach, Detach, Notes, ghost
    <3>2. ~outdated' => ~outdated
      BY <1>3 DEF Clone, Attach, Detach, Notes, ghost
    <3> QED BY <2>2, <3>1, <3>2
  <2> QED BY <2>1, <2>2
<1>4. ASSUME NEW j \in Jobs,
             Look(j) \/ GivesUp(j) \/ \E what \in Tasks : Read(j, what)
      PROVE  RecordsStand'
  BY <1>4, <1>1 DEF Look, GivesUp, Read, guest, ghost
<1>5. CASE OperatorAttaches \/ UNCHANGED vars
  BY <1>5, <1>1 DEF OperatorAttaches, vars, guest, ghost
<1> QED BY <1>2, <1>3, <1>4, <1>5 DEF Next, Writes

-----------------------------------------------------------------------------
(* A tag proves authorship.                                                 *)

LEMMA StepProvenance ==
    TypeOK /\ ProvenanceInv /\ [Next]_vars => ProvenanceInv'
<1> SUFFICES ASSUME TypeOK, ProvenanceInv, [Next]_vars PROVE ProvenanceInv'
  OBVIOUS
<1> USE DEF ProvenanceInv, Proven
<1>1. CASE UNCHANGED <<tags, assigned, outdated>>
  BY <1>1
<1>2. ASSUME NEW j \in Jobs, Record(j) PROVE ProvenanceInv'
  <2> DEFINE new   == MergeRows(job[j].rows, job[j].for)
             ntags == MergeTags(job[j].tags, job[j].rows, new)
  <2>1. job[j].rows \in Rows /\ job[j].tags \in SUBSET Tags /\ new \in Rows
    BY <1>2, JobFacts, MergedRows DEF Record
  <2>2. \A d \in Devices : Provenance(d) \in ntags => Provenance(d) \in job[j].tags
    <3>1. ntags \ AppTags \subseteq job[j].tags
      BY <2>1, MergedTags
    <3> QED BY <3>1, TagFacts
  <2>3. assigned' = assigned
    BY <1>2 DEF Record
  <2>4. \/ tags' = tags /\ outdated' = outdated
        \/ tags' = ntags /\ outdated' = (outdated \/ ~Current(j))
    BY <1>2 DEF Record, Notes
  <2> QED BY <2>2, <2>3, <2>4 DEF Current
<1>3. ASSUME NEW j \in Jobs, Clone(j) PROVE ProvenanceInv'
  <2>1. \A d \in Devices : Provenance(d) \notin tags'
    BY <1>3, TagFacts DEF Clone
  <2> QED BY <2>1
<1>4. ASSUME NEW j \in Jobs, Attach(j) \/ Detach(j) PROVE ProvenanceInv'
  <2>1. job[j].for.device \in Devices
    BY <1>4, JobFacts DEF Attach, Detach, Tasks
  <2>2. CASE UNCHANGED <<tags, assigned, outdated>>
    BY <2>2
  <2>3. CASE ~UNCHANGED <<tags, assigned, outdated>>
    <3> DEFINE e == job[j].for.device
    <3>1. /\ outdated' = (outdated \/ ~Current(j))
          /\ \/ tags' = job[j].tags \cup {Provenance(e)} /\ assigned' = assigned \cup {e}
             \/ tags' = job[j].tags \ {Provenance(e)} /\ assigned' = assigned \ {e}
      BY <1>4, <2>3 DEF Attach, Detach, Notes, ghost
    <3>2. ASSUME NEW d \in Devices, Current(j), ~outdated, Provenance(d) \in tags'
          PROVE  Proven(d)'
      <4>1. CASE tags' = job[j].tags \cup {Provenance(e)} /\ assigned' = assigned \cup {e}
        BY <4>1, <3>2, <2>1 DEF Current
      <4>2. CASE tags' = job[j].tags \ {Provenance(e)} /\ assigned' = assigned \ {e}
        <5>1. Provenance(d) # Provenance(e) /\ Proven(d)
          BY <4>2, <3>2 DEF Current
        <5> QED BY <4>2, <5>1
      <4> QED BY <3>1, <4>1, <4>2
    <3> QED BY <3>1, <3>2
  <2> QED BY <2>2, <2>3
<1>5. ASSUME NEW j \in Jobs,
             Look(j) \/ GivesUp(j) \/ \E what \in Tasks : Read(j, what)
      PROVE  ProvenanceInv'
  BY <1>5, <1>1 DEF Look, GivesUp, Read, guest, ghost
<1>6. CASE OperatorAttaches \/ UNCHANGED vars
  BY <1>6, <1>1 DEF OperatorAttaches, vars, guest, ghost
<1> QED BY <1>2, <1>3, <1>4, <1>5, <1>6 DEF Next, Writes

-----------------------------------------------------------------------------
(* The theorems.                                                            *)

LEMMA InitRecord == Init => RecordInv
<1> SUFFICES ASSUME Init PROVE RecordInv
  OBVIOUS
<1>1. tags = Requested \cup OperatorTags /\ Present(rows) = {}
  BY DEF Init, Present
<1>2. TagsOf(Present(rows)) = {} /\ tags \cap AppTags = {}
  BY <1>1, TagFacts DEF TagsOf
<1>3. RecordsStand
  BY <1>2 DEF Init, RecordsStand
<1>4. ProvenanceInv
  BY <1>1, TagFacts DEF ProvenanceInv
<1> QED BY <1>1, <1>3, <1>4 DEF Init, RecordInv, PlatformTagsKept, ReadInv

LEMMA Inductive == Spec => [](TypeOK /\ RecordInv)
<1>1. Init => TypeOK /\ RecordInv
  BY InitType, InitRecord
<1>2. TypeOK /\ RecordInv /\ [Next]_vars => (TypeOK /\ RecordInv)'
  BY StepType, StepRead, StepRecords, StepProvenance DEF RecordInv
<1> QED BY <1>1, <1>2, PTL DEF Spec

(* Every variable keeps its type: in particular the platform's devices are  *)
(* devices of the guest.                                                    *)
THEOREM Typed == Spec => []TypeOK
  BY Inductive, PTL

(* What a job reported of an instance stands until a write that rests on an *)
(* outdated read, whichever jobs of other instances, deploys and device     *)
(* jobs run beside and after it.                                            *)
THEOREM RecordsDoStand == Spec => []RecordsStand
<1>1. RecordInv => RecordsStand
  BY DEF RecordInv
<1> QED BY <1>1, Inductive, PTL

(* No write drops a tag that the platform requests or the operator applied, *)
(* the ones that rest on an outdated read included.                         *)
THEOREM PlatformTagsAreKept == Spec => []PlatformTagsKept
<1>1. RecordInv => PlatformTagsKept
  BY DEF RecordInv
<1> QED BY <1>1, Inductive, PTL

(* While no job wrote over a change it had not read, a device is removed    *)
(* only on the strength of an assignment by this platform: its own, or that *)
(* of a device whose mapping has the same slug (detach-usb-passthrough.yml).*)
THEOREM DetachedAreProven == Spec => OnlyProvenDetached
<1>1. TypeOK /\ RecordInv /\ [Next]_vars => [\A d \in held \ held' : Proven(d) \/ outdated']_vars
  <2> SUFFICES ASSUME TypeOK, RecordInv, [Next]_vars, ~outdated'
               PROVE  \A d \in held \ held' : Proven(d)
    OBVIOUS
  <2>1. ASSUME NEW j \in Jobs, Detach(j) PROVE \A d \in held \ held' : Proven(d)
    <3>1. CASE held' = held
      BY <3>1
    <3>2. CASE held' # held
      <4> DEFINE d == job[j].for.device
      <4>1. d \in Devices
        BY <2>1, JobFacts DEF Detach, Tasks
      <4>2. held' = held \ {d} /\ Owned(j, d) /\ outdated' = (outdated \/ ~Current(j))
        BY <2>1, <3>2 DEF Detach, Notes
      <4>3. Provenance(d) \in tags /\ ~outdated
        BY <4>2 DEF Owned, Current
      <4>4. Proven(d)
        BY <4>1, <4>3 DEF RecordInv, ProvenanceInv
      <4> QED BY <4>2, <4>4
    <3> QED BY <3>1, <3>2
  <2>2. CASE held \subseteq held'
    BY <2>2
  <2>3. ASSUME NEW j \in Jobs, Record(j) \/ Clone(j) \/ Attach(j) PROVE held \subseteq held'
    BY <2>3 DEF Record, Clone, Attach
  <2>4. ASSUME NEW j \in Jobs,
               Look(j) \/ GivesUp(j) \/ \E what \in Tasks : Read(j, what)
        PROVE  held \subseteq held'
    BY <2>4 DEF Look, GivesUp, Read, guest
  <2>5. CASE OperatorAttaches \/ UNCHANGED vars
    BY <2>5 DEF OperatorAttaches, vars, guest
  <2> QED BY <2>1, <2>2, <2>3, <2>4, <2>5 DEF Next, Writes
<1> QED BY <1>1, Inductive, PTL DEF Spec, OnlyProvenDetached

(* So where no two mappings have one slug, a device that an operator passed *)
(* through by hand is never removed: what the comment of the code means by  *)
(* "the tag attach-usb-passthrough.yml wrote for that same mapping".        *)
SlugsDiffer     == \A d, e \in Devices : Slug[d] = Slug[e] => d = e
OnlyOwnDetached == [][held \ held' \subseteq assigned \/ outdated']_vars

THEOREM OperatorsDevicesStay == ASSUME SlugsDiffer PROVE Spec => OnlyOwnDetached
<1>1. ASSUME TypeOK PROVE \A d \in Devices : Proven(d) => d \in assigned
  BY <1>1 DEF TypeOK, Proven, Provenance, SlugsDiffer
<1>2. TypeOK /\ [\A d \in held \ held' : Proven(d) \/ outdated']_vars
        => [held \ held' \subseteq assigned \/ outdated']_vars
  BY <1>1 DEF TypeOK
<1> QED BY <1>2, Typed, DetachedAreProven, PTL DEF OnlyProvenDetached, OnlyOwnDetached
=============================================================================

# Verification of homelab-infra

TLA+ models of homelab-infra, the configurations TLC checks them with, and proofs TLAPS checks.
Paths below are relative to the repository's root; `ansible/` holds nearly all of the program.

Contents: [the system](#the-system) · [modules](#modules) · [runs](#runs) · [bounds](#bounds) ·
[fairness](#fairness) · [refinement](#refinement) · [proofs](#proofs) · [findings](#findings) · [limits](#limits) · [plan](#plan)

## The system

homelab-infra deploys, backs up, restores, maintains and removes applications on a Proxmox VE
cluster. Rundeck jobs run Ansible playbooks from one controller guest; the playbooks call tasks,
roles and small programs (Python and shell) on the controller, the Proxmox nodes and the guests.
There is no database of record: the state is Proxmox's guests with their names, tags and notes,
PBS's recovery points, a few JSON files, and configuration the operator wrote. Each job has
`multipleExecutions: false`, so one job does not overlap itself, but different jobs (Deploy of two
applications, Remove, Restore, Backup, Maintenance) do; none of them takes a common lock. A job may
be killed at any point and is then simply started again. That shapes every hazard in
`PROJECT.json`: decisions from an inventory that has gone stale, steps done but not recorded, and
failures in the middle of a multi-step change of state that nobody wraps in a transaction.

| Component | State it keeps | Operations | Talks to | What makes it correct |
|---|---|---|---|---|
| Restore swap (`tasks/recovery/restore-swap.yml`, `scripts/restore-swap.sh`) | live paths, rollback copies, staging with a rollback dump, whether services run | check, extract, stop, dump, aside, install, load, start, verify, rollback, cleanup | application hooks, database client, PBS client | the original is never lost; a reported rollback is one; what services start on is accounted for |
| Database server recovery (`tasks/database/scripts/server-recovery.py`) | data directory, rollback directory, service | backup, verify, restore (rebuild for MariaDB, reload for MySQL) | systemd, the server, PBS client | MariaDB's data is never lost; what the program tells is so |
| Decommission (`files/decommission/lab.py`) | plan, journal, creation record, key file; the cluster's guests, storage, tokens, users | plan, execute, withdraw, record | Proxmox API tasks, configure-pbs | deletes only what the plan describes, in order; resumes after an interruption; never deletes what came back |
| Guest allocation (`tasks/stack/find-or-create-host.yml`, `tasks/proxmox/*`, `files/proxmox/find-free-vmid.py`) | guests with VMID, name, tags, address; the chained configuration | find, choose address and VMID, create container, clone and configure VM, reuse | address allocator, Proxmox, Remove | each deploy installs on its own guest; addresses differ; a re-run finishes |
| Address allocator (`scripts/allocate-ip.py`, `tasks/network/generate-ip.yml`) | none | decide | guest allocation | lowest eligible address, refusal only when none, VMID fresh |
| PBS backup client (`tasks/backup/scripts/pbs-client.sh`) | recovery points of a group | backup, verify, prune, list, restore | PBS | the previous point survives a backup |
| Guest restore (`tasks/recovery/restore-guest-*.yml`) | the target guest, its tasks | inspect, stop, restore, reconfigure, restart | Proxmox, PBS | the source is untouched; a half-restored guest stays stopped |
| Guest record (`files/proxmox/guest-app-record.py`, `tasks/proxmox/vm-clone.yml`, `attach-` and `detach-usb-passthrough.yml`) | tags, notes and devices of a guest | record, withdraw, deploy again, attach, detach: each a read and a later write | Deploy, Remove, device jobs | what a job reported stands; platform and operator tags stay; a device is not removed without proof of an assignment |
| Maintenance schedule (`scripts/maintenance-schedule.py`, `playbooks/maintenance/guest-maintenance.yml`) | declared layers; per guest a systemd timer and Watchtower's cron | resolve layers, intersect windows, write timer and cron, restart and reboot | Deploy, Remove, the guest's own services | a guest is disrupted only inside every window of its applications; a pending reboot comes |
| Cluster reboot and lab descent (`tasks/maintenance/cluster-reboot.yml`, `arm-node-descent.yml`) | cordons, one-shot timers | cordon, drain, reboot, uncordon; stagger the nodes | Kubernetes, nodes | the k3s nodes come back schedulable |
| Lab run and vault mode (`scripts/lab-run.sh`, `vault-runtime.py`) | mode, the shared checkout, temporary secrets | refresh, unlock, run, cut over | Vaultwarden, every job | one mode at a time; secrets are removed after a run |
| Kubernetes recovery (`scripts/kubernetes-recovery-scale.py`, `templates/kubernetes/recovery-backup.yaml.j2` and `recovery-restore.yaml.j2`, `tasks/kubernetes/recovery-restore.yml`) | recovery-state annotation, replicas, recovery points | quiesce, dump, upload, resume; stop, replace, verify, start | Kubernetes, PBS | an incomplete restore is never backed up nor served; an interrupted backup's quiesce is undone |
| Service registry (`scripts/registry-forget.py`, `app-instances.py`) | registry file | merge, forget, read | wiring | forgetting one keeps the others |
| Firewall planner (`scripts/proxmox-firewall-plan.py`) | none | plan | Proxmox | equals its rules' definition |
| Vaultwarden enrolment, recovery audit, wiring, application roles, Rundeck jobs, doctor | see `PROJECT.json` | | | |

How they interact. *Deploy* = address allocator → guest allocation → application role → wiring →
guest record. *Restore* = validation of the destination → recent pre-restore point (PBS client) →
restore swap or database server recovery. *Remove* withdraws wiring, then the tag or the guest.
*Decommission* runs on a node and undoes everything Deploy and Bootstrap created.

## Modules

| Module | Models |
|---|---|
| `RestoreContract` | what every restore promises, whatever it restores (the abstract specification) |
| `RestoreSwap`, `RestoreSwapProofs` | restore-swap.yml task by task with its rescue and always sections, restore-swap.sh's commands; it implements `RestoreContract` |
| `ServerRecovery`, `ServerRecoveryProofs` | server-recovery.py's backup and restore as the mariadb and mysql roles run them; it implements `RestoreContract` |
| `KubernetesRecovery`, `KubernetesRecoveryProofs` | the backup Jobs and the restore of an application on Kubernetes, with the annotation they share |
| `Decommission`, `DecommissionProofs` | lab.py: execute, withdraw, record, beside operators and node tasks |
| `GuestAllocation`, `GuestAllocationProofs` | finding or creating the guest of each deploy, by overlapping runs |
| `AddressAllocator`, `AddressAllocatorProofs` | `decide()` and what generate-ip.yml gives it |
| `GuestRecord`, `GuestRecordProofs` | the tags, notes and devices of one guest that many jobs read, compute and write back |
| `MaintenanceSchedule`, `MaintenanceScheduleProofs` | the schedule resolver, Guest Maintenance on one guest, and the timer, script and Watchtower that act on their own |
| `MC*` | the small instances |

Definitions named `Mutant…` are not part of a model: each is the mutated form of the definition
that follows it, as a plausible bug of the code would have it, and breaks the property
`PROJECT.json` names with it.

**RestoreSwap.** `pc` is the task the controller is about to run; loops over live paths take one
item at a time (`todo`, `failed`), because an Ansible loop goes on with the next item after one failed.
`fact` holds the play's facts (`_swap_stopped`, `_swap_replaced`, `_swap_rolled_back`, …).
`live[p]` and `prev[p]` are a path and its `.restore-previous`; contents are items
`<<version, entry>>`, version 0 being what the application had and r what run r restores. Each command of the
script is an operator with a failing twin (`Aside`/`AsideFails`, …) that leaves any
intermediate result of its moves. `Crash` ends a run between two tasks with neither rescue nor
always; then a later run, or the operator following the check's message, meets what is left.

**ServerRecovery.** `pc` is the program's next step; every step has a failing branch that leaves
its change anywhere in between, and leads where the code's `except` clause does. `data` is the data directory, `retained[r]` the directory run r moved aside. Contents are items
`<<version, schema>>`; `Loaded` replaces the schemas a dump holds and leaves the others, which is why `reload()` drops
application schemas first. `Check` stands for read_bundle, the version families and the
service check: it may always refuse and changes nothing. `Kill` may follow any step, and covers an exception neither `except` catches.
`before` and `owned` are history: what the run found when it stopped the service, and what the applications own.

**RestoreContract.** An application's owned state has several parts. A run may displace parts, but a
part that is not at home is kept somewhere; it ends by accepting the restored state as a whole, by
saying that nothing is changed (every part it found at home is at home), or with neither said.
`RestoreSwap` and `ServerRecovery` define `Parts`, `home`, `kept`, `found` and `told` over their own
variables and instantiate the contract with them (`KeepsContract`): the parts of a swap are its paths
and, if it has one, the database, kept in the rollback copies and the dump of this run's staging; a
database server is one part, kept in the rollback directories. A MySQL server keeps nothing
(`keeps` is FALSE), which is what the program says of it.

**KubernetesRecovery.** Each call to the API is a step. `mark` is the annotation that
kubernetes-recovery-scale.py and the restore's tasks read and write; `pod[j]` is a backup Job's pod with
its containers and their traps, `play` the Ansible play of a restore and `job` its own Job, which
outlives the play. Calls fail, pods are killed or told to stop, and the play may die after any step.
With `Races` FALSE a restore begins only while no backup is under way, and no backup begins while the play
puts its marks on; the code ensures neither (see [findings](#findings)).

**GuestRecord.** A job is a `Read` and later a write computed from it: `Record`/`Withdraw`
(guest-app-record.py's table and tag), the rewrite of a deploy that clones or configures again, and
attaching or detaching a device with its provenance tag. `Slug` is what the tag keeps of a mapping's name
(lower case, `-` for every run of other characters), so two mappings may share one tag. `assigned`, `recorded` and `outdated` are
history: which devices this platform assigned, what each job reported last, and whether a write
rested on an outdated read. `LanesAssumption` says that no application's tag is one of the platform's
own, which is what `reserved_name()` refuses; devices are those of guests that are k3s nodes or stack VMs.

**MaintenanceSchedule.** Time is the minute of the week. `declared` is the configuration's layers,
`carries` the applications on the guest. `ResolveChain`, `MinutesOf`, `Combine`, `RunStarts`,
`OnCalendarOf` and `CronOf` are the functions of maintenance-schedule.py; `Survey` to `ForceReboot` are
the plays of guest-maintenance.yml, which may fail, or leave an unreachable guest as it was, between any two.
`Tick`, `Serve` and `Poll` are systemd, the script lab-maintenance-reboot and Watchtower. `exact` is history:
which of timer and cron were written from the configuration that is in force.

**Decommission.** One action per call of lab.py to the node, so operators (`Change`, `Surround`),
the creation seam (`SeamRegisters`, `SeamReads`, `SeamWrites`) and node tasks (`TaskEnds`) may come
between a read and the deletion it led to. `todo` is the rest of the plan, `journal` the completed
steps on disk, `file` the creation record. `StartExecute` is also every retry. The loops of
execute() and the guests' sort key become `Rank`/`First`. Any refused check sends the executor to
"idle" (the Python exception ends the program), as does `Interrupt`. `meddled` and `returned` are
history: whether others acted since the step's last read, and what they brought back.

**GuestAllocation.** A run (one Rundeck execution) carries out a chain of deploys. `guests` is
Proxmox, `conf` the configuration that survives between chained plays. Everything from the
inventory refresh to the VMID is one step (`Reuse`, `Allocate`, `RefuseSelection`), since the code computes it from one
inventory; what follows are the calls on Proxmox, between which other runs and operators act:
`CreateLxc` for a container, `CheckTarget`, `Clone`, `Recheck`, `Configure` for a VM, then `Install`.
An address is a number and the VMID derived from it is the same number (`AddressAllocator` has the derivation).

**AddressAllocator.** `decide()` as a small state machine: span, pin, walk, answer. Addresses are
32-bit values as numbers; the VMID derivation and its inverse are modelled digit for digit, since
`VmidIsFresh` is about them.

## Runs

| Run | States | Checks |
|---|---|---|
| `restore_swap` | 174,230 | `OriginalKept`, `RollbackIsComplete`, `KeepsContract`, `StartsOnAccountedState`, `FailedRunSettles` |
| `server_recovery` | 151,989 | `OriginalKept`, `RetainedIsReported`, `KeepsContract`, `ReportIsTrue` |
| `kubernetes_recovery` | 719,008 | `PointsAreWhole`, `NeverServesPartial`, `QuiesceEnds` |
| `decommission` | 599,684 | `TeardownOrder`, `CompletedIsLeftAlone`, `NoOverlappingTasks`, `StampsKept`, `NeverTouchesForeign`, `DoneMeansGone`, `RetriesFinish` |
| `guest_allocation` | 114,884 | `OnOwnGuest`, `AddressesDiffer`, `OneGuestPerInstance`, `VmidAsMeant`, `RerunsFinish` |
| `guest_record` | 2,756,055 | `RecordsStand`, `PlatformTagsKept`, `OnlyProvenDetached` |
| `maintenance_schedule` | 707,916 | `TimerMarksOpenings`, `DisruptsInsideEveryWindow`, `PendingRebootEnds` |
| `address_allocator` | 28,499 | `DecidesAsAsked`, `VmidIsFresh` for 9,984 requests |
| `restore_swap_interrupted`, `decommission_resume`, `allocation_estates`, `kubernetes_recovery_manual` | — | each a violation: see [findings](#findings) |

Each passing run also checks its module's `TypeOK`.

Every property's comment says what it means and which code it is about. In short: the restore
models say that at every moment, whatever failed or died, the state an application owns is whole
somewhere known, and that a run's last word is true but for what the properties' comments excuse (mounts that a rollback divided or could not see;
a database that an earlier run left). The backups of Kubernetes say that a recovery point is of one moment
and that what was stopped for it runs again. Decommission's properties are about reads
that go stale before a deletion, and about retries. Guest allocation's are about whose guest a
deploy ends up on, the guest record's about jobs that write back what others have changed since, and
maintenance's about when a guest may be disrupted. The runs that allow deadlock
(`CHECK_DEADLOCK FALSE`) are of systems that do stop: restores are finite in number, a
decommission is done, runs and jobs finish, a request is answered.

## Bounds

- *RestoreSwap*: `MaxRuns` 2, one directory and one mount of two entries, a database. A second run
  is the shortest way to meet what an earlier one left. Two entries suffice to divide a mount's
  move; a directory and a mount are the two ways the script treats a path. Two paths are enough for a
  loop to succeed on one and fail on the other.
- *ServerRecovery*: `MaxRuns` 2, `MaxWrites` 1, `MaxPoints` 3. Two versions whose only common schema is
  the grants' let a load that forgets to drop leave a foreign schema; three points allow a
  bad point to be taken of a half-restored server and then be selected. Both engines, existing and new target.
- *KubernetesRecovery*: two Deployments, so that a loop over them can stop in between; two parts, so that a point can be
  torn; one write; `MaxTroubles` 2, a failure and the failure of what makes it good. The application has a database or not.
  The violation needs the second Job, two writes and no trouble.
- *Decommission*: one guest of each class (plain, template, runner), all seven kinds of object. `TwoWays` are the
  bounds of a behaviour: one interruption, two faulty node tasks and one intervention, or
  two interventions, so that something can be removed and brought back, or changed and
  changed back, within a step. Retries are unbounded. More of each multiplied the states without a new result.
- *GuestAllocation*: two labs in one run. In one, the runs follow one another: chains of three and four deploys with every kind of guest,
  pools that run out, an operator's VMID, a retained volume, one killed run. In the other, two runs of containers and a cluster node overlap, with two killed runs. Five hosts, six
  VMIDs, one act of an operator.
- *GuestRecord*: three applications, of which two have names with one tag, three devices, of which two have mappings
  with one slug, two jobs side by side and five in all: attach, a lost update between two others, and what the next
  job makes of it. The jobs, the applications with one tag and the devices with one slug are symmetric: no definition
  tells them apart, and every property of the run is one of states or of steps.
- *MaintenanceSchedule*: a week of two days of three minutes is the smallest in which a window can pass midnight, pass the
  week's end, and touch another without meeting it. Three levels of layers, one or two applications; the windows in
  `Declared` meet in pieces, meet never, or fill the week. One change of the configuration, at any moment, is
  enough for an answer to be outdated when it is written. The proofs cover every other week.
- *AddressAllocator*: a /22 whose walk crosses an octet and a /29 whose end is reached, with every
  combination of the small sets in `MCAddressAllocator`.

## Fairness

- *RestoreSwap*: WF on `RunStep`. Ansible runs the next task as long as it lives; `Crash` stays possible and is
  not fair. `FailedRunSettles` also holds through crashes, since they lead to "idle".
- *KubernetesRecovery*: WF on `Reconcile` (the controllers start and stop pods), on the restore Job's and the play's own steps
  and on each backup pod's, which includes that the schedule makes the next attempt. Failures and kills are bounded and not fair.
- *Decommission*: WF on `Execution` (the operator retries the plan; a running executor goes on)
  and on `TaskEnds` (Proxmox ends its tasks). Interruptions and interventions need not happen.
- *GuestAllocation*: per run, WF on `Start(r) \/ Work(r)`: the operator starts a failed job again, as
  bootstrap.yml tells them, and a started one goes on.
- *MaintenanceSchedule*: WF on `Tick`, `Serve` and `Poll`: time passes, and systemd and Watchtower run what they started.
  Nothing is assumed of the job, nor that a guest which was stopped is started again: `PendingRebootEnds` holds of a guest that is
  off too, because a boot is what its reboot waits for.
- *ServerRecovery*, *GuestRecord* and *AddressAllocator* have no liveness property. The subprocesses of
  server-recovery.py have no timeout, so a hanging server hangs the program, and nothing promises
  otherwise; a record job is one read and one write; the allocator is a loop over a finite span.

## Refinement

`RestoreContract` is checked as a PROPERTY of `restore_swap` and `server_recovery`, and proved for both
(`SwapKeepsContract`, `ServerKeepsContract`). It is worth stating because the two programs share no
code and promise the operator the same: two ways of displacing state, one by moving directories and one by dropping schemas,
and two error paths that must not say "the original is back" when it is not. What the mapping forgets
is where a copy is and which step is next. What it keeps is what an operator acts on.
A change to either program that loses a copy for one step, accepts some parts before the others, or reports too
early is a step the contract does not have. The mapped `told` is "accepted" from the step that makes the
restored state the owned one; a run that dies before it has reported that is the contract's `Forget`.

## Proofs

TLAPS (SMT, Zenon, LS4) proves the following for every value of the constants, from the modules'
named assumptions and, where a paragraph names one, a hypothesis on the constants.

*RestoreSwapProofs*: `Typed`, `OriginalIsKept`, `ReportedRollbackIsComplete`, `StartsAreAccounted`. `OriginalKept` is not
inductive: after `aside` the copy must be the original, after `install` it must still be there, and
at "cleanup" it may go because what is live is what the application owns. `PathInv` says so phase
by phase (`CopyIsOriginal`, `AsideSoFar`, `InstalledSoFar`, `AcceptedIsLive`). A completed rollback
needs `RollbackInv` (what a loop that has not failed has put back so far) and `DatabaseInv` (until the load
starts the database is as it was; afterwards the dump in this run's staging holds it). `DumpInv` adds that the owned
database stays reachable, and `SaidInv` what the facts imply. What services start on
(`StartsAreAccounted`) also needs `RestoredInv` (what a loop has emptied and installed so far); that the database a rollback puts
back is the owned one, or that an earlier run's dump is, is `DumpInv`. Their conjunction is `SwapInv`.
`SwapKeepsContract` proves from it that every step of the swap is a step of the contract or a stutter.

*ServerRecoveryProofs*: `Typed`, `OriginalIsKept`, `RetainedAreReported`, `ReportsAreTrue`. The
inductive invariant is `ServerInv`: `ControlInv` (which engine takes which steps, on points that
exist, with the service up or down), `CopyInv` (while the data directory is being replaced, some
rollback directory is the owned data and this run's holds what it found; at "discard" the data
directory is owned), `ContentInv` (what each phase has put in the data directory; every running
server and every point has grants, without which a point loaded over an emptied server would keep
the server's grants). `ReportsAreTrue` is an action property, proved from the invariant step by step.
`ServerKeepsContract` proves the refinement from it.

*GuestRecordProofs*: `Typed`, `RecordsDoStand`, `PlatformTagsAreKept`, `DetachedAreProven`, `OperatorsDevicesStay`. A write takes what was
read earlier, so the invariant `RecordInv` speaks of the reads too: whatever a job has read holds
the platform's and the operator's tags (`ReadInv`), and as long as no write rested on an outdated read a provenance
tag is there only while a device with its slug is assigned by this platform (`ProvenanceInv`). That no job removes an operator's device
(`OperatorsDevicesStay`) follows where no two mappings have one slug (`SlugsDiffer`); without that it is false, see [findings](#findings).

*MaintenanceScheduleProofs*: `Typed`, `OpeningsAreMarked`, `DisruptionsAreInside`, for every length of day and week, any chains of
layers and anything they may declare. Half of it is arithmetic: that the minutes the resolver counts off, `% Week`, are
those a declaration covers (`CountedIsCovered`); that the runs it joins around the week's end begin where the window is entered, and that
a window that is neither empty nor the week has one (`RunsBegin`, from a greatest minute outside it); that the days and
clock times of the lines and of the cron name no other minute (`TimerElapses`, `CronPolls`). The invariant
`ScheduleInv` then says that what was written is the answer to the configuration it was read from, and that
a delay or a poll under way began at a minute the timer or the cron names (`WrittenInv`, `RunningInv`).

*DecommissionProofs*: `TypeCorrect`, `DeletedInOrder`, `CompletedStays`, `OneTaskAtATime`, `StampedStays`,
`OnlyAsPlanned`, `DoneIsGone`: every safety property the run checks, for any guests and any number of interruptions,
faulty tasks and interventions. The invariant `IInv` says what each call is about (`Place`); that beside a task of an
earlier run no step is under way but the one that asked for it (`OneTask`); that what a run has passed is gone or was brought
back, and its guests left no volume (`Passed`); that what the executor read last still holds unless others
acted since (`Current`), so a step of what was completed saw it gone (`Completed`); and that a stamp the
executor remembers is on disk, one on disk is in what record() is about to write, and a stamped storage is registered (`Stamps`).

*AddressAllocatorProofs*: `Typed`, `FirstEligibleIsGiven`, `RefusalMeansNone`, `DecisionIsAsAsked`, and `VmidsAreFresh`
for networks whose addresses share their first two octets, the assumption generate-ip.yml makes
when it decodes VMIDs. The invariant says that everything the walk has passed is taken; the last theorem rests on
a lemma that decoding inverts the derivation.

*KubernetesRecoveryProofs*: `Typed`, `WholePointsServeWhole`, `OneJobsPointsAreWhole`, `PartialIsNeverServed`, for any
Deployments and parts and any number of failures and kills. `RestoreInv` is about the restore: what its Job has filled so far is the
point it was given (`JobInv`); while the target is not whole, or may soon not be, the marks are on every Deployment and nothing runs
without the operator's word, although the play, its rescue, the orphaned Job and a backup's trap all write replicas (`HeldInv`); the
play starts only what is whole (`TargetInv`); until it is through, its marks keep every backup out (`MarkInv`, `BackupInv`, which have
to follow the loops over Deployments one by one, since the check and the marking interleave). `UploadInv` adds what a
backup in the middle of its upload has archived. Two hypotheses, without either of which TLC refutes the conclusion: `~Races` (a restore does not begin under a running backup;
without it the mark of kubernetes-recovery-scale.py:156 is lost, see below), and, for the points, `OneJob`
(with two Jobs the finding `kubernetes_recovery_manual` refutes `PointsAreWhole`). `WholePointsServeWhole` needs no `OneJob`: with several Jobs, a
partial state can be served only out of a torn point.

*GuestAllocationProofs*: `Typed` and the four safety properties of the run, for any labs, chains of deploys, overlaps, kills and interventions.
`BaseInv` says that a run holds what it has decided on. The rest is one invariant per property, with the weakest condition we found:

| Theorem | Condition | Why it is there |
|---|---|---|
| `OwnGuests` | `[]MeetsOwn`: a run finds no other's VM at the VMID it is about to clone to | vm-clone.yml:66-74 does not look; `allocation_estates` violates exactly this |
| `ContainersOnOwnGuests` | all deploys are containers | lxc-create.yml:44-67 does look, so nothing else is needed |
| `DerivedVmsOnOwnGuests` | `DerivedVms`: VMIDs of VMs are derived, no VM is made by hand, a declared address is one unit's, and no two runs that overlap make VMs at addresses they choose | each of these is a way to meet another's VM |
| `DistinctAddresses` | `AddressesEncoded`: runs that overlap derive every VMID; a node at a declared address has no retained volume, and no VM with an operator's VMID comes before it or is it | where the VMID is the address, the creation call is the lock on the address |
| `OneGuestEach` | `InstancesApart`: runs that overlap deploy different instances | nothing but the inventory tells a run of another's guest |
| `MeantVmids` | `OneMeaning`: deploys that share a guest mean one VMID and one retained volume; and `[]OnOwnGuest` | on another's guest the VMID is another's too |

`OwnInv` (for `OwnGuests`) says that the tags never say otherwise than the name, and that a run goes to the guest with its unit's name.
`DerivedVmInv` shows that `MeetsOwn` follows under `DerivedVms`: nothing may appear at the derived VMID between the inventory and the clone.
`AddressInv` says that only the guest a run is making has the address it makes it at, `InstanceInv` that while an instance's guest
is made there is no other, `MeantInv` how far the carried configuration is from what the next deploy means. The instance of
`guest_allocation` satisfies `AddressesEncoded`, `InstancesApart` and `OneMeaning`, and `MeetsOwn` in every state; it goes beyond `DerivedVms`, since it has
a VM with a retained volume and one with an operator's VMID.

Only model-checked: liveness (`FailedRunSettles`, `RetriesFinish`, `RerunsFinish`, `QuiesceEnds`, `PendingRebootEnds`), which the prover does not
reach; that deploys of VMs with a retained volume or an operator's VMID meet only their own (the premise of `OwnGuests` there); and the mutants.

## Findings

Four runs state what a text of the repository says and are violated by what the code does:

- `restore_swap_interrupted`: in a mount, `aside` makes `.restore-previous` and then moves the entries;
  when the move stops halfway, `rollback` first deletes every entry outside the copy, those of the
  original included. restore-swap.sh:4-5 says rollback after an interrupted step still puts the
  original back.
- `decommission_resume`: interrupted after the storage's stamp was retired and before the journal was
  written, every retry of the plan refuses the missing stamp.
- `allocation_estates`: two overlapping deploys of stack VMs of different estates choose the same first free address and hence VMID; the second
  takes the first's clone for its own, retags it and installs on it.
- `kubernetes_recovery_manual`: Backup App's Job beside the schedule's: each takes the other's mark for its own, so one resumes the
  application while the other still uploads it. backup-app.yml:176-178 expects duplicated work only.

Smaller observations, met while modelling, that no run states:

*Restores.*
- A mount whose rollback copy cannot be looked at (restore-swap.sh:66) is reported back although its
  replacement stays (`blind`, excused in `RollbackIsComplete`).
- Services may be started on a mixture, with "The original state is back" (restore-swap.yml:576). A rollback puts the database back
  only if this run loaded it (line 522), so a run that fails earlier starts the services (lines 546-570) on whatever database it found: the half-loaded one
  of a run whose reload failed too, or, after a crash past the load and an operator who put the paths back, the restored one of that run.
  With `db = ownedDb` alone in `OriginalOrFound`, TLC violates `StartsOnAccountedState` in 28 steps. What holds, and is proved, is that the
  earlier run's staging then still has the dump of the owned database.
- kubernetes-recovery-scale.py checks the annotation and later writes its own (line 156). A restore that puts its mark on in between is
  overwritten and its half-replaced state archived: with `Races` TRUE, TLC violates `PointsAreWhole` in 25 steps.

*Decommission.*
- `record()` takes no lock. A stamp that it writes between withdraw's comparison and its rewrite (lab.py:438-441) is lost. So is one
  of the same registration, made and recorded again after the storage was seen absent (line 434) and before the comparison, which finds the
  record equal to what it read. Both are excused in `StampsKept` by `meddled = "after"`.

*Allocation.*
- Networks wider than /16 are not recognised by the VMID decoding (generate-ip.yml:136-140).
- An operator's VMID carries no `vmid_source_ip`, so a later guest of its kind in the same chain
  takes it over, and one after a derived VMID of its kind is replaced (ip-to-vmid-guest.yml:40-42);
  `FirstOfKind` leaves these out.
- The VMID that owns a retained PBS volume can be taken by a guest of another application.
- A stack's VM killed between clone and configuration carries no tag of the stack and is never found again.
  If the template carries a topology tag, a native VM killed there is refused as another's claim by every later deploy
  (resolve-instance-guest.yml:86-87), where bootstrap.yml:24-25 says to run it again.

*Guest record.*
- vm-clone.yml:185 keeps the tags it knows, and `_.dev+<mapping>` is not among them. A redeploy of a k3s node drops the tag that
  says this platform assigned the device; a later detach takes the device for an operator's
  (attach-usb-passthrough.yml:20-21) and leaves it assigned.
- detach-usb-passthrough.yml:4-7 removes a device only with the tag written "for that same mapping". The tag keeps the slug alone
  (attach-usb-passthrough.yml:210-212, detach-usb-passthrough.yml:98-105), so where this platform assigned `ha-zigbee`, a detach of `ha_zigbee` removes
  what an operator passed through by hand: TLC reaches it in 8 steps, with `d \in assigned` for `Proven(d)`. It also takes away the tag that proves the
  other assignment. PCI mappings write tags of the same form (detach-pci-passthrough.yml:100-105), so a PCI and a USB mapping of one
  name share a tag too.

*Maintenance.*
- A window that covers the whole week has no opening: on a guest with a single chain it stays a `window` without lines,
  install-guest-timer.yml removes the timer and says "never (notify only)", and Watchtower runs daily at 04:00.
  maintenance-schedule.py:338-340 says that only `never` has no lines. `TimerMarksOpenings` is about windows that end.
- install-guest-timer.yml:3 and 32-36 say that the timer is written when a guest is deployed; only guest-maintenance.yml:311 includes
  it. guest-maintenance.yml:296-298 says that creating a host writes Watchtower's cron; create-docker-host.yml:138-139 passes no schedule.
- `RandomizedDelaySec=300`: two windows that share less than five minutes can see the reboot after their end (the `Delay` of
  `DisruptsInsideEveryWindow`).
- cluster-reboot.yml:119-125 reboots the nodes in a loop of `ansible.builtin.reboot`, which waits for each node, so one after the other, where
  guest-maintenance.yml:47-48 says together. If one times out, all stay cordoned, and the next run, which finds no reboot pending,
  does not uncordon them.

## Limits

- *Restore swap*: application hooks only succeed or fail; file ownership and modes are left out.
- *Server recovery*: what applications write while a MySQL point is loaded, or into a half-restored
  server, is left out; the archive's digest and size only accept or refuse.
- *Kubernetes recovery*: the rotation is that of one day (`--keep-last 2`); a Deployment asks for one replica or none. The passing run has one backup Job and no restore that begins under a running backup (`Races`).
- *Decommission*: how `plan` derives the plan; the flock (there is one executor); repair of a key
  file torn by an interruption. delete_object()'s reads of the record (lab.py:344-345) and of the objects (346) are one
  step, `ReadObject`; an intervention between the two is left out. One on the objects is like one before both, one on the record like one after.
- *Guest allocation*: Destroy of a guest that a run is deploying; PBS's refusal to reuse a VM on another network;
  Home Assistant's and OPNsense's own VM paths; create-docker-host.yml; DHCP networks; placement and memory checks only
  succeed or fail. Passing runs do not overlap two VM creations, which `allocation_estates` shows to be unsafe.
- *Guest record*: the text of the notes around the table; PVE's refusal of a tag it cannot spell; devices of guests that are
  neither k3s nodes nor stack VMs.
- *Maintenance*: malformed declarations, which the resolver refuses; the report; the reboot of the k3s cluster and the descent of the nodes.
  The timer file and its enabling are one step. An estate's layer is one more layer of the chain. A dry run and `force` are
  choices of the model. The minutes of `RandomizedDelaySec` and `AccuracySec` are one bound, `Delay`.
- *Address allocator*: malformed input, which is refused before anything is decided.

Four hazards in `PROJECT.json` have no property, each with its reason there: MySQL's undo, which goes back to the pre-restore point by
design; the race at kubernetes-recovery-scale.py:156 and the dropped device tag, which the code does lose; and the reboot of the cluster, which is not modelled.

The program is mostly declarative: 113 thousand lines of YAML, templates and documents call a few thousand lines of Python and shell that decide
anything. Four fifths of the Python are the gate's own tests. The models cover the parts that change shared state in
several steps; tests, renderers, checks of configuration files and single API calls have nothing a state machine would add to.
See `components` in `PROJECT.json` for the reason in each case.

## Plan

In order of what a mistake would cost.

Done: 1. restore swap, with proofs; 2. address allocator, with proofs; 3. decommission, with proofs;
4. guest allocation, with proofs; 5. database server recovery, with proofs; 6. the restore contract and its two
refinements, with proofs; 7. Kubernetes recovery, with proofs; 8. the guest record, with proofs; 9. the maintenance schedule, with proofs.

Left:

10. `ClusterReboot`: cordon, drain, reboot and uncordon of the k3s nodes as one unit with failures in between, and the one-shot
    timers of the nodes' descent, beside `MaintenanceSchedule`'s guests.
11. `RecoveryPoints`: pbs-client.sh's backup, verification and rotation (lines 228-259) with killed,
    failed, retried and overlapping backups, and the point a restore is about to use. The program
    proves that the newest earlier point survives; pbs-client-backup.yml:28-31 promises more, the point the operator is
    about to restore, which may be an older one of the same day.
12. `VaultMode`: lab-run.sh's modes and the Seed/Vault cutover with its failures; Vaultwarden's enrolment after it.
13. `RestoreGuest` (a whole guest from PBS), `ServiceRegistry`, public DNS; the firewall planner as a function compared with its rules.
14. Proofs: `MeetsOwn` from a condition on the constants for VMs with retained volumes and operators' VMIDs (the VMID that
    find-free-vmid.py gives is free in the inventory only, so this needs what may appear there meanwhile); `PointsAreWhole` for
    several backup Jobs of which no two overlap.

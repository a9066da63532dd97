------------------------- MODULE MaintenanceSchedule -------------------------
(* When one guest of the lab may be disrupted: the maintenance schedules   *)
(* declared by layers, the resolver (maintenance-schedule.py) that makes   *)
(* of the schedules of the applications on the guest one window, the       *)
(* Guest Maintenance job that writes it on the guest as a systemd timer    *)
(* and as Watchtower's cron, and the guest, which restarts on its own.     *)
(* Time is the minute of the week on the lab's clock.                      *)
EXTENDS Integers, FiniteSets, Sequences

CONSTANTS
  Days, DayLength,   \* days in a week, minutes in a day
  FullHours, Four,   \* the clock times hh:00, and 04:00
  Delay,             \* RandomizedDelaySec, in minutes
  Apps, Chain,       \* Chain[a]: the layers that govern a, the widest first
  Lab,               \* the layer of the lab's default
  Choices,           \* Choices[l]: what layer l may declare
  MaxChanges         \* bound on edits, deploys and removals

Day     == 0..Days - 1
Clock   == 0..DayLength - 1
Week    == Days * DayLength
Minutes == 0..Week - 1
Layers  == DOMAIN Choices

Inherit == [mode |-> "inherit", days |-> {}, start |-> 0, duration |-> 0]
DeclarationType ==
  [mode : {"inherit", "always", "never", "window"}, days : SUBSET Day,
   start : Nat, duration : Nat]

ASSUME ScheduleAssumption ==
  /\ Days \in Nat \ {0} /\ DayLength \in Nat \ {0}
  /\ FullHours \subseteq Clock /\ Four \in Clock
  /\ Delay \in Nat /\ MaxChanges \in Nat /\ IsFiniteSet(Apps)
  /\ Lab \in Layers /\ Chain \in [Apps -> Seq(Layers)]
  /\ \A a \in Apps : Len(Chain[a]) > 0 /\ Chain[a][1] = Lab
  /\ \A l \in Layers : Choices[l] \subseteq DeclarationType
  /\ \A d \in Choices[Lab] : d.mode # "inherit"
  /\ \A l \in Layers : \A d \in Choices[l] :
       d.mode = "window" => /\ d.days # {} /\ d.start \in Clock
                            /\ d.duration \in 1..Week

VARIABLES
  declared,   \* the configuration: what each layer declares
  carries,    \* the applications recorded on the guest
  changes,
  clock,
  up,         \* the guest runs
  need,       \* what its updates wait for: nothing, services or a reboot
  timer,      \* the OnCalendar lines of its maintenance timer
  opened,     \* the opening the elapsed timer still delays after, or none
  watch,      \* Watchtower's cron and mode
  polling,    \* its cron names this minute
  job,        \* the Guest Maintenance job
  exact,      \* which of timer and watch are of the present configuration
  disrupted   \* what the last step interrupted

config == <<declared, carries, changes>>
guest  == <<up, need, opened, polling>>
vars == <<declared, carries, changes, clock, up, need, timer, opened,
          watch, polling, job, exact, disrupted>>

NoOpening == -1

(* ---- the resolver ---- *)

(* A layer replaces what it inherits, whole.                               *)
Declares(l) == declared[l].mode # "inherit"
MutantResolveChain(chain) ==      \* the widest layer wins
  declared[chain[CHOOSE i \in DOMAIN chain :
    Declares(chain[i]) /\ \A j \in DOMAIN chain : j < i => ~Declares(chain[j])]]
ResolveChain(chain) ==
  declared[chain[CHOOSE i \in DOMAIN chain :
    Declares(chain[i]) /\ \A j \in DOMAIN chain : j > i => ~Declares(chain[j])]]

(* A window past the end of the week goes on at its beginning.             *)
MinutesOf(d) ==
  IF d.mode = "always" THEN Minutes
  ELSE {m \in Minutes : d.mode = "window" /\ \E day \in d.days, step \in 0..d.duration - 1 :
                          m = (day * DayLength + d.start + step) % Week}

(* The schedules that meet on the guest; the lab's default governs a guest *)
(* that carries no application.                                            *)
Chains == IF carries = {} THEN {<<Lab>>} ELSE {Chain[a] : a \in carries}

(* One schedule stands as it is declared; several are intersected.         *)
Combine ==
  LET shared == {m \in Minutes : \A c \in Chains : m \in MinutesOf(ResolveChain(c))}
      alone  == Cardinality(carries) <= 1
  IN [minutes |-> shared,
      mode |-> IF alone THEN ResolveChain(CHOOSE c \in Chains : TRUE).mode
               ELSE IF shared = {} THEN "never"
               ELSE IF shared = Minutes THEN "always"
               ELSE "window"]

(* Where the window's runs begin.  A run up to the end of the week and one *)
(* from its beginning are one; a window of the whole week has no run.      *)
MutantRunStarts(M) == {m \in M : m = 0 \/ m - 1 \notin M}    \* never joined
RunStarts(M) ==
  LET starts == {m \in M : m = 0 \/ m - 1 \notin M}
  IN IF M = Minutes THEN {}
     ELSE IF Week - 1 \in M /\ starts # {0} THEN starts \ {0} ELSE starts

At(m)     == m % DayLength
MutantDayOf(m) == m \div DayLength + 1     \* cron's days begin with Sunday
DayOf(m)  == m \div DayLength
On(d, t)  == d * DayLength + t

(* systemd's OnCalendar lines: a clock time, and the days it names.        *)
Hourly == {[at |-> t, days |-> Day] : t \in FullHours}
OnCalendarOf(a) ==
  LET starts == RunStarts(a.minutes)
  IN IF a.mode = "always" THEN Hourly
     ELSE {[at |-> At(m), days |-> {d \in Day : On(d, At(m)) \in starts}] : m \in starts}
Elapses(lines) == {m \in Minutes : \E l \in lines : \E d \in l.days : m = On(d, l.at)}

(* A cron names one clock time: with several, the first opening alone.     *)
(* Without one, Watchtower's own is written: daily at 04:00.               *)
CronOf(a) ==
  LET starts == RunStarts(a.minutes)
      first  == {CHOOSE m \in starts : \A s \in starts : m <= s}
      opens  == IF \A m, s \in starts : At(m) = At(s) THEN starts ELSE first
  IN IF a.mode = "always" THEN [times |-> FullHours, days |-> Day]
     ELSE IF starts = {} THEN [times |-> {Four}, days |-> Day]
     ELSE [times |-> {At(m) : m \in opens}, days |-> {DayOf(m) : m \in opens}]
WatchtowerOf(a) == [cron |-> CronOf(a), monitor_only |-> a.mode = "never"]
Polls(w) == {m \in Minutes : \E d \in w.cron.days, t \in w.cron.times : m = On(d, t)}

Idle == [pc |-> "idle"]

(* A host is created with Watchtower's own cron and without a timer.       *)
Init ==
  /\ declared \in {f \in [Layers -> UNION {Choices[l] : l \in Layers}] :
                     \A l \in Layers : f[l] \in Choices[l]}
  /\ carries \in SUBSET Apps /\ changes = 0
  /\ clock = 0 /\ up = TRUE /\ need = "no"
  /\ timer = {} /\ opened = NoOpening
  /\ watch = [cron |-> [times |-> {Four}, days |-> Day], monitor_only |-> FALSE]
  /\ polling = FALSE /\ job = Idle /\ exact = {} /\ disrupted = "no"

(* ---- the operator ---- *)

Changed ==
  /\ changes < MaxChanges /\ changes' = changes + 1
  /\ exact' = {} /\ disrupted' = "no"
  /\ job' = IF job = Idle THEN Idle ELSE [job EXCEPT !.current = FALSE]
  /\ UNCHANGED <<guest, clock, timer, watch>>

Edit ==
  /\ \E l \in Layers, d \in UNION {Choices[k] : k \in Layers} :
       d \in Choices[l] \ {declared[l]} /\ declared' = [declared EXCEPT ![l] = d]
  /\ UNCHANGED carries /\ Changed

(* A deploy records its application on the guest, a Remove withdraws it.   *)
(* Neither writes the timer or the cron.                                   *)
Deploy ==
  /\ \E a \in Apps \ carries : carries' = carries \cup {a}
  /\ UNCHANGED declared /\ Changed
Withdraw ==
  /\ \E a \in carries : carries' = carries \ {a}
  /\ UNCHANGED declared /\ Changed

(* ---- Guest Maintenance ---- *)

(* The configuration and the inventory's tags are read when the job starts.*)
Survey ==
  /\ job = Idle
  /\ job' = [pc |-> "ask", answer |-> Combine, current |-> TRUE, wants |-> FALSE]
  /\ disrupted' = "no" /\ UNCHANGED <<config, guest, clock, timer, watch, exact>>

(* An unreachable guest, or a dry run, is reported and nothing else.       *)
Ask ==
  /\ job.pc = "ask"
  /\ \/ up /\ job' = [job EXCEPT !.pc = "timer", !.wants = (need = "reboot")]
     \/ job' = Idle
  /\ disrupted' = "no" /\ UNCHANGED <<config, guest, clock, timer, watch, exact>>

(* The timer is written and systemd reads it again, or removed: a delay    *)
(* that runs is over, or starts again if the new timer has that opening.   *)
Wrote(part) == exact' = IF job.current THEN exact \cup {part} ELSE exact \ {part}
ApplyTimer ==
  /\ job.pc = "timer"
  /\ IF up
       THEN /\ timer' = OnCalendarOf(job.answer)
            /\ opened' \in {NoOpening} \cup ({opened} \cap Elapses(timer'))
            /\ Wrote("timer")
       ELSE UNCHANGED <<timer, opened, exact>>
  /\ job' = [job EXCEPT !.pc = "watch"]
  /\ disrupted' = "no" /\ UNCHANGED <<config, clock, up, need, watch, polling>>

(* Watchtower's container is made anew when its settings differ.           *)
ApplyWatchtower ==
  /\ job.pc = "watch"
  /\ IF up
       THEN /\ watch' = WatchtowerOf(job.answer)
            /\ polling' = (polling /\ watch' = watch)
            /\ Wrote("watch")
       ELSE UNCHANGED <<watch, polling, exact>>
  /\ job' = [job EXCEPT !.pc = "reboot"]
  /\ disrupted' = "no" /\ UNCHANGED <<config, clock, up, need, timer, opened>>

(* A task of either failed: the guest takes no further part in the job.    *)
ApplyFails ==
  /\ job.pc \in {"timer", "watch"} /\ job' = Idle
  /\ disrupted' = "no" /\ UNCHANGED <<config, guest, clock, timer, watch, exact>>

(* With force, what the guest wanted is done whatever the schedule says.   *)
Boots == need' = "no" /\ opened' = NoOpening /\ polling' = FALSE
ForceReboot ==
  /\ job.pc = "reboot" /\ job' = Idle
  /\ \/ job.wants /\ up /\ Boots /\ disrupted' = "forced" /\ UNCHANGED up
     \/ disrupted' = "no" /\ UNCHANGED guest
  /\ UNCHANGED <<config, clock, timer, watch, exact>>

(* ---- the guest ---- *)

(* unattended-upgrades installs packages and restarts nothing.             *)
Upgrade ==
  /\ up /\ need # "reboot" /\ need' \in {"services", "reboot"} /\ need' # need
  /\ disrupted' = "no"
  /\ UNCHANGED <<config, clock, up, opened, polling, timer, watch, job, exact>>
(* Off and on again, by hand or by the hypervisor.  What /var/run held is  *)
(* gone, and a timer that elapsed meanwhile does not catch up.             *)
PowerOff ==
  /\ up /\ up' = FALSE /\ Boots /\ disrupted' = "no"
  /\ UNCHANGED <<config, clock, timer, watch, job, exact>>
PowerOn ==
  /\ ~up /\ up' = TRUE /\ disrupted' = "no"
  /\ UNCHANGED <<config, clock, need, opened, polling, timer, watch, job, exact>>

(* A minute passes once what belongs to this one is done: the timer's      *)
(* delay is over, or Watchtower has looked.                                *)
Since(m) == (clock - m) % Week
Tick ==
  /\ ~polling /\ (opened # NoOpening => Since(opened) < Delay)
  /\ clock' = (clock + 1) % Week
  /\ opened' = IF up /\ opened = NoOpening /\ clock' \in Elapses(timer) THEN clock' ELSE opened
  /\ polling' = (up /\ clock' \in Polls(watch))
  /\ disrupted' = "no" /\ UNCHANGED <<config, up, need, timer, watch, job, exact>>

(* lab-maintenance-reboot: a pending reboot goes before stale services,    *)
(* whose restarts may fail.                                                *)
MutantServe ==                    \* stale services first, and the script ends there
  /\ opened # NoOpening /\ opened' = NoOpening /\ UNCHANGED polling
  /\ need' \in IF need = "services" THEN {"no", need} ELSE {need}
  /\ disrupted' = IF need = "no" THEN "no" ELSE "timer"
  /\ UNCHANGED <<config, clock, up, timer, watch, job, exact>>
Serve ==
  /\ opened # NoOpening
  /\ IF need = "reboot" THEN Boots ELSE
       /\ need' \in {"no", need} /\ opened' = NoOpening /\ UNCHANGED polling
  /\ disrupted' = IF need = "no" THEN "no" ELSE "timer"
  /\ UNCHANGED <<config, clock, up, timer, watch, job, exact>>

(* Watchtower restarts containers that have a newer image, or tells.      *)
Poll ==
  /\ polling /\ polling' = FALSE
  /\ disrupted' \in IF watch.monitor_only THEN {"no"} ELSE {"no", "watch"}
  /\ UNCHANGED <<config, clock, up, need, opened, timer, watch, job, exact>>

Next ==
  \/ Edit \/ Deploy \/ Withdraw
  \/ Survey \/ Ask \/ ApplyTimer \/ ApplyWatchtower \/ ApplyFails \/ ForceReboot
  \/ Upgrade \/ PowerOff \/ PowerOn \/ Tick \/ Serve \/ Poll

Spec == Init /\ [][Next]_vars

(* Time passes and systemd runs what it started; the job's tasks end.      *)
FairSpec == Spec /\ WF_vars(Tick) /\ WF_vars(Serve) /\ WF_vars(Poll)

(* ---- properties ---- *)

TypeOK ==
  /\ declared \in [Layers -> DeclarationType] /\ carries \subseteq Apps
  /\ changes \in 0..MaxChanges /\ clock \in Minutes
  /\ up \in BOOLEAN /\ polling \in BOOLEAN
  /\ need \in {"no", "services", "reboot"}
  /\ timer \subseteq [at : Clock, days : SUBSET Day]
  /\ opened \in Minutes \cup {NoOpening}
  /\ watch \in [cron : [times : SUBSET Clock, days : SUBSET Day], monitor_only : BOOLEAN]
  /\ \/ job = Idle
     \/ job \in [pc : {"ask", "timer", "watch", "reboot"}, current : BOOLEAN, wants : BOOLEAN,
                 answer : [minutes : SUBSET Minutes,
                           mode : {"always", "never", "window"}]]
  /\ exact \subseteq {"timer", "watch"}
  /\ disrupted \in {"no", "forced", "timer", "watch"}

(* What an operator reads in a declaration: is minute m inside it?         *)
Covers(d, m) ==
  \/ d.mode = "always"
  \/ d.mode = "window" /\ \E day \in d.days : (m - On(day, d.start)) % Week < d.duration
Governs(i, chain) == Declares(chain[i]) /\ \A j \in DOMAIN chain : j > i => ~Declares(chain[j])
Allowed(m) ==
  \A c \in Chains : \A i \in DOMAIN c : Governs(i, c) => Covers(declared[c[i]], m)

(* The timer elapses when the time in which every application may be       *)
(* disrupted begins, and at no other minute (maintenance-schedule.py: "an  *)
(* OPENING is a minute inside the window whose predecessor is outside it").*)
(* When that time is the whole week nothing begins: the lines are hourly   *)
(* for `always`, and there are none for a window that lasts a week.        *)
TimerMarksOpenings ==
  "timer" \in exact /\ (\E m \in Minutes : ~Allowed(m)) =>
    Elapses(timer) = {m \in Minutes : Allowed(m) /\ ~Allowed((m - 1) % Week)}

(* A guest whose timer and cron are of the present configuration is not    *)
(* interrupted on its own outside the time every application allows, save  *)
(* for the timer's random delay past the end of a short window             *)
(* (maintenance-schedule.py: "would reboot a service outside the window    *)
(* its owner declared -- the one failure this slice exists to prevent").   *)
DisruptsInsideEveryWindow ==
  /\ disrupted = "watch" /\ "watch" \in exact => Allowed(clock)
  /\ disrupted = "timer" /\ "timer" \in exact =>
       \E k \in 0..Delay : Allowed((clock - k) % Week)

(* A guest that keeps a timer, and is left alone by the job, does not wait *)
(* for its reboot for ever, however often it is stopped and started        *)
(* (guest-maintenance.yml: "reboot-required therefore accumulates          *)
(* indefinitely").                                                         *)
PendingRebootEnds == <>[](timer # {} /\ job = Idle) => []<>(need # "reboot")
=============================================================================

---------------------- MODULE MaintenanceScheduleProofs ----------------------
(* For every length of the day and of the week, every set of applications, *)
(* every chain of layers and everything they may declare: the timer Guest  *)
(* Maintenance writes marks the openings of the time every application     *)
(* allows, and nothing but a forced reboot disrupts the guest outside it.  *)
EXTENDS MaintenanceSchedule, FiniteSetTheorems, WellFoundedInduction, TLAPS

(* ---- arithmetic of the clock ---- *)

LEMMA Least ==
  ASSUME NEW T, T \subseteq Nat, T # {}
  PROVE  \E x \in T : \A y \in T : x <= y
<1>1. \E x \in T : \A y \in T : <<y, x>> \notin OpToRel(<, Nat)
  BY NatLessThanWellFounded, WFMin, Zenon
<1>2. ASSUME NEW x \in T, NEW y \in T, <<y, x>> \notin OpToRel(<, Nat)
      PROVE  x <= y
  <2>1. <<y, x>> \in Nat \X Nat /\ y \in Nat /\ x \in Nat  BY <1>2
  <2>2. ~(y < x)  BY <1>2, <2>1 DEF OpToRel
  <2>. QED  BY <2>1, <2>2
<1>. QED  BY <1>1, <1>2

LEMMA Greatest ==
  ASSUME NEW T, NEW b \in Nat, T \subseteq 0..b, T # {}
  PROVE  \E x \in T : \A y \in T : y <= x
<1>. DEFINE Below == {b - x : x \in T}
<1>0. Below \subseteq Nat /\ Below # {}
  <2>1. PICK x \in T : TRUE  OBVIOUS
  <2>2. b - x \in Below  OBVIOUS
  <2>3. \A y \in T : b - y \in Nat  OBVIOUS
  <2>4. Below \subseteq Nat  BY <2>3
  <2>. QED  BY <2>2, <2>4
<1>. HIDE DEF Below
<1>1. PICK z \in Below : \A y \in Below : z <= y  BY <1>0, Least
<1>. USE DEF Below
<1>2. PICK x \in T : z = b - x  BY <1>1
<1>3. ASSUME NEW y \in T PROVE y <= x
  <2>1. b - y \in Below  OBVIOUS
  <2>. QED  BY <2>1, <1>1, <1>2
<1>. QED  BY <1>2, <1>3

LEMMA DivMod ==
  ASSUME NEW n \in Nat \ {0}, NEW m \in Int
  PROVE  m % n \in 0..n - 1 /\ m \div n \in Int /\ m = n * (m \div n) + (m % n)
OBVIOUS

LEMMA OneQuotient ==
  ASSUME NEW n \in Nat \ {0}, NEW q \in Int, NEW p \in Int,
         NEW r \in 0..n - 1, NEW s \in 0..n - 1, n * q + r = n * p + s
  PROVE  q = p /\ r = s
<1>1. n * (q - p) = s - r  OBVIOUS
<1>2. CASE q - p >= 1
  <2>1. n * (q - p) >= n  BY <1>2
  <2>. QED  BY <2>1, <1>1
<1>3. CASE p - q >= 1
  <2>1. n * (p - q) >= n  BY <1>3
  <2>2. n * (p - q) = r - s  BY <1>1
  <2>. QED  BY <2>1, <2>2
<1>. QED  BY <1>2, <1>3, <1>1

LEMMA ModOf ==
  ASSUME NEW n \in Nat \ {0}, NEW q \in Int, NEW r \in 0..n - 1
  PROVE  (n * q + r) % n = r /\ (n * q + r) \div n = q
<1>1. n * q + r \in Int  OBVIOUS
<1>2. /\ (n * q + r) % n \in 0..n - 1 /\ (n * q + r) \div n \in Int
      /\ n * q + r = n * ((n * q + r) \div n) + ((n * q + r) % n)
  BY <1>1, DivMod
<1>. QED  BY <1>2, OneQuotient

(* Numbers that differ by a multiple of n have one remainder.              *)
LEMMA SameRemainder ==
  ASSUME NEW n \in Nat \ {0}, NEW m \in Int, NEW r \in 0..n - 1, NEW q \in Int,
         m = n * q + r
  PROVE  m % n = r
BY ModOf

(* The minutes from a to m, around the week, lead from a to m.             *)
LEMMA Around ==
  ASSUME NEW n \in Nat \ {0}, NEW m \in 0..n - 1, NEW a \in Int, NEW k \in 0..n - 1
  PROVE  (m - a) % n = k <=> m = (a + k) % n
<1>1. /\ (m - a) \div n \in Int /\ (m - a) % n \in 0..n - 1
      /\ m - a = n * ((m - a) \div n) + ((m - a) % n)
  <2>1. m - a \in Int  OBVIOUS
  <2>. QED  BY <2>1, DivMod
<1>2. /\ (a + k) \div n \in Int /\ (a + k) % n \in 0..n - 1
      /\ a + k = n * ((a + k) \div n) + ((a + k) % n)
  <2>1. a + k \in Int  OBVIOUS
  <2>. QED  BY <2>1, DivMod
<1>3. ASSUME (m - a) % n = k PROVE m = (a + k) % n
  <2>1. PICK q \in Int : m - a = n * q + k  BY <1>1, <1>3
  <2>2. a + k = n * (-q) + m  BY <2>1
  <2>3. a + k \in Int /\ -q \in Int  BY <2>1
  <2>. QED  BY <2>2, <2>3, SameRemainder
<1>4. ASSUME m = (a + k) % n PROVE (m - a) % n = k
  <2>1. PICK q \in Int : a + k = n * q + m  BY <1>2, <1>4
  <2>2. m - a = n * (-q) + k  BY <2>1
  <2>3. m - a \in Int /\ -q \in Int  BY <2>1
  <2>. QED  BY <2>2, <2>3, SameRemainder
<1>. QED  BY <1>3, <1>4

LEMMA WeekType == Week \in Nat \ {0} /\ DayLength \in Nat \ {0} /\ Days \in Nat \ {0}
BY ScheduleAssumption DEF Week

LEMMA Before ==
  ASSUME NEW m \in Minutes
  PROVE  (m - 1) % Week = IF m = 0 THEN Week - 1 ELSE m - 1
<1>1. CASE m = 0
  <2>1. m - 1 = Week * (-1) + (Week - 1)  BY <1>1, WeekType
  <2>. QED  BY <2>1, <1>1, WeekType, SameRemainder
<1>2. CASE m # 0
  <2>1. m - 1 = Week * 0 + (m - 1) /\ m - 1 \in 0..Week - 1  BY <1>2, WeekType DEF Minutes
  <2>. QED  BY <2>1, <1>2, WeekType, SameRemainder
<1>. QED  BY <1>1, <1>2

LEMMA After ==
  ASSUME NEW m \in Minutes
  PROVE  (m + 1) % Week = IF m = Week - 1 THEN 0 ELSE m + 1
<1>1. CASE m = Week - 1
  <2>1. m + 1 = Week * 1 + 0  BY <1>1, WeekType
  <2>. QED  BY <2>1, <1>1, WeekType, SameRemainder
<1>2. CASE m # Week - 1
  <2>1. m + 1 = Week * 0 + (m + 1) /\ m + 1 \in 0..Week - 1  BY <1>2, WeekType DEF Minutes
  <2>. QED  BY <2>1, <1>2, WeekType, SameRemainder
<1>. QED  BY <1>1, <1>2

(* A minute of the week is a clock time on a day.                          *)
LEMMA OnAt ==
  ASSUME NEW m \in Minutes
  PROVE  At(m) \in Clock /\ DayOf(m) \in Day /\ On(DayOf(m), At(m)) = m
<1>1. At(m) \in 0..DayLength - 1 /\ DayOf(m) \in Int /\ m = DayLength * DayOf(m) + At(m)
  BY WeekType, DivMod DEF At, DayOf, Minutes
<1>2. DayOf(m) >= 0
  <2>1. SUFFICES ASSUME DayOf(m) <= -1 PROVE FALSE  BY <1>1
  <2>2. DayLength * DayOf(m) <= DayLength * (-1)  BY <2>1, <1>1, WeekType
  <2>. QED  BY <2>2, <1>1, WeekType DEF Minutes
<1>3. DayOf(m) <= Days - 1
  <2>1. SUFFICES ASSUME DayOf(m) >= Days PROVE FALSE  BY <1>1, WeekType
  <2>2. DayLength * DayOf(m) >= DayLength * Days  BY <2>1, <1>1, WeekType
  <2>3. DayLength * Days = Week  BY WeekType DEF Week
  <2>. QED  BY <2>2, <2>3, <1>1, WeekType DEF Minutes
<1>. QED  BY <1>1, <1>2, <1>3, WeekType DEF Clock, Day, On

(* The minute before k minutes ago comes k minutes before.                 *)
LEMMA Ago ==
  ASSUME NEW m \in Minutes, NEW o \in Minutes
  PROVE  (m - ((m - o) % Week)) % Week = o
<1>. DEFINE k == (m - o) % Week
<1>0. m - o \in Int  BY WeekType DEF Minutes
<1>1. k \in 0..Week - 1 /\ (m - o) \div Week \in Int /\ m - o = Week * ((m - o) \div Week) + k
  BY <1>0, WeekType, DivMod
<1>. HIDE DEF k
<1>2. PICK q \in Int : m - o = Week * q + k  BY <1>1
<1>3. m - k = Week * q + o  BY <1>1, <1>2, WeekType DEF Minutes
<1>4. m - k \in Int /\ o \in 0..Week - 1  BY <1>1, WeekType DEF Minutes
<1>5. (m - k) % Week = o  BY <1>3, <1>4, WeekType, SameRemainder
<1>. QED  BY <1>5 DEF k

(* A minute later is at most a minute more, counted around the week.       *)
LEMMA OneLater ==
  ASSUME NEW m \in Minutes, NEW o \in Minutes
  PROVE  (((m + 1) % Week) - o) % Week <= ((m - o) % Week) + 1
<1>. DEFINE k == (m - o) % Week
<1>1. m - o \in Int /\ (m + 1) % Week \in Minutes
  BY WeekType, After DEF Minutes
<1>2. k \in 0..Week - 1 /\ (m - o) \div Week \in Int /\ m - o = Week * ((m - o) \div Week) + k
  BY <1>1, WeekType, DivMod
<1>. HIDE DEF k
<1>3. PICK q \in Int : m - o = Week * q + k  BY <1>2
<1>4. PICK p \in Int : (m + 1) % Week = Week * p + (m + 1)
  <2>1. CASE m = Week - 1
    <3>1. (m + 1) % Week = Week * (-1) + (m + 1)  BY <2>1, After, WeekType
    <3>. QED  BY <3>1
  <2>2. CASE m # Week - 1
    <3>1. (m + 1) % Week = Week * 0 + (m + 1)  BY <2>2, After, WeekType DEF Minutes
    <3>. QED  BY <3>1
  <2>. QED  BY <2>1, <2>2
<1>5. ((m + 1) % Week) - o = Week * (q + p) + (k + 1)
  BY <1>2, <1>3, <1>4, WeekType DEF Minutes
<1>6. ((m + 1) % Week) - o \in Int /\ q + p \in Int  BY <1>1, <1>3, <1>4, WeekType DEF Minutes
<1>7. CASE k + 1 <= Week - 1
  <2>1. PICK r \in 0..Week - 1 : r = k + 1  BY <1>2, <1>7, WeekType
  <2>2. ((m + 1) % Week) - o = Week * (q + p) + r  BY <1>5, <2>1
  <2>3. (((m + 1) % Week) - o) % Week = r
    <3>1. PICK x \in Int, z \in Int : x = ((m + 1) % Week) - o /\ z = q + p  BY <1>6
    <3>2. x = Week * z + r  BY <2>2, <3>1, Zenon
    <3>3. x % Week = r  BY <3>2, WeekType, SameRemainder
    <3>. QED  BY <3>1, <3>3
  <2>. QED  BY <2>1, <2>3, WeekType DEF k
<1>8. CASE k + 1 > Week - 1
  <2>1. k + 1 = Week  BY <1>2, <1>8, WeekType
  <2>2. ((m + 1) % Week) - o = Week * (q + p + 1) + 0  BY <1>5, <2>1, <1>3, <1>4, WeekType
  <2>3. q + p + 1 \in Int /\ 0 \in 0..Week - 1  BY <1>3, <1>4, WeekType
  <2>4. (((m + 1) % Week) - o) % Week = 0  BY <1>6, <2>2, <2>3, WeekType, SameRemainder
  <2>5. k + 1 >= 0  BY <1>2, WeekType
  <2>. QED  BY <2>4, <2>5 DEF k
<1>. QED  BY <1>2, <1>7, <1>8, WeekType

(* ---- the inductive invariant ---- *)

(* The answers the resolver can give.                                      *)
Answer ==
  {a \in [minutes : SUBSET Minutes, mode : {"always", "never", "window"}] :
     /\ a.mode = "always" <=> a.minutes = Minutes /\ a.mode # "window"
     /\ a.mode = "never" <=> a.minutes = {}}

(* What the resolver answers stays true of what was written from it, as    *)
(* long as the configuration it was read from stands; and a delay or a     *)
(* poll that runs began at a minute that the timer or the cron names.      *)
ConfigInv ==
  \A l \in Layers : declared[l] \in Choices[l]
WrittenInv ==
  /\ job # Idle => job.answer \in Answer /\ (job.current => job.answer = Combine)
  /\ "timer" \in exact => timer = OnCalendarOf(Combine)
  /\ "watch" \in exact => watch = WatchtowerOf(Combine)
RunningInv ==
  /\ opened # NoOpening => opened \in Elapses(timer) /\ Since(opened) <= Delay
  /\ polling => clock \in Polls(watch)
DisruptedInv ==
  /\ disrupted = "watch" /\ "watch" \in exact => clock \in Combine.minutes
  /\ disrupted = "timer" /\ "timer" \in exact =>
       \E k \in 0..Delay : (clock - k) % Week \in Combine.minutes
ScheduleInv == TypeOK /\ ConfigInv /\ WrittenInv /\ RunningInv /\ DisruptedInv

(* ---- the resolver ---- *)

(* What a layer that declares anything may declare.                        *)
Schedule ==
  {d \in DeclarationType : /\ d.mode # "inherit"
                           /\ d.mode = "window" => /\ d.days # {} /\ d.start \in Clock
                                                   /\ d.duration \in 1..Week}

LEMMA ChainsType ==
  ASSUME TypeOK, NEW c \in Chains
  PROVE  c \in Seq(Layers) /\ Len(c) > 0 /\ c[1] = Lab
<1>1. CASE carries = {}
  <2>1. c = <<Lab>>  BY <1>1 DEF Chains
  <2>. QED  BY <2>1, ScheduleAssumption
<1>2. CASE carries # {}
  <2>1. PICK a \in carries : c = Chain[a]  BY <1>2 DEF Chains
  <2>2. a \in Apps  BY <2>1 DEF TypeOK
  <2>. QED  BY <2>1, <2>2, ScheduleAssumption
<1>. QED  BY <1>1, <1>2

(* The lab's default declares, so that one layer of a chain governs it.    *)
LEMMA OneGoverns ==
  ASSUME TypeOK, ConfigInv, NEW c \in Chains
  PROVE  \E i \in DOMAIN c : /\ Governs(i, c) /\ ResolveChain(c) = declared[c[i]]
                             /\ \A j \in DOMAIN c : Governs(j, c) => j = i
<1>. DEFINE T == {i \in DOMAIN c : Declares(c[i])}
<1>1. c \in Seq(Layers) /\ Len(c) > 0 /\ c[1] = Lab /\ DOMAIN c = 1..Len(c)
  BY ChainsType
<1>2. T \subseteq 0..Len(c) /\ Len(c) \in Nat  BY <1>1
<1>3. 1 \in T
  <2>1. declared[Lab] \in Choices[Lab]  BY ScheduleAssumption DEF ConfigInv
  <2>2. declared[Lab].mode # "inherit"  BY <2>1, ScheduleAssumption
  <2>. QED  BY <1>1, <2>2 DEF Declares
<1>4. PICK i \in T : \A j \in T : j <= i
  <2>1. T # {}  BY <1>3
  <2>. HIDE DEF T
  <2>. QED  BY <1>2, <2>1, Greatest
<1>5. i \in DOMAIN c /\ Declares(c[i]) /\ \A j \in DOMAIN c : j > i => ~Declares(c[j])
  BY <1>1, <1>4
<1>6. \A j \in DOMAIN c : Declares(c[j]) /\ (\A n \in DOMAIN c : n > j => ~Declares(c[n])) => j = i
  BY <1>1, <1>5
<1>7. ResolveChain(c) = declared[c[i]]
  <2>. DEFINE R(j) == Declares(c[j]) /\ \A n \in DOMAIN c : n > j => ~Declares(c[n])
  <2>1. R(i) /\ \A j \in DOMAIN c : R(j) => j = i  BY <1>5, <1>6
  <2>2. (CHOOSE j \in DOMAIN c : R(j)) = i
    <3>. HIDE DEF R
    <3>. QED  BY <1>5, <2>1
  <2>. QED  BY <2>2 DEF ResolveChain
<1>. QED  BY <1>5, <1>6, <1>7 DEF Governs

LEMMA ResolvedType ==
  ASSUME TypeOK, ConfigInv, NEW c \in Chains
  PROVE  ResolveChain(c) \in Schedule
<1>1. PICK i \in DOMAIN c : Governs(i, c) /\ ResolveChain(c) = declared[c[i]]
  BY OneGoverns
<1>2. c[i] \in Layers  BY ChainsType
<1>3. declared[c[i]] \in Choices[c[i]]  BY <1>2 DEF ConfigInv
<1>4. declared[c[i]].mode # "inherit"  BY <1>1 DEF Governs, Declares
<1>. QED  BY <1>1, <1>2, <1>3, <1>4, ScheduleAssumption DEF Schedule

LEMMA WithinSteps ==
  ASSUME NEW m \in Minutes, NEW o \in Int, NEW len \in 1..Week
  PROVE  (m - o) % Week < len <=> \E step \in 0..len - 1 : m = (o + step) % Week
<1>1. m - o \in Int /\ m \in 0..Week - 1  BY WeekType DEF Minutes
<1>2. (m - o) % Week \in 0..Week - 1  BY <1>1, WeekType, DivMod
<1>3. \A x \in 0..Week - 1, a \in Int, k \in 0..Week - 1 :
        (x - a) % Week = k <=> x = (a + k) % Week
  BY WeekType, Around, Zenon
<1>4. (m - o) % Week < len <=> \E k \in 0..len - 1 : (m - o) % Week = k
  BY <1>2, WeekType
<1>5. \A k \in 0..len - 1 : k \in 0..Week - 1  BY WeekType
<1>6. \A k \in 0..len - 1 : (m - o) % Week = k <=> m = (o + k) % Week  BY <1>1, <1>3, <1>5
<1>. QED  BY <1>4, <1>6

(* The minutes the resolver counts off are those a declaration covers.     *)
LEMMA CountedIsCovered ==
  ASSUME NEW d \in Schedule, NEW m \in Minutes
  PROVE  m \in MinutesOf(d) <=> Covers(d, m)
<1>1. CASE d.mode # "window"  BY <1>1 DEF MinutesOf, Covers, Schedule
<1>2. CASE d.mode = "window"
  <2>1. d.days \subseteq Day /\ d.start \in Clock /\ d.duration \in 1..Week
    BY <1>2 DEF Schedule, DeclarationType
  <2>2. ASSUME NEW day \in d.days
        PROVE  (m - On(day, d.start)) % Week < d.duration
                 <=> \E step \in 0..d.duration - 1 : m = (day * DayLength + d.start + step) % Week
    <3>1. On(day, d.start) \in Int  BY <2>1, WeekType DEF Day, Clock, On
    <3>2. (m - On(day, d.start)) % Week < d.duration
            <=> \E step \in 0..d.duration - 1 : m = (On(day, d.start) + step) % Week
      BY <2>1, <3>1, WithinSteps
    <3>. QED  BY <3>2, Zenon DEF On
  <2>. QED  BY <1>2, <2>2 DEF MinutesOf, Covers
<1>. QED  BY <1>1, <1>2

(* The answer's minutes are the time every application allows.             *)
LEMMA AnswerIsAllowed ==
  ASSUME TypeOK, ConfigInv, NEW m \in Minutes
  PROVE  m \in Combine.minutes <=> Allowed(m)
<1>1. m \in Combine.minutes <=> \A c \in Chains : m \in MinutesOf(ResolveChain(c))
  BY DEF Combine
<1>2. ASSUME NEW c \in Chains
      PROVE  m \in MinutesOf(ResolveChain(c))
               <=> \A i \in DOMAIN c : Governs(i, c) => Covers(declared[c[i]], m)
  <2>1. PICK i \in DOMAIN c : /\ Governs(i, c) /\ ResolveChain(c) = declared[c[i]]
                              /\ \A j \in DOMAIN c : Governs(j, c) => j = i
    BY OneGoverns
  <2>2. m \in MinutesOf(ResolveChain(c)) <=> Covers(ResolveChain(c), m)
    BY ResolvedType, CountedIsCovered
  <2>. QED  BY <2>1, <2>2
<1>. QED  BY <1>1, <1>2 DEF Allowed

(* The mode the answer carries agrees with its minutes.                    *)
LEMMA ScheduleMinutes ==
  ASSUME NEW d \in Schedule
  PROVE  /\ d.mode \in {"always", "never", "window"} /\ MinutesOf(d) \subseteq Minutes
         /\ d.mode = "always" => MinutesOf(d) = Minutes
         /\ d.mode = "never" <=> MinutesOf(d) = {}
<1>1. d.mode \in {"always", "never", "window"}  BY DEF Schedule, DeclarationType
<1>2. 0 \in Minutes  BY WeekType DEF Minutes
<1>3. CASE d.mode # "window"  BY <1>1, <1>2, <1>3 DEF MinutesOf
<1>4. CASE d.mode = "window"
  <2>1. d.days \subseteq Day /\ d.days # {} /\ d.start \in Clock /\ d.duration \in 1..Week
    BY <1>4 DEF Schedule, DeclarationType
  <2>2. PICK day \in d.days : TRUE  BY <2>1
  <2>3. On(day, d.start) \in Int  BY <2>1, <2>2, WeekType DEF Day, Clock, On
  <2>4. On(day, d.start) % Week \in Minutes  BY <2>3, WeekType, DivMod DEF Minutes
  <2>5. On(day, d.start) % Week \in MinutesOf(d)
    <3>1. On(day, d.start) = day * DayLength + d.start + 0  BY <2>3 DEF On
    <3>2. 0 \in 0..d.duration - 1  BY <2>1, WeekType
    <3>. QED  BY <2>2, <2>4, <3>1, <3>2, <1>4 DEF MinutesOf
  <2>. QED  BY <2>5, <1>4 DEF MinutesOf
<1>. QED  BY <1>1, <1>3, <1>4

LEMMA OneChain ==
  ASSUME TypeOK, Cardinality(carries) <= 1
  PROVE  \E c : Chains = {c}
<1>1. CASE carries = {}  BY <1>1 DEF Chains
<1>2. CASE carries # {}
  <2>1. IsFiniteSet(carries)  BY ScheduleAssumption, FS_Subset DEF TypeOK
  <2>2. Cardinality(carries) = 1
    <3>1. Cardinality(carries) \in Nat  BY <2>1, FS_CardinalityType
    <3>2. Cardinality(carries) # 0  BY <1>2, <2>1, FS_EmptySet
    <3>. QED  BY <3>1, <3>2
  <2>3. PICK a : carries = {a}  BY <2>1, <2>2, FS_Singleton
  <2>. QED  BY <2>3 DEF Chains
<1>. QED  BY <1>1, <1>2

LEMMA AnswerType ==
  ASSUME TypeOK, ConfigInv
  PROVE  Combine \in Answer
<1>. DEFINE shared == {m \in Minutes : \A c \in Chains : m \in MinutesOf(ResolveChain(c))}
<1>0. {} # Minutes  BY WeekType DEF Minutes
<1>1. CASE Cardinality(carries) <= 1
  <2>1. PICK c : Chains = {c}  BY <1>1, OneChain
  <2>2. (CHOOSE e \in Chains : TRUE) = c  BY <2>1
  <2>3. ResolveChain(c) \in Schedule  BY <2>1, ResolvedType
  <2>4. shared = MinutesOf(ResolveChain(c))  BY <2>1, <2>3, ScheduleMinutes
  <2>5. Combine = [minutes |-> MinutesOf(ResolveChain(c)), mode |-> ResolveChain(c).mode]
    BY <1>1, <2>2, <2>4 DEF Combine
  <2>. QED  BY <2>3, <2>5, <1>0, ScheduleMinutes DEF Answer
<1>2. CASE ~(Cardinality(carries) <= 1)
  <2>1. Combine = [minutes |-> shared,
                   mode |-> IF shared = {} THEN "never"
                            ELSE IF shared = Minutes THEN "always" ELSE "window"]
    BY <1>2 DEF Combine
  <2>2. shared \subseteq Minutes  OBVIOUS
  <2>. HIDE DEF shared
  <2>. QED  BY <2>1, <2>2, <1>0 DEF Answer
<1>. QED  BY <1>1, <1>2

(* A window that is not the whole week has runs, and they begin where it   *)
(* is entered.                                                             *)
LEMMA RunsBegin ==
  ASSUME NEW M, M \subseteq Minutes, M # Minutes
  PROVE  /\ RunStarts(M) = {m \in M : (m - 1) % Week \notin M}
         /\ M # {} => RunStarts(M) # {}
<1>. DEFINE starts == {m \in M : m = 0 \/ m - 1 \notin M}
<1>1. RunStarts(M) = IF Week - 1 \in M /\ starts # {0} THEN starts \ {0} ELSE starts
  BY DEF RunStarts
<1>2. ASSUME Week - 1 \in M PROVE \E m \in starts : m # 0
  <2>1. Minutes \ M \subseteq 0..Week - 1 /\ Minutes \ M # {} /\ Week - 1 \in Nat
    <3>1. Minutes \ M # {}  OBVIOUS
    <3>2. Minutes \ M \subseteq 0..Week - 1  BY DEF Minutes
    <3>3. Week - 1 \in Nat  BY WeekType
    <3>. QED  BY <3>1, <3>2, <3>3
  <2>2. PICK x \in Minutes \ M : \A y \in Minutes \ M : y <= x  BY <2>1, Greatest
  <2>3. x + 1 \in Minutes /\ x + 1 # 0 /\ x + 1 > x /\ (x + 1) - 1 = x
    <3>1. x \in 0..Week - 1  BY <2>2 DEF Minutes
    <3>2. x # Week - 1  BY <2>2, <1>2
    <3>. QED  BY <3>1, <3>2, WeekType DEF Minutes
  <2>4. x + 1 \in M  BY <2>2, <2>3 DEF Minutes
  <2>. QED  BY <2>2, <2>3, <2>4
<1>3. ASSUME M # {} PROVE starts # {}
  <2>1. M \subseteq Nat  BY WeekType DEF Minutes
  <2>2. PICK x \in M : \A y \in M : x <= y  BY <1>3, <2>1, Least
  <2>3. x - 1 \notin M  BY <2>1, <2>2
  <2>. QED  BY <2>3
<1>4. \A m \in M : (m - 1) % Week = IF m = 0 THEN Week - 1 ELSE m - 1  BY Before
<1>5. RunStarts(M) = {m \in M : (m - 1) % Week \notin M}
  <2>1. CASE Week - 1 \in M  BY <2>1, <1>1, <1>2, <1>4
  <2>2. CASE Week - 1 \notin M  BY <2>2, <1>1, <1>4
  <2>. QED  BY <2>1, <2>2
<1>6. M # {} => RunStarts(M) # {}  BY <1>1, <1>2, <1>3
<1>. QED  BY <1>5, <1>6

LEMMA RunStartsType == ASSUME NEW M, M \subseteq Minutes PROVE RunStarts(M) \subseteq M
BY DEF RunStarts

(* ---- what is written on the guest ---- *)

LEMMA TimerElapses ==
  ASSUME NEW a \in Answer
  PROVE  /\ OnCalendarOf(a) \subseteq [at : Clock, days : SUBSET Day]
         /\ Elapses(OnCalendarOf(a)) \subseteq a.minutes
         /\ a.minutes # Minutes => Elapses(OnCalendarOf(a)) = RunStarts(a.minutes)
<1>. DEFINE starts == RunStarts(a.minutes)
<1>1. a.minutes \subseteq Minutes /\ starts \subseteq a.minutes
  BY RunStartsType DEF Answer
<1>2. CASE a.mode = "always"
  <2>1. a.minutes = Minutes  BY <1>2 DEF Answer
  <2>2. OnCalendarOf(a) = Hourly  BY <1>2 DEF OnCalendarOf
  <2>3. Hourly \subseteq [at : Clock, days : SUBSET Day]
    BY ScheduleAssumption DEF Hourly
  <2>4. Elapses(Hourly) \subseteq Minutes  BY DEF Elapses
  <2>. QED  BY <2>1, <2>2, <2>3, <2>4
<1>3. CASE a.mode # "always"
  <2>. DEFINE Line(m) == [at |-> At(m), days |-> {d \in Day : On(d, At(m)) \in starts}]
  <2>1. OnCalendarOf(a) = {Line(m) : m \in starts}  BY <1>3 DEF OnCalendarOf
  <2>2. \A m \in starts : Line(m) \in [at : Clock, days : SUBSET Day]
    BY <1>1, OnAt
  <2>3. ASSUME NEW m \in Minutes
        PROVE  m \in Elapses(OnCalendarOf(a)) <=> m \in starts
    <3>1. ASSUME NEW n \in starts, NEW d \in Line(n).days, m = On(d, Line(n).at)
          PROVE  m \in starts
      BY <3>1
    <3>2. ASSUME m \in starts PROVE \E d \in Line(m).days : m = On(d, Line(m).at)
      <4>1. DayOf(m) \in Day /\ On(DayOf(m), At(m)) = m  BY OnAt
      <4>. QED  BY <4>1, <3>2
    <3>. HIDE DEF Line, starts
    <3>. QED  BY <2>1, <3>1, <3>2 DEF Elapses
  <2>4. Elapses(OnCalendarOf(a)) \subseteq Minutes  BY DEF Elapses
  <2>. HIDE DEF Line
  <2>5. Elapses(OnCalendarOf(a)) = starts  BY <2>3, <2>4, <1>1
  <2>. QED  BY <1>1, <2>1, <2>2, <2>5
<1>. QED  BY <1>2, <1>3

(* The cron, and the mode in which Watchtower only tells.                  *)
LEMMA CronPolls ==
  ASSUME NEW a \in Answer
  PROVE  /\ CronOf(a) \in [times : SUBSET Clock, days : SUBSET Day]
         /\ WatchtowerOf(a) \in [cron : [times : SUBSET Clock, days : SUBSET Day],
                                 monitor_only : BOOLEAN]
         /\ ~WatchtowerOf(a).monitor_only => Polls(WatchtowerOf(a)) \subseteq a.minutes
<1>. DEFINE starts == RunStarts(a.minutes)
            first == {CHOOSE m \in starts : \A s \in starts : m <= s}
            opens == IF \A m, s \in starts : At(m) = At(s) THEN starts ELSE first
<1>1. /\ a.minutes \subseteq Minutes /\ starts \subseteq a.minutes
      /\ Minutes \subseteq Nat
  BY RunStartsType, WeekType DEF Answer, Minutes
<1>2. WatchtowerOf(a) = [cron |-> CronOf(a), monitor_only |-> a.mode = "never"]
  BY DEF WatchtowerOf
<1>3. Polls(WatchtowerOf(a)) = {m \in Minutes : \E d \in CronOf(a).days, t \in CronOf(a).times : m = On(d, t)}
  BY <1>2 DEF Polls
<1>4. CASE a.mode = "always"
  <2>1. CronOf(a) = [times |-> FullHours, days |-> Day]  BY <1>4 DEF CronOf
  <2>2. a.minutes = Minutes  BY <1>4 DEF Answer
  <2>. QED  BY <1>2, <1>3, <1>4, <2>1, <2>2, ScheduleAssumption
<1>5. CASE a.mode # "always" /\ starts = {}
  <2>1. CronOf(a) = [times |-> {Four}, days |-> Day]  BY <1>5 DEF CronOf
  <2>2. a.mode # "never" => a.minutes = Minutes
    <3>1. a.mode # "never" => a.minutes # {}  BY DEF Answer
    <3>. QED  BY <3>1, <1>1, <1>5, RunsBegin
  <2>3. CronOf(a) \in [times : SUBSET Clock, days : SUBSET Day]  BY <2>1, ScheduleAssumption
  <2>4. Polls(WatchtowerOf(a)) \subseteq Minutes  BY <1>3
  <2>5. WatchtowerOf(a) \in [cron : [times : SUBSET Clock, days : SUBSET Day],
                             monitor_only : BOOLEAN]
    BY <1>2, <2>3
  <2>6. WatchtowerOf(a).monitor_only <=> a.mode = "never"  BY Zenon DEF WatchtowerOf
  <2>. QED  BY <2>2, <2>3, <2>4, <2>5, <2>6
<1>6. CASE a.mode # "always" /\ starts # {}
  <2>1. CronOf(a) = [times |-> {At(m) : m \in opens}, days |-> {DayOf(m) : m \in opens}]
    BY <1>6 DEF CronOf
  <2>2. first \subseteq starts
    <3>1. starts \subseteq Nat  BY <1>1
    <3>. HIDE DEF starts
    <3>2. \E m \in starts : \A s \in starts : m <= s  BY <3>1, <1>6, Least
    <3>3. (CHOOSE m \in starts : \A s \in starts : m <= s) \in starts  BY <3>2, Zenon
    <3>. QED  BY <3>3
  <2>3. opens \subseteq starts /\ \A m, n \in opens : At(m) = At(n)
    <3>1. CASE \A m, s \in starts : At(m) = At(s)  BY <3>1
    <3>2. CASE ~(\A m, s \in starts : At(m) = At(s))  BY <3>2, <2>2
    <3>. QED  BY <3>1, <3>2
  <2>. HIDE DEF opens, starts
  <2>4. \A m \in opens : m \in Minutes /\ m \in a.minutes  BY <2>3, <1>1
  <2>5. \A m \in opens : At(m) \in Clock /\ DayOf(m) \in Day  BY <2>4, OnAt
  <2>6. \A m, n \in opens : On(DayOf(m), At(n)) = m
    <3>1. SUFFICES ASSUME NEW m \in opens, NEW n \in opens PROVE On(DayOf(m), At(n)) = m
      OBVIOUS
    <3>2. At(n) = At(m)  BY <2>3
    <3>3. On(DayOf(m), At(m)) = m  BY <2>4, OnAt
    <3>. QED  BY <3>2, <3>3
  <2>7. CronOf(a) \in [times : SUBSET Clock, days : SUBSET Day]  BY <2>1, <2>5
  <2>8. Polls(WatchtowerOf(a)) \subseteq a.minutes
    <3>1. SUFFICES ASSUME NEW m \in opens, NEW n \in opens
                   PROVE  On(DayOf(m), At(n)) \in a.minutes
      BY <1>3, <2>1
    <3>. QED  BY <2>4, <2>6
  <2>. QED  BY <1>2, <2>7, <2>8
<1>. QED  BY <1>4, <1>5, <1>6

(* ---- the invariant is inductive ---- *)

LEMMA InitInv == Init => ScheduleInv
<1>. SUFFICES ASSUME Init PROVE ScheduleInv  OBVIOUS
<1>1. \A l \in Layers : declared[l] \in Choices[l]  BY DEF Init
<1>2. declared \in [Layers -> DeclarationType]
  <2>1. declared \in [Layers -> UNION {Choices[l] : l \in Layers}]  BY DEF Init
  <2>. QED  BY <2>1, <1>1, ScheduleAssumption
<1>3. 0 \in Minutes /\ 0 \in 0..MaxChanges
  BY WeekType, ScheduleAssumption DEF Minutes
<1>4. TypeOK  BY <1>2, <1>3, ScheduleAssumption DEF Init, TypeOK
<1>5. WrittenInv /\ RunningInv /\ DisruptedInv
  BY DEF Init, WrittenInv, RunningInv, DisruptedInv
<1>. QED  BY <1>1, <1>4, <1>5 DEF ScheduleInv, ConfigInv

LEMMA ConfigStands == UNCHANGED config => Combine' = Combine
BY DEF config, Combine, Chains, ResolveChain, Declares

(* A change of the configuration leaves nothing that is said to be of it.  *)
LEMMA ChangedInv ==
  ASSUME ScheduleInv, Changed, declared' \in [Layers -> DeclarationType],
         \A l \in Layers : declared'[l] \in Choices[l], carries' \subseteq Apps
  PROVE  ScheduleInv'
<1>1. changes' \in 0..MaxChanges  BY ScheduleAssumption DEF Changed, ScheduleInv, TypeOK
<1>2. /\ UNCHANGED <<clock, up, need, timer, opened, watch, polling>>
      /\ exact' = {} /\ disrupted' = "no"
      /\ job' = IF job = Idle THEN Idle ELSE [job EXCEPT !.current = FALSE]
  BY DEF Changed, guest
<1>3. TypeOK'  BY <1>1, <1>2 DEF ScheduleInv, TypeOK, Idle
<1>4. ConfigInv'  BY DEF ConfigInv
<1>5. WrittenInv'
  <2>1. job' # Idle => job # Idle /\ job'.answer = job.answer /\ ~job'.current
    BY <1>2 DEF ScheduleInv, TypeOK, Idle
  <2>2. job' # Idle => job'.answer \in Answer  BY <2>1 DEF ScheduleInv, WrittenInv
  <2>. QED  BY <1>2, <2>1, <2>2 DEF WrittenInv
<1>6. RunningInv'
  BY <1>2 DEF ScheduleInv, RunningInv, Elapses, Polls, Since
<1>7. DisruptedInv'  BY <1>2 DEF DisruptedInv
<1>. QED  BY <1>3, <1>4, <1>5, <1>6, <1>7 DEF ScheduleInv

LEMMA WrittenStands ==
  ASSUME WrittenInv, UNCHANGED config, UNCHANGED <<timer, watch, exact>>,
         job' # Idle => job # Idle /\ job'.answer = job.answer /\ job'.current = job.current
  PROVE  WrittenInv'
BY ConfigStands DEF WrittenInv

LEMMA RunningStands ==
  ASSUME RunningInv, UNCHANGED <<timer, watch, clock>>,
         opened' \in {opened, NoOpening}, polling' => polling
  PROVE  RunningInv'
BY DEF RunningInv, Elapses, Polls, Since

(* The steps of the job.                                                   *)
LEMMA JobInv ==
  ASSUME ScheduleInv, Survey \/ Ask \/ ApplyTimer \/ ApplyWatchtower \/ ApplyFails \/ ForceReboot
  PROVE  ScheduleInv'
<1>. USE DEF ScheduleInv
<1>1. Combine \in Answer /\ (UNCHANGED config => Combine' = Combine)
  BY AnswerType, ConfigStands
<1>2. CASE Survey
  <2>1. UNCHANGED config /\ UNCHANGED guest /\ UNCHANGED <<clock, timer, watch, exact>>
    BY <1>2 DEF Survey
  <2>2. job' = [pc |-> "ask", answer |-> Combine, current |-> TRUE, wants |-> FALSE]
        /\ disrupted' = "no"
    BY <1>2 DEF Survey
  <2>3. TypeOK'  BY <1>1, <2>1, <2>2 DEF TypeOK, config, guest, Answer
  <2>4. ConfigInv'  BY <2>1 DEF ConfigInv, config
  <2>5. WrittenInv'  BY <1>1, <2>1, <2>2 DEF WrittenInv
  <2>6. RunningInv'  BY <2>1, RunningStands DEF guest
  <2>. QED  BY <2>2, <2>3, <2>4, <2>5, <2>6 DEF DisruptedInv
<1>3. CASE Ask \/ ApplyFails
  <2>1. /\ UNCHANGED config /\ UNCHANGED guest /\ UNCHANGED <<clock, timer, watch, exact>>
        /\ disrupted' = "no" /\ job # Idle
    BY <1>3 DEF Ask, ApplyFails, Idle
  <2>2. job' # Idle => /\ job' \in [pc : {"timer"}, current : {job.current}, wants : BOOLEAN,
                                    answer : {job.answer}]
    BY <1>3, <2>1 DEF Ask, ApplyFails, TypeOK
  <2>3. TypeOK'  BY <2>1, <2>2 DEF TypeOK, config, guest
  <2>4. ConfigInv'  BY <2>1 DEF ConfigInv, config
  <2>5. WrittenInv'  BY <2>1, <2>2, WrittenStands
  <2>6. RunningInv'  BY <2>1, RunningStands DEF guest
  <2>. QED  BY <2>1, <2>3, <2>4, <2>5, <2>6 DEF DisruptedInv
<1>4. CASE ApplyTimer
  <2>1. /\ UNCHANGED config /\ UNCHANGED <<clock, up, need, watch, polling>>
        /\ disrupted' = "no" /\ job # Idle /\ job' = [job EXCEPT !.pc = "watch"]
    BY <1>4 DEF ApplyTimer, Idle
  <2>2. CASE ~up
    <3>1. UNCHANGED <<timer, opened, exact>>  BY <1>4, <2>2 DEF ApplyTimer
    <3>2. TypeOK'  BY <2>1, <3>1 DEF TypeOK, config
    <3>3. WrittenInv'  BY <2>1, <3>1, WrittenStands DEF TypeOK
    <3>4. RunningInv'  BY <2>1, <3>1, RunningStands
    <3>. QED  BY <2>1, <3>2, <3>3, <3>4 DEF DisruptedInv, ConfigInv, config
  <2>3. CASE up
    <3>1. /\ timer' = OnCalendarOf(job.answer)
          /\ opened' \in {NoOpening} \cup ({opened} \cap Elapses(timer'))
          /\ exact' = IF job.current THEN exact \cup {"timer"} ELSE exact \ {"timer"}
      BY <1>4, <2>3 DEF ApplyTimer, Wrote
    <3>2. job.answer \in Answer  BY <2>1 DEF WrittenInv
    <3>3. timer' \subseteq [at : Clock, days : SUBSET Day]  BY <3>1, <3>2, TimerElapses
    <3>4. TypeOK'  BY <2>1, <3>1, <3>3 DEF TypeOK, config
    <3>5. WrittenInv'
      <4>1. job' # Idle => job'.answer = job.answer /\ job'.current = job.current
        BY <2>1 DEF TypeOK
      <4>2. UNCHANGED watch /\ Combine' = Combine  BY <1>1, <2>1
      <4>. QED  BY <2>1, <3>1, <4>1, <4>2 DEF WrittenInv
    <3>6. RunningInv'
      <4>1. opened' # NoOpening => opened' = opened /\ opened' \in Elapses(timer')
        BY <3>1
      <4>. QED  BY <2>1, <4>1 DEF RunningInv, Elapses, Polls, Since
    <3>. QED  BY <2>1, <3>4, <3>5, <3>6 DEF DisruptedInv, ConfigInv, config
  <2>. QED  BY <2>2, <2>3
<1>5. CASE ApplyWatchtower
  <2>1. /\ UNCHANGED config /\ UNCHANGED <<clock, up, need, timer, opened>>
        /\ disrupted' = "no" /\ job # Idle /\ job' = [job EXCEPT !.pc = "reboot"]
    BY <1>5 DEF ApplyWatchtower, Idle
  <2>2. CASE ~up
    <3>1. UNCHANGED <<watch, polling, exact>>  BY <1>5, <2>2 DEF ApplyWatchtower
    <3>2. TypeOK'  BY <2>1, <3>1 DEF TypeOK, config
    <3>3. WrittenInv'  BY <2>1, <3>1, WrittenStands DEF TypeOK
    <3>4. RunningInv'  BY <2>1, <3>1, RunningStands
    <3>. QED  BY <2>1, <3>2, <3>3, <3>4 DEF DisruptedInv, ConfigInv, config
  <2>3. CASE up
    <3>1. /\ watch' = WatchtowerOf(job.answer) /\ polling' = (polling /\ watch' = watch)
          /\ exact' = IF job.current THEN exact \cup {"watch"} ELSE exact \ {"watch"}
      BY <1>5, <2>3 DEF ApplyWatchtower, Wrote
    <3>2. job.answer \in Answer  BY <2>1 DEF WrittenInv
    <3>3. watch' \in [cron : [times : SUBSET Clock, days : SUBSET Day], monitor_only : BOOLEAN]
      BY <3>1, <3>2, CronPolls
    <3>4. polling' \in BOOLEAN /\ (polling' => polling /\ watch' = watch)  BY <3>1
    <3>5. TypeOK'  BY <2>1, <3>1, <3>3, <3>4 DEF TypeOK, config
    <3>6. WrittenInv'
      <4>1. job' # Idle => job'.answer = job.answer /\ job'.current = job.current
        BY <2>1 DEF TypeOK
      <4>2. UNCHANGED timer /\ Combine' = Combine  BY <1>1, <2>1
      <4>. QED  BY <2>1, <3>1, <4>1, <4>2 DEF WrittenInv
    <3>7. RunningInv'
      BY <2>1, <3>4 DEF RunningInv, Elapses, Polls, Since
    <3>. QED  BY <2>1, <3>5, <3>6, <3>7 DEF DisruptedInv, ConfigInv, config
  <2>. QED  BY <2>2, <2>3
<1>6. CASE ForceReboot
  <2>1. /\ UNCHANGED config /\ UNCHANGED <<clock, timer, watch, exact, up>>
        /\ job' = Idle /\ disrupted' \in {"no", "forced"}
        /\ need' \in {need, "no"} /\ opened' \in {opened, NoOpening}
        /\ polling' \in BOOLEAN /\ (polling' => polling)
    <3>1. /\ UNCHANGED config /\ UNCHANGED <<clock, timer, watch, exact>>
          /\ job' = Idle /\ polling \in BOOLEAN
      BY <1>6 DEF ForceReboot, TypeOK
    <3>2. CASE Boots /\ disrupted' = "forced" /\ UNCHANGED up
      BY <3>1, <3>2 DEF Boots
    <3>3. CASE disrupted' = "no" /\ UNCHANGED guest
      BY <3>1, <3>3 DEF guest
    <3>. QED  BY <1>6, <3>2, <3>3 DEF ForceReboot
  <2>2. TypeOK'  BY <2>1 DEF TypeOK, config
  <2>3. WrittenInv'  BY <2>1, WrittenStands
  <2>4. RunningInv'  BY <2>1, RunningStands
  <2>. QED  BY <2>1, <2>2, <2>3, <2>4 DEF DisruptedInv, ConfigInv, config
<1>. QED  BY <1>2, <1>3, <1>4, <1>5, <1>6

(* The steps of the guest.                                                 *)
LEMMA PowerInv ==
  ASSUME ScheduleInv, Upgrade \/ PowerOff \/ PowerOn
  PROVE  ScheduleInv'
<1>. USE DEF ScheduleInv
<1>1. /\ UNCHANGED config /\ UNCHANGED <<clock, timer, watch, job, exact>>
      /\ disrupted' = "no" /\ up' \in BOOLEAN
      /\ need' \in {"no", "services", "reboot"} /\ opened' \in {opened, NoOpening}
      /\ polling' \in BOOLEAN /\ (polling' => polling)
  <2>1. CASE Upgrade  BY <2>1 DEF Upgrade, TypeOK
  <2>2. CASE PowerOff  BY <2>2 DEF PowerOff, Boots, TypeOK
  <2>3. CASE PowerOn  BY <2>3 DEF PowerOn, TypeOK
  <2>. QED  BY <2>1, <2>2, <2>3
<1>2. TypeOK'  BY <1>1 DEF TypeOK, config
<1>3. WrittenInv'  BY <1>1, WrittenStands
<1>4. RunningInv'  BY <1>1, RunningStands
<1>. QED  BY <1>1, <1>2, <1>3, <1>4 DEF DisruptedInv, ConfigInv, config

(* The delay is counted from the opening, a minute for a minute.           *)
LEMMA TickInv ==
  ASSUME ScheduleInv, Tick
  PROVE  ScheduleInv'
<1>. USE DEF ScheduleInv
<1>1. /\ UNCHANGED config /\ UNCHANGED <<up, need, timer, watch, job, exact>>
      /\ clock' = (clock + 1) % Week /\ disrupted' = "no"
  BY DEF Tick
<1>2. clock' \in Minutes
  <2>1. clock + 1 \in Int  BY WeekType DEF TypeOK, Minutes
  <2>. QED  BY <1>1, <2>1, WeekType, DivMod DEF Minutes
<1>3. /\ opened' \in {opened, clock'} /\ polling' \in BOOLEAN
      /\ opened' # opened => opened' \in Elapses(timer')
      /\ polling' => clock' \in Polls(watch')
  BY <1>1 DEF Tick, TypeOK, Elapses, Polls
<1>4. TypeOK'  BY <1>1, <1>2, <1>3 DEF TypeOK, config
<1>5. WrittenInv'  BY <1>1, WrittenStands
<1>6. ASSUME opened' # NoOpening PROVE opened' \in Elapses(timer') /\ (clock' - opened') % Week <= Delay
  <2>1. CASE opened' # opened
    <3>1. clock' - opened' = Week * 0 + 0  BY <1>2, <1>3, <2>1, WeekType DEF Minutes
    <3>2. (clock' - opened') % Week = 0
      <4>1. clock' - opened' \in Int /\ 0 \in 0..Week - 1
        BY <1>2, <1>3, <2>1, WeekType DEF Minutes
      <4>. QED  BY <3>1, <4>1, WeekType, SameRemainder
    <3>. QED  BY <1>3, <2>1, <3>2, ScheduleAssumption
  <2>2. CASE opened' = opened
    <3>1. opened \in Minutes /\ (clock - opened) % Week < Delay /\ opened \in Elapses(timer)
      BY <2>2, <1>6 DEF Tick, Since, TypeOK, RunningInv
    <3>2. (clock' - opened) % Week <= ((clock - opened) % Week) + 1
      BY <1>1, <3>1, OneLater DEF TypeOK
    <3>3. (clock - opened) % Week \in Int /\ (clock' - opened) % Week \in Int
      BY <3>1, <1>2, WeekType, DivMod DEF TypeOK, Minutes
    <3>. QED  BY <1>1, <2>2, <3>1, <3>2, <3>3, ScheduleAssumption DEF Elapses
  <2>. QED  BY <2>1, <2>2
<1>7. RunningInv'  BY <1>3, <1>6 DEF RunningInv, Since
<1>. QED  BY <1>1, <1>4, <1>5, <1>7 DEF DisruptedInv, ConfigInv, config

(* What interrupts the guest interrupts it inside the answer's minutes.    *)
LEMMA ServeInv ==
  ASSUME ScheduleInv, Serve
  PROVE  ScheduleInv'
<1>. USE DEF ScheduleInv
<1>1. /\ UNCHANGED config /\ UNCHANGED <<clock, up, timer, watch, job, exact>>
      /\ opened # NoOpening /\ opened' = NoOpening
      /\ disrupted' \in {"no", "timer"} /\ need' \in {"no", need}
      /\ polling' \in BOOLEAN /\ (polling' => polling)
  BY DEF Serve, Boots, TypeOK
<1>2. TypeOK'  BY <1>1 DEF TypeOK, config
<1>3. WrittenInv'  BY <1>1, WrittenStands
<1>4. RunningInv'  BY <1>1, RunningStands
<1>5. ASSUME "timer" \in exact'
      PROVE  \E k \in 0..Delay : (clock' - k) % Week \in Combine'.minutes
  <2>1. timer = OnCalendarOf(Combine) /\ Combine \in Answer
    BY <1>1, <1>5, AnswerType DEF WrittenInv
  <2>2. opened \in Combine.minutes  BY <1>1, <2>1, TimerElapses DEF RunningInv
  <2>3. opened \in Minutes /\ clock \in Minutes  BY <1>1 DEF TypeOK
  <2>4. (clock - opened) % Week <= Delay  BY <1>1 DEF RunningInv, Since
  <2>5. (clock - opened) % Week \in 0..Week - 1
    BY <2>3, WeekType, DivMod DEF Minutes
  <2>6. (clock - opened) % Week \in 0..Delay  BY <2>4, <2>5, WeekType, ScheduleAssumption
  <2>7. (clock - ((clock - opened) % Week)) % Week = opened  BY <2>3, Ago
  <2>8. Combine' = Combine /\ clock' = clock  BY <1>1, ConfigStands
  <2>. QED  BY <2>2, <2>6, <2>7, <2>8
<1>6. DisruptedInv'  BY <1>1, <1>5 DEF DisruptedInv
<1>. QED  BY <1>1, <1>2, <1>3, <1>4, <1>6 DEF ConfigInv, config

LEMMA PollInv ==
  ASSUME ScheduleInv, Poll
  PROVE  ScheduleInv'
<1>. USE DEF ScheduleInv
<1>1. /\ UNCHANGED config
      /\ UNCHANGED <<clock, up, need, opened, timer, watch, job, exact>>
      /\ polling /\ polling' = FALSE /\ disrupted' \in {"no", "watch"}
      /\ disrupted' = "watch" => ~watch.monitor_only
  BY DEF Poll
<1>2. TypeOK'  BY <1>1 DEF TypeOK, config
<1>3. WrittenInv'  BY <1>1, WrittenStands
<1>4. RunningInv'  BY <1>1, RunningStands
<1>5. ASSUME disrupted' = "watch", "watch" \in exact' PROVE clock' \in Combine'.minutes
  <2>1. watch = WatchtowerOf(Combine) /\ Combine \in Answer
    BY <1>1, <1>5, AnswerType DEF WrittenInv
  <2>2. Polls(watch) \subseteq Combine.minutes  BY <1>1, <1>5, <2>1, CronPolls
  <2>3. clock \in Polls(watch)  BY <1>1 DEF RunningInv
  <2>. QED  BY <1>1, <2>2, <2>3, ConfigStands
<1>6. DisruptedInv'  BY <1>1, <1>5 DEF DisruptedInv
<1>. QED  BY <1>1, <1>2, <1>3, <1>4, <1>6 DEF ConfigInv, config

LEMMA ConfigurationInv ==
  ASSUME ScheduleInv, Edit \/ Deploy \/ Withdraw
  PROVE  ScheduleInv'
<1>. USE DEF ScheduleInv
<1>1. Changed  BY DEF Edit, Deploy, Withdraw
<1>2. carries' \subseteq Apps  BY DEF Edit, Deploy, Withdraw, TypeOK
<1>3. CASE Edit
  <2>1. PICK l \in Layers : \E d \in Choices[l] : declared' = [declared EXCEPT ![l] = d]
    BY <1>3 DEF Edit
  <2>2. PICK d \in Choices[l] : declared' = [declared EXCEPT ![l] = d]  BY <2>1
  <2>3. d \in DeclarationType  BY <2>2, ScheduleAssumption
  <2>. QED  BY <1>1, <1>2, <2>2, <2>3, ChangedInv DEF TypeOK, ConfigInv
<1>4. CASE UNCHANGED declared
  BY <1>1, <1>2, <1>4, ChangedInv DEF TypeOK, ConfigInv
<1>. QED  BY <1>3, <1>4 DEF Deploy, Withdraw

LEMMA StepInv == ScheduleInv /\ [Next]_vars => ScheduleInv'
<1>. SUFFICES ASSUME ScheduleInv, [Next]_vars PROVE ScheduleInv'  OBVIOUS
<1>1. CASE Edit \/ Deploy \/ Withdraw  BY <1>1, ConfigurationInv
<1>2. CASE Survey \/ Ask \/ ApplyTimer \/ ApplyWatchtower \/ ApplyFails \/ ForceReboot
  BY <1>2, JobInv
<1>3. CASE Upgrade \/ PowerOff \/ PowerOn  BY <1>3, PowerInv
<1>4. CASE Tick  BY <1>4, TickInv
<1>5. CASE Serve  BY <1>5, ServeInv
<1>6. CASE Poll  BY <1>6, PollInv
<1>7. CASE UNCHANGED vars
  <2>1. /\ UNCHANGED config /\ UNCHANGED <<clock, timer, watch, exact, opened, polling, job>>
        /\ UNCHANGED <<up, need, disrupted, declared, carries, changes>>
    BY <1>7 DEF vars, config
  <2>2. TypeOK'  BY <2>1 DEF ScheduleInv, TypeOK
  <2>3. WrittenInv'  BY <2>1, WrittenStands DEF ScheduleInv
  <2>4. RunningInv'  BY <2>1, RunningStands DEF ScheduleInv
  <2>5. DisruptedInv'  BY <2>1, ConfigStands DEF ScheduleInv, DisruptedInv
  <2>. QED  BY <2>1, <2>2, <2>3, <2>4, <2>5 DEF ScheduleInv, ConfigInv
<1>. QED  BY <1>1, <1>2, <1>3, <1>4, <1>5, <1>6, <1>7 DEF Next

(* ---- theorems ---- *)

(* Every reachable state has the types, and every answer, timer, cron and  *)
(* delay is what the resolver says of the configuration it was read from.  *)
THEOREM Invariant == Spec => []ScheduleInv
BY InitInv, StepInv, PTL DEF Spec

(* Declarations, the timer's lines and the cron are well formed whatever   *)
(* is edited, deployed or removed, and whenever the job runs.              *)
THEOREM Typed == Spec => []TypeOK
<1>1. ScheduleInv => TypeOK  BY DEF ScheduleInv
<1>. QED  BY <1>1, Invariant, PTL

(* A timer of the present configuration elapses when the time that every   *)
(* application on the guest allows begins, and at no other minute, for     *)
(* windows of every length that start on any day at any time.              *)
THEOREM OpeningsAreMarked == Spec => []TimerMarksOpenings
<1>1. ASSUME ScheduleInv PROVE TimerMarksOpenings
  <2>. SUFFICES ASSUME "timer" \in exact, NEW n \in Minutes, ~Allowed(n)
                PROVE  Elapses(timer) = {m \in Minutes : Allowed(m) /\ ~Allowed((m - 1) % Week)}
    BY DEF TimerMarksOpenings
  <2>. DEFINE M == Combine.minutes
  <2>1. Combine \in Answer /\ timer = OnCalendarOf(Combine)
    BY <1>1, AnswerType DEF ScheduleInv, WrittenInv
  <2>2. \A m \in Minutes : m \in M <=> Allowed(m)
    BY <1>1, AnswerIsAllowed DEF ScheduleInv
  <2>3. M \subseteq Minutes /\ M # Minutes  BY <2>1, <2>2 DEF Answer
  <2>4. Elapses(timer) = RunStarts(M)  BY <2>1, <2>3, TimerElapses
  <2>5. RunStarts(M) = {m \in M : (m - 1) % Week \notin M}  BY <2>3, RunsBegin
  <2>6. \A m \in Minutes : (m - 1) % Week \in Minutes
    BY WeekType, DivMod DEF Minutes
  <2>. HIDE DEF M
  <2>. QED  BY <2>2, <2>3, <2>4, <2>5, <2>6
<1>. QED  BY <1>1, Invariant, PTL

(* What the timer or Watchtower interrupts, while they are of the present  *)
(* configuration, is interrupted in the time that every application on the *)
(* guest allows, or in the timer's delay after it.                         *)
THEOREM DisruptionsAreInside == Spec => []DisruptsInsideEveryWindow
<1>1. ASSUME ScheduleInv PROVE DisruptsInsideEveryWindow
  <2>1. clock \in Minutes /\ Combine.minutes \subseteq Minutes
    BY <1>1, AnswerType DEF ScheduleInv, TypeOK, Answer
  <2>2. \A m \in Minutes : m \in Combine.minutes <=> Allowed(m)
    BY <1>1, AnswerIsAllowed DEF ScheduleInv
  <2>3. \A m \in Combine.minutes : Allowed(m)  BY <2>1, <2>2
  <2>. QED  BY <1>1, <2>3 DEF ScheduleInv, DisruptedInv, DisruptsInsideEveryWindow
<1>. QED  BY <1>1, Invariant, PTL
=============================================================================

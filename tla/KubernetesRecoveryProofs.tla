--------------------- MODULE KubernetesRecoveryProofs ---------------------
(* Proofs about the recovery of an application on Kubernetes, for any      *)
(* Deployments, parts, number of writes and of troubles: type correctness; *)
(* that no pod runs on a state that a restore has left half replaced, for  *)
(* any backup Jobs; and, for one Job, that every recovery point is whole.  *)
EXTENDS KubernetesRecovery, SequenceTheorems, TLAPS

(* What a pod has still to do is named after Deployments, but for the      *)
(* upload's, which are parts.                                              *)
Working ==
    \A j \in Jobs :
        /\ pod[j].at # "push" => pod[j].todo \subseteq Deployments
        /\ pod[j].at = "push" => pod[j].todo \subseteq Parts

-----------------------------------------------------------------------------
(* The inductive invariant                                                 *)

Restored(d) == mark[d] \in RestoreMarks
AllMarked   == \A d \in Deployments : Restored(d)
SomeMarked  == \E d \in Deployments : Restored(d)
Stopped     == \A d \in Deployments : replicas[d] = 0
Replacing   == job.at \in {"stage", "replace"}

(* The play has done, but perhaps for noticing it, and leaves no mark.     *)
Through == play.at = "idle" \/ (play.at = "clear" /\ play.todo = {} /\ ~play.failed)

(* What is restored is whole, and what the Job has filled is what it was   *)
(* given.                                                                  *)
JobInv ==
    /\ Whole(play.point) /\ Whole(job.point)
    /\ job.at = "stage" => job.left = Parts
    /\ job.at # "replace" => job.filling = {}
    /\ job.filling \cap job.left = {}
    /\ \A p, q \in job.filling : p = q
    /\ job.at = "replace" /\ play.at = "job" =>
          \A p \in Parts \ (job.left \cup job.filling) : data[p] = job.point[p]
    /\ play.at = "job" /\ job.at = "complete" => Whole(data)

(* While a target is not whole, or may soon not be, it carries the         *)
(* restore's marks on every Deployment and stays stopped, unless the       *)
(* operator has accepted it.                                               *)
HeldInv ==
    Replacing \/ ~Whole(data) =>
        /\ AllMarked /\ play.at \notin {"start", "back", "clear"}
        /\ ~accepted => Stopped /\ running = {}

(* What the play has stopped stays stopped, and what it starts is whole.   *)
TargetInv ==
    /\ play.at = "stop" /\ ~play.failed => \A d \in Deployments \ play.todo : replicas[d] = 0
    /\ play.at = "gone" => Stopped
    /\ play.at \in {"run", "job"} => Stopped /\ running = {}
    /\ play.at \in {"start", "back", "clear"} => Whole(data) /\ job.at = "complete"

(* The marks the play goes by.  Until it is through, they keep every       *)
(* backup out.                                                             *)
MarkInv ==
    /\ play.at = "mark" => \A j \in Jobs : At(j, "idle")
    /\ play.at = "mark" /\ ~play.failed => \A d \in Deployments \ play.todo : Restored(d)
    /\ play.at \in {"stop", "gone", "run", "job", "start", "back"} => AllMarked
    /\ play.at = "clear" => \A d \in play.todo : Restored(d)
    /\ play.at = "clear" /\ play.failed => \E d \in Deployments \ play.todo : Restored(d)
    /\ play.at \in {"clear", "markFailed", "keepStopped"} /\ ~Through =>
          SomeMarked /\ \A d \in Deployments : mark[d] # Quiesced

(* A backup that acts on the application has seen that no restore does: a  *)
(* mark that is on when its check begins is not missed.                    *)
BackupInv ==
    \A j \in Jobs :
        /\ pod[j].at = "check" =>
              /\ SomeMarked => \E d \in pod[j].todo : Restored(d)
              /\ play.at \in {"stop", "gone", "run", "job", "start", "back", "clear"} =>
                    \A d \in Deployments \ pod[j].todo : ~Restored(d)
        /\ pod[j].at = "verify" /\ pod[j].todo # Deployments =>
              Through /\ \A d \in Deployments \ pod[j].todo : ~Restored(d)
        /\ pod[j].at \notin {"idle", "check", "verify"} => Through /\ ~SomeMarked

RestoreInv == JobInv /\ HeldInv /\ TargetInv /\ MarkInv /\ BackupInv

(* What a backup has stopped stays stopped until it has uploaded all: the  *)
(* part of the invariant that another backup beside it would break.        *)
UploadInv ==
    \A j \in Jobs :
        /\ pod[j].at = "down" => \A d \in Deployments \ pod[j].todo : replicas[d] = 0
        /\ pod[j].at = "zero" => Stopped
        /\ pod[j].at \in {"dump", "push", "prune"} => Stopped /\ running = {}
        /\ pod[j].at = "push" => \A p \in Parts \ pod[j].todo : pod[j].got[p] = data[p]
-----------------------------------------------------------------------------
(* What the records are and how they change                                *)

LEMMA Bounds == MaxWrites \in Nat /\ MaxTroubles \in Nat
  BY BoundsAssumption

LEMMA Records ==
    /\ \A v \in Versions : State(v) \in [Parts -> Versions]
    /\ Torn \in Versions /\ 0 \in Versions
    /\ NoPod \in Pods /\ NoPod.at = "idle" /\ NoPod.todo = {}
    /\ NoPlay \in Plays /\ NoPlay.at = "idle" /\ NoPlay.point = State(0)
    /\ NoJob \in RestoreJobs
<1>1. Torn \in Versions /\ 0 \in Versions
  BY BoundsAssumption DEF Torn, Versions
<1>2. \A v \in Versions : State(v) \in [Parts -> Versions]
  BY DEF State
<1> QED BY <1>1, <1>2 DEF NoPod, Pods, NoPlay, Plays, NoJob, RestoreJobs

(* A backup pod's next place in its script, and what it has to do there.   *)
Moved(j, at, todo) ==
    /\ pod' \in [Jobs -> Pods] /\ pod'[j].at = at /\ pod'[j].todo = todo
    /\ \A i \in Jobs \ {j} : pod'[i] = pod[i]
    /\ IF at = "push" THEN todo \subseteq Parts ELSE todo \subseteq Deployments

(* It ends, or resumes the application after its trap.                     *)
Left(j) == Moved(j, "idle", {}) \/ Moved(j, "verify", Deployments)

LEMMA Becoming ==
    ASSUME pod \in [Jobs -> Pods], NEW j \in Jobs, NEW at, NEW todo, Becomes(j, at, todo),
           at \in {"check", "mark", "down", "zero", "dump", "push", "verify", "up", "wait", "clear"},
           IF at = "push" THEN todo \subseteq Parts ELSE todo \subseteq Deployments
    PROVE  Moved(j, at, todo)
  BY DEF Becomes, Moved, Pods

LEMMA Leaving ==
    ASSUME pod \in [Jobs -> Pods], NEW j \in Jobs, Exit(j) \/ Ended(j) \/ pod' = [pod EXCEPT ![j] = NoPod]
    PROVE  Left(j)
<1>1. CASE pod' = [pod EXCEPT ![j] = NoPod]
  BY <1>1, Records DEF Left, Moved
<1>2. CASE Exit(j)
  <2> DEFINE resuming == [NoPod EXCEPT !.at = "verify", !.todo = Deployments, !.names = Deployments]
  <2>1. resuming \in Pods /\ resuming.at = "verify" /\ resuming.todo = Deployments
    BY Records DEF NoPod, Pods
  <2>2. CASE pod' = [pod EXCEPT ![j] = resuming]
    BY <2>1, <2>2 DEF Left, Moved
  <2> QED BY <1>1, <1>2, <2>2 DEF Exit
<1>3. CASE Ended(j)
  BY <1>1, <1>2, <1>3 DEF Ended
<1> QED BY <1>1, <1>2, <1>3

(* What each step of a pod does to the pod.                                *)
Steps(j) ==
    /\ Attempt(j) => Moved(j, "check", Deployments)
    /\ Check(j) =>
          \/ Left(j)
          \/ \E d \in pod[j].todo :
                /\ MayStop(d)
                /\ \/ pod[j].todo = {d} /\ Moved(j, "down", Deployments)
                   \/ pod[j].todo = {d} /\ \E u \in SUBSET Deployments : Moved(j, "mark", u)
                   \/ Moved(j, "check", pod[j].todo \ {d})
    /\ Mark(j) => \E d \in pod[j].todo :
          /\ Annotate(d, Quiesced)
          /\ Moved(j, "down", Deployments) \/ Moved(j, "mark", pod[j].todo \ {d})
    /\ Down(j) => \E d \in pod[j].todo :
          /\ Scale(d, 0)
          /\ \/ pod[j].todo = {d} /\ Moved(j, "zero", {})
             \/ Moved(j, "down", pod[j].todo \ {d})
    /\ Zero(j) => Moved(j, "dump", {}) \/ Moved(j, "push", Parts)
    /\ Dump(j) => /\ Moved(j, "push", Parts \ {Database})
                  /\ pod'[j].got = [pod[j].got EXCEPT ![Database] = data[Database]]
    /\ Push(j) => \E p \in pod[j].todo :
          LET got == [pod[j].got EXCEPT ![p] = data[p]] IN
          \/ pod[j].todo = {p} /\ Moved(j, "prune", {}) /\ points' = Append(points, got)
          \/ Moved(j, "push", pod[j].todo \ {p}) /\ pod'[j].got = got /\ points' = points
    /\ Prune(j) => Left(j)
    /\ Verify(j) =>
          \/ Left(j)
          \/ \E d \in pod[j].todo :
                /\ mark[d] = Quiesced
                /\ \/ pod[j].todo = {d} /\ Moved(j, "up", pod[j].names)
                   \/ Moved(j, "verify", pod[j].todo \ {d})
    /\ Up(j) => \E d \in pod[j].todo :
          /\ Scale(d, 1)
          /\ Moved(j, "wait", pod[j].names) \/ Moved(j, "up", pod[j].todo \ {d})
    /\ Wait(j) => Moved(j, "clear", pod[j].names)
    /\ Clear(j) => Left(j) \/ Moved(j, "unmark", pod[j].todo)
    /\ Unmark(j) => \E d \in pod[j].unmarked :
          Annotate(d, "") /\ (Left(j) \/ Moved(j, "clear", pod[j].todo \ {d}))
    /\ PodFails(j) => Left(j) \/ (pod[j].at \in {"down", "zero"} /\ Moved(j, "up", pod[j].names))
    /\ Terminate(j) => Left(j)
    /\ PodDies(j) => Left(j)

LEMMA PodFields ==
    ASSUME NEW x \in Pods
    PROVE  /\ x.unmarked \subseteq Deployments /\ x.names \subseteq Deployments
           /\ x.got \in [Parts -> Versions] /\ x.todo \subseteq Deployments \cup Parts
  BY DEF Pods

LEMMA PodSteps == ASSUME TypeOK, Working, NEW j \in Jobs PROVE Steps(j)
<1> USE DEF At, TypeOK
<1>0. /\ pod \in [Jobs -> Pods] /\ pod[j] \in Pods
      /\ pod[j].unmarked \subseteq Deployments /\ pod[j].names \subseteq Deployments
      /\ pod[j].at # "push" => pod[j].todo \subseteq Deployments
      /\ pod[j].at = "push" => pod[j].todo \subseteq Parts
  BY PodFields DEF Working
<1>1. ASSUME Attempt(j) PROVE Moved(j, "check", Deployments)
  <2> DEFINE checking == [NoPod EXCEPT !.at = "check", !.todo = Deployments]
  <2>1. checking \in Pods /\ checking.at = "check" /\ checking.todo = Deployments
    BY Records DEF NoPod, Pods
  <2> QED BY <1>1, <2>1 DEF Attempt, Moved
<1>2. ASSUME Check(j), ~Left(j)
      PROVE  \E d \in pod[j].todo :
                /\ MayStop(d)
                /\ \/ pod[j].todo = {d} /\ Moved(j, "down", Deployments)
                   \/ pod[j].todo = {d} /\ \E u \in SUBSET Deployments : Moved(j, "mark", u)
                   \/ Moved(j, "check", pod[j].todo \ {d})
  <2>1. PICK d \in pod[j].todo :
          /\ MayStop(d)
          /\ LET left     == pod[j].todo \ {d}
                 unmarked == IF mark[d] = Quiesced THEN pod[j].unmarked ELSE pod[j].unmarked \cup {d}
                 next     == IF left # {} THEN <<"check", left>>
                             ELSE IF unmarked # {} THEN <<"mark", unmarked>>
                             ELSE <<"down", Deployments>>
             IN pod' = [pod EXCEPT ![j].at = next[1], ![j].todo = next[2],
                                   ![j].unmarked = unmarked]
    BY <1>2, <1>0, Leaving DEF Check
  <2> DEFINE left     == pod[j].todo \ {d}
             unmarked == IF mark[d] = Quiesced THEN pod[j].unmarked ELSE pod[j].unmarked \cup {d}
  <2>2. pod[j].at = "check" /\ left \subseteq Deployments /\ unmarked \subseteq Deployments
    BY <1>0, <1>2 DEF Check
  <2>3. ASSUME NEW at \in {"check", "mark", "down"}, NEW todo \in SUBSET Deployments,
               pod' = [pod EXCEPT ![j].at = at, ![j].todo = todo, ![j].unmarked = unmarked]
        PROVE  Moved(j, at, todo)
    BY <1>0, <2>2, <2>3 DEF Moved, Pods
  <2>4. left = {} => pod[j].todo = {d}
    OBVIOUS
  <2>5. CASE left # {}
    <3>1. pod' = [pod EXCEPT ![j].at = "check", ![j].todo = left, ![j].unmarked = unmarked]
      BY <2>1, <2>5, Zenon
    <3>2. Moved(j, "check", left)
      BY <2>2, <2>3, <3>1
    <3> QED BY <2>1, <3>2
  <2>6. CASE left = {} /\ unmarked # {}
    <3>1. pod' = [pod EXCEPT ![j].at = "mark", ![j].todo = unmarked, ![j].unmarked = unmarked]
      BY <2>1, <2>6, Zenon
    <3>2. Moved(j, "mark", unmarked)
      BY <2>2, <2>3, <3>1
    <3> QED BY <2>1, <2>2, <2>4, <2>6, <3>2
  <2>7. CASE left = {} /\ unmarked = {}
    <3>1. pod' = [pod EXCEPT ![j].at = "down", ![j].todo = Deployments, ![j].unmarked = unmarked]
      BY <2>1, <2>7, Zenon
    <3>2. Moved(j, "down", Deployments)
      BY <2>2, <2>3, <3>1
    <3> QED BY <2>1, <2>4, <2>7, <3>2
  <2> QED BY <2>5, <2>6, <2>7
<1>3. ASSUME Mark(j)
      PROVE  \E d \in pod[j].todo :
          /\ Annotate(d, Quiesced)
          /\ Moved(j, "down", Deployments) \/ Moved(j, "mark", pod[j].todo \ {d})
  BY <1>0, <1>3, Becoming DEF Mark, Take
<1>4. ASSUME Down(j)
      PROVE  \E d \in pod[j].todo :
          /\ Scale(d, 0)
          /\ \/ pod[j].todo = {d} /\ Moved(j, "zero", {})
             \/ Moved(j, "down", pod[j].todo \ {d})
  <2>1. PICK d \in pod[j].todo :
          /\ Scale(d, 0)
          /\ pod' = [pod EXCEPT ![j].at = IF pod[j].todo \ {d} = {} THEN "zero" ELSE "down",
                                ![j].todo = pod[j].todo \ {d}, ![j].names = @ \cup {d}]
    BY <1>4 DEF Down
  <2>2. pod[j].todo \subseteq Deployments /\ pod[j].names \cup {d} \subseteq Deployments
    BY <1>0, <1>4 DEF Down
  <2>3. ASSUME NEW at \in {"zero", "down"},
               pod' = [pod EXCEPT ![j].at = at, ![j].todo = pod[j].todo \ {d}, ![j].names = @ \cup {d}]
        PROVE  Moved(j, at, pod[j].todo \ {d})
    BY <1>0, <2>2, <2>3 DEF Moved, Pods
  <2>4. CASE pod[j].todo \ {d} = {}
    <3>1. Moved(j, "zero", pod[j].todo \ {d})
      BY <2>1, <2>3, <2>4
    <3> QED BY <2>1, <2>4, <3>1
  <2>5. CASE pod[j].todo \ {d} # {}
    BY <2>1, <2>3, <2>5
  <2> QED BY <2>4, <2>5
<1>5. ASSUME Zero(j) PROVE Moved(j, "dump", {}) \/ Moved(j, "push", Parts)
  BY <1>0, <1>5, Becoming DEF Zero
<1>6. ASSUME Dump(j)
      PROVE  /\ Moved(j, "push", Parts \ {Database})
             /\ pod'[j].got = [pod[j].got EXCEPT ![Database] = data[Database]]
  <2>1. data[Database] \in Versions
    BY DatabaseAssumption
  <2>2. [pod[j].got EXCEPT ![Database] = data[Database]] \in [Parts -> Versions]
    BY <1>0, <2>1, PodFields
  <2> QED BY <1>0, <1>6, <2>2 DEF Dump, Moved, Pods
<1>7. ASSUME Push(j)
      PROVE  \E p \in pod[j].todo :
          LET got == [pod[j].got EXCEPT ![p] = data[p]] IN
          \/ pod[j].todo = {p} /\ Moved(j, "prune", {}) /\ points' = Append(points, got)
          \/ Moved(j, "push", pod[j].todo \ {p}) /\ pod'[j].got = got /\ points' = points
  <2>1. PICK p \in pod[j].todo :
          LET got  == [pod[j].got EXCEPT ![p] = data[p]]
              left == pod[j].todo \ {p}
          IN /\ pod' = [pod EXCEPT ![j].at = IF left = {} THEN "prune" ELSE "push",
                                   ![j].todo = left, ![j].got = got]
             /\ points' = IF left = {} THEN Append(points, got) ELSE points
    BY <1>7 DEF Push
  <2> DEFINE got  == [pod[j].got EXCEPT ![p] = data[p]]
             left == pod[j].todo \ {p}
  <2>2. pod[j].todo \subseteq Parts /\ got \in [Parts -> Versions]
    BY <1>0, <1>7, PodFields DEF Push
  <2>3. ASSUME NEW at, at = "push" \/ (at = "prune" /\ left = {}),
               pod' = [pod EXCEPT ![j].at = at, ![j].todo = left, ![j].got = got]
        PROVE  Moved(j, at, left) /\ pod'[j].got = got
    BY <1>0, <2>2, <2>3 DEF Moved, Pods
  <2>4. CASE left = {}
    <3>1. Moved(j, "prune", left)
      BY <2>1, <2>3, <2>4
    <3> QED BY <2>1, <2>4, <3>1
  <2>5. CASE left # {}
    BY <2>1, <2>3, <2>5
  <2> QED BY <2>4, <2>5
<1>8. ASSUME Verify(j), ~Left(j)
      PROVE  \E d \in pod[j].todo :
                /\ mark[d] = Quiesced
                /\ \/ pod[j].todo = {d} /\ Moved(j, "up", pod[j].names)
                   \/ Moved(j, "verify", pod[j].todo \ {d})
  <2>1. PICK d \in pod[j].todo : mark[d] = Quiesced /\ Take(j, d, "up", pod[j].names)
    BY <1>0, <1>8, Leaving DEF Verify
  <2>2. CASE pod[j].todo \ {d} = {}
    <3>1. Moved(j, "up", pod[j].names)
      BY <1>0, <2>1, <2>2, Becoming DEF Take
    <3> QED BY <2>1, <2>2, <3>1
  <2>3. CASE pod[j].todo \ {d} # {}
    BY <1>0, <1>8, <2>1, <2>3, Becoming DEF Take, Verify
  <2> QED BY <2>2, <2>3
<1>9. ASSUME Up(j)
      PROVE  \E d \in pod[j].todo :
          /\ Scale(d, 1)
          /\ Moved(j, "wait", pod[j].names) \/ Moved(j, "up", pod[j].todo \ {d})
  BY <1>0, <1>9, Becoming DEF Up, Take
<1>10. ASSUME Wait(j) PROVE Moved(j, "clear", pod[j].names)
  BY <1>0, <1>10, Becoming DEF Wait
<1>11. ASSUME Clear(j) PROVE Left(j) \/ Moved(j, "unmark", pod[j].todo)
  <2>1. ASSUME NEW d \in pod[j].todo,
               pod' = [pod EXCEPT ![j].at = "unmark", ![j].unmarked = {d}]
        PROVE  Moved(j, "unmark", pod[j].todo)
    <3>1. pod[j].todo \subseteq Deployments /\ {d} \subseteq Deployments
      BY <1>0, <1>11 DEF Clear
    <3> QED BY <1>0, <2>1, <3>1 DEF Moved, Pods
  <2> QED BY <1>0, <1>11, <2>1, Leaving DEF Clear
<1>12. ASSUME Unmark(j)
       PROVE  \E d \in pod[j].unmarked :
                 Annotate(d, "") /\ (Left(j) \/ Moved(j, "clear", pod[j].todo \ {d}))
  BY <1>0, <1>12, Becoming, Leaving DEF Unmark
<1>13. ASSUME PodFails(j), ~Left(j)
       PROVE  pod[j].at \in {"down", "zero"} /\ Moved(j, "up", pod[j].names)
  <2>1. /\ pod[j].at \in {"down", "zero"}
        /\ pod' = [pod EXCEPT ![j].at = "up", ![j].todo = pod[j].names, ![j].undo = TRUE]
    BY <1>0, <1>13, Leaving DEF PodFails
  <2> QED BY <1>0, <2>1 DEF Moved, Pods
<1>14. ASSUME Prune(j) \/ Terminate(j) \/ PodDies(j) PROVE Left(j)
  BY <1>0, <1>14, Leaving DEF Prune, Terminate, PodDies
<1> QED BY <1>1, <1>2, <1>3, <1>4, <1>5, <1>6, <1>7, <1>8, <1>9, <1>10, <1>11, <1>12, <1>13,
           <1>14 DEF Steps
-----------------------------------------------------------------------------
(* Type correctness                                                        *)

LEMMA Kept ==
    ASSUME NEW S, NEW ps \in Seq(S)
    PROVE  /\ Pruned(ps) \in Seq(S)
           /\ \A i \in DOMAIN Pruned(ps) : \E k \in DOMAIN ps : Pruned(ps)[i] = ps[k]
<1>1. Len(ps) \in Nat /\ DOMAIN ps = 1..Len(ps)
  OBVIOUS
<1>2. ASSUME Len(ps) <= 2 PROVE Pruned(ps) = ps
  BY <1>2 DEF Pruned
<1>3. ASSUME Len(ps) > 2
      PROVE  /\ Pruned(ps) \in Seq(S)
             /\ \A i \in DOMAIN Pruned(ps) : \E k \in DOMAIN ps : Pruned(ps)[i] = ps[k]
  <2> DEFINE m == Len(ps) - 1
  <2>1. m \in 1..(Len(ps) + 1) /\ Len(ps) \in m-1..Len(ps) /\ Len(ps) - m + 1 = 2
    BY <1>1, <1>3
  <2>2. /\ SubSeq(ps, m, Len(ps)) \in Seq(S)
        /\ Len(SubSeq(ps, m, Len(ps))) = IF m <= Len(ps) THEN Len(ps) - m + 1 ELSE 0
        /\ \A i \in 1..(Len(ps) - m + 1) : SubSeq(ps, m, Len(ps))[i] = ps[m + i - 1]
    BY <2>1, SubSeqProperties
  <2>3. \A i \in DOMAIN SubSeq(ps, m, Len(ps)) :
           i \in 1..2 /\ SubSeq(ps, m, Len(ps))[i] = ps[m + i - 1] /\ m + i - 1 \in DOMAIN ps
    BY <1>1, <1>3, <2>1, <2>2
  <2>4. Pruned(ps) = SubSeq(ps, m, Len(ps))
    BY <1>1, <1>3 DEF Pruned
  <2>5. \A i \in DOMAIN Pruned(ps) : Pruned(ps)[i] = ps[m + i - 1] /\ m + i - 1 \in DOMAIN ps
    BY <2>3, <2>4
  <2> QED BY <2>2, <2>4, <2>5
<1> QED BY <1>1, <1>2, <1>3

LEMMA Added ==
    ASSUME NEW S, NEW ps \in Seq(S), NEW new \in S
    PROVE  /\ Append(ps, new) \in Seq(S)
           /\ \A i \in DOMAIN Append(ps, new) :
                 Append(ps, new)[i] = new \/ \E k \in DOMAIN ps : Append(ps, new)[i] = ps[k]
<1>1. Len(ps) \in Nat /\ DOMAIN ps = 1..Len(ps)
  OBVIOUS
<1> QED BY <1>1, AppendProperties

LEMMA Spending == ASSUME TypeOK, Trouble PROVE spent' \in 0..MaxTroubles
<1>1. spent \in 0..MaxTroubles
  BY DEF TypeOK
<1> QED BY <1>1, Bounds DEF Trouble

PodActs(j) == PodRuns(j) \/ PodFails(j) \/ Terminate(j) \/ PodDies(j)

LEMMA PodMoves ==
    ASSUME TypeOK, Working, NEW j \in Jobs, PodActs(j)
    PROVE  \E at, todo : Moved(j, at, todo)
<1> Steps(j)
  BY PodSteps
<1> QED BY DEF Steps, Left, PodActs, PodRuns

LEMMA PodTypes ==
    ASSUME TypeOK, Working, NEW j \in Jobs, PodActs(j)
    PROVE  TypeOK' /\ Working'
<1>1. PICK at, todo : Moved(j, at, todo)
  BY PodMoves
<1>2. pod' \in [Jobs -> Pods] /\ Working'
  BY <1>1 DEF Moved, Working
<1>3. /\ replicas' \in [Deployments -> {0, 1}] /\ mark' \in [Deployments -> RestoreMarks \cup {"", Quiesced}]
      /\ running' = running /\ UNCHANGED <<stored, rest>>
      /\ spent' \in 0..MaxTroubles
  <2>0. pod[j] \in Pods /\ pod[j].unmarked \subseteq Deployments
    BY PodFields DEF TypeOK
  <2>1. CASE PodRuns(j) /\ ~Mark(j) /\ ~Down(j) /\ ~Up(j) /\ ~Unmark(j)
    BY <2>1 DEF TypeOK, PodRuns, Attempt, Check, Zero, Dump, Push, Prune, Verify, Wait, Clear,
                BackupOnly, cluster
  <2>2. CASE Mark(j) \/ Down(j) \/ Up(j) \/ Unmark(j)
    BY <2>0, <2>2 DEF TypeOK, Mark, Down, Up, Unmark, Scale, Annotate, BackupOnly, Working, At
  <2>3. CASE PodFails(j) \/ Terminate(j) \/ PodDies(j)
    <3>1. Trouble /\ UNCHANGED <<cluster, stored, rest>>
      BY <2>3 DEF PodFails, Terminate, PodDies
    <3>2. spent' \in 0..MaxTroubles
      BY <3>1, Spending
    <3> QED BY <3>1, <3>2 DEF TypeOK, cluster
  <2> QED BY <2>1, <2>2, <2>3 DEF PodActs, PodRuns
<1>4. points' \in Seq([Parts -> Versions])
  <2>1. CASE Push(j)
    <3>1. pod[j].todo \subseteq Parts /\ pod[j].got \in [Parts -> Versions]
      BY <2>1, PodFields DEF TypeOK, Working, Push, At
    <3>2. \A p \in Parts : [pod[j].got EXCEPT ![p] = data[p]] \in [Parts -> Versions]
      BY <3>1 DEF TypeOK
    <3>3. PICK p \in Parts :
            points' = points \/ points' = Append(points, [pod[j].got EXCEPT ![p] = data[p]])
      BY <2>1, <3>1, PodSteps DEF Steps
    <3>4. points \in Seq([Parts -> Versions])
      BY DEF TypeOK
    <3>5. Append(points, [pod[j].got EXCEPT ![p] = data[p]]) \in Seq([Parts -> Versions])
      BY <3>2, <3>4, Added
    <3> QED BY <3>3, <3>4, <3>5
  <2>2. CASE Prune(j)
    BY <2>2, Kept, Records DEF TypeOK, Prune
  <2>3. CASE ~Push(j) /\ ~Prune(j)
    <3>1. points' = points
      BY <2>3 DEF PodActs, PodRuns, Attempt, Check, Mark, Down, Zero, Dump, Verify, Up, Wait, Clear,
             Unmark, PodFails, Terminate, PodDies
    <3> QED BY <3>1 DEF TypeOK
  <2> QED BY <2>1, <2>2, <2>3
<1> QED BY <1>2, <1>3, <1>4 DEF TypeOK, stored, rest

LEMMA ClusterTypes ==
    ASSUME TypeOK, Reconcile \/ Write PROVE TypeOK'
<1>1. CASE Reconcile
  BY <1>1 DEF Reconcile, TypeOK, stored, rest
<1>2. CASE Write
  <2>1. written' \in 0..MaxWrites /\ State(written') \in [Parts -> Versions]
    <3>1. written \in 0..MaxWrites
      BY DEF TypeOK
    <3>2. written' \in 0..MaxWrites /\ written' \in Versions
      BY <1>2, <3>1, Bounds DEF Write, Versions, Torn
    <3> QED BY <3>2, Records
  <2> QED BY <1>2, <2>1 DEF Write, TypeOK, cluster, rest
<1> QED BY <1>1, <1>2

(* What the play's bookkeeping makes of the play.                          *)
LEMMA Going ==
    ASSUME play \in Plays, NEW at, Goes(at)
    PROVE  /\ play'.at = at /\ play'.todo = Deployments /\ play'.failed = FALSE
           /\ play'.point = IF at \in {"stop", "gone", "run"} THEN play.point ELSE State(0)
           /\ at \in {"idle", "stop", "gone", "run", "job", "start", "back", "clear",
                      "markFailed", "keepStopped"} => play' \in Plays
<1>1. play.point \in [Parts -> Versions] /\ State(0) \in [Parts -> Versions]
  BY Records DEF Plays
<1> QED BY <1>1 DEF Goes, Plays

(* One item of a loop: it is done, or it fails and the loop goes on.       *)
Passed(at, d) ==
    /\ play.at = at /\ d \in play.todo /\ play'.at = at /\ play'.todo = play.todo \ {d}
    /\ play'.point = play.point
    /\ \/ Effect(at, d) /\ play'.failed = play.failed
       \/ UNCHANGED cluster /\ play'.failed = TRUE
    /\ play' \in Plays

LEMMA Items ==
    ASSUME TypeOK, NEW at, Item(at)
    PROVE  \E d \in Deployments : Passed(at, d)
<1>1. play \in Plays /\ play.todo \subseteq Deployments
  BY DEF TypeOK, Plays
<1>2. PICK d \in play.todo :
          \/ Effect(at, d) /\ play' = [play EXCEPT !.todo = @ \ {d}]
          \/ play' = [play EXCEPT !.todo = @ \ {d}, !.failed = TRUE] /\ UNCHANGED cluster
  BY DEF Item
<1>3. play.at = at
  BY DEF Item
<1>4. CASE Effect(at, d) /\ play' = [play EXCEPT !.todo = @ \ {d}]
  BY <1>1, <1>2, <1>3, <1>4 DEF Passed, Plays
<1>5. CASE play' = [play EXCEPT !.todo = @ \ {d}, !.failed = TRUE] /\ UNCHANGED cluster
  BY <1>1, <1>2, <1>3, <1>5 DEF Passed, Plays
<1> QED BY <1>2, <1>4, <1>5

Loops == MarkTarget \/ StopTarget \/ StartTarget \/ ClearTarget \/ MarkFailed \/ KeepStopped

(* What a step of the restore Job does to it and to the data.              *)
Empties(p) ==
    /\ job.filling = {} /\ p \in job.left
    /\ job'.at = "replace" /\ job'.left = job.left \ {p} /\ job'.filling = {p}
    /\ job'.point = job.point /\ data' = [data EXCEPT ![p] = Torn]
Fills(p) ==
    /\ p \in job.filling /\ data' = [data EXCEPT ![p] = job.point[p]] /\ job'.filling = {}
    /\ \/ job.left = {} /\ job'.at = "complete" /\ job'.left = {} /\ job'.point = State(0)
       \/ job.left # {} /\ job'.at = "replace" /\ job'.left = job.left /\ job'.point = job.point

LEMMA JobSteps ==
    ASSUME TypeOK, JobStep
    PROVE  /\ job' \in RestoreJobs /\ data' \in [Parts -> Versions]
           /\ \/ /\ job.at = "stage" /\ job'.at = "replace" /\ UNCHANGED data
                 /\ job'.left = job.left /\ job'.filling = job.filling /\ job'.point = job.point
              \/ job.at = "replace" /\ \E p \in Parts : Empties(p) \/ Fills(p)
<1>0. job \in RestoreJobs /\ data \in [Parts -> Versions]
  BY DEF TypeOK
<1>1. CASE job.at = "stage" /\ job' = [job EXCEPT !.at = "replace"] /\ UNCHANGED data
  BY <1>0, <1>1 DEF RestoreJobs
<1>2. ASSUME job.at = "replace", job.filling = {}, NEW p \in job.left,
             job' = [job EXCEPT !.left = @ \ {p}, !.filling = {p}],
             data' = [data EXCEPT ![p] = Torn]
      PROVE  Empties(p) /\ p \in Parts /\ job' \in RestoreJobs /\ data' \in [Parts -> Versions]
  <2>1. p \in Parts /\ Torn \in Versions
    BY <1>0, Records DEF RestoreJobs
  <2>2. data' \in [Parts -> Versions]
    BY <1>0, <1>2, <2>1
  <2> QED BY <1>0, <1>2, <2>1, <2>2 DEF RestoreJobs, Empties
<1>3. ASSUME NEW p \in job.filling, job.at = "replace",
             job' = IF job.left = {} THEN [NoJob EXCEPT !.at = "complete"]
                                     ELSE [job EXCEPT !.filling = {}],
             data' = [data EXCEPT ![p] = job.point[p]]
      PROVE  Fills(p) /\ p \in Parts /\ job' \in RestoreJobs /\ data' \in [Parts -> Versions]
  <2>1. p \in Parts /\ job.point[p] \in Versions
    BY <1>0 DEF RestoreJobs
  <2>2. data' \in [Parts -> Versions]
    BY <1>0, <1>3, <2>1
  <2>3. CASE job.left = {}
    <3>1. job' = [NoJob EXCEPT !.at = "complete"] /\ State(0) \in [Parts -> Versions]
      BY <1>3, <2>3, Records
    <3>2. job' \in RestoreJobs /\ job'.at = "complete" /\ job'.filling = {} /\ job'.left = {}
          /\ job'.point = State(0)
      BY <3>1 DEF NoJob, RestoreJobs
    <3> QED BY <1>3, <2>1, <2>2, <2>3, <3>2 DEF Fills
  <2>4. CASE job.left # {}
    <3>1. job' = [job EXCEPT !.filling = {}]
      BY <1>3, <2>4
    <3>2. job' \in RestoreJobs /\ job'.at = "replace" /\ job'.filling = {} /\ job'.left = job.left
          /\ job'.point = job.point
      BY <1>0, <1>3, <3>1 DEF RestoreJobs
    <3> QED BY <1>3, <2>1, <2>2, <2>4, <3>2 DEF Fills
  <2> QED BY <2>3, <2>4
<1> QED BY <1>1, <1>2, <1>3 DEF JobStep

LEMMA PlayTypes ==
    ASSUME TypeOK, Restore \/ PlayRuns \/ PlayFails \/ PlayDies \/ JobStep \/ JobDies \/ OperatorStarts
    PROVE  TypeOK'
<1>0. play \in Plays /\ job \in RestoreJobs
  BY DEF TypeOK
<1>1. CASE Loops
  <2>1. PICK at : Item(at)
    BY <1>1 DEF Loops, MarkTarget, StopTarget, StartTarget, ClearTarget, MarkFailed, KeepStopped
  <2>2. PICK d \in Deployments : Passed(at, d)
    BY <2>1, Items
  <2>3. /\ replicas' \in [Deployments -> {0, 1}] /\ running' \subseteq Deployments
        /\ mark' \in [Deployments -> RestoreMarks \cup {"", Quiesced}]
    BY <2>2 DEF TypeOK, Passed, Effect, Annotate, Scale, cluster, RestoreMarks
  <2>4. spent' \in 0..MaxTroubles
    BY <2>1, Spending DEF Item, TypeOK
  <2> QED BY <2>1, <2>2, <2>3, <2>4 DEF Item, Passed, RestoreOnly, stored, TypeOK
<1>2. CASE EndOfLoop \/ PodsGone \/ JobEnded \/ TargetBack \/ PlayFails
  <2>1. PICK at \in {"idle", "stop", "gone", "run", "start", "back", "clear", "markFailed",
                     "keepStopped"} : Goes(at)
    BY <1>2 DEF EndOfLoop, After, PodsGone, JobEnded, TargetBack, PlayFails
  <2>2. play' \in Plays
    BY <1>0, <2>1, Going
  <2>3. spent' \in 0..MaxTroubles /\ accepted' \in BOOLEAN
    BY <1>2, Spending DEF EndOfLoop, PodsGone, JobEnded, TargetBack, PlayFails, TypeOK
  <2> QED BY <1>2, <2>2, <2>3 DEF EndOfLoop, PodsGone, JobEnded, TargetBack, PlayFails,
              RestoreOnly, cluster, stored, TypeOK
<1>3. CASE Restore
  <2>1. PICK i \in DOMAIN points :
          play' = [at |-> "mark", todo |-> Deployments, failed |-> FALSE, point |-> points[i]]
    BY <1>3 DEF Restore
  <2>2. points[i] \in [Parts -> Versions]
    <3>1. points \in Seq([Parts -> Versions])
      BY DEF TypeOK
    <3> QED BY <3>1
  <2>3. play' \in Plays
    BY <2>1, <2>2 DEF Plays
  <2> QED BY <1>3, <2>3 DEF Restore, RestoreOnly, cluster, stored, TypeOK
<1>4. CASE PlayDies \/ JobDies
  <2>1. play' \in Plays /\ job' \in RestoreJobs
    BY <1>0, <1>4, Records DEF PlayDies, JobDies, NoJob, RestoreJobs
  <2>2. spent' \in 0..MaxTroubles
    BY <1>4, Spending DEF PlayDies, JobDies
  <2> QED BY <1>4, <2>1, <2>2 DEF PlayDies, JobDies, RestoreOnly, cluster, stored, TypeOK
<1>5. CASE RunJob
  <2>1. play.point \in [Parts -> Versions]
    BY <1>0 DEF Plays
  <2>2. job' \in RestoreJobs
    BY <1>5, <2>1 DEF RunJob, NoJob, RestoreJobs
  <2>3. play' \in Plays
    BY <1>0, <1>5, Going DEF RunJob
  <2> QED BY <1>5, <2>2, <2>3 DEF RunJob, RestoreOnly, cluster, stored, TypeOK
<1>6. CASE JobStep
  <2>1. job' \in RestoreJobs /\ data' \in [Parts -> Versions]
    BY <1>6, JobSteps
  <2> QED BY <1>6, <2>1 DEF JobStep, RestoreOnly, cluster, TypeOK
<1>7. CASE OperatorStarts
  BY <1>7 DEF OperatorStarts, RestoreOnly, Scale, stored, TypeOK
<1> QED BY <1>1, <1>2, <1>3, <1>4, <1>5, <1>6, <1>7 DEF PlayRuns, Loops

LEMMA InitTypes == ASSUME Init PROVE TypeOK /\ Working
<1>1. State(0) \in [Parts -> Versions] /\ NoPod \in Pods /\ NoPlay \in Plays /\ NoJob \in RestoreJobs
      /\ NoPod.at = "idle" /\ NoPod.todo = {}
  BY Records
<1>2. <<State(0)>> \in Seq([Parts -> Versions]) /\ 0 \in 0..MaxWrites /\ 0 \in 0..MaxTroubles
  BY <1>1, Bounds
<1>3. points \in Seq([Parts -> Versions]) /\ written \in 0..MaxWrites /\ spent \in 0..MaxTroubles
  BY <1>2 DEF Init
<1> QED BY <1>1, <1>2, <1>3 DEF Init, TypeOK, Working

LEMMA StepTypes ==
    ASSUME TypeOK, Working, [Next]_vars PROVE TypeOK' /\ Working'
<1>1. CASE \E j \in Jobs : PodActs(j)
  BY <1>1, PodTypes
<1>2. CASE Reconcile \/ Write
  BY <1>2, ClusterTypes DEF Reconcile, Write, Working
<1>3. CASE Restore \/ PlayRuns \/ PlayFails \/ PlayDies \/ JobStep \/ JobDies \/ OperatorStarts
  <2>1. pod' = pod
    BY <1>3 DEF Restore, PlayRuns, PlayFails, PlayDies, JobStep, JobDies, OperatorStarts, RestoreOnly,
           MarkTarget, StopTarget, StartTarget, ClearTarget, MarkFailed, KeepStopped, Item,
           EndOfLoop, PodsGone, RunJob, JobEnded, TargetBack
  <2> QED BY <1>3, <2>1, PlayTypes DEF Working
<1>4. CASE UNCHANGED vars
  BY <1>4 DEF vars, cluster, stored, rest, TypeOK, Working
<1> QED BY <1>1, <1>2, <1>3, <1>4 DEF Next, PodActs

(* Type correctness (TypeOK) for any Deployments, parts and Jobs: in       *)
(* particular only a part's version, a Deployment's pods and one of the    *)
(* marks that the checks know are ever written.                            *)
THEOREM Typed == Spec => []TypeOK
<1>1. TypeOK /\ Working /\ [Next]_vars => (TypeOK /\ Working)'
  BY StepTypes
<1>2. Init => TypeOK /\ Working
  BY InitTypes
<1> QED BY <1>1, <1>2, PTL DEF Spec

-----------------------------------------------------------------------------
(* The restore: RestoreInv is kept, as long as the recovery points are     *)
(* whole.  First what the steps are to it.                                 *)

LEMMA Wholeness ==
    /\ \A v \in 0..MaxWrites : Whole(State(v))
    /\ Whole(NoPlay.point) /\ Whole(NoJob.point) /\ Whole(State(0))
<1>1. 0 \in 0..MaxWrites
  BY Bounds
<1> QED BY <1>1 DEF Whole, NoPlay, NoJob

LEMMA MarkFacts ==
    /\ Deployments # {} /\ (AllMarked => SomeMarked)
    /\ \A d \in Deployments : Restored(d) => mark[d] # Quiesced /\ ~MayStop(d)
  BY DeploymentsAssumption DEF AllMarked, SomeMarked, Restored, RestoreMarks, Quiesced, InProgress, Failed, MayStop

(* A pod changes the Deployments only when no restore has marked any.      *)
LEMMA PodTouches ==
    ASSUME TypeOK, Working, BackupInv, NEW j \in Jobs, PodActs(j)
    PROVE  /\ UNCHANGED <<running, stored, rest>>
           /\ \/ UNCHANGED <<replicas, mark>>
              \/ Through /\ ~SomeMarked /\ ~SomeMarked'
<1>1. UNCHANGED <<running, stored, rest>>
  BY DEF PodActs, PodRuns, Attempt, Check, Mark, Down, Zero, Dump, Push, Prune, Verify, Up, Wait, Clear,
         Unmark, PodFails, Terminate, PodDies, BackupOnly, cluster, Scale, Annotate
<1>2. CASE ~Mark(j) /\ ~Down(j) /\ ~Up(j) /\ ~Unmark(j)
  BY <1>1, <1>2 DEF PodActs, PodRuns, Attempt, Check, Zero, Dump, Push, Prune, Verify, Wait, Clear,
         PodFails, Terminate, PodDies, cluster
<1>3. CASE Mark(j) \/ Down(j) \/ Up(j) \/ Unmark(j)
  <2>1. Through /\ ~SomeMarked
    BY <1>3 DEF BackupInv, Mark, Down, Up, Unmark, At
  <2>2. \E d : mark' = [mark EXCEPT ![d] = Quiesced] \/ mark' = [mark EXCEPT ![d] = ""] \/ mark' = mark
    BY <1>3 DEF Mark, Down, Up, Unmark, Annotate, Scale
  <2>3. mark \in [Deployments -> RestoreMarks \cup {"", Quiesced}]
    BY DEF TypeOK
  <2> QED BY <1>1, <2>1, <2>2, <2>3 DEF SomeMarked, Restored, RestoreMarks, Quiesced, InProgress, Failed
<1> QED BY <1>2, <1>3

(* While a pod acts, the play is not marking; if then nothing is marked,   *)
(* or a backup's mark is on, the play is through.                          *)
LEMMA Apart ==
    ASSUME TypeOK, MarkInv, NEW j \in Jobs, ~At(j, "idle"),
           ~SomeMarked \/ \E d \in Deployments : mark[d] = Quiesced
    PROVE  Through
<1>1. play \in Plays
  BY DEF TypeOK
<1>2. play.at # "mark"
  BY DEF MarkInv
<1>3. ~AllMarked
  BY MarkFacts DEF AllMarked
<1> QED BY <1>1, <1>2, <1>3 DEF MarkInv, Plays, Through

LEMMA Writing == ASSUME TypeOK, Write PROVE Whole(data')
<1>1. written \in 0..MaxWrites
  BY DEF TypeOK
<1>2. written' \in 0..MaxWrites /\ data' = State(written')
  BY <1>1, Bounds DEF Write
<1> QED BY <1>2, Wholeness

LEMMA JobKept ==
    ASSUME TypeOK, JobInv, TargetInv, PointsAreWhole, Next PROVE JobInv'
<1>0. play \in Plays /\ job \in RestoreJobs /\ data \in [Parts -> Versions]
  BY DEF TypeOK
<1>1. CASE UNCHANGED <<play, job, data>>
  BY <1>1 DEF JobInv, Whole
<1>2. CASE Write
  <2>1. running # {} /\ Whole(data') /\ UNCHANGED <<play, job>>
    BY <1>2, Writing DEF Write, rest
  <2>2. play.at # "job"
    BY <2>1 DEF TargetInv
  <2> QED BY <2>1, <2>2 DEF JobInv
<1>3. CASE JobStep
  <2>1. UNCHANGED play
    BY <1>3 DEF JobStep
  <2>2. CASE job.at = "stage"
    BY <1>3, <2>1, <2>2, JobSteps DEF JobInv, Empties, Fills
  <2>3. ASSUME NEW p \in Parts, Empties(p), job.at = "replace" PROVE JobInv'
    <3>1. \A q \in Parts \ {p} : data'[q] = data[q]
      BY <1>0, <2>3 DEF Empties
    <3> QED BY <2>1, <2>3, <3>1 DEF JobInv, Empties
  <2>4. ASSUME NEW p \in Parts, Fills(p), job.at = "replace" PROVE JobInv'
    <3>1. data'[p] = job.point[p] /\ \A q \in Parts \ {p} : data'[q] = data[q]
      BY <1>0, <2>4 DEF Fills
    <3>2. job.filling = {p} /\ p \notin job.left
      BY <2>4 DEF Fills, JobInv
    <3>3. Whole(job'.point)
      BY <2>4, Wholeness DEF Fills, JobInv
    <3>4. ASSUME play.at = "job"
          PROVE  \A q \in Parts \ job.left : data'[q] = job.point[q]
      BY <2>4, <3>1, <3>2, <3>4 DEF JobInv
    <3>5. play.at = "job" /\ job.left = {} => data' = job.point
      <4>1. data' \in [Parts -> Versions] /\ job.point \in [Parts -> Versions]
        BY <1>0, <1>3, JobSteps DEF RestoreJobs
      <4> QED BY <3>4, <4>1
    <3>6. job.left # {} \/ play.at # "job" \/ Whole(data')
      BY <3>5 DEF JobInv, Whole
    <3> QED BY <2>1, <2>4, <3>2, <3>3, <3>4, <3>6 DEF JobInv, Fills
  <2> QED BY <1>3, <2>2, <2>3, <2>4, JobSteps
<1>4. CASE RunJob
  <2>1. play'.at = "job" /\ Whole(play'.point)
    <3>1. Goes("job")
      BY <1>4 DEF RunJob
    <3>2. play'.at = "job" /\ play'.point = State(0)
      BY <1>0, <3>1, Going
    <3> QED BY <3>2, Wholeness
  <2>2. job'.at = "stage" /\ job'.left = Parts /\ job'.filling = {} /\ job'.point = play.point
    BY <1>4 DEF RunJob, NoJob
  <2> QED BY <2>1, <2>2 DEF JobInv
<1>5. CASE JobDies
  <2>1. job'.at = "failed" /\ job'.filling = {} /\ job'.left = {} /\ job'.point = NoJob.point
    BY <1>5 DEF JobDies, NoJob
  <2> QED BY <1>5, <2>1, Wholeness DEF JobInv, JobDies
<1>6. CASE Restore
  <2>1. PICK i \in DOMAIN points : play'.at = "mark" /\ play'.point = points[i]
    BY <1>6 DEF Restore
  <2> QED BY <1>6, <2>1 DEF JobInv, PointsAreWhole, Restore, stored, Whole
<1>7. CASE Loops
  <2>1. PICK at \in {"mark", "stop", "start", "clear", "markFailed", "keepStopped"},
             d \in Deployments : Passed(at, d) /\ UNCHANGED <<stored, job>>
    BY <1>7, Items DEF Loops, MarkTarget, StopTarget, StartTarget, ClearTarget, MarkFailed, KeepStopped, Item
  <2> QED BY <2>1 DEF Passed, JobInv, stored, Whole
<1>8. CASE EndOfLoop \/ PodsGone \/ JobEnded \/ TargetBack \/ PlayFails
  <2>1. PICK at \in {"idle", "stop", "gone", "run", "start", "back", "clear", "markFailed",
                     "keepStopped"} : Goes(at) /\ UNCHANGED <<stored, job>>
    BY <1>8 DEF EndOfLoop, After, PodsGone, JobEnded, TargetBack, PlayFails
  <2>2. play'.at # "job" /\ Whole(play'.point)
    BY <1>0, <2>1, Going, Wholeness DEF JobInv
  <2> QED BY <2>1, <2>2 DEF JobInv, stored
<1>9. CASE PlayDies
  BY <1>9, Wholeness, Records DEF PlayDies, JobInv, stored
<1>10. CASE \E j \in Jobs : PodActs(j)
  <2>1. UNCHANGED <<stored, rest>>
    BY <1>10 DEF PodActs, PodRuns, Attempt, Check, Mark, Down, Zero, Dump, Push, Prune, Verify, Up, Wait,
           Clear, Unmark, PodFails, Terminate, PodDies, BackupOnly
  <2> QED BY <1>1, <2>1 DEF stored, rest
<1>11. CASE Reconcile \/ OperatorStarts
  BY <1>1, <1>11 DEF Reconcile, OperatorStarts, stored, rest
<1> QED BY <1>2, <1>3, <1>4, <1>5, <1>6, <1>7, <1>8, <1>9, <1>10, <1>11 DEF Next, PlayRuns, Loops, PodActs

(* The play goes on to another place.                                      *)
Turns == Restore \/ EndOfLoop \/ PodsGone \/ RunJob \/ JobEnded \/ TargetBack \/ PlayFails \/ PlayDies
Turn(from, to) == play.at \in from /\ play'.at = to
Turned ==
    \/ Turn({"idle"}, "mark") /\ (Races \/ \A j \in Jobs : At(j, "idle"))
    \/ /\ play.todo = {} /\ play.failed
       /\ Turn({"mark"}, "idle") \/ Turn({"stop", "start", "clear"}, "markFailed")
    \/ /\ play.todo = {} /\ ~play.failed
       /\ \/ Turn({"mark"}, "stop") \/ Turn({"stop"}, "gone") \/ Turn({"start"}, "back")
          \/ Turn({"clear"}, "idle")
    \/ Turn({"markFailed"}, "keepStopped") \/ Turn({"keepStopped"}, "idle")
    \/ Turn({"gone"}, "run") /\ running = {}
    \/ Turn({"run"}, "job")
    \/ Turn({"job"}, "start") /\ job.at = "complete"
    \/ Turn({"back"}, "clear")
    \/ Turn({"gone", "run", "job", "back"}, "markFailed")
    \/ play'.at = "idle"

LEMMA Turning ==
    ASSUME TypeOK, Turns
    PROVE  /\ play'.todo = Deployments /\ play'.failed = FALSE
           /\ UNCHANGED <<cluster, stored, pod>>
           /\ accepted' = accepted \/ (play.at = "clear" /\ accepted' = FALSE)
           /\ job' = job \/ RunJob
           /\ Turned
<1>1. UNCHANGED <<cluster, stored, pod>> /\ (job' = job \/ RunJob)
  BY DEF Turns, Restore, EndOfLoop, PodsGone, RunJob, JobEnded, TargetBack, PlayFails, PlayDies, RestoreOnly
<1>0. play \in Plays /\ accepted \in BOOLEAN
  BY DEF TypeOK
<1>2. accepted' = accepted \/ (play.at = "clear" /\ accepted' = FALSE)
  <2>1. CASE EndOfLoop /\ play.at = "clear" /\ ~play.failed
    BY <2>1 DEF EndOfLoop
  <2>2. CASE EndOfLoop /\ ~(play.at = "clear" /\ ~play.failed)
    BY <1>0, <2>2, Zenon DEF EndOfLoop
  <2>3. CASE ~EndOfLoop
    BY <2>3 DEF Turns, Restore, PodsGone, RunJob, JobEnded, TargetBack, PlayFails, PlayDies
  <2> QED BY <2>1, <2>2, <2>3
<1>3. CASE Restore
  BY <1>1, <1>2, <1>3 DEF Restore, Turned, Turn
<1>4. CASE PlayDies
  BY <1>1, <1>2, <1>4 DEF PlayDies, NoPlay, Turned
<1>5. CASE EndOfLoop
  <2>1. play'.at = After(play.at) /\ play'.todo = Deployments /\ play'.failed = FALSE
    BY <1>0, <1>5, Going DEF EndOfLoop
  <2>2. play.todo = {} /\ play.at \in {"mark", "stop", "start", "clear", "markFailed", "keepStopped"}
        /\ play.failed \in BOOLEAN
    BY <1>0, <1>5 DEF EndOfLoop, Plays
  <2>3. Turned
    BY <2>1, <2>2 DEF Turned, Turn, After
  <2> QED BY <1>1, <1>2, <2>1, <2>3
<1>6. CASE PodsGone \/ RunJob \/ JobEnded \/ TargetBack \/ PlayFails
  <2>1. PICK at : /\ Goes(at)
                  /\ \/ play.at = "gone" /\ at = "run" /\ running = {}
                     \/ play.at = "run" /\ at = "job"
                     \/ play.at = "job" /\ at = "start" /\ job.at = "complete"
                     \/ play.at = "back" /\ at = "clear"
                     \/ play.at \in {"gone", "run", "job", "back"} /\ at = "markFailed"
    BY <1>6 DEF PodsGone, RunJob, JobEnded, TargetBack, PlayFails
  <2>2. play'.at = at /\ play'.todo = Deployments /\ play'.failed = FALSE
    BY <1>0, <2>1, Going
  <2>3. Turned
    BY <2>1, <2>2 DEF Turned, Turn
  <2> QED BY <1>1, <1>2, <2>2, <2>3
<1> QED BY <1>3, <1>4, <1>5, <1>6 DEF Turns

LEMMA HeldKept ==
    ASSUME TypeOK, Working, JobInv, HeldInv, TargetInv, MarkInv, BackupInv, Next PROVE HeldInv'
<1>0. play \in Plays
  BY DEF TypeOK
<1>1. CASE \E j \in Jobs : PodActs(j)
  <2>1. UNCHANGED <<running, stored, rest>>
    BY <1>1, PodTouches
  <2>2. CASE UNCHANGED <<replicas, mark>>
    BY <2>1, <2>2 DEF HeldInv, Replacing, Whole, AllMarked, Restored, Stopped, stored, rest
  <2>3. CASE ~SomeMarked
    BY <2>1, <2>3, MarkFacts DEF HeldInv, Replacing, Whole, stored, rest
  <2> QED BY <1>1, <2>2, <2>3, PodTouches
<1>2. CASE Write
  <2>1. Whole(data') /\ Whole(data) /\ UNCHANGED <<cluster, play, job, accepted>>
    BY <1>2, Writing DEF Write, rest
  <2> QED BY <2>1 DEF HeldInv, Replacing, AllMarked, Restored, Stopped, cluster
<1>3. CASE Reconcile
  BY <1>3 DEF Reconcile, HeldInv, Replacing, Whole, AllMarked, Restored, Stopped, stored, rest
<1>4. CASE Loops
  <2>1. PICK at \in {"mark", "stop", "start", "clear", "markFailed", "keepStopped"},
             d \in Deployments : Passed(at, d) /\ UNCHANGED <<stored, job, accepted>>
    BY <1>4, Items DEF Loops, MarkTarget, StopTarget, StartTarget, ClearTarget, MarkFailed, KeepStopped, Item
  <2>2. CASE Replacing \/ ~Whole(data)
    <3>1. /\ at \notin {"start", "clear"} /\ play'.at = at
          /\ AllMarked /\ (~accepted => Stopped /\ running = {})
      BY <2>1, <2>2 DEF HeldInv, Passed
    <3>2. AllMarked'
      BY <2>1, <3>1 DEF Passed, Effect, Annotate, Scale, cluster, AllMarked, Restored, RestoreMarks, TypeOK
    <3>3. ~accepted => Stopped' /\ running' = {}
      BY <2>1, <3>1 DEF Passed, Effect, Annotate, Scale, cluster, Stopped, TypeOK
    <3> QED BY <2>1, <3>1, <3>2, <3>3 DEF HeldInv, Replacing, stored
  <2>3. CASE ~(Replacing \/ ~Whole(data))
    BY <2>1, <2>3 DEF HeldInv, Replacing, Whole, stored
  <2> QED BY <2>2, <2>3
<1>5. CASE Turns /\ ~RunJob
  <2>1. UNCHANGED <<cluster, stored, job>>
    BY <1>5, Turning
  <2>2. CASE Replacing \/ ~Whole(data)
    <3>1. /\ play.at \notin {"start", "back", "clear"}
          /\ play.at = "job" /\ job.at = "complete" => FALSE
      BY <2>2 DEF HeldInv, JobInv, Replacing
    <3>2. play'.at \notin {"start", "back", "clear"} /\ accepted' = accepted
      BY <1>5, <3>1, Turning DEF Turned, Turn
    <3> QED BY <2>1, <2>2, <3>2 DEF HeldInv, Replacing, Whole, AllMarked, Restored, Stopped, cluster, stored
  <2>3. CASE ~(Replacing \/ ~Whole(data))
    BY <2>1, <2>3 DEF HeldInv, Replacing, Whole, stored
  <2> QED BY <2>2, <2>3
<1>6. CASE RunJob
  <2>1. play'.at = "job" /\ UNCHANGED <<cluster, stored, accepted>> /\ play.at = "run"
    BY <1>0, <1>6, Going DEF RunJob
  <2> QED BY <2>1 DEF HeldInv, TargetInv, MarkInv, AllMarked, Restored, Stopped, cluster
<1>7. CASE JobStep \/ JobDies
  <2>1. Replacing /\ UNCHANGED <<cluster, play, accepted>>
    BY <1>7, JobSteps DEF JobStep, JobDies, Replacing
  <2> QED BY <2>1 DEF HeldInv, AllMarked, Restored, Stopped, cluster
<1>8. CASE OperatorStarts
  BY <1>8 DEF OperatorStarts, HeldInv, Replacing, Whole, AllMarked, Restored, Scale, stored
<1> QED BY <1>1, <1>2, <1>3, <1>4, <1>5, <1>6, <1>7, <1>8 DEF Next, PlayRuns, Loops, Turns, PodActs

LEMMA TargetKept ==
    ASSUME TypeOK, Working, JobInv, TargetInv, MarkInv, BackupInv, Next PROVE TargetInv'
<1>0. play \in Plays
  BY DEF TypeOK
<1>1. CASE \E j \in Jobs : PodActs(j)
  <2>1. UNCHANGED <<running, stored, rest>>
    BY <1>1, PodTouches
  <2>2. CASE UNCHANGED <<replicas, mark>>
    BY <2>1, <2>2 DEF TargetInv, Whole, Stopped, stored, rest
  <2>3. CASE Through
    BY <2>1, <2>3 DEF Through, TargetInv, Whole, stored, rest
  <2> QED BY <1>1, <2>2, <2>3, PodTouches
<1>2. CASE Write
  <2>1. Whole(data') /\ UNCHANGED <<cluster, play, job>>
    BY <1>2, Writing DEF Write, rest
  <2> QED BY <2>1 DEF TargetInv, Stopped, cluster
<1>3. CASE Reconcile
  BY <1>3 DEF Reconcile, TargetInv, Whole, Stopped, stored, rest
<1>4. CASE Loops
  <2>1. PICK at \in {"mark", "stop", "start", "clear", "markFailed", "keepStopped"},
             d \in Deployments : Passed(at, d) /\ UNCHANGED <<stored, job>>
    BY <1>4, Items DEF Loops, MarkTarget, StopTarget, StartTarget, ClearTarget, MarkFailed, KeepStopped, Item
  <2>2. at = "stop" /\ ~play'.failed => \A e \in Deployments \ play'.todo : replicas'[e] = 0
    BY <2>1 DEF Passed, Effect, Scale, TargetInv, TypeOK
  <2> QED BY <2>1, <2>2 DEF Passed, TargetInv, Whole, stored
<1>5. CASE Turns
  <2>1. UNCHANGED <<cluster, stored>> /\ (job' = job \/ (RunJob /\ play'.at = "job"))
    BY <1>0, <1>5, Turning, Going DEF RunJob
  <2>2. play'.todo = Deployments /\ Turned
    BY <1>5, Turning
  <2>3. play'.at = "stop" => Deployments \ play'.todo = {}
    BY <2>2
  <2>4. play'.at = "gone" => Stopped
    BY <2>2 DEF Turned, Turn, TargetInv, Stopped
  <2>5. play'.at \in {"run", "job"} => Stopped /\ running = {}
    BY <2>2 DEF Turned, Turn, TargetInv
  <2>6. play'.at \in {"start", "back", "clear"} => Whole(data) /\ job.at = "complete"
    BY <2>2 DEF Turned, Turn, TargetInv, JobInv
  <2> QED BY <2>1, <2>3, <2>4, <2>5, <2>6 DEF TargetInv, Whole, Stopped, cluster, stored
<1>7. CASE JobStep \/ JobDies
  <2>1. job.at # "complete" /\ UNCHANGED <<cluster, play>>
    BY <1>7, JobSteps DEF JobStep, JobDies
  <2> QED BY <2>1 DEF TargetInv, Stopped, cluster
<1>8. CASE OperatorStarts
  BY <1>8 DEF OperatorStarts, TargetInv, stored
<1> QED BY <1>1, <1>2, <1>3, <1>4, <1>5, <1>7, <1>8 DEF Next, PlayRuns, Loops, Turns, PodActs

LEMMA MarkKept ==
    ASSUME TypeOK, Working, MarkInv, BackupInv, ~Races, Next PROVE MarkInv'
<1>0. play \in Plays /\ play.failed \in BOOLEAN
  BY DEF TypeOK, Plays
<1>1. CASE \E j \in Jobs : PodActs(j)
  <2>1. PICK j \in Jobs : PodActs(j)
    BY <1>1
  <2>2. UNCHANGED play /\ (UNCHANGED mark \/ (Through /\ ~SomeMarked))
    BY <2>1, PodTouches DEF rest
  <2>3. play.at # "mark"
    <3>1. pod[j].at = "idle" => Attempt(j)
      BY <2>1 DEF PodActs, PodRuns, Check, Mark, Down, Zero, Dump, Push, Prune, Verify, Up, Wait,
             Clear, Unmark, PodFails, Terminate, PodDies, At
    <3> QED BY <3>1 DEF Attempt, Marking, MarkInv, At
  <2>4. CASE UNCHANGED mark
    BY <2>2, <2>3, <2>4 DEF MarkInv, AllMarked, SomeMarked, Restored, Through
  <2>5. CASE Through
    BY <2>2, <2>3, <2>5 DEF MarkInv, Through, SomeMarked
  <2> QED BY <2>2, <2>4, <2>5
<1>2. CASE Write \/ Reconcile \/ JobStep \/ JobDies \/ OperatorStarts
  <2>1. UNCHANGED <<mark, pod, play>>
    BY <1>2 DEF Write, Reconcile, JobStep, JobDies, OperatorStarts, RestoreOnly, Scale, cluster, rest
  <2> QED BY <2>1 DEF MarkInv, AllMarked, SomeMarked, Restored, Through, At
<1>3. CASE Loops
  <2>1. PICK at \in {"mark", "stop", "start", "clear", "markFailed", "keepStopped"},
             d \in Deployments : Passed(at, d) /\ UNCHANGED pod
    BY <1>3, Items DEF Loops, MarkTarget, StopTarget, StartTarget, ClearTarget, MarkFailed, KeepStopped,
           Item, RestoreOnly
  <2>2. /\ play.at = at /\ play'.at = at /\ d \in play.todo /\ play'.todo = play.todo \ {d}
        /\ play.failed => play'.failed
    BY <1>0, <2>1 DEF Passed
  <2>3. CASE at \in {"stop", "start", "keepStopped"}
    <3>1. UNCHANGED mark
      BY <2>1, <2>3 DEF Passed, Effect, Scale, cluster
    <3> QED BY <2>2, <2>3, <3>1 DEF MarkInv, AllMarked, SomeMarked, Restored, Through
  <2>4. CASE at = "mark"
    <3>1. ~play'.failed => mark' = [mark EXCEPT ![d] = InProgress] /\ ~play.failed
      BY <1>0, <2>1, <2>2, <2>4 DEF Passed, Effect, Annotate
    <3> QED BY <2>1, <2>2, <2>4, <3>1 DEF MarkInv, Restored, RestoreMarks, At, TypeOK
  <2>5. CASE at = "markFailed"
    <3>1. mark' = [mark EXCEPT ![d] = Failed] \/ mark' = mark
      BY <2>1, <2>5 DEF Passed, Effect, Annotate, cluster
    <3>2. \A e \in Deployments : mark[e] # Quiesced /\ (mark'[e] = mark[e] \/ mark'[e] = Failed)
      BY <2>2, <2>5, <3>1 DEF MarkInv, Through, TypeOK
    <3>3. SomeMarked' /\ \A e \in Deployments : mark'[e] # Quiesced
      BY <2>2, <2>5, <3>2 DEF MarkInv, Through, SomeMarked, Restored, RestoreMarks, Quiesced, Failed
    <3> QED BY <2>2, <2>5, <3>3 DEF MarkInv
  <2>6. CASE at = "clear"
    <3>1. ~Through
      BY <2>2, <2>6 DEF Through
    <3>2. \/ mark' = [mark EXCEPT ![d] = ""] /\ play'.failed = play.failed
          \/ mark' = mark /\ play'.failed = TRUE
      BY <2>1, <2>6 DEF Passed, Effect, Annotate, cluster
    <3>3. \A e \in Deployments \ {d} : mark'[e] = mark[e]
      BY <3>2 DEF TypeOK
    <3>4. \A e \in play'.todo : e \in Deployments /\ Restored(e)'
      BY <1>0, <2>2, <2>6, <3>3 DEF MarkInv, Restored, Plays
    <3>5. play'.failed => \E e \in Deployments \ play'.todo : Restored(e)'
      BY <2>2, <2>6, <3>2, <3>3 DEF MarkInv, Restored
    <3>6. ~Through' => SomeMarked'
      BY <2>2, <2>6, <3>4, <3>5 DEF Through, SomeMarked
    <3>7. \A e \in Deployments : mark'[e] # Quiesced
      BY <2>2, <2>6, <3>1, <3>2, <3>3 DEF MarkInv, TypeOK, Quiesced
    <3> QED BY <2>2, <2>6, <3>4, <3>5, <3>6, <3>7 DEF MarkInv
  <2> QED BY <2>3, <2>4, <2>5, <2>6
<1>4. CASE Turns
  <2>1. UNCHANGED <<mark, pod>> /\ play'.todo = Deployments /\ play'.failed = FALSE /\ Turned
    BY <1>4, Turning DEF cluster
  <2>2. play'.at = "mark" => \A j \in Jobs : At(j, "idle")
    BY <2>1 DEF Turned, Turn
  <2>3. play'.at \in {"stop", "gone", "run", "job", "start", "back", "clear"} => AllMarked
    BY <2>1 DEF Turned, Turn, MarkInv, AllMarked
  <2>4. play'.at \in {"markFailed", "keepStopped"} =>
            SomeMarked /\ \A d \in Deployments : mark[d] # Quiesced
    <3>1. CASE AllMarked
      BY <3>1, MarkFacts DEF AllMarked
    <3>2. CASE ~AllMarked
      BY <2>1, <3>2 DEF Turned, Turn, MarkInv, Through
    <3> QED BY <3>1, <3>2
  <2>5. AllMarked => SomeMarked /\ \A d \in Deployments : mark[d] # Quiesced
    BY MarkFacts DEF AllMarked
  <2> QED BY <2>1, <2>2, <2>3, <2>4, <2>5 DEF MarkInv, AllMarked, SomeMarked, Restored, At
<1> QED BY <1>1, <1>2, <1>3, <1>4 DEF Next, PlayRuns, Loops, Turns, PodActs

(* BackupInv of one pod.                                                   *)
Backup(j) ==
    /\ pod[j].at = "check" =>
          /\ SomeMarked => \E d \in pod[j].todo : Restored(d)
          /\ play.at \in {"stop", "gone", "run", "job", "start", "back", "clear"} =>
                \A d \in Deployments \ pod[j].todo : ~Restored(d)
    /\ pod[j].at = "verify" /\ pod[j].todo # Deployments =>
          Through /\ \A d \in Deployments \ pod[j].todo : ~Restored(d)
    /\ pod[j].at \notin {"idle", "check", "verify"} => Through /\ ~SomeMarked

(* The pod that takes the step.                                            *)
LEMMA OwnStep ==
    ASSUME TypeOK, Working, MarkInv, BackupInv, NEW j \in Jobs, PodActs(j) PROVE Backup(j)'
<1>1. Steps(j) /\ Backup(j)
  BY PodSteps DEF BackupInv, Backup
<1>2. /\ UNCHANGED <<running, stored, rest>>
      /\ UNCHANGED mark \/ (Through /\ ~SomeMarked /\ ~SomeMarked')
  BY PodTouches
<1>3. UNCHANGED play
  BY <1>2 DEF rest
<1>4. CASE Left(j)
  BY <1>4 DEF Left, Moved, Backup
<1>5. CASE Attempt(j)
  BY <1>1, <1>5 DEF Steps, Moved, Backup, SomeMarked
<1>6. CASE Check(j) /\ ~Left(j)
  <2>1. PICK d \in pod[j].todo :
                /\ MayStop(d)
                /\ \/ pod[j].todo = {d} /\ Moved(j, "down", Deployments)
                   \/ pod[j].todo = {d} /\ \E u \in SUBSET Deployments : Moved(j, "mark", u)
                   \/ Moved(j, "check", pod[j].todo \ {d})
    BY <1>1, <1>6, Zenon DEF Steps
  <2>2. pod[j].at = "check" /\ d \in Deployments /\ ~Restored(d) /\ UNCHANGED mark
    BY <1>6, <2>1, MarkFacts DEF Check, At, Working, cluster
  <2>3. CASE Moved(j, "check", pod[j].todo \ {d})
    BY <1>1, <1>3, <2>2, <2>3 DEF Moved, Backup, SomeMarked, Restored
  <2>4. CASE pod[j].todo = {d} /\ \E u, at : at \in {"mark", "down"} /\ Moved(j, at, u)
    <3>1. ~SomeMarked
      BY <1>1, <2>2, <2>4 DEF Backup
    <3>2. Through
      BY <2>2, <3>1, Apart DEF At
    <3> QED BY <1>3, <2>2, <2>4, <3>1, <3>2 DEF Moved, Backup, SomeMarked, Restored, Through
  <2> QED BY <2>1, <2>3, <2>4
<1>7. CASE Verify(j) /\ ~Left(j)
  <2>1. PICK d \in pod[j].todo :
                /\ mark[d] = Quiesced
                /\ \/ pod[j].todo = {d} /\ Moved(j, "up", pod[j].names)
                   \/ Moved(j, "verify", pod[j].todo \ {d})
    BY <1>1, <1>7, Zenon DEF Steps
  <2>2. pod[j].at = "verify" /\ d \in Deployments /\ ~Restored(d) /\ UNCHANGED mark
    BY <1>7, <2>1, MarkFacts DEF Verify, At, Working, cluster
  <2>3. Through /\ Through'
    <3>1. Through
      BY <2>1, <2>2, Apart DEF At
    <3> QED BY <1>3, <3>1 DEF Through
  <2>4. \A e \in Deployments \ (pod[j].todo \ {d}) : ~Restored(e)
    BY <1>1, <2>2 DEF Backup
  <2>5. pod[j].todo = {d} => ~SomeMarked
    BY <2>4 DEF SomeMarked
  <2> QED BY <2>1, <2>2, <2>3, <2>4, <2>5 DEF Moved, Backup, SomeMarked, Restored
<1>8. CASE pod[j].at \notin {"idle", "check", "verify"}
  <2>1. Through' /\ ~SomeMarked'
    BY <1>1, <1>2, <1>3, <1>8 DEF Backup, Through, SomeMarked, Restored
  <2>2. Left(j) \/ \E at, todo : at \notin {"idle", "check", "verify"} /\ Moved(j, at, todo)
    BY <1>1, <1>8, Zenon DEF Steps, PodActs, PodRuns, Attempt, Check, Verify, At
  <2> QED BY <1>4, <2>1, <2>2 DEF Moved, Backup
<1> QED BY <1>1, <1>4, <1>5, <1>6, <1>7, <1>8 DEF PodActs, PodRuns, Steps, Mark, Down, Zero, Dump, Push,
           Prune, Up, Wait, Clear, Unmark, PodFails, Terminate, PodDies, At

LEMMA BackupKept ==
    ASSUME TypeOK, Working, MarkInv, BackupInv, ~Races, Next PROVE BackupInv'
<1>0. /\ play \in Plays /\ play.failed \in BOOLEAN /\ play.todo \subseteq Deployments
      /\ \A j \in Jobs : Backup(j)
  BY DEF TypeOK, Plays, BackupInv, Backup
<1>1. SUFFICES ASSUME NEW i \in Jobs PROVE Backup(i)'
  BY DEF BackupInv, Backup
<1>2. CASE \E j \in Jobs : PodActs(j)
  <2>1. PICK j \in Jobs : PodActs(j)
    BY <1>2
  <2>2. CASE i = j
    BY <2>1, <2>2, OwnStep
  <2>3. CASE i # j
    <3>1. pod'[i] = pod[i]
      BY <2>1, <2>3, PodMoves DEF Moved
    <3>2. /\ UNCHANGED play
          /\ UNCHANGED mark \/ (Through /\ ~SomeMarked /\ ~SomeMarked')
      BY <2>1, PodTouches DEF rest
    <3>3. CASE UNCHANGED mark
      BY <1>0, <3>1, <3>2, <3>3 DEF Backup, SomeMarked, Restored, Through
    <3>4. CASE Through /\ ~SomeMarked'
      BY <3>1, <3>2, <3>4 DEF Backup, SomeMarked, Restored, Through
    <3> QED BY <3>2, <3>3, <3>4
  <2> QED BY <2>2, <2>3
<1>3. CASE Write \/ Reconcile \/ JobStep \/ JobDies \/ OperatorStarts
  <2>1. UNCHANGED <<mark, pod, play>>
    BY <1>3 DEF Write, Reconcile, JobStep, JobDies, OperatorStarts, RestoreOnly, Scale, cluster, rest
  <2> QED BY <1>0, <2>1 DEF Backup, SomeMarked, Restored, Through
<1>4. CASE Loops
  <2>1. PICK at \in {"mark", "stop", "start", "clear", "markFailed", "keepStopped"},
             d \in Deployments : Passed(at, d) /\ UNCHANGED pod
    BY <1>4, Items DEF Loops, MarkTarget, StopTarget, StartTarget, ClearTarget, MarkFailed, KeepStopped,
           Item, RestoreOnly
  <2>2. play.at = at /\ play'.at = at /\ d \in play.todo /\ ~Through
    BY <2>1 DEF Passed, Through
  <2>3. CASE at = "mark"
    BY <2>1, <2>2, <2>3 DEF MarkInv, At, Backup
  <2>4. CASE at \in {"stop", "start", "keepStopped"}
    <3>1. UNCHANGED mark
      BY <2>1, <2>4 DEF Passed, Effect, Scale, cluster
    <3> QED BY <1>0, <2>1, <2>2, <2>4, <3>1 DEF Backup, SomeMarked, Restored
  <2>5. CASE at = "markFailed"
    <3>1. mark' = [mark EXCEPT ![d] = Failed] \/ mark' = mark
      BY <2>1, <2>5 DEF Passed, Effect, Annotate, cluster
    <3>2. SomeMarked /\ \A e \in Deployments : Restored(e) => Restored(e)'
      BY <2>2, <2>5, <3>1 DEF MarkInv, Restored, RestoreMarks, TypeOK
    <3>3. pod[i].at = "check" => pod[i].todo \subseteq Deployments
      BY DEF Working
    <3> QED BY <1>0, <2>1, <2>2, <2>5, <3>2, <3>3 DEF Backup
  <2>6. CASE at = "clear"
    <3>1. mark' = [mark EXCEPT ![d] = ""] \/ mark' = mark
      BY <2>1, <2>6 DEF Passed, Effect, Annotate, cluster
    <3>2. \A e \in Deployments : Restored(e)' => Restored(e)
      BY <3>1 DEF Restored, RestoreMarks, InProgress, Failed, TypeOK
    <3>3. pod[i].at = "check" => \A e \in Deployments : Restored(e) => e \in pod[i].todo
      BY <1>0, <2>2, <2>6 DEF Backup
    <3> QED BY <1>0, <2>1, <2>2, <3>2, <3>3 DEF Backup, SomeMarked
  <2> QED BY <2>3, <2>4, <2>5, <2>6
<1>5. CASE Turns
  <2>1. UNCHANGED <<mark, pod>> /\ play'.todo = Deployments /\ Turned
    BY <1>5, Turning DEF cluster
  <2>2. pod[i].at = "idle" => Backup(i)'
    BY <2>1 DEF Backup
  <2>3. ASSUME pod[i].at # "idle" PROVE Backup(i)'
    <3>1. play.at # "mark" /\ play'.at # "mark"
      BY <2>1, <2>3 DEF MarkInv, Turned, Turn, At
    <3>2. play'.at \in {"stop", "gone", "run", "job", "start", "back", "clear"} =>
             play.at \in {"stop", "gone", "run", "job", "start", "back", "clear"}
      BY <2>1, <3>1 DEF Turned, Turn
    <3>3. Through => Through'
      BY <2>1, <3>1 DEF Turned, Turn, Through
    <3> QED BY <1>0, <2>1, <3>2, <3>3 DEF Backup, SomeMarked, Restored
  <2> QED BY <2>2, <2>3
<1> QED BY <1>2, <1>3, <1>4, <1>5 DEF Next, PlayRuns, Loops, Turns, PodActs

LEMMA RestoreKept ==
    ASSUME TypeOK, Working, RestoreInv, PointsAreWhole, ~Races, [Next]_vars
    PROVE  RestoreInv'
<1>1. CASE Next
  BY <1>1, JobKept, HeldKept, TargetKept, MarkKept, BackupKept DEF RestoreInv
<1>2. CASE UNCHANGED vars
  BY <1>2 DEF vars, cluster, stored, rest, RestoreInv, JobInv, HeldInv, TargetInv, MarkInv, BackupInv,
         Replacing, Whole, AllMarked, SomeMarked, Restored, Stopped, Through, At
<1> QED BY <1>1, <1>2

LEMMA RestoreInit == ASSUME Init PROVE RestoreInv /\ PointsAreWhole /\ UploadInv
<1>1. /\ Whole(data) /\ Whole(play.point) /\ Whole(job.point)
      /\ play.at = "idle" /\ job.at = "none" /\ job.filling = {} /\ job.left = {}
      /\ \A j \in Jobs : pod[j].at = "idle"
  BY Wholeness, Records DEF Init, NoJob
<1>2. PointsAreWhole
  <2>1. ASSUME NEW x PROVE \A i \in DOMAIN <<x>> : <<x>>[i] = x
    OBVIOUS
  <2>2. points = <<State(0)>>
    BY DEF Init
  <2> QED BY <2>1, <2>2, Wholeness DEF PointsAreWhole
<1> QED BY <1>1, <1>2 DEF RestoreInv, JobInv, HeldInv, TargetInv, MarkInv, BackupInv, UploadInv, Replacing

LEMMA Serving == RestoreInv => NeverServesPartial
  BY DEF RestoreInv, JobInv, HeldInv, Replacing, NeverServesPartial

(* For any backup Jobs, the schedule's and Backup App's: as long as the    *)
(* recovery points are whole, no pod of the application runs on a state    *)
(* that a restore left half replaced or is replacing, unless the operator  *)
(* started it so (NeverServesPartial).  A restore is asked for between     *)
(* backups (~Races).                                                       *)
THEOREM WholePointsServeWhole ==
    ASSUME ~Races PROVE Spec /\ []PointsAreWhole => []NeverServesPartial
<1>1. TypeOK /\ Working /\ RestoreInv /\ PointsAreWhole /\ [Next]_vars
         => (TypeOK /\ Working /\ RestoreInv)'
  BY StepTypes, RestoreKept
<1>2. Init => TypeOK /\ Working /\ RestoreInv
  BY InitTypes, RestoreInit
<1>3. RestoreInv => NeverServesPartial
  BY Serving
<1> QED BY <1>1, <1>2, <1>3, PTL DEF Spec

-----------------------------------------------------------------------------
(* The backup: with one Job, UploadInv is kept.                            *)

OneJob == \A i, j \in Jobs : i = j

(* What an upload has read is the whole of what there is.                  *)
LEMMA Uploaded ==
    ASSUME TypeOK, Working, RestoreInv, UploadInv, NEW j \in Jobs, Push(j), PointsAreWhole
    PROVE  PointsAreWhole'
<1>1. /\ pod[j].at = "push" /\ data \in [Parts -> Versions] /\ pod[j].got \in [Parts -> Versions]
      /\ \A p \in Parts \ pod[j].todo : pod[j].got[p] = data[p]
  BY PodFields DEF Push, At, TypeOK, UploadInv
<1>2. Whole(data)
  BY <1>1, MarkFacts DEF RestoreInv, HeldInv, BackupInv
<1>3. PICK p \in pod[j].todo :
         LET got == [pod[j].got EXCEPT ![p] = data[p]] IN
         \/ pod[j].todo = {p} /\ points' = Append(points, got)
         \/ points' = points
  BY PodSteps DEF Steps
<1>4. CASE points' = points
  BY <1>4 DEF PointsAreWhole, Whole
<1>5. CASE pod[j].todo = {p} /\ points' = Append(points, [pod[j].got EXCEPT ![p] = data[p]])
  <2>1. [pod[j].got EXCEPT ![p] = data[p]] = data
    BY <1>1, <1>5
  <2>2. points' = Append(points, data) /\ points \in Seq([Parts -> Versions])
    BY <1>5, <2>1 DEF TypeOK
  <2>3. \A i \in DOMAIN points' : points'[i] = data \/ \E k \in DOMAIN points : points'[i] = points[k]
    BY <1>1, <2>2, Added
  <2> QED BY <1>2, <2>3 DEF PointsAreWhole, Whole
<1> QED BY <1>3, <1>4, <1>5

LEMMA PointsKept ==
    ASSUME TypeOK, Working, RestoreInv, UploadInv, PointsAreWhole, Next
    PROVE  PointsAreWhole'
<1>1. CASE \E j \in Jobs : Push(j)
  BY <1>1, Uploaded
<1>2. CASE \E j \in Jobs : Prune(j)
  <2>1. points' = Pruned(points) /\ points \in Seq([Parts -> Versions]) /\ data \in [Parts -> Versions]
    BY <1>2 DEF Prune, TypeOK
  <2>2. \A i \in DOMAIN Pruned(points) : \E k \in DOMAIN points : Pruned(points)[i] = points[k]
    BY <2>1, Kept
  <2> QED BY <2>1, <2>2 DEF PointsAreWhole, Whole
<1>3. CASE ~ \E j \in Jobs : Push(j) \/ Prune(j)
  <2>1. points' = points
    BY <1>3 DEF Next, PodRuns, Attempt, Check, Mark, Down, Zero, Dump, Verify, Up, Wait, Clear, Unmark, PodFails,
           Terminate, PodDies, Reconcile, Write, Restore, PlayRuns, PlayFails, PlayDies, JobStep, JobDies,
           OperatorStarts, RestoreOnly, MarkTarget, StopTarget, StartTarget, ClearTarget, MarkFailed,
           KeepStopped, Item, EndOfLoop, PodsGone, RunJob, JobEnded, TargetBack
  <2> QED BY <2>1 DEF PointsAreWhole, Whole
<1> QED BY <1>1, <1>2, <1>3

(* UploadInv of one pod.                                                   *)
Upload(j) ==
    /\ pod[j].at = "down" => \A d \in Deployments \ pod[j].todo : replicas[d] = 0
    /\ pod[j].at = "zero" => Stopped
    /\ pod[j].at \in {"dump", "push", "prune"} => Stopped /\ running = {}
    /\ pod[j].at = "push" => \A p \in Parts \ pod[j].todo : pod[j].got[p] = data[p]

LEMMA OwnUpload ==
    ASSUME TypeOK, Working, UploadInv, NEW j \in Jobs, PodActs(j) PROVE Upload(j)'
<1>1. Steps(j) /\ Upload(j)
  BY PodSteps DEF UploadInv, Upload
<1>2. UNCHANGED stored
  BY DEF PodActs, PodRuns, Attempt, Check, Mark, Down, Zero, Dump, Push, Prune, Verify, Up, Wait,
         Clear, Unmark, PodFails, Terminate, PodDies, BackupOnly
<1>3. ASSUME NEW at, at \notin {"down", "zero", "dump", "push", "prune"}, NEW todo, Moved(j, at, todo)
      PROVE  Upload(j)'
  BY <1>3 DEF Moved, Upload
<1>4. CASE Left(j)
  BY <1>3, <1>4 DEF Left
<1>5. ASSUME Moved(j, "down", Deployments) PROVE Upload(j)'
  BY <1>5 DEF Moved, Upload
<1>6. CASE Attempt(j) \/ Verify(j) \/ Up(j) \/ Wait(j) \/ Clear(j) \/ Unmark(j) \/ Prune(j)
           \/ PodFails(j) \/ Terminate(j) \/ PodDies(j)
  BY <1>1, <1>3, <1>4, <1>6, Zenon DEF Steps
<1>7. CASE Check(j) \/ Mark(j)
  BY <1>1, <1>3, <1>4, <1>5, <1>7, Zenon DEF Steps
<1>8. CASE Down(j)
  <2>1. PICK d \in pod[j].todo :
          /\ replicas' = [replicas EXCEPT ![d] = 0]
          /\ \/ pod[j].todo = {d} /\ Moved(j, "zero", {})
             \/ Moved(j, "down", pod[j].todo \ {d})
    BY <1>1, <1>8, Zenon DEF Steps, Scale
  <2>2. \A e \in Deployments \ (pod[j].todo \ {d}) : replicas'[e] = 0
    BY <1>1, <1>8, <2>1 DEF Upload, Down, At, TypeOK
  <2> QED BY <2>1, <2>2 DEF Moved, Upload, Stopped
<1>9. CASE Zero(j)
  <2>1. Stopped' /\ running' = {}
    BY <1>1, <1>9 DEF Zero, At, Upload, Stopped, cluster
  <2>2. Moved(j, "dump", {}) \/ Moved(j, "push", Parts)
    BY <1>1, <1>9, Zenon DEF Steps
  <2> QED BY <2>1, <2>2 DEF Moved, Upload
<1>10. CASE Dump(j)
  <2>1. Stopped' /\ running' = {} /\ data' = data
    BY <1>1, <1>2, <1>10 DEF Dump, At, Upload, Stopped, cluster, stored
  <2>2. /\ Moved(j, "push", Parts \ {Database})
        /\ pod'[j].got = [pod[j].got EXCEPT ![Database] = data[Database]]
    BY <1>1, <1>10, Zenon DEF Steps
  <2>3. pod[j].got \in [Parts -> Versions] /\ Database \in Parts
    BY PodFields, DatabaseAssumption DEF TypeOK
  <2>4. \A p \in Parts \ (Parts \ {Database}) : pod'[j].got[p] = data[p]
    BY <2>2, <2>3
  <2> QED BY <2>1, <2>2, <2>4 DEF Moved, Upload
<1>11. CASE Push(j)
  <2>1. Stopped' /\ running' = {} /\ data' = data
    BY <1>1, <1>2, <1>11 DEF Push, At, Upload, Stopped, cluster, stored
  <2>2. PICK p \in pod[j].todo :
          \/ Moved(j, "prune", {})
          \/ /\ Moved(j, "push", pod[j].todo \ {p})
             /\ pod'[j].got = [pod[j].got EXCEPT ![p] = data[p]]
    BY <1>1, <1>11, Zenon DEF Steps
  <2>3. pod[j].got \in [Parts -> Versions]
    BY PodFields DEF TypeOK
  <2>4. \A q \in Parts \ (pod[j].todo \ {p}) : [pod[j].got EXCEPT ![p] = data[p]][q] = data[q]
    BY <1>1, <1>11, <2>3 DEF Upload, Push, At
  <2> QED BY <2>1, <2>2, <2>4 DEF Moved, Upload
<1> QED BY <1>6, <1>7, <1>8, <1>9, <1>10, <1>11 DEF PodActs, PodRuns

LEMMA UploadKept ==
    ASSUME TypeOK, Working, RestoreInv, UploadInv, OneJob, Next PROVE UploadInv'
<1>1. SUFFICES ASSUME NEW i \in Jobs PROVE Upload(i)'
  BY DEF UploadInv, Upload
<1>2. CASE \E j \in Jobs : PodActs(j)
  BY <1>2, OwnUpload DEF OneJob
<1>3. ASSUME ~ \E j \in Jobs : PodActs(j) PROVE pod' = pod
  BY <1>3 DEF Next, PodActs, Reconcile, Write, Restore, PlayRuns, PlayFails, PlayDies, JobStep, JobDies,
         OperatorStarts, RestoreOnly, MarkTarget, StopTarget, StartTarget, ClearTarget, MarkFailed,
         KeepStopped, Item, EndOfLoop, PodsGone, RunJob, JobEnded, TargetBack
<1>4. ASSUME ~ \E j \in Jobs : PodActs(j), pod[i].at \in {"down", "zero", "dump", "push", "prune"}
      PROVE  Upload(i)'
  <2>1. Upload(i) /\ Through /\ ~SomeMarked /\ ~Replacing /\ pod' = pod
    BY <1>3, <1>4, MarkFacts DEF UploadInv, Upload, RestoreInv, BackupInv, HeldInv
  <2>2. CASE Reconcile
    BY <2>1, <2>2 DEF Reconcile, Upload, Stopped, stored
  <2>3. CASE Write
    BY <2>1, <2>3 DEF Write, Upload, Stopped, cluster
  <2>4. CASE Loops
    BY <2>1, <2>4 DEF Loops, MarkTarget, StopTarget, StartTarget, ClearTarget, MarkFailed, KeepStopped,
           Item, Through
  <2>5. CASE Turns \/ JobDies
    <3>1. UNCHANGED <<cluster, stored>>
      BY <2>5, Turning DEF JobDies
    <3> QED BY <2>1, <3>1 DEF Upload, Stopped, cluster, stored
  <2>6. CASE JobStep
    BY <2>1, <2>6, JobSteps DEF Replacing
  <2>7. CASE OperatorStarts
    BY <2>1, <2>7 DEF OperatorStarts, SomeMarked, Restored, RestoreMarks
  <2> QED BY <1>4, <2>2, <2>3, <2>4, <2>5, <2>6, <2>7 DEF Next, PlayRuns, Loops, Turns, PodActs
<1>5. ASSUME ~ \E j \in Jobs : PodActs(j), pod[i].at \notin {"down", "zero", "dump", "push", "prune"}
      PROVE  Upload(i)'
  BY <1>3, <1>5 DEF Upload
<1> QED BY <1>2, <1>4, <1>5

LEMMA AllInit == ASSUME Init PROVE TypeOK /\ Working /\ RestoreInv /\ UploadInv /\ PointsAreWhole
  BY InitTypes, RestoreInit

LEMMA AllKept ==
    ASSUME ~Races, OneJob, TypeOK, Working, RestoreInv, UploadInv, PointsAreWhole, [Next]_vars
    PROVE  (TypeOK /\ Working /\ RestoreInv /\ UploadInv /\ PointsAreWhole)'
<1>1. CASE Next
  BY <1>1, StepTypes, RestoreKept, UploadKept, PointsKept
<1>2. CASE UNCHANGED vars
  <2>1. UploadInv' /\ PointsAreWhole'
    BY <1>2 DEF vars, cluster, stored, rest, UploadInv, Stopped, PointsAreWhole, Whole
  <2> QED BY <1>2, <2>1, StepTypes, RestoreKept
<1> QED BY <1>1, <1>2

(* Beside restores that are interrupted at any step, whatever fails or is  *)
(* killed and however often it is tried again, one backup Job only files   *)
(* recovery points that are the application's state at one moment          *)
(* (PointsAreWhole).  Two Jobs do not: run kubernetes_recovery_manual.     *)
THEOREM OneJobsPointsAreWhole ==
    ASSUME ~Races, OneJob PROVE Spec => []PointsAreWhole
<1>1. TypeOK /\ Working /\ RestoreInv /\ UploadInv /\ PointsAreWhole /\ [Next]_vars
         => (TypeOK /\ Working /\ RestoreInv /\ UploadInv /\ PointsAreWhole)'
  BY AllKept
<1>2. Init => TypeOK /\ Working /\ RestoreInv /\ UploadInv /\ PointsAreWhole
  BY AllInit
<1> QED BY <1>1, <1>2, PTL DEF Spec

(* With one backup Job, then, nothing that a restore left half replaced is *)
(* served behind the operator's back (NeverServesPartial).                 *)
THEOREM PartialIsNeverServed ==
    ASSUME ~Races, OneJob PROVE Spec => []NeverServesPartial
  BY WholePointsServeWhole, OneJobsPointsAreWhole, PTL
=============================================================================

--------------------------- MODULE JobStatusProofs ---------------------------
(***************************************************************************)
(* The loop of jobStatus returns one of the outcomes of PodOutcome, for    *)
(* lists of pods of every length.                                          *)
(*                                                                         *)
(* The invariant states what the loop has concluded from the pods it has   *)
(* examined; the number of ready pods tells none, some and all apart.      *)
(***************************************************************************)
EXTENDS JobStatus, TLAPS

\* The counter of ready pods, after i of them.
CountInv ==
  /\ ready = 0 <=> \A p \in 1 .. i : ~pods[p].ready
  /\ ready = i <=> \A p \in 1 .. i : pods[p].ready

\* What a resource that is not paused has come to.
ObservedInv ==
  ~pause =>
    /\ deleted = {}
    /\ state = "running"  <=> i > 0 /\ i = Len(pods) /\ ready = i
    /\ state = "complete" <=> \E p \in 1 .. i : pods[p].phase = "Succeeded"
    /\ state \in {"running", "complete", "initializing"}

\* What a paused resource has come to.
PausedInv ==
  pause =>
    /\ i > 0 \/ Len(pods) = 0 =>
         state = IF Interruptible(mode) \/ ready = 0 THEN "paused" ELSE "stopping"
    /\ Interruptible(mode) \/ ready = 0 => deleted = 1 .. i
    /\ ~Interruptible(mode) => \A p \in deleted : ~pods[p].ready

LoopInv == TypeOK /\ CountInv /\ ObservedInv /\ PausedInv

LEMMA InitLoop == Init => LoopInv
<1> SUFFICES ASSUME Init PROVE LoopInv
  OBVIOUS
<1>1. pods \in Seq(PodStates) /\ Len(pods) \in Nat
  <2>1. PICK n \in Nat : pods \in [1 .. n -> PodStates]
    BY MaxPodsAssumption DEF Init
  <2> QED
    BY <2>1
<1>2. TypeOK
  BY <1>1 DEF Init, TypeOK, AppStates
<1>3. CountInv /\ ObservedInv /\ PausedInv
  BY <1>1 DEF Init, CountInv, ObservedInv, PausedInv
<1> QED
  BY <1>2, <1>3 DEF LoopInv

LEMMA ExamineLoop == LoopInv /\ Examine => LoopInv'
<1> SUFFICES ASSUME LoopInv, Examine PROVE LoopInv'
  OBVIOUS
<1> DEFINE pod == pods[i + 1]
<1>1. TypeOK /\ CountInv /\ ObservedInv /\ PausedInv
  BY DEF LoopInv
<1>2. /\ i \in Nat /\ Len(pods) \in Nat /\ i < Len(pods) /\ i' = i + 1
      /\ ready \in 0 .. i
      /\ pods' = pods /\ pause' = pause /\ mode' = mode
      /\ pod \in PodStates
      /\ 1 .. i' = (1 .. i) \cup {i + 1}
  BY <1>1 DEF TypeOK, Examine
<1>3. pod.ready \in BOOLEAN /\ (pod.ready => pod.phase = "Running")
  BY <1>2 DEF PodStates
<1>4. ready' = IF pod.ready THEN ready + 1 ELSE ready
  BY DEF Examine, Counted
<1>5. CountInv'
  <2>1. ready' = 0 <=> ready = 0 /\ ~pod.ready
    BY <1>2, <1>4
  <2>2. ready' = i' <=> ready = i /\ pod.ready
    BY <1>2, <1>4
  <2> QED
    BY <1>1, <1>2, <2>1, <2>2 DEF CountInv
<1>6. ObservedInv' /\ TypeOK'
  <2>1. CASE pause
    <3>1. /\ state' \in {"paused", "stopping"}
          /\ deleted' \in {deleted, deleted \cup {i + 1}}
      BY <2>1 DEF Examine
    <3> QED
      BY <1>1, <1>2, <1>4, <2>1, <3>1 DEF TypeOK, ObservedInv, AppStates
  <2>2. CASE ~pause
    <3>1. /\ deleted' = deleted
          /\ state' = CASE Len(pods) = ready' /\ pod.phase = "Running" -> "running"
                        [] pod.phase = "Succeeded"                     -> "complete"
                        [] OTHER                                       -> state
      BY <2>2 DEF Examine
    <3>2. state # "running"
      BY <1>1, <1>2, <2>2 DEF ObservedInv
    <3>3. CASE Len(pods) = ready'
      <4>1. i' = Len(pods) /\ ready' = i' /\ pod.ready /\ ready = i
        BY <1>2, <1>4, <3>3
      <4>2. \A p \in 1 .. i' : pods[p].ready
        BY <1>1, <1>2, <4>1 DEF CountInv
      <4>3. \A p \in 1 .. i' : pods[p].phase = "Running"
        BY <1>1, <1>2, <4>2 DEF TypeOK, PodStates
      <4>4. state' = "running"
        BY <1>3, <3>1, <3>3, <4>1
      <4> QED
        BY <1>1, <1>2, <1>4, <2>2, <3>1, <4>1, <4>3, <4>4 DEF TypeOK, ObservedInv, AppStates
    <3>4. CASE Len(pods) # ready'
      <4>1. state' = IF pod.phase = "Succeeded" THEN "complete" ELSE state
        BY <3>1, <3>4
      <4>2. state' \in {"complete", "initializing"}
        BY <1>1, <2>2, <3>2, <4>1 DEF ObservedInv
      <4>3. state' = "complete" <=> \E p \in 1 .. i' : pods[p].phase = "Succeeded"
        BY <1>1, <1>2, <2>2, <3>2, <4>1 DEF ObservedInv
      <4> QED
        BY <1>1, <1>2, <1>4, <2>2, <3>1, <3>4, <4>2, <4>3 DEF TypeOK, ObservedInv, AppStates
    <3> QED
      BY <3>3, <3>4
  <2> QED
    BY <1>1, <2>1, <2>2 DEF TypeOK
<1>7. PausedInv'
  <2> SUFFICES ASSUME pause PROVE PausedInv'
    BY <1>2 DEF PausedInv
  <2>1. /\ Interruptible(mode') = Interruptible(mode)
        /\ deleted \subseteq 1 .. i
    BY <1>1, <1>2 DEF TypeOK
  <2>2. CASE Kills(ready')
    <3>1. state' = "paused" /\ deleted' = deleted \cup {i + 1}
      BY <2>2 DEF Examine
    <3>2. Interruptible(mode) \/ (ready = 0 /\ ready' = 0 /\ ~pod.ready)
      BY <1>2, <1>4, <2>2 DEF Kills
    <3>3. deleted' = 1 .. i'
      BY <1>1, <1>2, <3>1, <3>2 DEF PausedInv
    <3> QED
      BY <1>1, <1>2, <2>1, <3>1, <3>2, <3>3 DEF PausedInv
  <2>3. CASE ~Kills(ready')
    <3>1. state' = "stopping" /\ deleted' = deleted
      BY <2>3 DEF Examine
    <3>2. ~Interruptible(mode) /\ ready' # 0
      BY <2>3 DEF Kills
    <3> QED
      BY <1>1, <1>2, <2>1, <3>1, <3>2 DEF PausedInv
  <2> QED
    BY <2>2, <2>3
<1> QED
  BY <1>5, <1>6, <1>7 DEF LoopInv

LEMMA NextLoop == LoopInv /\ [Next]_vars => LoopInv'
<1>1. LoopInv /\ UNCHANGED vars => LoopInv'
  BY DEF LoopInv, TypeOK, CountInv, ObservedInv, PausedInv, Interruptible, vars
<1> QED
  BY <1>1, ExamineLoop DEF Next

THEOREM LoopInvariant == Spec => []LoopInv
  BY InitLoop, NextLoop, PTL DEF Spec

\* The loop counts no more ready pods than it has examined, and deletes none it has not:
\* its variables keep their types.
THEOREM TypeCorrect == Spec => []TypeOK
<1>1. LoopInv => TypeOK
  BY DEF LoopInv
<1> QED
  BY <1>1, LoopInvariant, PTL

\* When the loop is done its result is an outcome stated without the loop.
LEMMA DoneOutcome == LoopInv /\ Done => Outcome(state, deleted) \in PodOutcomes(pause, mode, pods)
<1> SUFFICES ASSUME LoopInv, Done
             PROVE  Outcome(state, deleted) \in PodOutcomes(pause, mode, pods)
  OBVIOUS
<1> DEFINE readyPods == {p \in DOMAIN pods : pods[p].ready}
<1>1. TypeOK /\ CountInv /\ ObservedInv /\ PausedInv /\ i = Len(pods)
  BY DEF LoopInv, Done
<1>2. DOMAIN pods = 1 .. i /\ i \in Nat /\ ready \in 0 .. i
  BY <1>1 DEF TypeOK
<1>3. CASE ~pause
  <2>1. state = "running" <=> DOMAIN pods # {} /\ \A p \in DOMAIN pods : pods[p].ready
    BY <1>1, <1>2, <1>3 DEF ObservedInv, CountInv
  <2>2. state = "complete" <=> \E p \in DOMAIN pods : pods[p].phase = "Succeeded"
    BY <1>1, <1>2, <1>3 DEF ObservedInv
  <2>3. state \in {"running", "complete", "initializing"} /\ deleted = {}
    BY <1>1, <1>3 DEF ObservedInv
  <2>4. state = Observed(pods)
    BY <2>1, <2>2, <2>3 DEF Observed
  <2> QED
    BY <1>3, <2>3, <2>4 DEF PodOutcomes
<1>4. CASE pause
  <2>1. readyPods = {} <=> ready = 0
    BY <1>1, <1>2 DEF CountInv
  <2>2. i > 0 \/ Len(pods) = 0
    BY <1>1, <1>2
  <2>3. CASE Interruptible(mode) \/ ready = 0
    <3>1. state = "paused" /\ deleted = DOMAIN pods
      BY <1>1, <1>2, <1>4, <2>2, <2>3 DEF PausedInv
    <3> QED
      BY <1>4, <2>1, <2>3, <3>1 DEF PodOutcomes
  <2>4. CASE ~(Interruptible(mode) \/ ready = 0)
    <3>1. state = "stopping" /\ deleted \subseteq DOMAIN pods \ readyPods
      BY <1>1, <1>2, <1>4, <2>2, <2>4 DEF PausedInv, TypeOK
    <3> QED
      BY <1>4, <2>1, <2>4, <3>1 DEF PodOutcomes
  <2> QED
    BY <2>3, <2>4
<1> QED
  BY <1>1, <1>3, <1>4 DEF TypeOK

\* The result does not depend on the order of the list, in which the loop examines the
\* pods.
THEOREM OrderFree == Spec => []OutcomeIsOrderFree
  BY LoopInvariant, DoneOutcome, PTL DEF OutcomeIsOrderFree

\* A pause lets the ready pods of a full synchronisation finish.
THEOREM ReadyPodsKept == Spec => []ReadyPodsFinish
<1>1. LoopInv => ReadyPodsFinish
  BY DEF LoopInv, PausedInv, ReadyPodsFinish
<1> QED
  BY <1>1, LoopInvariant, PTL
============================================================================

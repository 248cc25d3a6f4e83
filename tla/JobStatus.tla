----------------------------- MODULE JobStatus -----------------------------
(***************************************************************************)
(* The loop of jobStatus over the pods of a job, one iteration per step.   *)
(* Pods are numbered in the order of the list, so that the initial states  *)
(* are all lists of pods in all orders.                                    *)
(***************************************************************************)
EXTENDS PodOutcome

CONSTANT MaxPods    \* bound on the number of pods listed

ASSUME MaxPodsAssumption == MaxPods \in Nat

VARIABLES pods,     \* the listed pods
          pause,    \* cr.Spec.Pause
          mode,     \* cr.Spec.Collector.Mode
          i,        \* number of pods examined so far
          ready,    \* status.Ready
          state,    \* status.Status
          deleted   \* pods the loop asked the API server to delete

vars == << pods, pause, mode, i, ready, state, deleted >>

Init ==
  /\ \E n \in 0 .. MaxPods : pods \in [1 .. n -> PodStates]
  /\ pause \in BOOLEAN
  /\ mode \in SyncModes
  /\ i = 0
  /\ ready = 0
  /\ state = IF pause /\ Len(pods) = 0 THEN "paused" ELSE "initializing"
  /\ deleted = {}

\* Faulty variants of Counted and Kills, for mutation testing.
CountedTwice(pod) ==
  ready + (IF pod.ready THEN 1 ELSE 0) + (IF pod.phase = "Running" THEN 1 ELSE 0)
CountedAfresh(pod) == IF pod.ready THEN 1 ELSE 0
KillsFirst(count) == Interruptible(mode) \/ count <= 1

\* Ready counts the ready pods up to this one.
Counted(pod) == IF pod.ready THEN ready + 1 ELSE ready

\* The cases of a paused resource: this pod is deleted, or the job is stopping.
Kills(count) == Interruptible(mode) \/ count = 0

\* One iteration: the last pod that matches a case decides the state.
Examine ==
  /\ i < Len(pods)
  /\ i' = i + 1
  /\ LET pod == pods[i + 1] IN
       /\ ready' = Counted(pod)
       /\ \/ /\ pause
             /\ Kills(ready')
             /\ deleted' = deleted \cup {i + 1}
             /\ state' = "paused"
          \/ /\ pause
             /\ ~Kills(ready')
             /\ state' = "stopping"
             /\ UNCHANGED deleted
          \/ /\ ~pause
             /\ state' = CASE Len(pods) = ready' /\ pod.phase = "Running" -> "running"
                           [] pod.phase = "Succeeded"                     -> "complete"
                           [] OTHER                                       -> state
             /\ UNCHANGED deleted
  /\ UNCHANGED << pods, pause, mode >>

Next == Examine

Spec == Init /\ [][Next]_vars

Done == i = Len(pods)

----------------------------------------------------------------------------
TypeOK ==
  /\ pods \in Seq(PodStates)
  /\ pause \in BOOLEAN
  /\ mode \in SyncModes
  /\ i \in 0 .. Len(pods)
  /\ ready \in 0 .. i
  /\ state \in AppStates
  /\ deleted \in SUBSET (1 .. i)

\* The loop of jobStatus, whose result is decided by the last pod that matches and by
\* a counter that is only complete at the last pod, always returns one of the outcomes
\* that PodOutcome states without any order.
OutcomeIsOrderFree == Done => Outcome(state, deleted) \in PodOutcomes(pause, mode, pods)

\* Pausing a full synchronisation never deletes a pod whose collector is ready, at any
\* point of the loop, even though the pods listed before it are deleted.
ReadyPodsFinish ==
  pause /\ ~Interruptible(mode) => \A p \in deleted : ~pods[p].ready
============================================================================

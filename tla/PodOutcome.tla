----------------------------- MODULE PodOutcome -----------------------------
(***************************************************************************)
(* What jobStatus concludes from the pods of a job, stated without the     *)
(* loop it runs: the state to report and the pods it deletes.  Module      *)
(* JobStatus is the loop, and shows that it always ends in one of these    *)
(* outcomes, in whatever order the pods are listed.                        *)
(***************************************************************************)
EXTENDS AppStatus

PodPhases == {"Pending", "Running", "Succeeded", "Failed"}

\* A pod's containers are ready (condition ContainersReady) only while it runs.
PodStates == {pod \in [phase : PodPhases, ready : BOOLEAN] :
                pod.ready => pod.phase = "Running"}

SyncModes == {"", "all", "full", "incr"}

\* Modes in which a pause kills the collector at once instead of letting it finish.
Interruptible(mode) == mode \in {"all", "incr"}

Outcome(state, deleted) == [state |-> state, deleted |-> deleted]

\* The state shown by the pods of a resource that is not paused.
Observed(pods) ==
  CASE DOMAIN pods # {} /\ \A p \in DOMAIN pods : pods[p].ready -> "running"
    [] \E p \in DOMAIN pods : pods[p].phase = "Succeeded"       -> "complete"
    [] OTHER                                                    -> "initializing"

\* A faulty variant of PodOutcomes: the pods of a full synchronisation are never deleted.
PodOutcomesKept(pause, mode, pods) ==
  IF ~pause THEN {Outcome(Observed(pods), {})}
  ELSE IF Interruptible(mode) THEN {Outcome("paused", DOMAIN pods)}
  ELSE {Outcome(IF \E p \in DOMAIN pods : pods[p].ready THEN "stopping" ELSE "paused", {})}

\* The possible results of jobStatus on these pods: which pods that are not ready a
\* full synchronisation loses depends on the order of the list.
PodOutcomes(pause, mode, pods) ==
  LET ready == {p \in DOMAIN pods : pods[p].ready}
  IN  IF ~pause THEN {Outcome(Observed(pods), {})}
      ELSE IF Interruptible(mode) \/ ready = {} THEN {Outcome("paused", DOMAIN pods)}
      ELSE {Outcome("stopping", deleted) : deleted \in SUBSET (DOMAIN pods \ ready)}
============================================================================

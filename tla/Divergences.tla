---------------------------- MODULE Divergences ----------------------------
(***************************************************************************)
(* Statements of the repository's comments that the code does not keep.    *)
(* Each is checked by a run that expects a counterexample.                 *)
(***************************************************************************)
EXTENDS Lifecycle

\* "If Pause is true, the task has stopped, and dts-job must be stopped": the job of a
\* resource that stays paused is gone in the end.
PausedJobStops == <>[]Pausing => <>[](job = Absent)

\* "The objects of the resource are garbage collected": when the resource is gone for
\* good, its collector is gone in the end.
CollectorGoes == <>[](cr = Absent) => <>[](PodsIn(PodPhases) = {})
============================================================================

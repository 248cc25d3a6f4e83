---------------------------- MODULE MCLifecycle ----------------------------
(* Instances of Lifecycle for TLC: the specs the user of each run submits.   *)
EXTENDS Divergences, MCReconciler

\* paused_resize: the user pauses and asks for a larger log volume in one edit.
ResizeSpecs == {Plain("incr", "a"), [Paused(Plain("incr", "a")) EXCEPT !.claim = "2Gi"]}

\* orphaned_pods
FullSpecs == {Plain("full", "a"), Paused(Plain("full", "a"))}
=============================================================================

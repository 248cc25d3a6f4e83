---------------------------- MODULE MCSuccession ----------------------------
(* The instance of Succession for TLC. *)
EXTENDS Succession, MCReconciler

\* A collector that never ends, and a paused resource with another configuration: each may
\* be the successor of each.
SuccessorSpecs == {Plain("incr", "a"), Paused(Plain("full", "b"))}
=============================================================================

----------------------------- MODULE MCMounted -----------------------------
(* The instance of Mounted for TLC. *)
EXTENDS Mounted, MCReconciler

\* A paused resource whose configuration is changed and changed back.
SwitchSpecs == {Paused(Plain("incr", "a")), Paused(Plain("incr", "b")), Plain("incr", "a")}
=============================================================================

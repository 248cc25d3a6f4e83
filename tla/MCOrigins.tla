----------------------------- MODULE MCOrigins -----------------------------
(* The instance of Origins for TLC. *)
EXTENDS Origins, MCReconciler

=============================================================================

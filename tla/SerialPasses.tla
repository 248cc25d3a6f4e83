---------------------------- MODULE SerialPasses ----------------------------
(***************************************************************************)
(* What the lock store promises for the passes of one operator process:    *)
(* the passes for one resource follow each other, those for different      *)
(* resources go on side by side, and a request always gets a pass.         *)
(***************************************************************************)

CONSTANT Requests   \* the resources, by namespace and name

VARIABLES
  waiting,  \* the resources for which a pass is asked and has not begun
  passing   \* the resources a pass is going on for

Ask(r) ==
  /\ waiting' = waiting \cup {r}
  /\ UNCHANGED passing

\* More than one worker may have been asked for a pass.
Begin(r) ==
  /\ r \in waiting \ passing
  /\ passing' = passing \cup {r}
  /\ waiting' \in {waiting, waiting \ {r}}

\* The pass asks for the next one, or does not.
End(r) ==
  /\ r \in passing
  /\ passing' = passing \ {r}
  /\ waiting' \in {waiting, waiting \cup {r}}

Init == waiting = {} /\ passing = {}

Next == \E r \in Requests : Ask(r) \/ Begin(r) \/ End(r)

Spec == Init /\ [][Next]_<<waiting, passing>>
=============================================================================

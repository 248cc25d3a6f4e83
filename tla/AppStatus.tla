----------------------------- MODULE AppStatus -----------------------------
(***************************************************************************)
(* The status a MongoShake resource reports: its application state and the *)
(* bounded history of conditions, and the two ways updateStatus rewrites   *)
(* them at the end of a reconcile pass.  Texts (messages, reasons, times)  *)
(* are abstracted; message tells whether there is one.                     *)
(***************************************************************************)
EXTENDS Integers, Sequences

CONSTANT maxStatusesQuantity    \* length of the condition history (20 in the code)

ASSUME MaxStatusesAssumption == maxStatusesQuantity \in Nat \ {0}

AppStates == {"initializing", "running", "stopping", "paused", "complete", "error"}

\* The state of a resource whose status was never written.
NoState == ""

\* Status.HealthCheck: never checked or cleared, success, failed.
HealthChecks == {"", "success", "failed"}

Statuses == [state : AppStates \cup {NoState}, message : BOOLEAN,
             health : HealthChecks, conditions : Seq(AppStates)]

NewStatus == [state |-> NoState, message |-> FALSE, health |-> "", conditions |-> << >>]

\* Faulty variants of AddCondition, for mutation testing: the history is not trimmed, or
\* it is trimmed to one condition less.
AddConditionUntrimmed(conditions, type) ==
  IF conditions = << >> \/ conditions[Len(conditions)] # type
  THEN Append(conditions, type) ELSE conditions
AddConditionTrimmedShort(conditions, type) ==
  LET grown == AddConditionUntrimmed(conditions, type)
      extra == Len(grown) - maxStatusesQuantity
  IN  IF extra > 0 THEN SubSeq(grown, extra + 2, Len(grown)) ELSE grown

\* MongoShakeStatus.AddCondition: a condition is added when the last one has
\* another type, and only the newest maxStatusesQuantity conditions are kept.
AddCondition(conditions, type) ==
  LET n     == Len(conditions)
      grown == IF n = 0 \/ conditions[n] # type THEN Append(conditions, type)
                                                ELSE conditions
      extra == Len(grown) - maxStatusesQuantity
  IN  IF extra > 0 THEN SubSeq(grown, extra + 1, Len(grown)) ELSE grown

\* updateStatus for a pass that ended with an error.
ErrorReported(s) ==
  [s EXCEPT !.state = "error", !.message = TRUE,
            !.conditions = IF s.state # "error" THEN AddCondition(@, "error") ELSE @]

\* A faulty variant of JobReported: the state error is never left.
JobReportedAfterError(s, jobState, appState) ==
  LET state == IF s.state = "error" THEN "error"
               ELSE IF jobState = "initializing" THEN appState ELSE jobState
  IN  [s EXCEPT !.state = state, !.message = (state = "error"),
                !.conditions = AddCondition(@, state)]

\* updateStatus for a pass that ended without one: the state is the one the job's
\* pods show, and appState when they show none of the four it distinguishes.
JobReported(s, jobState, appState) ==
  LET changed == IF jobState # s.state THEN AddCondition(s.conditions, jobState)
                                       ELSE s.conditions
      state   == IF jobState \in {"running", "complete", "stopping", "paused"}
                 THEN jobState ELSE appState
  IN  [s EXCEPT !.state = state, !.message = FALSE,
                !.conditions = AddCondition(changed, state)]

----------------------------------------------------------------------------
\* A status that agrees with itself: the newest condition is the state, the
\* history is bounded and never repeats a type, and there is an error message
\* exactly in state error.
Coherent(s) ==
  /\ Len(s.conditions) <= maxStatusesQuantity
  /\ \A i \in 1 .. Len(s.conditions) - 1 : s.conditions[i] # s.conditions[i + 1]
  /\ (s.state = NoState) <=> (s.conditions = << >>)
  /\ s.conditions # << >> => s.conditions[Len(s.conditions)] = s.state
  /\ s.message <=> (s.state = "error")

\* History after is history before, or before with one more condition at its end,
\* of which the oldest was dropped if the history was full.
Extends(after, before) ==
  \/ after = before
  \/ \E type \in AppStates :
       /\ before = << >> \/ before[Len(before)] # type
       /\ after = IF Len(before) < maxStatusesQuantity
                  THEN Append(before, type) ELSE Append(Tail(before), type)
============================================================================

----------------------------- MODULE JobPromise -----------------------------
(***************************************************************************)
(* What the operator promises the user of a resource, without caches,      *)
(* passes or failures: nothing is made that was not asked for, the         *)
(* collector's job never changes in place, and no report is lost.          *)
(***************************************************************************)
EXTENDS AppStatus

CONSTANT Nothing    \* no such object

VARIABLES
  texts,      \* the configurations of the specs accepted so far
  templates,  \* the job templates of those that ask for a job
  stoppable,  \* whether a pause was asked for
  published,  \* the configuration in the ConfigMap
  running,    \* the template of the job
  reports     \* the conditions in the status

asks == << texts, templates, stoppable >>
shown == << published, running, reports >>

Ask ==
  /\ texts \subseteq texts'
  /\ templates \subseteq templates'
  /\ stoppable => stoppable'
  /\ UNCHANGED shown

Publish ==
  /\ published' \in texts
  /\ UNCHANGED << asks, running, reports >>

Run ==
  /\ running = Nothing
  /\ running' \in templates
  /\ UNCHANGED << asks, published, reports >>

\* The collector is started with a configuration to read.
Start == published # Nothing /\ Run

Stop ==
  /\ running # Nothing
  /\ stoppable
  /\ running' = Nothing
  /\ UNCHANGED << asks, published, reports >>

Report ==
  /\ Extends(reports', reports)
  /\ UNCHANGED << asks, published, running >>

Init ==
  /\ texts = {} /\ templates = {} /\ ~stoppable
  /\ published = Nothing /\ running = Nothing /\ reports = << >>

Next == Ask \/ Publish \/ Start \/ Stop \/ Report

Spec == Init /\ [][Next]_<<asks, shown>>
=============================================================================

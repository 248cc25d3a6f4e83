---------------------------- MODULE MCReconciler ----------------------------
(* Instances of Reconciler for TLC: the specs the user of each run submits.  *)
EXTENDS Reconciler, TLC

Collector(mode, text) ==
  [mode |-> mode, mongo |-> [urls |-> UrlFields, first |-> TRUE], tunnel |-> TRUE, text |-> text]

\* A valid spec without configuration.
Plain(mode, text) ==
  [pause |-> FALSE, collector |-> Collector(mode, text), configuration |-> "",
   image |-> "v1", claim |-> "1Gi", backoff |-> 1, healthCheck |-> FALSE]

Paused(spec) == [spec EXCEPT !.pause = TRUE]
WithCheck(spec) == [spec EXCEPT !.healthCheck = TRUE]

\* The sample of config/samples: a configuration and no collector.
Sample == [Plain("all", "a") EXCEPT !.collector = Absent, !.configuration = "b"]

\* A required value is missing.
NoImage(spec) == [spec EXCEPT !.image = ""]

\* A claim whose size never equals that of the stored one.
HalfClaim(spec) == [spec EXCEPT !.claim = "1.5Gi"]

NoClaim(spec) == [spec EXCEPT !.claim = Absent]

\* A replica set whose router and config server URLs are left empty.
ReplicaSetOnly == [WithCheck(Plain("incr", "a")) EXCEPT !.collector.mongo.urls = {"mongo_urls"}]

NoMongo == [WithCheck(Sample) EXCEPT !.collector = [Collector("incr", "a") EXCEPT !.mongo = Absent]]

----------------------------------------------------------------------------
\* core_safety: a health check, a pause, a change of the backoff limit, of the template
\* and of the claim, a spec that is rejected, and the specs with which a pass dereferences
\* nil or indexes out of range.
SafetySpecs ==
  LET first == WithCheck(Plain("full", "a")) IN
  {first, [Paused(first) EXCEPT !.backoff = 0], [first EXCEPT !.backoff = 0],
   [NoImage(Plain("all", "b")) EXCEPT !.claim = "2Gi"],
   HalfClaim(WithCheck(Sample)), NoMongo, ReplicaSetOnly, NoClaim(Plain("all", "a"))}

\* two_operators: the resource runs or is paused, and an edit changes it over.
PauseSpecs == {Plain("incr", "a"), Paused(Plain("incr", "a"))}

\* core_liveness: a pause, another template, and for the same job that never ends a claim
\* that is rejected in every pass after the one that made it.
LiveSpecs ==
  {Plain("full", "a"), Paused(Plain("full", "a")), Plain("incr", "b"), HalfClaim(Plain("incr", "b"))}

\* fault_liveness: a pause that is reported, and one whose report panics, a spec that is
\* rejected, unless an edit keeps a configuration, and one that panics in every pass.
FaultSpecs ==
  {WithCheck(Plain("full", "a")), Paused(WithCheck(Plain("full", "a"))), Paused(Sample),
   NoImage(Plain("full", "b")), NoClaim(Plain("full", "a"))}

----------------------------------------------------------------------------
\* two_operators starts where the resource runs, or is paused, and both operators know it.
Settled ==
  \E spec \in PauseSpecs :
  LET r    == [uid |-> 1, spec |-> spec, status |-> NewStatus]
      pass == [r EXCEPT !.spec = Defaulted(spec)]
  IN
  /\ cr = r
  /\ cm = DesiredConfigMap(pass)
  /\ pvc = DesiredClaim(pass)
  /\ job = IF spec.pause THEN Absent ELSE DesiredJob(pass, Absent)
  /\ pods = [p \in Pods |-> Absent]
  /\ cache = [o \in Operators |-> Current]
  /\ cachedLatest = Operators
  /\ queued = [o \in Operators |-> TRUE]
  /\ pc = [o \in Operators |-> "idle"]
  /\ work = [o \in Operators |-> Absent]
  /\ heldLatest = {}
  /\ budget = [creates |-> 0, edits |-> MaxEdits, faults |-> MaxFaults, crashes |-> MaxCrashes]

SettledSpec == Settled /\ [][Next]_vars /\ Fairness
=============================================================================

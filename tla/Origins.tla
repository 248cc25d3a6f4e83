------------------------------ MODULE Origins ------------------------------
(***************************************************************************)
(* The specs the user submitted, kept as a history of Reconciler, and the  *)
(* refinement that shows what becomes of them: passes that work on specs   *)
(* read from a cache long before, complete them, lose their writes and die *)
(* together do what JobPromise says.                                       *)
(***************************************************************************)
EXTENDS Reconciler

VARIABLE submitted   \* every spec the user gave the resource

OriginsInit == Init /\ submitted = {}

\* A step that is not the user's leaves the budget of creations and edits alone.
OriginsNext ==
  \/ /\ User
     /\ submitted' = submitted \cup {cr'.spec}
  \/ /\ Next
     /\ budget'.creates = budget.creates /\ budget'.edits = budget.edits
     /\ UNCHANGED submitted

OriginsSpec == OriginsInit /\ [][OriginsNext]_<< vars, submitted >>

----------------------------------------------------------------------------
(* What the user asks for with a spec, said without CheckNSetDefaults.     *)

\* Everything the collector needs is there: a configuration of the user's, or the
\* collector's options and an image.
Accepted(spec) ==
  \/ spec.configuration # ""
  \/ /\ spec.collector # Absent
     /\ spec.collector.mode # "" /\ spec.collector.mongo # Absent /\ spec.collector.tunnel
     /\ spec.image # ""

Printed(spec) == IF spec.configuration # "" THEN spec.configuration ELSE spec.collector.text

AcceptedSpecs == {spec \in submitted : Accepted(spec)}

Asked == {Printed(spec) : spec \in AcceptedSpecs}

AskedTemplates ==
  {[text |-> Printed(spec), image |-> spec.image] : spec \in {s \in AcceptedSpecs : ~s.pause}}

PauseAsked == \E spec \in AcceptedSpecs : spec.pause

Reports == IF cr = Absent THEN << >> ELSE cr.status.conditions

Promise == INSTANCE JobPromise WITH
  Nothing <- Absent, texts <- Asked, templates <- AskedTemplates, stoppable <- PauseAsked,
  published <- Shown(cm, "text"), running <- Shown(job, "template"), reports <- Reports

\* The operator implements JobPromise: a ConfigMap and a job only ever hold what an
\* accepted spec of the user asked for, a job that runs keeps its template until it is
\* stopped, it is only stopped once a pause was asked for, and the history of the status
\* is only added to.
KeepsPromise == Promise!Spec

----------------------------------------------------------------------------
(* The invariant behind it.                                                *)

\* What the API server and the caches may hold: submitted specs, some of them completed.
KnownSpecs == submitted \cup {Defaulted(spec) : spec \in submitted}

\* What a pass may reach the objects with.
PassSpecs == {Defaulted(spec) : spec \in AcceptedSpecs}

\* The working copy of a pass.
CopyKnown(o) ==
  pc[o] \in Steps =>
    /\ work[o].cr.spec \in KnownSpecs
    /\ pc[o] \notin {"statusWrite", "fallback"} => work[o].cr.spec \in PassSpecs

\* Wherever a spec is found, in the API server, in a cache or in a pass, the user has
\* submitted it, or it is a submitted one completed with its defaults; and a pass that
\* writes objects works on an accepted one.
OriginInv ==
  /\ submitted \subseteq Specs
  /\ cr # Absent => cr.spec \in KnownSpecs
  /\ \A o \in Operators : cache[o].cr # Absent => cache[o].cr.spec \in KnownSpecs
  /\ \A o \in Operators : CopyKnown(o)
=============================================================================

---------------------------- MODULE WorkingCopy ----------------------------
(***************************************************************************)
(* Passes over the spec of one resource.  A pass completes a copy of the   *)
(* stored spec and makes a pod template of it, which shares a map with the *)
(* copy; the fallback of writeStatus may store the copy, so that a later   *)
(* pass starts from what an earlier one has made; the user edits the spec  *)
(* in between.  A template is immutable in the API server: one that changes*)
(* without an edit is an update that is rejected in every pass.            *)
(***************************************************************************)
EXTENDS JobTemplate, Naturals

CONSTANTS
  Values,        \* what a field, an amount or an annotation may hold
  Keys,          \* names of annotations
  UserText,      \* a configuration the user wrote
  Inputs,        \* specs the user may submit
  Edits,         \* values the user may give to fields of the collector
  Annotations,   \* annotations the user may give
  Requirements,  \* requirements the user may give
  PodEdits,      \* values the user may give to the image, pull policy and placement
  MaxEdits       \* bound on the user's edits

\* The fields of a spec that go into the template of its pods as they are.
PodFields == {"image", "pullPolicy", "placement"}

\* The fields of a spec.  mongo and tunnel tell whether they are given.
SpecFields ==
  {"configuration", "collector", "mongo", "tunnel", "annotations", "resources"} \cup PodFields

Collectors == [Fields -> Values]

Configurations == {NoText, UserText} \cup [Printed -> Values]

AnnotationMaps(keys) == [keys -> Values \cup Configurations]

IsAnnotations(a) == \E keys \in SUBSET Keys : a \in AnnotationMaps(keys)

IsSpec(spec) ==
  /\ DOMAIN spec = SpecFields
  /\ spec.configuration \in Configurations
  /\ spec.collector # Absent => spec.collector \in Collectors
  /\ spec.annotations # Absent => IsAnnotations(spec.annotations)

ASSUME SpecsAssumption ==
  /\ \A spec \in Inputs : IsSpec(spec)
  /\ \A f \in DOMAIN Edits : Edits[f] \subseteq Values
  /\ \A a \in Annotations : IsAnnotations(a)
  /\ DOMAIN PodEdits \subseteq PodFields
  /\ {Unset, "1024"} \cup {Default[f] : f \in DOMAIN Default} \subseteq Values
  /\ HashKey \in Keys

\* A text that was printed is not empty, and a map that was made is not nil.
ASSUME AbsentAssumption ==
  /\ NoText \notin [Printed -> Values]
  /\ \A keys \in SUBSET Keys : Absent \notin AnnotationMaps(keys)

VARIABLES
  stored,    \* the spec in the API server
  copy,      \* the working copy of the last pass since the last edit, or Absent
  template,  \* the template last made since the last edit, or Absent
  edits      \* what is left of the user's edits

vars == << stored, copy, template, edits >>

----------------------------------------------------------------------------
\* A pass that ends before its job: a value is missing, the resource is paused, or
\* something before the job fails.
PassWithoutJob ==
  /\ copy' = CheckNSetDefaults(stored)
  /\ UNCHANGED << stored, template, edits >>

\* A pass that comes to its job.
PassWithJob ==
  LET completed == CheckNSetDefaults(stored) IN
  /\ ~Rejected(stored)
  /\ template' = Template(completed)
  /\ copy' = SharedWith(completed)
  /\ UNCHANGED << stored, edits >>

Pass == PassWithoutJob \/ PassWithJob

\* The fallback of writeStatus, accepted while no edit has outdated the copy.
FallbackUpdate ==
  /\ copy # Absent
  /\ stored' = copy
  /\ UNCHANGED << copy, template, edits >>

\* An edit outdates the copy and may change what the template should be.
Edited(new) ==
  /\ edits > 0
  /\ new # stored
  /\ stored' = new
  /\ copy' = Absent
  /\ template' = Absent
  /\ edits' = edits - 1

\* The user gives one field another value; the rest of the stored spec stays, the
\* configuration of a fallback included.
EditField ==
  /\ stored.collector # Absent
  /\ \E f \in DOMAIN Edits : \E value \in Edits[f] :
       Edited([stored EXCEPT !.collector[f] = value])

\* The user writes a configuration, or takes one out so that the collector counts again.
EditConfiguration ==
  \E text \in {NoText, UserText} : Edited([stored EXCEPT !.configuration = text])

EditResources ==
  \E r \in Requirements : Edited([stored EXCEPT !.resources = r])

EditPod ==
  \E field \in DOMAIN PodEdits : \E value \in PodEdits[field] :
    Edited([stored EXCEPT ![field] = value])

\* A manifest is merged key by key, so that a hash that was stored stays.
EditAnnotations ==
  \E annotations \in Annotations :
    LET kept == IF stored.annotations = Absent THEN {} ELSE DOMAIN stored.annotations \cap {HashKey}
        new  == [k \in kept \cup DOMAIN annotations |->
                   IF k \in kept THEN stored.annotations[k] ELSE annotations[k]]
    IN  Edited([stored EXCEPT !.annotations = new])

Init ==
  /\ stored \in Inputs
  /\ copy = Absent
  /\ template = Absent
  /\ edits = MaxEdits

Next ==
  \/ PassWithoutJob \/ PassWithJob \/ FallbackUpdate
  \/ EditField \/ EditConfiguration \/ EditResources \/ EditPod \/ EditAnnotations

Spec == Init /\ [][Next]_vars

----------------------------------------------------------------------------
Collected == IF copy = Absent THEN FALSE ELSE copy.collector # Absent

Made == template # Absent

\* Completing what the fallback stored, after the user took the configuration out again,
\* prints the same text: no default depends on whether another is set already, although
\* two of them look at other fields and one overwrites what the other has just set.
CompletionSettles == Collected => Completed(Completed(copy.collector)) = Completed(copy.collector)

\* A value the user chose is never replaced by a default, with the one exception of the
\* queue size of a collector without adaptive batching.
ChosenValuesKept ==
  [][Pass /\ stored.collector # Absent =>
       \A f \in Fields :
         \/ stored.collector[f] = Unset
         \/ copy'.collector[f] = stored.collector[f]
         \/ f = "WorkerBatchQueueSize" /\ stored.collector.AdaptiveBatchingMaxSize = Unset]_vars

\* The hash in the template is that of the configuration the pass worked with: the hash
\* of an earlier configuration, which came back into the spec through the shared map and
\* a fallback update, is never taken for it, and no annotation of the user is lost.
HashIsCurrent ==
  Made =>
    /\ template.annotations[HashKey] = copy.configuration
    /\ stored.annotations # Absent =>
         \A k \in DOMAIN stored.annotations \ {HashKey} :
           template.annotations[k] = stored.annotations[k]

\* As long as the user edits nothing, every pass makes the same template, annotations,
\* requirements, image, pull policy and placement, whether or not a fallback update stored
\* a working copy in between, with a default pull policy, a completed collector, and a hash
\* or none: the update of a job is never the operator's own doing.
TemplateIsStable == [][Made /\ Made' => template' = template]_vars
============================================================================

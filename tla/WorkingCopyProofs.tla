------------------------- MODULE WorkingCopyProofs -------------------------
(***************************************************************************)
(* The passes over the spec of a resource, for every spec and every        *)
(* sequence of edits, passes and fallback updates: a completion keeps what *)
(* the user chose and completing twice is completing once; the template    *)
(* carries the current hash and only changes with an edit.                 *)
(*                                                                         *)
(* The proofs need of the single defaults only that none of them is unset, *)
(* and which fields have one.                                              *)
(***************************************************************************)
EXTENDS WorkingCopy, TLAPS

----------------------------------------------------------------------------
(* What CheckNSetDefaults makes of a collector.                            *)

LEMMA DefaultFields ==
  /\ DOMAIN Default \subseteq Fields
  /\ {"Worker", "WorkerBatchQueueSize", "TunnelType"} \subseteq DOMAIN Default
  /\ {"TunnelWriteThread", "AdaptiveBatchingMaxSize"} \subseteq Fields \ DOMAIN Default
<1>1. {"Worker", "WorkerBatchQueueSize", "TunnelType"} \subseteq DOMAIN Default
  BY DEF Default
<1>2. "TunnelWriteThread" \notin DOMAIN Default /\ "AdaptiveBatchingMaxSize" \notin DOMAIN Default
  BY DEF Default
<1>3. {"TunnelWriteThread", "AdaptiveBatchingMaxSize"} \subseteq Fields
  BY DEF Fields, IncrSyncFields
<1>4. DOMAIN Default \subseteq Fields
  BY DEF Default, Fields, OwnFields, LogFields, TunnelFields, CheckPointFields,
         FullSyncFields, IncrSyncFields
<1> QED
  BY <1>1, <1>2, <1>3, <1>4

\* No default is the zero value.
LEMMA DefaultValues == \A f \in DOMAIN Default : Default[f] # Unset
<1> DEFINE names ==
       {"ConfVersion", "Id", "FullSyncHttpPort", "IncrSyncHttpPort", "SystemProfilePort",
        "Level", "File", "TunnelType", "MongoConnect", "StorageDb", "StorageCollection",
        "StartPosition", "ReaderCollectionParallel", "ReaderWriteDocumentParallel",
        "ReaderDocumentBatchSize", "ReaderParallelThread", "ReaderParallelIndex",
        "CreateIndex", "MongoFetchMethod", "ShardKey", "Worker", "WorkerBatchQueueSize",
        "FetcherBufferCapacity", "ConflictWriteTo"}
<1>1. DOMAIN Default = names
  BY DEF Default
<1>2. \A f \in names : Default[f] # Unset
  BY DEF Default, Unset
<1> QED
  BY <1>1, <1>2

LEMMA SetDefaultsFields ==
  ASSUME NEW c, NEW f \in Fields
  PROVE  SetDefaults(c)[f] = IF f \in DOMAIN Default /\ c[f] = Unset THEN Default[f] ELSE c[f]
BY DEF SetDefaults

\* The value of each field of a completed collector.
LEMMA CompletedFields ==
  ASSUME NEW c
  PROVE  LET d == SetDefaults(c) IN
         /\ Completed(c) = [f \in Fields |->
                              CASE f = "TunnelWriteThread"    -> WriteThreads(d)
                                [] f = "WorkerBatchQueueSize" -> BatchQueue(d)
                                [] OTHER                      -> d[f]]
<1> DEFINE d == SetDefaults(c)
<1>1. d = [f \in Fields |-> d[f]]
  BY DEF SetDefaults
<1>2. {"TunnelWriteThread", "WorkerBatchQueueSize"} \subseteq Fields
  BY DefaultFields
<1> QED
  BY <1>1, <1>2 DEF Completed

\* Every field with a default is set in a completed collector.
LEMMA CompletedIsSet ==
  ASSUME NEW c, NEW f \in DOMAIN Default
  PROVE  Completed(c)[f] # Unset
<1> DEFINE d == SetDefaults(c)
<1>1. \A g \in DOMAIN Default : d[g] # Unset
  BY SetDefaultsFields, DefaultValues, DefaultFields
<1>2. BatchQueue(d) # Unset
  BY <1>1, DefaultFields DEF BatchQueue, Unset
<1>3. f \in Fields /\ f # "TunnelWriteThread"
  BY DefaultFields
<1> QED
  BY <1>1, <1>2, <1>3, CompletedFields

LEMMA CompletedTwice == ASSUME NEW c PROVE Completed(Completed(c)) = Completed(c)
<1> DEFINE d == SetDefaults(c)
           e == Completed(c)
<1> HIDE DEF e
<1>1. e = [f \in Fields |-> e[f]]
  BY CompletedFields DEF e
<1>2. \A f \in Fields : SetDefaults(e)[f] = e[f]
  BY CompletedIsSet, SetDefaultsFields DEF e
<1>3. SetDefaults(e) = e
  BY <1>1, <1>2 DEF SetDefaults
<1>4. /\ e.TunnelWriteThread = WriteThreads(d)
      /\ e.WorkerBatchQueueSize = BatchQueue(d)
      /\ e.TunnelType = d.TunnelType
      /\ e.Worker = d.Worker
      /\ e.AdaptiveBatchingMaxSize = d.AdaptiveBatchingMaxSize
  BY CompletedFields, DefaultFields DEF e
<1>5. WriteThreads(e) = e.TunnelWriteThread
  BY <1>4 DEF WriteThreads
<1>6. BatchQueue(e) = e.WorkerBatchQueueSize
  BY <1>4 DEF BatchQueue
<1>7. Completed(e) = [f \in Fields |-> e[f]]
  BY <1>3, <1>5, <1>6, CompletedFields
<1> QED
  BY <1>1, <1>7 DEF e

\* Whatever fallback updates and edits have made of the spec, completing it again prints
\* the same text.
THEOREM CompletionIsFinal == Spec => []CompletionSettles
<1>1. CompletionSettles
  BY CompletedTwice DEF CompletionSettles
<1> QED
  BY <1>1, PTL

----------------------------------------------------------------------------
(* What a pass makes of a spec.                                            *)

LEMMA CompletedType == ASSUME NEW c \in Collectors PROVE Completed(c) \in Collectors
<1> DEFINE d == SetDefaults(c)
<1>1. \A f \in Fields : d[f] \in Values
  BY SetDefaultsFields, SpecsAssumption DEF Collectors
<1>2. WriteThreads(d) \in Values /\ BatchQueue(d) \in Values
  BY <1>1, DefaultFields, SpecsAssumption DEF WriteThreads, BatchQueue
<1> HIDE DEF d
<1>3. \A f \in Fields : Completed(c)[f] \in {WriteThreads(d), BatchQueue(d), d[f]}
  BY CompletedFields DEF d
<1>4. \A f \in Fields : Completed(c)[f] \in Values
  BY <1>1, <1>2, <1>3
<1>5. Completed(c) = [f \in Fields |-> Completed(c)[f]]
  BY CompletedFields
<1> QED
  BY <1>4, <1>5 DEF Collectors

\* A completed spec has a configuration, and is complete.
LEMMA CompletedSpec ==
  ASSUME NEW spec, IsSpec(spec)
  PROVE  LET completed == CheckNSetDefaults(spec) IN
         /\ IsSpec(completed)
         /\ completed.annotations = spec.annotations
         /\ completed.resources = spec.resources
         /\ completed = spec \/ completed.collector = Completed(spec.collector)
         /\ IF Rejected(spec) THEN completed = spec ELSE completed.configuration # NoText
<1> DEFINE c      == Completed(spec.collector)
           text   == completedConfig(c)
           policy == IF spec.pullPolicy = Unset THEN "Always" ELSE spec.pullPolicy
<1>1. CASE spec.configuration # NoText \/ Rejected(spec)
  BY <1>1 DEF CheckNSetDefaults, Rejected
<1>2. CASE spec.configuration = NoText /\ ~Rejected(spec)
  <2> DEFINE pulled == WithPullPolicy(spec)
  <2>1. CheckNSetDefaults(spec) = [pulled EXCEPT !.collector = c, !.configuration = text]
    <3>1. pulled.collector = spec.collector
      BY DEF WithPullPolicy, IsSpec, SpecFields
    <3> QED
      BY <1>2, <3>1 DEF CheckNSetDefaults, WithConfiguration
  <2>2. c \in Collectors
    BY <1>2, CompletedType DEF IsSpec, Rejected, Missing
  <2>3. text \in [Printed -> Values]
    <3>1. Printed \subseteq Fields
      BY DEF Printed
    <3> QED
      BY <2>2, <3>1 DEF completedConfig, Collectors
  <2>4. pulled = [spec EXCEPT !.pullPolicy = policy]
    BY DEF WithPullPolicy
  <2> HIDE DEF c, text, policy, pulled
  <2>5. /\ DOMAIN CheckNSetDefaults(spec) = SpecFields
        /\ CheckNSetDefaults(spec).collector = c
        /\ CheckNSetDefaults(spec).configuration = text
        /\ CheckNSetDefaults(spec).annotations = spec.annotations
        /\ CheckNSetDefaults(spec).resources = spec.resources
    BY <2>1, <2>4 DEF IsSpec, SpecFields
  <2>6. text # NoText /\ text \in Configurations
    BY <2>3, AbsentAssumption DEF Configurations
  <2>7. IsSpec(CheckNSetDefaults(spec))
    BY <2>2, <2>5, <2>6 DEF IsSpec
  <2> QED
    BY <1>2, <2>5, <2>6, <2>7 DEF c
<1> QED
  BY <1>1, <1>2

LEMMA CompletedOnce ==
  ASSUME NEW spec, spec.configuration # NoText
  PROVE  CheckNSetDefaults(spec) = spec /\ ~Rejected(spec)
BY DEF CheckNSetDefaults, Rejected

\* A map with the hash added is a map, and adding the same hash again leaves it as it is.
LEMMA HashedMap ==
  ASSUME NEW annotations, annotations # Absent => IsAnnotations(annotations),
         NEW hash \in Configurations
  PROVE  LET hashed == Hashed(annotations, hash) IN
         /\ IsAnnotations(hashed)
         /\ hashed # Absent
         /\ hashed[HashKey] = hash
         /\ annotations # Absent =>
              \A k \in DOMAIN annotations \ {HashKey} : hashed[k] = annotations[k]
         /\ Hashed(hashed, hash) = hashed
<1> DEFINE own    == IF annotations = Absent THEN {} ELSE DOMAIN annotations
           hashed == Hashed(annotations, hash)
<1>1. own \subseteq Keys /\ \A k \in own : annotations[k] \in Values \cup Configurations
  BY DEF IsAnnotations, AnnotationMaps
<1>2. hashed = [k \in own \cup {HashKey} |-> IF k = HashKey THEN hash ELSE annotations[k]]
  BY DEF Hashed
<1> HIDE DEF own, hashed
<1>3. hashed \in AnnotationMaps(own \cup {HashKey}) /\ own \cup {HashKey} \in SUBSET Keys
  BY <1>1, <1>2, SpecsAssumption DEF AnnotationMaps
<1>4. IsAnnotations(hashed) /\ hashed # Absent
  BY <1>3, AbsentAssumption DEF IsAnnotations
<1>5. DOMAIN hashed = own \cup {HashKey} /\ hashed[HashKey] = hash
  BY <1>2
<1>6. annotations # Absent => \A k \in DOMAIN annotations \ {HashKey} : hashed[k] = annotations[k]
  BY <1>2 DEF own
<1>7. Hashed(hashed, hash) = hashed
  <2>1. Hashed(hashed, hash) =
          [k \in DOMAIN hashed \cup {HashKey} |-> IF k = HashKey THEN hash ELSE hashed[k]]
    BY <1>4 DEF Hashed
  <2>2. DOMAIN hashed \cup {HashKey} = DOMAIN hashed
    BY <1>5
  <2>3. hashed = [k \in DOMAIN hashed |-> hashed[k]]
    BY <1>2
  <2> QED
    BY <1>5, <2>1, <2>2, <2>3
<1> QED
  BY <1>4, <1>5, <1>6, <1>7 DEF hashed

\* The map that is shared with the template changes nothing but the hash in the copy, and
\* nothing in the template that is made of it.
LEMMA SharedSpec ==
  ASSUME NEW spec, IsSpec(spec)
  PROVE  LET shared == SharedWith(spec) IN
         /\ IsSpec(shared)
         /\ shared.configuration = spec.configuration
         /\ shared.collector = spec.collector
         /\ shared.resources = spec.resources
         /\ \A field \in PodFields : shared[field] = spec[field]
         /\ Template(shared) = Template(spec)
<1>1. CASE spec.annotations = Absent
  BY <1>1 DEF SharedWith
<1>2. CASE spec.annotations # Absent
  <2> DEFINE shared == SharedWith(spec)
             hashed == Hashed(spec.annotations, spec.configuration)
  <2>1. shared = [spec EXCEPT !.annotations = hashed]
    BY <1>2 DEF SharedWith, TemplateAnnotations
  <2>2. IsAnnotations(hashed) /\ Hashed(hashed, spec.configuration) = hashed
    BY HashedMap DEF IsSpec
  <2> HIDE DEF shared, hashed
  <2>3. /\ DOMAIN shared = SpecFields
        /\ shared.annotations = hashed
        /\ shared.configuration = spec.configuration
        /\ shared.collector = spec.collector
        /\ shared.resources = spec.resources
        /\ \A field \in PodFields : shared[field] = spec[field]
    BY <2>1 DEF IsSpec, SpecFields, PodFields
  <2>4. IsSpec(shared)
    BY <2>2, <2>3 DEF IsSpec
  <2>5. TemplateAnnotations(shared) = TemplateAnnotations(spec)
    BY <2>2, <2>3 DEF TemplateAnnotations, hashed
  <2>6. Template(shared) = Template(spec)
    BY <2>3, <2>5 DEF Template, PodFields
  <2> QED
    BY <2>3, <2>4, <2>6 DEF shared
<1> QED
  BY <1>1, <1>2

----------------------------------------------------------------------------
(* The invariant: since the last edit, the copy and the template are those *)
(* of the stored spec, even when it is itself a copy that was stored.      *)

CopyInv ==
  LET completed == CheckNSetDefaults(stored) IN
  \/ copy = completed
  \/ copy = SharedWith(completed) /\ ~Rejected(stored)

SpecsInv ==
  /\ IsSpec(stored)
  /\ \/ copy = Absent /\ template = Absent
     \/ /\ CopyInv
        /\ Made => ~Rejected(stored) /\ template = Template(CheckNSetDefaults(stored))

\* What holds of the copy.
LEMMA CopySpec ==
  ASSUME IsSpec(stored), CopyInv
  PROVE  /\ IsSpec(copy)
         /\ copy.configuration = CheckNSetDefaults(stored).configuration
         /\ copy.resources = stored.resources
         /\ copy.collector = stored.collector \/ copy.collector = Completed(stored.collector)
         /\ Template(copy) = Template(CheckNSetDefaults(stored))
         /\ IF Rejected(stored) THEN copy = stored ELSE copy.configuration # NoText
<1> DEFINE completed == CheckNSetDefaults(stored)
<1>1. /\ IsSpec(completed)
      /\ completed.resources = stored.resources
      /\ completed = stored \/ completed.collector = Completed(stored.collector)
      /\ IF Rejected(stored) THEN completed = stored ELSE completed.configuration # NoText
  BY CompletedSpec
<1> HIDE DEF completed
<1>2. /\ IsSpec(SharedWith(completed))
      /\ SharedWith(completed).configuration = completed.configuration
      /\ SharedWith(completed).collector = completed.collector
      /\ SharedWith(completed).resources = completed.resources
      /\ Template(SharedWith(completed)) = Template(completed)
  BY <1>1, SharedSpec
<1>3. copy = completed \/ (copy = SharedWith(completed) /\ ~Rejected(stored))
  BY DEF CopyInv, completed
<1>4. /\ IsSpec(copy)
      /\ copy.configuration = completed.configuration
      /\ copy.resources = stored.resources
      /\ copy.collector = stored.collector \/ copy.collector = Completed(stored.collector)
      /\ Template(copy) = Template(completed)
      /\ IF Rejected(stored) THEN copy = stored ELSE copy.configuration # NoText
  BY <1>1, <1>2, <1>3
<1> QED
  BY <1>4 DEF completed

LEMMA PassSpecs == ASSUME SpecsInv, Pass PROVE SpecsInv' /\ CopyInv' /\ stored' = stored
<1>1. CASE PassWithoutJob
  BY <1>1 DEF PassWithoutJob, SpecsInv, CopyInv, Made
<1>2. CASE PassWithJob
  BY <1>2 DEF PassWithJob, SpecsInv, CopyInv, Made
<1> QED
  BY <1>1, <1>2 DEF Pass

\* The copy that the fallback stores is complete: passes make of it what they made before.
LEMMA FallbackSpecs == ASSUME SpecsInv, FallbackUpdate PROVE SpecsInv'
<1>1. copy # Absent /\ stored' = copy /\ UNCHANGED << copy, template >>
  BY DEF FallbackUpdate
<1>2. IsSpec(stored) /\ CopyInv
  BY <1>1 DEF SpecsInv
<1>3. CASE Rejected(stored)
  <2>1. stored' = stored
    BY <1>1, <1>2, <1>3, CopySpec
  <2> QED
    BY <1>1, <2>1 DEF SpecsInv, CopyInv, Made
<1>4. CASE ~Rejected(stored)
  <2>1. IsSpec(copy) /\ copy.configuration # NoText
    BY <1>2, <1>4, CopySpec
  <2>2. CheckNSetDefaults(copy) = copy /\ ~Rejected(copy)
    BY <2>1, CompletedOnce
  <2>3. Template(copy) = Template(CheckNSetDefaults(stored))
    BY <1>2, CopySpec
  <2> QED
    BY <1>1, <2>1, <2>2, <2>3 DEF SpecsInv, CopyInv, Made
<1> QED
  BY <1>3, <1>4

LEMMA EditSpecs ==
  ASSUME SpecsInv,
         EditField \/ EditConfiguration \/ EditResources \/ EditPod \/ EditAnnotations
  PROVE  SpecsInv' /\ ~Made'
<1>1. IsSpec(stored)
  BY DEF SpecsInv
<1>2. ASSUME NEW new, Edited(new), IsSpec(new) PROVE SpecsInv' /\ ~Made'
  BY <1>2 DEF Edited, SpecsInv, Made
<1>3. CASE EditField
  <2>1. PICK f \in DOMAIN Edits : \E value \in Edits[f] :
          Edited([stored EXCEPT !.collector[f] = value])
    BY <1>3 DEF EditField
  <2>2. PICK value \in Edits[f] : Edited([stored EXCEPT !.collector[f] = value])
    BY <2>1
  <2> DEFINE c == [stored.collector EXCEPT ![f] = value]
  <2>3. c \in Collectors
    <3>1. stored.collector \in Collectors
      BY <1>1, <1>3 DEF IsSpec, EditField
    <3>2. value \in Values
      BY SpecsAssumption
    <3> QED
      BY <3>1, <3>2 DEF Collectors
  <2> HIDE DEF c
  <2>4. IsSpec([stored EXCEPT !.collector = c])
    BY <1>1, <2>3 DEF IsSpec, SpecFields
  <2>5. Edited([stored EXCEPT !.collector = c])
    BY <2>2 DEF c
  <2> QED
    BY <1>2, <2>4, <2>5
<1>4. CASE EditConfiguration
  <2>1. PICK text \in {NoText, UserText} : Edited([stored EXCEPT !.configuration = text])
    BY <1>4 DEF EditConfiguration
  <2>2. IsSpec([stored EXCEPT !.configuration = text])
    BY <1>1 DEF IsSpec, SpecFields, Configurations
  <2> QED
    BY <1>2, <2>1, <2>2
<1>5. CASE EditResources
  <2>1. PICK r : Edited([stored EXCEPT !.resources = r])
    BY <1>5 DEF EditResources
  <2>2. IsSpec([stored EXCEPT !.resources = r])
    BY <1>1 DEF IsSpec, SpecFields
  <2> QED
    BY <1>2, <2>1, <2>2
<1>6. CASE EditPod
  <2>1. PICK field \in DOMAIN PodEdits :
          \E value \in PodEdits[field] : Edited([stored EXCEPT ![field] = value])
    BY <1>6 DEF EditPod
  <2>2. PICK value \in PodEdits[field] : Edited([stored EXCEPT ![field] = value])
    BY <2>1
  <2>3. field \in PodFields
    BY SpecsAssumption
  <2>4. IsSpec([stored EXCEPT ![field] = value])
    BY <1>1, <2>3 DEF IsSpec, SpecFields, PodFields
  <2> QED
    BY <1>2, <2>2, <2>4
<1>7. CASE EditAnnotations
  <2> DEFINE kept == IF stored.annotations = Absent THEN {}
                     ELSE DOMAIN stored.annotations \cap {HashKey}
             Merged(a) == [k \in kept \cup DOMAIN a |->
                             IF k \in kept THEN stored.annotations[k] ELSE a[k]]
  <2>1. PICK a \in Annotations : Edited([stored EXCEPT !.annotations = Merged(a)])
    BY <1>7 DEF EditAnnotations
  <2>2. DOMAIN a \subseteq Keys /\ \A k \in DOMAIN a : a[k] \in Values \cup Configurations
    BY SpecsAssumption DEF IsAnnotations, AnnotationMaps
  <2>3. kept \subseteq Keys /\ \A k \in kept : stored.annotations[k] \in Values \cup Configurations
    BY <1>1 DEF IsSpec, IsAnnotations, AnnotationMaps
  <2> HIDE DEF kept
  <2>4. Merged(a) \in AnnotationMaps(kept \cup DOMAIN a) /\ kept \cup DOMAIN a \in SUBSET Keys
    BY <2>2, <2>3 DEF AnnotationMaps
  <2>5. IsAnnotations(Merged(a))
    BY <2>4 DEF IsAnnotations
  <2> HIDE DEF Merged
  <2>6. IsSpec([stored EXCEPT !.annotations = Merged(a)])
    BY <1>1, <2>5 DEF IsSpec, SpecFields
  <2> QED
    BY <1>2, <2>1, <2>6
<1> QED
  BY <1>3, <1>4, <1>5, <1>6, <1>7

LEMMA NextSpecs == SpecsInv /\ [Next]_vars => SpecsInv'
<1>1. SpecsInv /\ UNCHANGED vars => SpecsInv'
  BY DEF vars, SpecsInv, CopyInv, Made
<1> QED
  BY <1>1, PassSpecs, FallbackSpecs, EditSpecs DEF Next, Pass

\* Between two edits the stored spec, the copy and the template belong together, whichever
\* of its copies the fallback has stored.
THEOREM SpecsInvariant == Spec => []SpecsInv
<1>1. Init => SpecsInv
  BY SpecsAssumption DEF Init, SpecsInv
<1> QED
  BY <1>1, NextSpecs, PTL DEF Spec

----------------------------------------------------------------------------
(* The template.                                                           *)

\* The hash is that of the configuration of the pass, and the user's annotations are there.
THEOREM HashCurrent == Spec => []HashIsCurrent
<1>1. ASSUME SpecsInv, Made PROVE HashIsCurrent
  <2> DEFINE completed == CheckNSetDefaults(stored)
  <2>1. IsSpec(stored) /\ CopyInv /\ template = Template(completed)
    BY <1>1 DEF SpecsInv, Made
  <2>2. IsSpec(completed) /\ completed.annotations = stored.annotations
    BY <2>1, CompletedSpec
  <2>3. copy.configuration = completed.configuration
    BY <2>1, CopySpec
  <2> HIDE DEF completed
  <2>4. template.annotations = Hashed(stored.annotations, completed.configuration)
    BY <2>1, <2>2 DEF Template, TemplateAnnotations
  <2>5. /\ stored.annotations # Absent => IsAnnotations(stored.annotations)
        /\ completed.configuration \in Configurations
    BY <2>1, <2>2 DEF IsSpec
  <2> QED
    BY <2>3, <2>4, <2>5, HashedMap DEF HashIsCurrent
<1>2. SpecsInv => HashIsCurrent
  BY <1>1 DEF HashIsCurrent
<1> QED
  BY <1>2, SpecsInvariant, PTL

\* A template only changes with an edit of the user: no job is updated forever.
THEOREM TemplateStable == Spec => TemplateIsStable
<1>1. SpecsInv /\ SpecsInv' /\ [Next]_vars => [Made /\ Made' => template' = template]_vars
  <2> SUFFICES ASSUME SpecsInv, SpecsInv', [Next]_vars, Made, Made' PROVE template' = template
    OBVIOUS
  <2>1. CASE Pass
    <3>1. stored' = stored
      BY <2>1, PassSpecs
    <3> QED
      BY <3>1 DEF SpecsInv, Made
  <2>2. CASE FallbackUpdate
    BY <2>2 DEF FallbackUpdate
  <2>3. CASE EditField \/ EditConfiguration \/ EditResources \/ EditPod \/ EditAnnotations
    BY <2>3, EditSpecs
  <2>4. CASE UNCHANGED vars
    BY <2>4 DEF vars
  <2> QED
    BY <2>1, <2>2, <2>3, <2>4 DEF Next, Pass
<1> QED
  BY <1>1, SpecsInvariant, PTL DEF Spec, TemplateIsStable

----------------------------------------------------------------------------
(* The passes.                                                             *)

\* What a completion makes of a field that is set.
LEMMA CompletedKeeps ==
  ASSUME NEW c, NEW f \in Fields, c[f] # Unset
  PROVE  \/ Completed(c)[f] = c[f]
         \/ f = "WorkerBatchQueueSize" /\ c.AdaptiveBatchingMaxSize = Unset
<1> DEFINE d == SetDefaults(c)
<1>1. d[f] = c[f]
  BY SetDefaultsFields
<1>2. d.AdaptiveBatchingMaxSize = c.AdaptiveBatchingMaxSize
  BY SetDefaultsFields, DefaultFields
<1>3. f = "TunnelWriteThread" => WriteThreads(d) = d[f]
  BY <1>1 DEF WriteThreads
<1>4. f = "WorkerBatchQueueSize" /\ c.AdaptiveBatchingMaxSize # Unset => BatchQueue(d) = d[f]
  BY <1>2 DEF BatchQueue
<1> QED
  BY <1>1, <1>3, <1>4, CompletedFields

\* No default replaces a value the user chose, other than the size of the batch queue.
THEOREM ChoicesKept == Spec => ChosenValuesKept
<1> DEFINE Kept ==
      Pass /\ stored.collector # Absent =>
        \A f \in Fields :
          \/ stored.collector[f] = Unset
          \/ copy'.collector[f] = stored.collector[f]
          \/ f = "WorkerBatchQueueSize" /\ stored.collector.AdaptiveBatchingMaxSize = Unset
<1>1. SpecsInv /\ [Next]_vars => [Kept]_vars
  <2> SUFFICES ASSUME SpecsInv, Pass, NEW f \in Fields, stored.collector[f] # Unset
               PROVE  \/ copy'.collector[f] = stored.collector[f]
                      \/ /\ f = "WorkerBatchQueueSize"
                         /\ stored.collector.AdaptiveBatchingMaxSize = Unset
    OBVIOUS
  <2>1. \/ copy'.collector = stored.collector
        \/ copy'.collector = Completed(stored.collector)
    <3> DEFINE completed == CheckNSetDefaults(stored)
    <3>1. copy' = completed \/ copy' = SharedWith(completed)
      BY DEF Pass, PassWithoutJob, PassWithJob
    <3>2. /\ IsSpec(completed)
          /\ completed = stored \/ completed.collector = Completed(stored.collector)
      BY CompletedSpec DEF SpecsInv
    <3> HIDE DEF completed
    <3> QED
      BY <3>1, <3>2, SharedSpec
  <2> QED
    BY <2>1, CompletedKeeps
<1> QED
  BY <1>1, SpecsInvariant, PTL DEF Spec, ChosenValuesKept
=============================================================================

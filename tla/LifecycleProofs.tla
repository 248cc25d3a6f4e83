-------------------------- MODULE LifecycleProofs --------------------------
(***************************************************************************)
(* What still holds of the resource and its passes when the user may delete*)
(* it and create another of its name, for every set of operator processes  *)
(* and every bound.  The invariants of ReconcilerProofs and PassProofs are *)
(* preserved by the deletion and by the garbage collector as well: no copy *)
(* of the deleted resource is current any more, and a copy that is current *)
(* has the uid of the stored resource.                                     *)
(*                                                                         *)
(* With the history of the submitted specs: every object has an owner that *)
(* exists or was deleted, and Lifecycle implements OwnedPromise.           *)
(***************************************************************************)
EXTENDS Succession, OriginsProofs

LifecycleInv == StatusInv /\ LatestInv

\* The deletion outdates every copy of the resource.
LEMMA DeletionInv == ASSUME LifecycleInv, DeleteResource PROVE LifecycleInv'
<1> USE DEF LifecycleInv
<1>1. /\ cr' = Absent /\ cachedLatest' = {} /\ heldLatest' = {}
      /\ UNCHANGED << objects, cache, local, budget >>
  BY DEF DeleteResource, Stored
<1>2. StoreInv'
  BY <1>1 DEF StatusInv, StoreInv, StoreOK, objects
<1>3. CacheInv'
  BY <1>1 DEF StatusInv, CacheInv, CachesOK, local
<1>4. PassInv'
  BY <1>1 DEF StatusInv, PassInv, PassesOK, local
<1>5. LatestInv'
  BY <1>1 DEF LatestInv
<1> QED
  BY <1>2, <1>3, <1>4, <1>5 DEF StatusInv

\* The garbage collector takes objects away, and touches neither the resource nor a pass.
LEMMA CollectionInv == ASSUME LifecycleInv, Collect PROVE LifecycleInv' /\ cr' = cr
<1> USE DEF LifecycleInv
<1>1. UNCHANGED << cr, cache, queued, pc, work, cachedLatest, heldLatest, budget >>
  BY DEF Collect, CollectConfigMap, CollectClaim, CollectJob, local, latest
<1>2. StoreOK'
  BY <1>1 DEF StatusInv, StoreInv, StoreOK, PodValues, Collect, CollectConfigMap, CollectClaim,
              CollectJob
<1>3. StoreInv'
  BY <1>1, <1>2 DEF StatusInv, StoreInv
<1>4. CacheInv'
  BY <1>1 DEF StatusInv, CacheInv, CachesOK
<1>5. PassInv'
  BY <1>1 DEF StatusInv, PassInv, PassesOK
<1>6. LatestInv'
  BY <1>1, HeldSame DEF LatestInv
<1> QED
  BY <1>1, <1>3, <1>4, <1>5, <1>6 DEF StatusInv

LEMMA LifecycleNextInv == LifecycleInv /\ [LifecycleNext]_vars => LifecycleInv'
<1>1. LifecycleInv /\ [Next]_vars => LifecycleInv'
  BY NextInv, LatestNext DEF LifecycleInv
<1> QED
  BY <1>1, DeletionInv, CollectionInv DEF LifecycleNext

\* Every copy of a resource has a coherent status and every variable its type; a copy with
\* the current resourceVersion was made from the stored resource and not from one that
\* had its name before.
THEOREM LifecycleInvariant == LifecycleSpec => []LifecycleInv
<1>1. Init => LifecycleInv
  BY InitInv, LatestInit DEF LifecycleInv
<1> QED
  BY <1>1, LifecycleNextInv, PTL DEF LifecycleSpec

\* The status stays coherent through deletions: a new resource takes nothing over from
\* the passes for its predecessor.
THEOREM CoherentThroughDeletion == LifecycleSpec => []StatusCoherent
<1>1. LifecycleInv => StatusCoherent
  BY DEF LifecycleInv, StatusInv, StoreInv, StatusCoherent
<1> QED
  BY <1>1, LifecycleInvariant, PTL

\* Only the user and the writes of a pass change the resource.
LEMMA LifecycleWriters ==
  ASSUME [LifecycleNext]_vars
  PROVE  \/ cr' = cr
         \/ cr' = Absent
         \/ User
         \/ \E o \in Operators : WriteStatus(o) \/ FallbackUpdate(o)
<1>1. CASE [Next]_vars
  BY <1>1, Writers
<1>2. CASE DeleteResource
  BY <1>2 DEF DeleteResource, Stored
<1>3. CASE Collect
  BY <1>3 DEF Collect, CollectConfigMap, CollectClaim, CollectJob
<1> QED
  BY <1>1, <1>2, <1>3 DEF LifecycleNext

\* No pass writes to a resource other than the one it read, not even to a successor with
\* the same name: the operator that takes the step works for the resource it changes.
THEOREM PassesStay == LifecycleSpec => PassesStayWithTheirResource
<1> DEFINE Stay ==
      cr # Absent /\ cr' # Absent /\ cr'.uid = cr.uid /\ cr' # cr /\ budget'.edits = budget.edits
        => \E o \in Operators :
             pc'[o] # pc[o] /\ work[o] # Absent /\ work[o].cr.uid = cr.uid
<1>1. LifecycleInv /\ [LifecycleNext]_vars => [Stay]_vars
  <2> SUFFICES ASSUME LifecycleInv, [LifecycleNext]_vars,
                      cr # Absent, cr' # Absent, cr' # cr, budget'.edits = budget.edits
               PROVE  \E o \in Operators :
                        pc'[o] # pc[o] /\ work[o] # Absent /\ work[o].cr.uid = cr.uid
    OBVIOUS
  <2>1. ~User
    <3>1. budget.edits \in Nat
      BY DEF LifecycleInv, StatusInv, PassInv, PassesOK, Budgets
    <3> QED
      BY <3>1, UserKeeps DEF LifecycleInv
  <2>2. PICK o \in Operators : WriteStatus(o) \/ FallbackUpdate(o)
    BY <2>1, LifecycleWriters
  <2>3. o \in heldLatest
    BY <2>2 DEF WriteStatus, FallbackUpdate, Accepts
  <2>4. Held(o)
    BY <2>3 DEF LifecycleInv, LatestInv
  <2>5. work[o] # Absent
    BY <2>4 DEF Held, LifecycleInv, StatusInv, PassInv, PassesOK
  <2>6. pc'[o] # pc[o]
    <3>1. pc \in [Operators -> Steps \cup {"idle", "down"}]
      BY DEF LifecycleInv, StatusInv, PassInv, PassesOK
    <3>2. /\ pc[o] \in {"statusWrite", "fallback"}
          /\ \E step \in {"down", "idle", "fallback"} :
               pc' = [pc EXCEPT ![o] = step] /\ (pc[o] = "fallback" => step # "fallback")
      BY <2>2 DEF WriteStatus, FallbackUpdate, Finish
    <3> QED
      BY <3>1, <3>2
  <2> QED
    BY <2>4, <2>5, <2>6 DEF Held
<1> QED
  BY <1>1, LifecycleInvariant, PTL DEF LifecycleSpec, PassesStayWithTheirResource

\* Nor does a pass for a deleted resource, or a late one for its successor, take back what
\* the user asked for.
THEOREM IntentKeptThroughDeletion == LifecycleSpec => OperatorKeepsIntent
<1>1. LifecycleInv /\ [LifecycleNext]_vars =>
        [cr # Absent /\ cr' # Absent =>
           \/ cr'.spec \in {cr.spec, Defaulted(cr.spec)}
           \/ budget'.edits < budget.edits]_vars
  BY LifecycleWriters, WriteKeeps, UserKeeps DEF LifecycleInv
<1> QED
  BY <1>1, LifecycleInvariant, PTL DEF LifecycleSpec, OperatorKeepsIntent

\* The history of a resource is only added to, although its predecessor's passes may still
\* report when it has been created.
THEOREM HistoryKeptThroughDeletion == LifecycleSpec => ConditionsGrow
<1>1. LifecycleInv /\ [LifecycleNext]_vars =>
        [cr # Absent /\ cr' # Absent =>
           Extends(cr'.status.conditions, cr.status.conditions)]_vars
  BY LifecycleWriters, WriteKeeps, UserKeeps DEF LifecycleInv, Extends
<1> QED
  BY <1>1, LifecycleInvariant, PTL DEF LifecycleSpec, ConditionsGrow
----------------------------------------------------------------------------
(* Whose the objects are.                                                  *)

LEMMA CopyOwnedSame ==
  ASSUME NEW o, CopyOwned(o), Given \subseteq Given', pc'[o] = pc[o], work'[o] = work[o]
  PROVE  CopyOwned(o)'
BY DEF CopyOwned

\* A step of a pass makes only objects of the resource it works for, or of the owner of a
\* job that it found.
LEMMA PassStepOwned ==
  ASSUME StatusInv, OwnersKnown, NEW o \in Operators, PassStep(o), Given' = Given
  PROVE  StoreOwned'
<1> DEFINE r == work[o].cr
           found == work[o].found
<1>1. pc[o] \in Steps /\ cr' = cr
  BY PassStepMoves DEF Moves
<1>2. r.uid \in Given /\ (found # Absent => found.owner \in Given)
  BY <1>1 DEF OwnersKnown, CopyOwned
<1>3. /\ cm' \in {cm, DesiredConfigMap(r)}
      /\ pvc' \in {pvc, DesiredClaim(r)}
      /\ job' \in {job, Absent, DesiredJob(r, Absent), DesiredJob(r, found)}
  BY DEF PassStep, CheckMongodbConnection, CreateOrUpdateConfigMap, UpdateCreatedConfigMap,
         CreateOrUpdateClaim, UpdateCreatedClaim, ReconcileJob, CreateJob, DeleteJob, UpdateJob,
         UpdateCreatedJob, ReportJob, objects
<1>4. /\ DesiredConfigMap(r).owner = r.uid /\ DesiredClaim(r).owner = r.uid
      /\ DesiredJob(r, Absent).owner = r.uid
      /\ DesiredJob(r, found).owner \in {r.uid, found.owner}
      /\ found = Absent => DesiredJob(r, found).owner = r.uid
  BY DEF DesiredConfigMap, DesiredClaim, DesiredJob
<1>5. StoreOwned
  BY DEF OwnersKnown
<1> HIDE DEF r, found
<1>6. /\ cm' # Absent => cm'.owner \in Given
      /\ pvc' # Absent => pvc'.owner \in Given
      /\ job' # Absent => job'.owner \in Given
  BY <1>2, <1>3, <1>4, <1>5 DEF StoreOwned
<1> QED
  BY <1>1, <1>5, <1>6 DEF StoreOwned

LEMMA MoveOwned ==
  ASSUME StatusInv, OwnersKnown, NEW o \in Operators, Moves(o), StoreOwned', Given' = Given
  PROVE  OwnersKnown'
<1>1. pc \in [Operators -> Steps \cup {"idle", "down"}] /\ work \in [Operators -> Works \cup {Absent}]
  BY DEF StatusInv, PassInv, PassesOK
<1>2. PICK step, w :
        /\ pc' = [pc EXCEPT ![o] = step]
        /\ work' = [work EXCEPT ![o] = w]
        /\ Keeps(o, w)
  BY DEF Moves
<1>3. pc[o] \in Steps /\ cache' = cache
  BY DEF Moves
<1>4. CopyOwned(o)'
  <2>1. work'[o] = w
    BY <1>1, <1>2
  <2>2. CopyOwned(o) /\ CacheOwned(o)
    BY DEF OwnersKnown
  <2> QED
    BY <1>2, <1>3, <2>1, <2>2 DEF CopyOwned, CacheOwned, Keeps
<1>5. ASSUME NEW q \in Operators, q # o PROVE CopyOwned(q)'
  BY <1>1, <1>2, <1>5, CopyOwnedSame DEF OwnersKnown
<1>6. \A q \in Operators : CacheOwned(q)'
  BY <1>3 DEF OwnersKnown, CacheOwned
<1> QED
  BY <1>4, <1>5, <1>6 DEF OwnersKnown

\* A pass ends, or goes on to the fallback.
LEMMA EndOwned ==
  ASSUME StatusInv, OwnersKnown, NEW o \in Operators, StoreOwned', Given' = Given,
         UNCHANGED cache, NEW place, pc' = [pc EXCEPT ![o] = place],
         \/ place \in {"idle", "down"}
         \/ pc[o] \in Steps /\ UNCHANGED work,
         \A q \in Operators : q # o => work'[q] = work[q]
  PROVE  OwnersKnown'
<1>1. pc \in [Operators -> Steps \cup {"idle", "down"}]
  BY DEF StatusInv, PassInv, PassesOK
<1>2. CopyOwned(o)'
  <2>1. CopyOwned(o) /\ pc'[o] = place
    BY <1>1 DEF OwnersKnown
  <2> QED
    BY <2>1 DEF CopyOwned, Steps
<1>3. ASSUME NEW q \in Operators, q # o PROVE CopyOwned(q)'
  BY <1>1, <1>3, CopyOwnedSame DEF OwnersKnown
<1>4. \A q \in Operators : CacheOwned(q)'
  BY DEF OwnersKnown, CacheOwned
<1> QED
  BY <1>2, <1>3, <1>4 DEF OwnersKnown

\* A pass begins with a copy of what the cache shows.
LEMMA ReconcileOwned ==
  ASSUME StatusInv, OwnersKnown, NEW o \in Operators, Reconcile(o), Given' = Given
  PROVE  OwnersKnown'
<1> DEFINE got  == cache[o].cr
           copy == IF Invalid(got.spec) THEN [got EXCEPT !.status = ErrorReported(@)]
                                        ELSE [got EXCEPT !.spec = Defaulted(@)]
           w    == [cr |-> copy, panic |-> FALSE, found |-> Absent]
<1>1. /\ pc \in [Operators -> Steps \cup {"idle", "down"}]
      /\ work \in [Operators -> Works \cup {Absent}]
      /\ cache \in [Operators -> Caches]
  BY DEF StatusInv, PassInv, PassesOK, CacheInv, CachesOK
<1>2. UNCHANGED << cr, cm, pvc, job, cache >>
  BY DEF Reconcile, objects
<1>3. StoreOwned' /\ \A q \in Operators : CacheOwned(q)'
  BY <1>2 DEF OwnersKnown, StoreOwned, CacheOwned
<1>4. CASE UNCHANGED << pc, work >>
  BY <1>3, <1>4, CopyOwnedSame DEF OwnersKnown
<1>5. CASE /\ got # Absent
           /\ work' = [work EXCEPT ![o] = w]
           /\ \A q \in Operators : q # o => pc'[q] = pc[q]
  <2>1. got \in Resources /\ got.uid \in Given
    BY <1>1, <1>5 DEF OwnersKnown, CacheOwned, Caches
  <2>2. copy.uid = got.uid
    BY <2>1 DEF Resources
  <2>3. w.cr = copy /\ w.found = Absent
    OBVIOUS
  <2> HIDE DEF copy, w
  <2>4. work'[o] = w
    BY <1>1, <1>5
  <2>5. CopyOwned(o)'
    BY <2>1, <2>2, <2>3, <2>4 DEF CopyOwned
  <2>6. ASSUME NEW q \in Operators, q # o PROVE CopyOwned(q)'
    BY <1>1, <1>5, <2>6, CopyOwnedSame DEF OwnersKnown
  <2> QED
    BY <1>3, <2>5, <2>6 DEF OwnersKnown
<1> QED
  BY <1>1, <1>4, <1>5 DEF Reconcile

\* A status or a spec that is written never changes whose the resource is.
LEMMA WriteUid ==
  ASSUME StatusInv, NEW o \in Operators, WriteStatus(o) \/ FallbackUpdate(o)
  PROVE  \/ cr' = cr
         \/ cr # Absent /\ cr' # Absent /\ cr'.uid = cr.uid
<1> SUFFICES ASSUME cr' # cr PROVE cr # Absent /\ cr' # Absent /\ cr'.uid = cr.uid
  OBVIOUS
<1>1. /\ cr # Absent
      /\ \/ cr' = [cr EXCEPT !.status = work[o].cr.status]
         \/ cr' = [cr EXCEPT !.spec = work[o].cr.spec]
  BY DEF WriteStatus, FallbackUpdate, Accepts, Stored
<1>2. pc[o] \in Steps
  BY DEF WriteStatus, FallbackUpdate, Steps
<1>3. cr \in Resources /\ work[o].cr.status \in Statuses /\ work[o].cr.spec \in Specs
  BY <1>1, <1>2, Busy DEF StatusInv, StoreInv, StoreOK, PassInv
<1>4. cr' \in Resources /\ cr'.uid = cr.uid
  BY <1>1, <1>3 DEF Resources
<1> QED
  BY <1>1, <1>4, ConstantsAssumption

LEMMA WriteOwned ==
  ASSUME StatusInv, OwnersKnown, NEW o \in Operators, WriteStatus(o) \/ FallbackUpdate(o),
         Given' = Given
  PROVE  OwnersKnown'
<1>1. work \in [Operators -> Works \cup {Absent}]
  BY DEF StatusInv, PassInv, PassesOK
<1>2. pc[o] \in Steps /\ UNCHANGED << cm, pvc, job, cache >>
  BY DEF WriteStatus, FallbackUpdate, Steps, objects
<1>3. StoreOwned'
  BY <1>2, WriteUid DEF OwnersKnown, StoreOwned
<1>4. CASE Finish(o)
  <2>1. \E place \in {"idle", "down"} : pc' = [pc EXCEPT ![o] = place]
    BY <1>4 DEF Finish
  <2>2. \A q \in Operators : q # o => work'[q] = work[q]
    BY <1>1, <1>4 DEF Finish
  <2> QED
    BY <1>2, <1>3, <2>1, <2>2, EndOwned
<1>5. CASE pc' = [pc EXCEPT ![o] = "fallback"] /\ UNCHANGED work
  BY <1>2, <1>3, <1>5, EndOwned
<1> QED
  BY <1>4, <1>5 DEF WriteStatus, FallbackUpdate

LEMMA OtherOwned ==
  ASSUME StatusInv, OwnersKnown, NEW o \in Operators,
         PanicInStatus(o) \/ Crash(o) \/ ApiFault(o), Given' = Given
  PROVE  OwnersKnown'
<1>1. work \in [Operators -> Works \cup {Absent}]
  BY DEF StatusInv, PassInv, PassesOK
<1>2. UNCHANGED << cr, cm, pvc, job, cache >>
  BY DEF PanicInStatus, Crash, ApiFault, objects
<1>3. StoreOwned'
  BY <1>2 DEF OwnersKnown, StoreOwned
<1>4. CASE PanicInStatus(o) \/ Crash(o)
  <2>1. pc' = [pc EXCEPT ![o] = "down"] /\ work' = [work EXCEPT ![o] = Absent]
    BY <1>4 DEF PanicInStatus, Crash
  <2> QED
    BY <1>1, <1>2, <1>3, <2>1, EndOwned
<1>5. CASE pc[o] = "statusWrite" /\ pc' = [pc EXCEPT ![o] = "fallback"] /\ UNCHANGED work
  <2>1. pc[o] \in Steps
    BY <1>5 DEF Steps
  <2> QED
    BY <1>2, <1>3, <1>5, <2>1, EndOwned
<1>6. CASE Finish(o)
  <2>1. \E place \in {"idle", "down"} : pc' = [pc EXCEPT ![o] = place]
    BY <1>6 DEF Finish
  <2>2. \A q \in Operators : q # o => work'[q] = work[q]
    BY <1>1, <1>6 DEF Finish
  <2> QED
    BY <1>2, <1>3, <2>1, <2>2, EndOwned
<1>7. CASE /\ pc[o] \in {"configMap", "configMapUpdate", "claim", "claimUpdate", "job",
                          "jobWrite", "jobUpdate"}
           /\ Abort(o, Health(o))
  <2>1. pc[o] \in Steps \ Writing
    BY <1>7 DEF Steps, Writing
  <2>2. Health(o) \in HealthChecks
    BY <2>1, Busy DEF StatusInv, PassInv
  <2>3. Moves(o)
    BY <1>2, <1>7, <2>1, <2>2, FormsMove
  <2> QED
    BY <1>3, <2>3, MoveOwned
<1> QED
  BY <1>4, <1>5, <1>6, <1>7 DEF ApiFault

\* A cache shows what is stored.
LEMMA SyncOwned ==
  ASSUME StatusInv, OwnersKnown, NEW o \in Operators, Sync(o) \/ Restart(o), Given' = Given
  PROVE  OwnersKnown'
<1>1. /\ pc \in [Operators -> Steps \cup {"idle", "down"}]
      /\ cache \in [Operators -> Caches]
  BY DEF StatusInv, PassInv, PassesOK, CacheInv, CachesOK
<1>2. UNCHANGED << cr, cm, pvc, job, work >>
  BY DEF Sync, SyncResource, SyncConfigMap, SyncClaim, SyncJob, SyncPods, Restart, local, objects
<1>3. StoreOwned'
  BY <1>2 DEF OwnersKnown, StoreOwned
<1>4. \A q \in Operators : /\ cache'[q].cr \in {cache[q].cr, cr}
                          /\ cache'[q].job \in {cache[q].job, job}
  <2>1. Current.cr = cr /\ Current.job = job
    BY DEF Current
  <2>2. CASE SyncResource(o)
    BY <1>1, <2>2 DEF SyncResource, Caches
  <2>3. CASE SyncConfigMap(o)
    BY <1>1, <2>3 DEF SyncConfigMap, Caches
  <2>4. CASE SyncClaim(o)
    BY <1>1, <2>4 DEF SyncClaim, Caches
  <2>5. CASE SyncJob(o)
    BY <1>1, <2>1, <2>5 DEF SyncJob, Caches
  <2>6. CASE SyncPods(o)
    BY <1>1, <2>6 DEF SyncPods, Caches
  <2>7. CASE Restart(o)
    BY <1>1, <2>1, <2>7 DEF Restart
  <2> QED
    BY <2>2, <2>3, <2>4, <2>5, <2>6, <2>7 DEF Sync
<1>5. \A q \in Operators : CacheOwned(q)'
  BY <1>4 DEF OwnersKnown, StoreOwned, CacheOwned
<1>6. ASSUME NEW q \in Operators PROVE CopyOwned(q)'
  <2>1. CASE pc'[q] = pc[q]
    BY <1>2, <2>1, CopyOwnedSame DEF OwnersKnown
  <2>2. CASE pc'[q] # pc[q]
    <3>1. pc'[q] = "idle"
      BY <1>1, <2>2 DEF Sync, SyncResource, SyncConfigMap, SyncClaim, SyncJob, SyncPods, Restart, local
    <3> QED
      BY <3>1 DEF CopyOwned, Steps
  <2> QED
    BY <2>1, <2>2
<1> QED
  BY <1>3, <1>5, <1>6 DEF OwnersKnown
----------------------------------------------------------------------------
(* The invariant of the succession of resources.                           *)

\* As long as no resource was deleted, nothing was collected, and a job has what its pods
\* mount.  The uid of a resource is given out once.
SuccessionInv ==
  /\ LifecycleInv
  /\ OriginInv
  /\ budget.creates <= MaxCreates
  /\ OwnersKnown
  /\ Gone = {} => MountsInv

\* A step of the operator, the Job controller or the kubelet.
System ==
  /\ \/ \E o \in Operators : OperatorNext(o)
     \/ \E p \in Pods : PodNext(p)
  /\ budget'.creates = budget.creates /\ budget'.edits = budget.edits
  /\ UNCHANGED submitted

\* What a step may do, by who does it.
LEMMA SuccessionSteps ==
  ASSUME LifecycleInv, [SuccessionNext]_<< vars, submitted >>
  PROVE  \/ User /\ submitted' = submitted \cup {cr'.spec}
         \/ System
         \/ DeleteResource /\ UNCHANGED submitted
         \/ Collect /\ UNCHANGED submitted
         \/ UNCHANGED << vars, submitted >>
BY SystemStep DEF LifecycleInv, SuccessionNext, OriginsNext, System

LEMMA SuccessionRefines == SuccessionSpec => LifecycleSpec
<1>1. [SuccessionNext]_<< vars, submitted >> => [LifecycleNext]_vars
  BY DEF SuccessionNext, OriginsNext, LifecycleNext, Next
<1> QED
  BY <1>1, PTL DEF SuccessionSpec, OriginsInit, LifecycleSpec

\* What becomes of the uids.
LEMMA UserUids ==
  ASSUME LifecycleInv, User, budget.creates <= MaxCreates, cr # Absent => cr.uid \in Given
  PROVE  /\ budget'.creates <= MaxCreates
         /\ Given \subseteq Given'
         /\ Gone' = Gone
         /\ cr' # Absent /\ cr'.uid \in Given'
         /\ IF cr = Absent THEN cr'.uid \notin Gone /\ cr'.uid # Absent ELSE cr'.uid = cr.uid
<1>1. budget \in Budgets /\ cr \in Resources \cup {Absent}
  BY DEF LifecycleInv, StatusInv, StoreInv, StoreOK, PassInv, PassesOK
<1>2. MaxCreates \in Nat /\ Absent \notin Nat /\ Absent \notin Resources
  BY ConstantsAssumption
<1>3. CASE CreateResource
  <2>1. /\ cr = Absent /\ budget.creates \in Nat /\ budget.creates > 0
        /\ budget' = [budget EXCEPT !.creates = budget.creates - 1]
    BY <1>1, <1>3 DEF CreateResource, Budgets
  <2>2. budget'.creates = budget.creates - 1
    BY <1>1, <2>1 DEF Budgets
  <2>3. PICK spec \in UserSpecs : cr' = [uid |-> budget.creates, spec |-> spec, status |-> NewStatus]
    BY <1>3 DEF CreateResource, Stored
  <2>4. cr'.uid = budget.creates /\ cr' \in Resources
    <3>1. NewStatus \in Statuses
      BY MaxStatusesAssumption DEF NewStatus, Statuses, NoState, HealthChecks
    <3> QED
      BY <2>1, <2>3, <3>1, ConstantsAssumption DEF Resources
  <2>5. cr' # Absent
    BY <1>2, <2>4
  <2>6. Shown(cr, "uid") = Absent /\ Shown(cr, "uid")' = budget.creates
    BY <2>1, <2>4, <2>5 DEF Shown
  <2>7. Given' = Given \cup {budget.creates} /\ budget.creates \notin Given
    BY <1>2, <2>1, <2>2 DEF Given
  <2>8. Given \subseteq Nat
    BY <1>2, <2>1 DEF Given
  <2>9. Gone' = Given /\ Gone = Given
    BY <1>2, <2>6, <2>7, <2>8 DEF Gone
  <2> QED
    BY <1>2, <2>1, <2>2, <2>4, <2>5, <2>7, <2>9
<1>4. CASE EditSpec
  <2>1. /\ cr # Absent
        /\ budget' = [budget EXCEPT !.edits = budget.edits - 1]
        /\ \E spec : cr' = [cr EXCEPT !.spec = spec]
    BY <1>4 DEF EditSpec, Stored
  <2>2. budget'.creates = budget.creates /\ cr'.uid = cr.uid
    BY <1>1, <2>1 DEF Budgets, Resources
  <2>3. cr' # Absent
    <3>1. PICK spec, configuration :
             /\ spec \in UserSpecs
             /\ configuration \in {spec.configuration, cr.spec.configuration}
             /\ cr' = [cr EXCEPT !.spec = [spec EXCEPT !.configuration = configuration]]
      BY <1>4 DEF EditSpec, Stored
    <3>2. [spec EXCEPT !.configuration = configuration] \in Specs
      <4>1. cr.spec \in Specs /\ spec \in Specs
        <5>1. UserSpecs \subseteq Specs
          BY ConstantsAssumption
        <5> QED
          BY <1>1, <2>1, <3>1, <5>1 DEF Resources
      <4>2. configuration \in Texts \cup {""}
        BY <3>1, <4>1 DEF Specs
      <4> QED
        BY <4>1, <4>2 DEF Specs
    <3>3. cr' \in Resources
      BY <1>1, <2>1, <3>1, <3>2 DEF Resources
    <3> QED
      BY <1>2, <3>3
  <2>4. Given' = Given /\ Shown(cr, "uid")' = Shown(cr, "uid")
    BY <2>1, <2>2, <2>3 DEF Given, Shown
  <2> QED
    BY <2>1, <2>2, <2>3, <2>4 DEF Gone
<1> QED
  BY <1>3, <1>4 DEF User

LEMMA UserOwned ==
  ASSUME LifecycleInv, OwnersKnown, budget.creates <= MaxCreates, User
  PROVE  OwnersKnown'
<1>1. UNCHANGED << cm, pvc, job, cache, pc, work >>
  BY DEF User, CreateResource, EditSpec, local, objects
<1>2. cr'.uid \in Given' /\ Given \subseteq Given'
  BY UserUids DEF OwnersKnown, StoreOwned
<1>3. StoreOwned' /\ \A q \in Operators : CacheOwned(q)'
  BY <1>1, <1>2 DEF OwnersKnown, StoreOwned, CacheOwned
<1>4. \A q \in Operators : CopyOwned(q)'
  BY <1>1, <1>2, CopyOwnedSame DEF OwnersKnown
<1> QED
  BY <1>3, <1>4 DEF OwnersKnown

\* Nothing but the writers of the resource touches it, and they leave its uid.
LEMMA SystemUids ==
  ASSUME LifecycleInv, System
  PROVE  /\ Given' = Given /\ Gone' = Gone /\ Shown(cr, "uid")' = Shown(cr, "uid")
         /\ [Next]_vars
<1>1. [Next]_vars
  BY DEF System, Next
<1>2. Given' = Given
  BY DEF System, Given
<1>3. budget \in Budgets
  BY DEF LifecycleInv, StatusInv, PassInv, PassesOK
<1>4. Shown(cr, "uid")' = Shown(cr, "uid")
  <2>1. CASE cr' = cr
    BY <2>1 DEF Shown
  <2>2. CASE \E o \in Operators : WriteStatus(o) \/ FallbackUpdate(o)
    BY <2>2, WriteUid DEF LifecycleInv, Shown
  <2>3. ASSUME NEW o \in Operators, OperatorNext(o), ~WriteStatus(o), ~FallbackUpdate(o)
        PROVE  cr' = cr
    BY <2>3 DEF OperatorNext, Step, Reconcile, CheckMongodbConnection, CreateOrUpdateConfigMap,
         UpdateCreatedConfigMap, CreateOrUpdateClaim, UpdateCreatedClaim, ReconcileJob, CreateJob,
         DeleteJob, UpdateJob, UpdateCreatedJob, ReportJob, PanicInStatus, ApiFault, Sync,
         SyncResource, SyncConfigMap, SyncClaim, SyncJob, SyncPods, Crash, Restart
  <2>4. ASSUME NEW p \in Pods, PodNext(p) PROVE cr' = cr
    BY <2>4 DEF PodNext, StartPod, RunPod, FinishPod, FailPod
  <2> QED
    BY <2>1, <2>2, <2>3, <2>4 DEF System
<1> QED
  BY <1>1, <1>2, <1>4 DEF Gone

LEMMA SystemOwned ==
  ASSUME LifecycleInv, OwnersKnown, System
  PROVE  OwnersKnown'
<1>1. StatusInv /\ Given' = Given
  BY SystemUids DEF LifecycleInv
<1>2. ASSUME NEW o \in Operators, OperatorNext(o) PROVE OwnersKnown'
  <2>1. CASE PassStep(o)
    BY <1>1, <2>1, PassStepMoves, PassStepOwned, MoveOwned
  <2> QED
    BY <1>1, <1>2, <2>1, ReconcileOwned, WriteOwned, OtherOwned, SyncOwned
       DEF OperatorNext, Step, PassStep
<1>3. ASSUME NEW p \in Pods, PodNext(p) PROVE OwnersKnown'
  <2>1. UNCHANGED << cr, cm, pvc, job, cache, pc, work >>
    BY <1>3 DEF PodNext, StartPod, RunPod, FinishPod, FailPod, local
  <2> QED
    BY <1>1, <2>1, CopyOwnedSame DEF OwnersKnown, StoreOwned, CacheOwned
<1> QED
  BY <1>2, <1>3 DEF System

\* The deletion and the collection only take away.
LEMMA RemovalOwned ==
  ASSUME OwnersKnown, DeleteResource \/ Collect
  PROVE  OwnersKnown' /\ Given' = Given
<1>1. UNCHANGED << cache, pc, work, budget >>
  BY DEF DeleteResource, Collect, CollectConfigMap, CollectClaim, CollectJob, local
<1>2. Given' = Given
  BY <1>1 DEF Given
<1>3. cr' \in {cr, Absent} /\ cm' \in {cm, Absent} /\ pvc' \in {pvc, Absent} /\ job' \in {job, Absent}
  BY DEF DeleteResource, Stored, Collect, CollectConfigMap, CollectClaim, CollectJob, objects
<1>4. StoreOwned' /\ \A q \in Operators : CacheOwned(q)'
  BY <1>1, <1>2, <1>3 DEF OwnersKnown, StoreOwned, CacheOwned
<1>5. \A q \in Operators : CopyOwned(q)'
  BY <1>1, <1>2, CopyOwnedSame DEF OwnersKnown
<1> QED
  BY <1>2, <1>4, <1>5 DEF OwnersKnown

LEMMA UidsAreNumbers == ASSUME LifecycleInv PROVE Given \subseteq Nat /\ Absent \notin Nat
<1>1. budget \in Budgets
  BY DEF LifecycleInv, StatusInv, PassInv, PassesOK
<1>2. budget.creates \in Nat
  BY <1>1 DEF Budgets
<1>3. MaxCreates \in Nat /\ Absent \notin Nat
  BY ConstantsAssumption
<1> QED
  BY <1>2, <1>3 DEF Given

LEMMA DeletionUids ==
  ASSUME LifecycleInv, OwnersKnown, DeleteResource
  PROVE  /\ Shown(cr, "uid") # Absent
         /\ Shown(cr, "uid")' = Absent
         /\ Gone' = Gone \cup {Shown(cr, "uid")}
<1>1. cr # Absent /\ cr' = Absent /\ UNCHANGED budget
  BY DEF DeleteResource, Stored
<1>2. cr.uid \in Given /\ Shown(cr, "uid") = cr.uid /\ Shown(cr, "uid")' = Absent
  BY <1>1 DEF OwnersKnown, StoreOwned, Shown
<1>3. Given \subseteq Nat /\ Absent \notin Nat
  BY UidsAreNumbers
<1>4. Given' = Given
  BY <1>1 DEF Given
<1> QED
  BY <1>2, <1>3, <1>4 DEF Gone

\* What is collected belonged to a deleted resource.
LEMMA OwnerlessGone ==
  ASSUME LifecycleInv, OwnersKnown, NEW object \in {cm, pvc, job}, Ownerless(object)
  PROVE  object # Absent /\ object.owner \in Gone
<1>1. object # Absent /\ object.owner \in Given
  BY DEF OwnersKnown, StoreOwned, Ownerless
<1>2. Given \subseteq Nat /\ Absent \notin Nat
  BY UidsAreNumbers
<1>3. object.owner # Shown(cr, "uid")
  BY <1>1, <1>2 DEF Ownerless, Shown
<1> QED
  BY <1>1, <1>3 DEF Gone

LEMMA CollectionGone ==
  ASSUME LifecycleInv, OwnersKnown, Collect
  PROVE  Gone # {} /\ Gone' = Gone /\ UNCHANGED << cr, budget >>
<1>1. UNCHANGED << cr, budget >>
  BY DEF Collect, CollectConfigMap, CollectClaim, CollectJob
<1>2. \E object \in {cm, pvc, job} : Ownerless(object)
  BY DEF Collect, CollectConfigMap, CollectClaim, CollectJob
<1> QED
  BY <1>1, <1>2, OwnerlessGone DEF Gone, Given, Shown

LEMMA SuccessionInit == OriginsInit => SuccessionInv
<1> SUFFICES ASSUME OriginsInit PROVE SuccessionInv
  OBVIOUS
<1>1. Init
  BY DEF OriginsInit
<1>2. LifecycleInv /\ OriginInv /\ MountsInv
  BY <1>1, InitInv, LatestInit, OriginInit, InitMounts DEF LifecycleInv
<1>3. OwnersKnown
  BY <1>1 DEF Init, OwnersKnown, StoreOwned, CacheOwned, CopyOwned, Current, Steps
<1>4. budget.creates <= MaxCreates
  <2>1. budget.creates = MaxCreates
    BY <1>1 DEF Init
  <2>2. MaxCreates \in Nat
    BY ConstantsAssumption
  <2> QED
    BY <2>1, <2>2
<1> QED
  BY <1>2, <1>3, <1>4 DEF SuccessionInv

LEMMA SuccessionNextInv ==
  SuccessionInv /\ [SuccessionNext]_<< vars, submitted >> => SuccessionInv'
<1> SUFFICES ASSUME SuccessionInv, [SuccessionNext]_<< vars, submitted >>
             PROVE  SuccessionInv'
  OBVIOUS
<1> USE DEF SuccessionInv
<1>1. LifecycleInv'
  <2>1. [LifecycleNext]_vars
    BY DEF SuccessionNext, OriginsNext, LifecycleNext, Next
  <2> QED
    BY <2>1, LifecycleNextInv
<1>2. StatusInv /\ StatusInv' /\ TypeOK
  BY <1>1 DEF LifecycleInv, StatusInv, StoreInv, CacheInv, PassInv, TypeOK
<1>3. CASE User /\ submitted' = submitted \cup {cr'.spec}
  <2>1. OriginInv'
    BY <1>2, <1>3, UserKnown
  <2>2. budget'.creates <= MaxCreates /\ Gone' = Gone
    BY <1>3, UserUids DEF OwnersKnown, StoreOwned
  <2>3. Gone = {} => MountsInv'
    BY <1>2, <1>3, NextMounts DEF Next
  <2> QED
    BY <1>1, <1>3, <2>1, <2>2, <2>3, UserOwned
<1>4. CASE System
  <2>1. OriginInv'
    <3>1. OriginsNext
      BY <1>4 DEF System, Next, OriginsNext
    <3> QED
      BY <1>2, <3>1, OriginNext
  <2>2. [Next]_vars /\ Gone' = Gone /\ budget'.creates = budget.creates
    BY <1>4, SystemUids DEF System
  <2>3. Gone = {} => MountsInv'
    BY <1>2, <2>2, NextMounts
  <2> QED
    BY <1>1, <1>4, <2>1, <2>2, <2>3, SystemOwned
<1>5. CASE DeleteResource /\ UNCHANGED submitted
  <2>1. OriginInv'
    <3>1. cr' = Absent /\ UNCHANGED << cache, pc, work >>
      BY <1>5 DEF DeleteResource, Stored, local
    <3> QED
      BY <1>5, <3>1, CopySame DEF OriginInv, KnownSpecs
  <2>2. Gone' # {} /\ budget' = budget
    BY <1>5, DeletionUids DEF DeleteResource
  <2> QED
    BY <1>1, <1>5, <2>1, <2>2, RemovalOwned
<1>6. CASE Collect /\ UNCHANGED submitted
  <2>1. OriginInv'
    <3>1. UNCHANGED << cr, cache, pc, work >>
      BY <1>6 DEF Collect, CollectConfigMap, CollectClaim, CollectJob, local
    <3> QED
      BY <1>6, <3>1, CopySame DEF OriginInv, KnownSpecs
  <2> QED
    BY <1>1, <1>6, <2>1, CollectionGone, RemovalOwned
<1>7. CASE UNCHANGED << vars, submitted >>
  <2>1. OriginInv'
    BY <1>2, <1>7, OriginNext
  <2>2. OwnersKnown' /\ Gone' = Gone
    <3>1. Given' = Given /\ Shown(cr, "uid")' = Shown(cr, "uid")
      BY <1>7 DEF Given, Shown, vars
    <3> QED
      BY <1>7, <3>1, CopyOwnedSame
         DEF vars, objects, local, OwnersKnown, StoreOwned, CacheOwned, Gone
  <2>3. MountsInv => MountsInv'
    BY <1>2, <1>7, NextMounts DEF vars
  <2> QED
    BY <1>1, <1>7, <2>1, <2>2, <2>3 DEF vars
<1> QED
  BY <1>3, <1>4, <1>5, <1>6, <1>7, SuccessionSteps

\* Through deletions too, every spec goes back to a submitted one, and every copy and every
\* object to a resource of the name; the ConfigMap and the claim come before the job as long
\* as no resource was deleted.
THEOREM SuccessionInvariant == SuccessionSpec => []SuccessionInv
BY SuccessionInit, SuccessionNextInv, PTL DEF SuccessionSpec

\* Every object has an owner that exists or was deleted, so that no object outlives the
\* resource for want of one.
THEOREM OwnersAreKnown == SuccessionSpec => []OwnersKnown
<1>1. SuccessionInv => OwnersKnown
  BY DEF SuccessionInv
<1> QED
  BY <1>1, SuccessionInvariant, PTL
----------------------------------------------------------------------------
(* The refinement of OwnedPromise.  What a step does to the ConfigMap, the *)
(* job and the reports is what OriginsProofs says; here is whose they are. *)

\* The owners OwnedPromise knows are the uids given out.
LEMMA OwnersAreGiven ==
  ASSUME LifecycleInv, OwnersKnown
  PROVE  Ownership!Owners = Given
<1>1. cr # Absent => cr.uid \in Given /\ Shown(cr, "uid") = cr.uid
  BY DEF OwnersKnown, StoreOwned, Shown
<1>2. cr = Absent => Shown(cr, "uid") = Absent
  BY DEF Shown
<1>3. Given \subseteq Nat /\ Absent \notin Nat
  BY UidsAreNumbers
<1> QED
  BY <1>1, <1>2, <1>3 DEF Ownership!Owners, Gone

\* The mapped state, all of it.
AllMapped == << << Asked, AskedTemplates, PauseAsked >>,
                << Shown(cm, "text"), Shown(job, "template"), Reports >>,
                << Shown(cr, "uid"), Gone, Shown(cm, "owner"), Shown(job, "owner") >> >>

\* A step that changes nothing stored but, perhaps, what is not mapped.
LEMMA AllMappedSame ==
  ASSUME UNCHANGED << submitted, cr, cm, job >>, Gone' = Gone
  PROVE  UNCHANGED AllMapped
BY DEF AllMapped, Asked, AskedTemplates, PauseAsked, AcceptedSpecs, Reports, Shown

LEMMA PublishOwnedMaps ==
  ASSUME SuccessionInv, SuccessionInv', NEW o \in Operators,
         CreateOrUpdateConfigMap(o) \/ UpdateCreatedConfigMap(o),
         UNCHANGED submitted, Given' = Given, Gone' = Gone
  PROVE  Ownership!PublishOwned \/ UNCHANGED AllMapped
<1>1. StatusInv /\ OriginInv /\ LifecycleInv /\ OwnersKnown /\ OwnersKnown'
  BY DEF SuccessionInv, LifecycleInv
<1>2. UNCHANGED << cr, job >>
  BY DEF CreateOrUpdateConfigMap, UpdateCreatedConfigMap, objects
<1>3. CASE UNCHANGED << submitted, cm, job, cr >>
  BY <1>3, AllMappedSame
<1>4. CASE Promise!Publish /\ cm' # Absent
  <2>1. Ownership!Publish
    BY <1>4 DEF Promise!Publish, Ownership!Publish, Promise!asks, Ownership!asks
  <2>2. Shown(cm, "owner")' \in Ownership!Owners
    BY <1>1, <1>4, OwnersAreGiven DEF OwnersKnown, StoreOwned, Shown
  <2>3. UNCHANGED << Shown(cr, "uid"), Shown(job, "owner") >>
    BY <1>2 DEF Shown
  <2> QED
    BY <2>1, <2>2, <2>3 DEF Ownership!PublishOwned
<1> QED
  BY <1>1, <1>3, <1>4, ConfigMapMaps

LEMMA JobOwnedMaps ==
  ASSUME SuccessionInv, SuccessionInv', NEW o \in Operators,
         CreateJob(o) \/ DeleteJob(o) \/ UpdateJob(o) \/ UpdateCreatedJob(o),
         UNCHANGED submitted, Given' = Given, Gone' = Gone
  PROVE  \/ Ownership!StartOwned \/ Ownership!HandOver \/ Ownership!StopOwned
         \/ UNCHANGED AllMapped
<1>1. /\ StatusInv /\ OriginInv /\ LifecycleInv /\ OwnersKnown /\ OwnersKnown'
      /\ Gone = {} => MountsBeforeJob'
  BY DEF SuccessionInv, LifecycleInv, MountsInv
<1>2. /\ UNCHANGED << submitted, cm, cr >>
      /\ \/ Promise!Run /\ job' # Absent
         \/ Promise!Stop /\ job' = Absent
         \/ RunningSame
  BY <1>1, JobMaps
<1>3. UNCHANGED << Shown(cr, "uid"), Shown(cm, "owner"), Shown(cm, "text") >>
  BY <1>2 DEF Shown
<1>4. job' # Absent => Shown(job, "owner")' \in Ownership!Owners
  BY <1>1, OwnersAreGiven DEF OwnersKnown, StoreOwned, Shown
<1>5. job' = Absent => Shown(job, "owner")' = Absent
  BY DEF Shown
<1>6. CASE Promise!Run /\ job' # Absent
  <2>1. Ownership!Run
    BY <1>6 DEF Promise!Run, Ownership!Run, Promise!asks, Ownership!asks
  <2>2. Shown(cm, "text") # Absent \/ Gone # {}
    BY <1>1, <1>2, <1>6, ShownOnlyIfThere DEF MountsBeforeJob
  <2> QED
    BY <1>3, <1>4, <1>6, <2>1, <2>2 DEF Ownership!StartOwned
<1>7. CASE Promise!Stop /\ job' = Absent
  <2>1. Ownership!Stop
    BY <1>7 DEF Promise!Stop, Ownership!Stop, Promise!asks, Ownership!asks
  <2> QED
    BY <1>3, <1>5, <1>7, <2>1 DEF Ownership!StopOwned
<1>8. CASE RunningSame
  <2>1. Shown(job, "template") = Absent <=> job = Absent
    BY <1>1, ShownOnlyIfThere
  <2>2. UNCHANGED << Asked, AskedTemplates, PauseAsked, Reports >>
    BY <1>2 DEF Asked, AskedTemplates, PauseAsked, AcceptedSpecs, Reports
  <2>3. CASE job' = Absent
    <3>1. Shown(job, "template")' = Absent
      BY <2>3 DEF Shown
    <3>2. job = Absent
      BY <1>8, <2>1, <3>1 DEF RunningSame
    <3> QED
      BY <1>2, <2>3, <3>2, AllMappedSame
  <2>4. CASE job' # Absent /\ job # Absent
    BY <1>3, <1>4, <1>8, <2>1, <2>2, <2>4
       DEF Ownership!HandOver, Ownership!asks, Ownership!shown, RunningSame
  <2>5. CASE job' # Absent /\ job = Absent
    <3>1. Shown(job, "template")' = job'.template /\ job' \in Jobs
      BY <2>5 DEF Shown, SuccessionInv, LifecycleInv, StatusInv, StoreInv, StoreOK
    <3>2. Shown(job, "template")' \in Templates
      BY <3>1 DEF Jobs
    <3>3. Shown(job, "template")' = Absent
      BY <1>8, <2>1, <2>5 DEF RunningSame
    <3> QED
      BY <3>2, <3>3, ConstantsAssumption
  <2> QED
    BY <2>3, <2>4, <2>5
<1> QED
  BY <1>2, <1>6, <1>7, <1>8

LEMMA ReportOwnedMaps ==
  ASSUME SuccessionInv, NEW o \in Operators, WriteStatus(o) \/ FallbackUpdate(o),
         UNCHANGED submitted, Given' = Given, Gone' = Gone
  PROVE  Ownership!ReportOwned \/ UNCHANGED AllMapped
<1>1. StatusInv /\ LatestInv /\ LifecycleInv /\ OwnersKnown
  BY DEF SuccessionInv, LifecycleInv
<1>2. UNCHANGED << cm, job >>
  BY DEF WriteStatus, FallbackUpdate, objects
<1>3. CASE cr' = cr
  BY <1>2, <1>3, AllMappedSame
<1>4. CASE cr # Absent /\ cr' # Absent /\ cr'.uid = cr.uid
  <2>1. Ownership!Report
    <3>1. Promise!Report
      BY <1>1, ReportMaps
    <3>2. Ownership!Extends(Reports', Reports)
      BY <3>1 DEF Promise!Report, Promise!Extends, Ownership!Extends, Promise!AppStates,
                  Ownership!AppStates
    <3> QED
      BY <3>1, <3>2 DEF Promise!Report, Ownership!Report, Promise!asks, Ownership!asks
  <2>2. /\ Shown(cr, "uid") # Absent
        /\ UNCHANGED << Shown(cr, "uid"), Shown(cm, "owner"), Shown(job, "owner") >>
    BY <1>1, <1>2, <1>4, UidsAreNumbers DEF OwnersKnown, StoreOwned, Shown
  <2> QED
    BY <2>1, <2>2 DEF Ownership!ReportOwned, Ownership!ownership
<1> QED
  BY <1>1, <1>3, <1>4, WriteUid

LEMMA SubmitMaps ==
  ASSUME SuccessionInv, SuccessionInv', User, submitted' = submitted \cup {cr'.spec}
  PROVE  Ownership!Submit
<1>1. StatusInv /\ StatusInv' /\ LifecycleInv /\ OwnersKnown /\ budget.creates <= MaxCreates
  BY DEF SuccessionInv, LifecycleInv
<1>2. UNCHANGED << cm, job >>
  BY DEF User, CreateResource, EditSpec, objects
<1>3. Ownership!Ask
  <2>1. Promise!Ask
    BY <1>1, UserMaps
  <2> QED
    BY <2>1 DEF Promise!Ask, Ownership!Ask, Promise!shown, Ownership!shown
<1>4. /\ Gone' = Gone /\ cr' # Absent
      /\ IF cr = Absent THEN cr'.uid \notin Gone /\ cr'.uid # Absent ELSE cr'.uid = cr.uid
  BY <1>1, UserUids DEF OwnersKnown, StoreOwned
<1>5. UNCHANGED << Shown(cm, "owner"), Shown(job, "owner") >>
  BY <1>2 DEF Shown
<1>6. CASE cr = Absent
  <2>1. Shown(cr, "uid") = Absent /\ Shown(cr, "uid")' \notin Gone \cup {Absent}
    BY <1>4, <1>6 DEF Shown
  <2> QED
    BY <1>3, <1>4, <1>5, <2>1 DEF Ownership!Submit
<1>7. CASE cr # Absent
  <2>1. Shown(cr, "uid") # Absent /\ Shown(cr, "uid")' = Shown(cr, "uid")
    BY <1>1, <1>4, <1>7, UidsAreNumbers DEF OwnersKnown, StoreOwned, Shown
  <2> QED
    BY <1>3, <1>4, <1>5, <2>1 DEF Ownership!Submit
<1> QED
  BY <1>6, <1>7

LEMMA DeleteMaps ==
  ASSUME SuccessionInv, DeleteResource, UNCHANGED submitted
  PROVE  Ownership!Delete
<1>1. LifecycleInv /\ OwnersKnown
  BY DEF SuccessionInv
<1>2. cr' = Absent /\ UNCHANGED << cm, job >>
  BY DEF DeleteResource, Stored, objects
<1>3. /\ UNCHANGED << Asked, AskedTemplates, PauseAsked >>
      /\ Reports' = << >>
      /\ UNCHANGED << Shown(cm, "text"), Shown(job, "template") >>
      /\ UNCHANGED << Shown(cm, "owner"), Shown(job, "owner") >>
  BY <1>2 DEF Asked, AskedTemplates, PauseAsked, AcceptedSpecs, Reports, Shown
<1> QED
  BY <1>1, <1>3, DeletionUids DEF Ownership!Delete, Ownership!asks

LEMMA CollectMaps ==
  ASSUME SuccessionInv, Collect, UNCHANGED submitted
  PROVE  \/ Ownership!CollectPublished \/ Ownership!CollectRunning
         \/ UNCHANGED AllMapped
<1>1. StatusInv /\ LifecycleInv /\ OwnersKnown
  BY DEF SuccessionInv, LifecycleInv
<1>2. Gone' = Gone /\ UNCHANGED cr
  BY <1>1, CollectionGone
<1>3. /\ UNCHANGED << Asked, AskedTemplates, PauseAsked, Reports >>
      /\ UNCHANGED << Shown(cr, "uid"), Gone >>
  BY <1>2 DEF Asked, AskedTemplates, PauseAsked, AcceptedSpecs, Reports, Shown
<1>4. CASE CollectConfigMap
  <2>1. cm' = Absent /\ UNCHANGED job
    BY <1>4 DEF CollectConfigMap
  <2>2. cm # Absent /\ cm.owner \in Gone
    BY <1>1, <1>4, OwnerlessGone DEF CollectConfigMap
  <2>3. /\ Shown(cm, "text") # Absent
        /\ Shown(cm, "owner") \in Gone
    BY <1>1, <2>2, ShownOnlyIfThere DEF Shown
  <2>4. /\ Shown(cm, "text")' = Absent /\ Shown(cm, "owner")' = Absent
        /\ UNCHANGED << Shown(job, "template"), Shown(job, "owner") >>
    BY <2>1 DEF Shown
  <2> QED
    BY <1>3, <2>3, <2>4 DEF Ownership!CollectPublished, Ownership!asks
<1>5. CASE CollectClaim
  BY <1>2, <1>5, AllMappedSame DEF CollectClaim
<1>6. CASE CollectJob
  <2>1. job' = Absent /\ UNCHANGED cm
    BY <1>6 DEF CollectJob
  <2>2. job # Absent /\ job.owner \in Gone
    BY <1>1, <1>6, OwnerlessGone DEF CollectJob
  <2>3. /\ Shown(job, "template") # Absent
        /\ Shown(job, "owner") \in Gone
    BY <1>1, <2>2, ShownOnlyIfThere DEF Shown
  <2>4. /\ Shown(job, "template")' = Absent /\ Shown(job, "owner")' = Absent
        /\ UNCHANGED << Shown(cm, "text"), Shown(cm, "owner") >>
    BY <2>1 DEF Shown
  <2> QED
    BY <1>3, <2>3, <2>4 DEF Ownership!CollectRunning, Ownership!asks
<1> QED
  BY <1>4, <1>5, <1>6 DEF Collect

LEMMA SystemMaps ==
  ASSUME SuccessionInv, SuccessionInv', System
  PROVE  [Ownership!OwnedNext]_AllMapped
<1>1. /\ Given' = Given /\ Gone' = Gone /\ UNCHANGED submitted
  BY SystemUids DEF SuccessionInv, System
<1>2. CASE UNCHANGED << cr, cm, job >>
  BY <1>1, <1>2, AllMappedSame
<1>3. ASSUME NEW o \in Operators, OperatorNext(o) PROVE [Ownership!OwnedNext]_AllMapped
  <2>1. CASE CreateOrUpdateConfigMap(o) \/ UpdateCreatedConfigMap(o)
    BY <1>1, <2>1, PublishOwnedMaps DEF Ownership!OwnedNext
  <2>2. CASE CreateJob(o) \/ DeleteJob(o) \/ UpdateJob(o) \/ UpdateCreatedJob(o)
    BY <1>1, <2>2, JobOwnedMaps DEF Ownership!OwnedNext
  <2>3. CASE WriteStatus(o) \/ FallbackUpdate(o)
    BY <1>1, <2>3, ReportOwnedMaps DEF Ownership!OwnedNext
  <2>4. CASE \/ Reconcile(o) \/ CheckMongodbConnection(o)
             \/ CreateOrUpdateClaim(o) \/ UpdateCreatedClaim(o) \/ ReconcileJob(o)
             \/ ReportJob(o) \/ PanicInStatus(o)
             \/ ApiFault(o) \/ Sync(o) \/ Crash(o) \/ Restart(o)
    BY <1>2, <2>4 DEF Reconcile, CheckMongodbConnection, CreateOrUpdateClaim, UpdateCreatedClaim,
       ReconcileJob, ReportJob, PanicInStatus, ApiFault, Sync, SyncResource, SyncConfigMap,
       SyncClaim, SyncJob, SyncPods, Crash, Restart, objects
  <2> QED
    BY <1>3, <2>1, <2>2, <2>3, <2>4 DEF OperatorNext, Step
<1>4. ASSUME NEW p \in Pods, PodNext(p) PROVE [Ownership!OwnedNext]_AllMapped
  BY <1>2, <1>4 DEF PodNext, StartPod, RunPod, FinishPod, FailPod
<1> QED
  BY <1>3, <1>4 DEF System

LEMMA SuccessionMaps ==
  SuccessionInv /\ SuccessionInv' /\ [SuccessionNext]_<< vars, submitted >>
  => [Ownership!OwnedNext]_AllMapped
<1> SUFFICES ASSUME SuccessionInv, SuccessionInv', [SuccessionNext]_<< vars, submitted >>
             PROVE  [Ownership!OwnedNext]_AllMapped
  OBVIOUS
<1>1. CASE UNCHANGED << vars, submitted >>
  BY <1>1, AllMappedSame DEF vars, objects, Gone, Given, Shown
<1>2. CASE User /\ submitted' = submitted \cup {cr'.spec}
  BY <1>2, SubmitMaps DEF Ownership!OwnedNext
<1>3. CASE DeleteResource /\ UNCHANGED submitted
  BY <1>3, DeleteMaps DEF Ownership!OwnedNext
<1>4. CASE Collect /\ UNCHANGED submitted
  BY <1>4, CollectMaps DEF Ownership!OwnedNext
<1> QED
  BY <1>1, <1>2, <1>3, <1>4, SystemMaps, SuccessionSteps DEF SuccessionInv

LEMMA SuccessionInitMaps == OriginsInit => Ownership!OwnedInit
<1> SUFFICES ASSUME OriginsInit PROVE Ownership!OwnedInit
  OBVIOUS
<1>1. cr = Absent /\ cm = Absent /\ job = Absent /\ submitted = {} /\ budget.creates = MaxCreates
  BY DEF OriginsInit, Init
<1>2. MaxCreates \in Nat
  BY ConstantsAssumption
<1>3. Gone = {}
  BY <1>1, <1>2 DEF Gone, Given
<1> QED
  BY <1>1, <1>3 DEF Ownership!OwnedInit, Ownership!Init, Asked, AskedTemplates, PauseAsked,
                    AcceptedSpecs, Reports, Shown

\* The operator implements OwnedPromise: whatever is deleted and created again during its
\* passes, only what was asked for is published and run, and nothing of a resource that
\* exists is taken away but the job of one for which a pause was asked.
THEOREM OwnershipKept == SuccessionSpec => KeepsOwnership
<1>1. SuccessionInv /\ SuccessionInv' /\ [SuccessionNext]_<< vars, submitted >>
      => [Ownership!OwnedNext]_<< Ownership!asks, Ownership!shown, Ownership!ownership >>
  BY SuccessionMaps DEF AllMapped, Ownership!asks, Ownership!shown, Ownership!ownership
<1> QED
  BY <1>1, SuccessionInitMaps, SuccessionInvariant, PTL
     DEF SuccessionSpec, KeepsOwnership, Ownership!OwnedSpec
=============================================================================

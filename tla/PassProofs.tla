----------------------------- MODULE PassProofs -----------------------------
(***************************************************************************)
(* What a pass that works with stale copies keeps, for every set of        *)
(* operator processes and every bound: MountsBeforeJob, OperatorKeepsIntent*)
(* and ConditionsGrow.                                                     *)
(***************************************************************************)
EXTENDS ReconcilerProofs

----------------------------------------------------------------------------
(* MountsBeforeJob is not inductive: a pass decides from its caches.  The  *)
(* invariant adds that a cache never shows an object that was not made,    *)
(* and that a pass beyond the step that makes an object has seen it made.  *)

\* The steps of a pass that follow the one that makes the ConfigMap, and the claim.
AfterConfigMap == {"configMapUpdate", "claim", "claimUpdate", "job", "jobWrite", "jobUpdate"}
AfterClaim     == {"claimUpdate", "job", "jobWrite", "jobUpdate"}

MountsInv ==
  /\ \A o \in Operators :
       /\ cache[o].cm # Absent  => cm # Absent
       /\ cache[o].pvc # Absent => pvc # Absent
       /\ pc[o] \in AfterConfigMap => cm # Absent
       /\ pc[o] \in AfterClaim     => pvc # Absent
  /\ MountsBeforeJob

\* A pass goes on, or fails: nothing else moves, and its new step is known.
LEMMA MovesTo ==
  ASSUME TypeOK, NEW o \in Operators, NEW step
  PROVE  /\ Goto(o, step) => pc' = [pc EXCEPT ![o] = step]
         /\ Fail(o) => pc' = [pc EXCEPT ![o] = "statusWrite"]
         /\ Panic(o) => pc' = [pc EXCEPT ![o] = "status"]
         /\ Answered(o, step) => pc' \in {[pc EXCEPT ![o] = step], [pc EXCEPT ![o] = "statusWrite"]}
  BY DEF Goto, Fail, Abort, Panic, Answered

\* A pass moves to a step before which what it needs was made, and no object goes.
LEMMA MountsMove ==
  ASSUME TypeOK, MountsInv, NEW o \in Operators, NEW step,
         pc' = [pc EXCEPT ![o] = step], UNCHANGED cache,
         cm # Absent => cm' # Absent,
         pvc # Absent => pvc' # Absent,
         step \in AfterConfigMap => cm' # Absent,
         step \in AfterClaim => pvc' # Absent,
         job' # Absent => cm' # Absent /\ pvc' # Absent
  PROVE  MountsInv'
<1>1. pc \in [Operators -> Steps \cup {"idle", "down"}]
  BY DEF TypeOK, PassesOK
<1> QED
  BY <1>1 DEF MountsInv, MountsBeforeJob

\* A step of a pass that makes no object.
LEMMA MountsBystander ==
  ASSUME TypeOK, MountsInv, NEW o \in Operators, NEW step, step \notin AfterConfigMap,
         pc' = [pc EXCEPT ![o] = step], UNCHANGED << cm, pvc, job, cache >>
  PROVE  MountsInv'
<1>1. step \notin AfterClaim
  BY DEF AfterConfigMap, AfterClaim
<1> QED
  BY <1>1, MountsMove DEF MountsInv, MountsBeforeJob

LEMMA ConfigMapMounts ==
  ASSUME TypeOK, MountsInv, NEW o \in Operators,
         CreateOrUpdateConfigMap(o) \/ UpdateCreatedConfigMap(o)
  PROVE  MountsInv'
<1>1. UNCHANGED << pvc, job, cache >>
  BY DEF CreateOrUpdateConfigMap, UpdateCreatedConfigMap, objects
<1>2. PICK step \in {"configMapUpdate", "claim", "statusWrite"} : pc' = [pc EXCEPT ![o] = step]
  <2>1. Goto(o, "claim") \/ Fail(o) \/ Answered(o, "configMapUpdate") \/ Answered(o, "claim")
    BY DEF CreateOrUpdateConfigMap, UpdateCreatedConfigMap
  <2> QED
    BY <2>1, MovesTo
<1>3. work[o] \in Works /\ DesiredConfigMap(work[o].cr) # Absent
  <2>1. pc[o] \in Steps /\ PassesOK
    BY DEF CreateOrUpdateConfigMap, UpdateCreatedConfigMap, Steps, TypeOK
  <2>2. work[o] \in Works /\ work[o].cr.uid \in Nat /\ work[o].cr.spec \in Specs
    BY <2>1, Busy
  <2>3. DesiredConfigMap(work[o].cr) \in ConfigMaps
    BY <2>2 DEF DesiredConfigMap, ConfigMaps, Specs
  <2> QED
    BY <2>2, <2>3, ConstantsAssumption
<1>4. cm # Absent => cm' # Absent
  BY <1>3 DEF CreateOrUpdateConfigMap, UpdateCreatedConfigMap, objects
<1>5. CASE step = "statusWrite"
  BY <1>1, <1>2, <1>4, <1>5, MountsMove DEF AfterConfigMap, AfterClaim, MountsInv, MountsBeforeJob
<1>6. CASE step # "statusWrite"
  <2>1. pc'[o] = step
    BY <1>2 DEF TypeOK, PassesOK
  <2>2. ~Fail(o)
    BY <1>6, <1>2, <2>1, MovesTo DEF TypeOK, PassesOK
  <2>3. cm' # Absent
    <3>1. CASE CreateOrUpdateConfigMap(o)
      BY <3>1, <2>2, <1>3 DEF CreateOrUpdateConfigMap, MountsInv
    <3>2. CASE UpdateCreatedConfigMap(o)
      BY <3>2, <2>2, <1>3 DEF UpdateCreatedConfigMap, objects
    <3> QED
      BY <3>1, <3>2
  <2> QED
    BY <1>1, <1>2, <1>4, <2>3, MountsMove DEF AfterClaim, MountsInv, MountsBeforeJob
<1> QED
  BY <1>5, <1>6

LEMMA ClaimMounts ==
  ASSUME TypeOK, MountsInv, NEW o \in Operators,
         CreateOrUpdateClaim(o) \/ UpdateCreatedClaim(o)
  PROVE  MountsInv'
<1>1. UNCHANGED << cm, job, cache >>
  BY DEF CreateOrUpdateClaim, UpdateCreatedClaim, objects
<1>2. PICK step \in {"claimUpdate", "job", "status", "statusWrite"} : pc' = [pc EXCEPT ![o] = step]
  <2>1. Panic(o) \/ Goto(o, "job") \/ Fail(o) \/ Answered(o, "claimUpdate")
    BY DEF CreateOrUpdateClaim, UpdateCreatedClaim, WithoutClaim
  <2> QED
    BY <2>1, MovesTo
<1>3. work[o].cr.spec.claim # Absent => DesiredClaim(work[o].cr) # Absent
  <2>1. pc[o] \in Steps /\ PassesOK
    BY DEF CreateOrUpdateClaim, UpdateCreatedClaim, Steps, TypeOK
  <2>2. work[o].cr.uid \in Nat /\ work[o].cr.spec \in Specs
    BY <2>1, Busy
  <2>3. work[o].cr.spec.claim # Absent => DesiredClaim(work[o].cr) \in Claims
    BY <2>2 DEF DesiredClaim, Claims, Specs
  <2> QED
    BY <2>3, ConstantsAssumption
<1>4. pvc # Absent => pvc' # Absent
  BY DEF CreateOrUpdateClaim, UpdateCreatedClaim, objects
<1>5. cm # Absent
  BY DEF CreateOrUpdateClaim, UpdateCreatedClaim, MountsInv, AfterConfigMap
<1>6. CASE step \in {"status", "statusWrite"}
  BY <1>1, <1>2, <1>4, <1>6, MountsMove DEF AfterConfigMap, AfterClaim, MountsInv, MountsBeforeJob
<1>7. CASE step \in {"claimUpdate", "job"}
  <2>1. pc'[o] = step
    BY <1>2 DEF TypeOK, PassesOK
  <2>2. ~Fail(o) /\ ~Panic(o)
    BY <1>7, <1>2, <2>1, MovesTo DEF TypeOK, PassesOK
  <2>3. pvc' # Absent
    <3>1. CASE CreateOrUpdateClaim(o)
      BY <3>1, <2>2, <1>3 DEF CreateOrUpdateClaim, WithoutClaim, MountsInv
    <3>2. CASE UpdateCreatedClaim(o)
      BY <3>2, <2>2 DEF UpdateCreatedClaim, objects, MountsInv, AfterClaim
    <3> QED
      BY <3>1, <3>2
  <2> QED
    BY <1>1, <1>2, <1>4, <1>5, <2>3, MountsMove
<1> QED
  BY <1>2, <1>6, <1>7

LEMMA JobMounts ==
  ASSUME TypeOK, MountsInv, NEW o \in Operators,
         \/ ReconcileJob(o) \/ CreateJob(o) \/ DeleteJob(o) \/ UpdateJob(o)
         \/ UpdateCreatedJob(o)
  PROVE  MountsInv'
<1>1. UNCHANGED << cm, pvc, cache >>
  BY DEF ReconcileJob, CreateJob, DeleteJob, UpdateJob, UpdateCreatedJob, objects
<1>2. pc[o] \in AfterConfigMap /\ pc[o] \in AfterClaim
  BY DEF ReconcileJob, CreateJob, DeleteJob, UpdateJob, UpdateCreatedJob, AfterConfigMap, AfterClaim
<1>3. cm # Absent /\ pvc # Absent
  BY <1>2 DEF MountsInv
<1>4. \E step : pc' = [pc EXCEPT ![o] = step]
  <2>1. CASE ReconcileJob(o)
    BY <2>1 DEF ReconcileJob
  <2>2. CASE DeleteJob(o)
    BY <2>2 DEF DeleteJob, Abort
  <2>3. CASE CreateJob(o) \/ UpdateJob(o) \/ UpdateCreatedJob(o)
    <3>1. Goto(o, "status") \/ Fail(o) \/ Answered(o, "status") \/ Answered(o, "jobUpdate")
      BY <2>3 DEF CreateJob, UpdateJob, UpdateCreatedJob
    <3> QED
      BY <3>1, MovesTo
  <2> QED
    BY <2>1, <2>2, <2>3
<1> QED
  BY <1>1, <1>3, <1>4, MountsMove

LEMMA OtherStepMounts ==
  ASSUME TypeOK, MountsInv, NEW o \in Operators,
         \/ Reconcile(o) \/ CheckMongodbConnection(o)
         \/ ReportJob(o) \/ PanicInStatus(o) \/ WriteStatus(o) \/ FallbackUpdate(o)
         \/ ApiFault(o) \/ Crash(o)
  PROVE  MountsInv'
<1>1. UNCHANGED << cm, pvc, job, cache >>
  BY DEF Reconcile, CheckMongodbConnection, ReportJob, PanicInStatus, WriteStatus,
         FallbackUpdate, ApiFault, Crash, objects
<1>2. \/ UNCHANGED pc
      \/ \E step : step \notin AfterConfigMap /\ pc' = [pc EXCEPT ![o] = step]
  <2>1. CASE Reconcile(o)
    BY <2>1 DEF Reconcile, AfterConfigMap
  <2>2. CASE CheckMongodbConnection(o)
    BY <2>2 DEF CheckMongodbConnection, Fail, Abort, Panic, AfterConfigMap
  <2>3. CASE ReportJob(o) \/ PanicInStatus(o) \/ Crash(o)
    BY <2>3 DEF ReportJob, PanicInStatus, Crash, AfterConfigMap
  <2>4. CASE WriteStatus(o) \/ FallbackUpdate(o)
    BY <2>4 DEF WriteStatus, FallbackUpdate, Finish, AfterConfigMap
  <2>5. CASE ApiFault(o)
    BY <2>5 DEF ApiFault, Abort, Finish, AfterConfigMap
  <2> QED
    BY <2>1, <2>2, <2>3, <2>4, <2>5
<1>3. CASE UNCHANGED pc
  BY <1>1, <1>3 DEF MountsInv, MountsBeforeJob
<1> QED
  BY <1>1, <1>2, <1>3, MountsBystander

\* A refreshed cache shows what there is.
LEMMA SyncMounts ==
  ASSUME TypeOK, MountsInv, NEW o \in Operators, Sync(o) \/ Restart(o)
  PROVE  MountsInv'
<1>1. UNCHANGED << cm, pvc, job >>
  BY DEF Sync, SyncResource, SyncConfigMap, SyncClaim, SyncJob, SyncPods, Restart, objects
<1>2. /\ Current.cm # Absent => cm # Absent
      /\ Current.pvc # Absent => pvc # Absent
  BY DEF Current, Shown
<1>3. \A q \in Operators : /\ cache'[q].cm \in {cache[q].cm, Current.cm}
                          /\ cache'[q].pvc \in {cache[q].pvc, Current.pvc}
  <2>1. cache \in [Operators -> Caches]
    BY DEF TypeOK, CachesOK
  <2>2. CASE SyncResource(o)
    BY <2>1, <2>2 DEF SyncResource, Caches
  <2>3. CASE SyncConfigMap(o)
    BY <2>1, <2>3 DEF SyncConfigMap, Caches
  <2>4. CASE SyncClaim(o)
    BY <2>1, <2>4 DEF SyncClaim, Caches
  <2>5. CASE SyncJob(o)
    BY <2>1, <2>5 DEF SyncJob, Caches
  <2>6. CASE SyncPods(o)
    BY <2>1, <2>6 DEF SyncPods, Caches
  <2>7. CASE Restart(o)
    BY <2>1, <2>7 DEF Restart
  <2> QED
    BY <2>2, <2>3, <2>4, <2>5, <2>6, <2>7 DEF Sync
<1>4. \A q \in Operators : pc'[q] \in AfterConfigMap \cup AfterClaim => pc'[q] = pc[q]
  <2>1. pc \in [Operators -> Steps \cup {"idle", "down"}]
    BY DEF TypeOK, PassesOK
  <2> QED
    BY <2>1 DEF Sync, SyncResource, SyncConfigMap, SyncClaim, SyncJob, SyncPods, Restart, local,
                AfterConfigMap, AfterClaim
<1> QED
  BY <1>1, <1>2, <1>3, <1>4 DEF MountsInv, MountsBeforeJob

LEMMA InitMounts == Init => MountsInv
  BY DEF Init, Current, Shown, MountsInv, MountsBeforeJob, AfterConfigMap, AfterClaim

LEMMA NextMounts == TypeOK /\ MountsInv /\ [Next]_vars => MountsInv'
<1> SUFFICES ASSUME TypeOK, MountsInv, [Next]_vars PROVE MountsInv'
  OBVIOUS
<1>1. ASSUME NEW o \in Operators, OperatorNext(o) PROVE MountsInv'
  BY <1>1, ConfigMapMounts, ClaimMounts, JobMounts, OtherStepMounts, SyncMounts
     DEF OperatorNext, Step
<1>2. CASE User
  BY <1>2 DEF User, CreateResource, EditSpec, objects, local, MountsInv, MountsBeforeJob
<1>3. ASSUME NEW p \in Pods, PodNext(p) PROVE MountsInv'
  BY <1>3 DEF PodNext, StartPod, RunPod, FinishPod, FailPod, local, MountsInv, MountsBeforeJob
<1>4. CASE UNCHANGED vars
  BY <1>4 DEF vars, objects, local, MountsInv, MountsBeforeJob
<1> QED
  BY <1>1, <1>2, <1>3, <1>4 DEF Next

\* No job exists without the ConfigMap and the claim its pods mount, however far the
\* caches of the operators lag.
THEOREM MountsFirst == Spec => []MountsBeforeJob
<1>1. MountsInv => MountsBeforeJob
  BY DEF MountsInv
<1> QED
  BY <1>1, InitMounts, NextMounts, TypeCorrect, PTL DEF Spec

----------------------------------------------------------------------------
(* What the updates of the resource may change rests on the optimistic     *)
(* concurrency of the API server.  The invariant says what a working copy  *)
(* with the current resourceVersion differs in from the stored resource,   *)
(* at each step of a pass.                                                 *)

Writing == {"statusWrite", "fallback"}

\* A working copy made from the stored resource, and from no other of its name: its spec
\* may have been completed, and its history is longer only when the pass is about to write
\* it.
Held(o) ==
  /\ pc[o] \in Steps
  /\ cr # Absent
  /\ work[o].cr.uid = cr.uid
  /\ work[o].cr.spec \in {cr.spec, Defaulted(cr.spec)}
  /\ Extends(work[o].cr.status.conditions, cr.status.conditions)
  /\ pc[o] \notin Writing => work[o].cr.status.conditions = cr.status.conditions

LatestInv ==
  /\ \A o \in cachedLatest : cache[o].cr = cr
  /\ \A o \in heldLatest : Held(o)

LEMMA HeldSame ==
  ASSUME NEW o, Held(o), cr' = cr, pc'[o] = pc[o], work'[o] = work[o]
  PROVE  Held(o)'
  BY DEF Held

\* A pass takes a step before the writing of the status.
LEMMA LatestStep ==
  ASSUME StatusInv, LatestInv, NEW o \in Operators, pc[o] \notin Writing,
         UNCHANGED << cr, cache, latest >>,
         NEW step \in Steps, pc' = [pc EXCEPT ![o] = step],
         NEW w, work' = [work EXCEPT ![o] = w],
         w.cr.uid = work[o].cr.uid,
         w.cr.spec = work[o].cr.spec,
         Extends(w.cr.status.conditions, work[o].cr.status.conditions),
         step \notin Writing => w.cr.status.conditions = work[o].cr.status.conditions
  PROVE  LatestInv'
<1>1. /\ pc \in [Operators -> Steps \cup {"idle", "down"}]
      /\ work \in [Operators -> Works \cup {Absent}]
      /\ heldLatest \subseteq Operators
  BY DEF StatusInv, PassInv, PassesOK, CacheInv, CachesOK
<1>2. pc'[o] = step /\ work'[o] = w
  BY <1>1
<1>3. ASSUME NEW q \in heldLatest, q # o PROVE Held(q)'
  BY <1>1, <1>3, HeldSame DEF LatestInv
<1>4. ASSUME o \in heldLatest PROVE Held(o)'
  <2>1. Held(o)
    BY <1>4 DEF LatestInv
  <2>2. work[o].cr.status.conditions = cr.status.conditions
    BY <2>1 DEF Held
  <2> QED
    BY <2>1, <2>2, <1>2 DEF Held
<1> QED
  BY <1>3, <1>4 DEF LatestInv, latest

\* A pass that took such a step without a change of its working copy, with an error, or
\* with a panic.
LEMMA LatestMoves ==
  ASSUME StatusInv, LatestInv, NEW o \in Operators, pc[o] \in Steps, pc[o] \notin Writing,
         UNCHANGED << cr, cache, latest >>,
         \/ \E step \in Steps \ Writing : Goto(o, step)
         \/ \E step \in Steps \ Writing : Answered(o, step)
         \/ Fail(o)
         \/ Panic(o)
         \/ \E health \in HealthChecks : Abort(o, health)
  PROVE  LatestInv'
<1>1. PassInv /\ PassesOK
  BY DEF StatusInv, PassInv
<1>2. work[o] \in Works /\ work[o].cr.status \in Statuses /\ Coherent(work[o].cr.status)
  BY <1>1, Busy DEF PassInv
<1>3. ASSUME NEW step \in Steps \ Writing, Goto(o, step) PROVE LatestInv'
  <2>1. work' = [work EXCEPT ![o] = work[o]]
    BY <1>1, <1>3 DEF Goto, PassesOK
  <2>2. pc' = [pc EXCEPT ![o] = step]
    BY <1>3 DEF Goto
  <2> QED
    BY <2>1, <2>2, LatestStep DEF Extends
<1>4. ASSUME NEW health \in HealthChecks, Abort(o, health) PROVE LatestInv'
  <2> DEFINE s == Checked(work[o].cr.status, health)
             w == WithStatus(work[o], ErrorReported(s))
  <2>1. s \in Statuses /\ Coherent(s) /\ s.conditions = work[o].cr.status.conditions
    BY <1>2, CheckedType
  <2>2. ErrorReported(s) \in Statuses /\ Extends(ErrorReported(s).conditions, s.conditions)
    BY <2>1, ErrorReportedCoherent
  <2>3. w.cr.uid = work[o].cr.uid /\ w.cr.spec = work[o].cr.spec /\ w.cr.status = ErrorReported(s)
    BY <1>2, <2>2, WithStatusType
  <2>4. pc' = [pc EXCEPT ![o] = "statusWrite"] /\ work' = [work EXCEPT ![o] = w]
    BY <1>4 DEF Abort
  <2>5. "statusWrite" \in Steps /\ "statusWrite" \in Writing
    BY DEF Steps, Writing
  <2> HIDE DEF w
  <2> QED
    BY <2>1, <2>2, <2>3, <2>4, <2>5, LatestStep
<1>5. ASSUME Panic(o) PROVE LatestInv'
  <2> DEFINE w == [work[o] EXCEPT !.panic = TRUE]
  <2>1. w.cr = work[o].cr
    BY <1>2 DEF Works
  <2>2. pc' = [pc EXCEPT ![o] = "status"] /\ work' = [work EXCEPT ![o] = w]
    BY <1>5 DEF Panic
  <2> HIDE DEF w
  <2>3. "status" \in Steps
    BY DEF Steps
  <2> QED
    BY <2>1, <2>2, <2>3, LatestStep DEF Extends
<1>6. Health(o) \in HealthChecks
  BY <1>1, Busy
<1> QED
  BY <1>3, <1>4, <1>5, <1>6 DEF Answered, Fail

\* A pass ends, or its process dies, and the resource stays what it is.
LEMMA LatestDrop ==
  ASSUME StatusInv, LatestInv, NEW o \in Operators,
         UNCHANGED << cr, cache, cachedLatest >>, heldLatest' = heldLatest \ {o},
         NEW place, pc' = [pc EXCEPT ![o] = place],
         NEW w, work' = [work EXCEPT ![o] = w]
  PROVE  LatestInv'
<1>1. /\ pc \in [Operators -> Steps \cup {"idle", "down"}]
      /\ work \in [Operators -> Works \cup {Absent}]
      /\ heldLatest \subseteq Operators
  BY DEF StatusInv, PassInv, PassesOK, CacheInv, CachesOK
<1>2. ASSUME NEW q \in heldLatest' PROVE Held(q)'
  BY <1>1, HeldSame DEF LatestInv
<1> QED
  BY <1>2 DEF LatestInv

\* A write: either it changes nothing, or no copy is current any more.
LEMMA LatestStored ==
  ASSUME LatestInv, NEW new, NEW writers, Stored(new, writers), UNCHANGED cache,
         \A q \in heldLatest \cap writers : pc'[q] = pc[q] /\ work'[q] = work[q]
  PROVE  LatestInv'
<1>1. CASE new = cr
  <2>1. ASSUME NEW q \in heldLatest' PROVE Held(q)'
    BY <1>1, HeldSame DEF LatestInv, Stored
  <2> QED
    BY <1>1, <2>1 DEF LatestInv, Stored
<1>2. CASE new # cr
  BY <1>2 DEF LatestInv, Stored
<1> QED
  BY <1>1, <1>2

LEMMA LatestReconcile ==
  ASSUME StatusInv, LatestInv, NEW o \in Operators, Reconcile(o)
  PROVE  LatestInv'
<1> DEFINE got  == cache[o].cr
           copy == IF Invalid(got.spec) THEN [got EXCEPT !.status = ErrorReported(@)]
                                        ELSE [got EXCEPT !.spec = Defaulted(@)]
           w    == [cr |-> copy, panic |-> FALSE, found |-> Absent]
           step == IF Invalid(got.spec) THEN "statusWrite"
                   ELSE IF NoPing(got) THEN "configMap" ELSE "ping"
<1>1. /\ pc \in [Operators -> Steps \cup {"idle", "down"}]
      /\ work \in [Operators -> Works \cup {Absent}]
      /\ heldLatest \subseteq Operators
      /\ cache \in [Operators -> Caches]
  BY DEF StatusInv, PassInv, PassesOK, CacheInv, CachesOK
<1>2. UNCHANGED << cr, cache, cachedLatest >>
  BY DEF Reconcile
<1>3. CASE UNCHANGED << pc, work, heldLatest >>
  BY <1>2, <1>3, HeldSame DEF LatestInv
<1>4. CASE /\ got # Absent
           /\ work' = [work EXCEPT ![o] = w]
           /\ pc' = [pc EXCEPT ![o] = step]
           /\ heldLatest' = IF o \in cachedLatest THEN heldLatest \cup {o} ELSE heldLatest \ {o}
  <2>1. got \in Resources /\ Coherent(got.status) /\ got.status \in Statuses
    BY <1>1, <1>4 DEF StatusInv, CacheInv, Caches, Resources
  <2>2. /\ copy.uid = got.uid
        /\ copy.spec \in {got.spec, Defaulted(got.spec)}
        /\ Extends(copy.status.conditions, got.status.conditions)
        /\ step \notin Writing => copy.status.conditions = got.status.conditions
        /\ step \in Steps
    <3>1. CASE Invalid(got.spec)
      <4>1. Extends(ErrorReported(got.status).conditions, got.status.conditions)
        BY <2>1, ErrorReportedCoherent
      <4> QED
        BY <2>1, <3>1, <4>1 DEF Resources, Steps, Writing
    <3>2. CASE ~Invalid(got.spec)
      BY <2>1, <3>2 DEF Resources, Steps, Writing, Extends
    <3> QED
      BY <3>1, <3>2
  <2>3. w.cr = copy
    OBVIOUS
  <2> HIDE DEF copy, step, w
  <2>4. ASSUME NEW q \in heldLatest', q # o PROVE Held(q)'
    BY <1>1, <1>2, <1>4, <2>4, HeldSame DEF LatestInv
  <2>5. ASSUME o \in heldLatest' PROVE Held(o)'
    <3>1. got = cr
      BY <1>4, <2>5 DEF LatestInv
    <3>2. pc'[o] = step /\ work'[o] = w
      BY <1>1, <1>4
    <3> QED
      BY <1>2, <1>4, <2>2, <2>3, <3>1, <3>2 DEF Held
  <2> QED
    BY <1>2, <2>4, <2>5 DEF LatestInv
<1> QED
  BY <1>3, <1>4 DEF Reconcile

\* The steps that record the result of a health check, or clear it.
LEMMA LatestChecked ==
  ASSUME StatusInv, LatestInv, NEW o \in Operators, pc[o] \in Steps, pc[o] \notin Writing,
         UNCHANGED << cr, cache, latest >>,
         NEW step \in Steps \ Writing, NEW health \in HealthChecks,
         pc' = [pc EXCEPT ![o] = step],
         work' = [work EXCEPT ![o] = WithStatus(work[o], Checked(work[o].cr.status, health))]
  PROVE  LatestInv'
<1> DEFINE w == WithStatus(work[o], Checked(work[o].cr.status, health))
<1>1. work[o] \in Works /\ work[o].cr.status \in Statuses
  BY Busy DEF StatusInv, PassInv
<1>2. /\ Checked(work[o].cr.status, health) \in Statuses
      /\ Checked(work[o].cr.status, health).conditions = work[o].cr.status.conditions
  BY <1>1, CheckedType
<1>3. /\ w.cr.uid = work[o].cr.uid /\ w.cr.spec = work[o].cr.spec
      /\ w.cr.status.conditions = work[o].cr.status.conditions
  BY <1>1, <1>2, WithStatusType
<1>4. work' = [work EXCEPT ![o] = w]
  OBVIOUS
<1> HIDE DEF w
<1> QED
  BY <1>3, <1>4, LatestStep DEF Extends

LEMMA LatestPassStep ==
  ASSUME StatusInv, LatestInv, NEW o \in Operators,
         \/ CheckMongodbConnection(o)
         \/ CreateOrUpdateConfigMap(o) \/ UpdateCreatedConfigMap(o)
         \/ CreateOrUpdateClaim(o) \/ UpdateCreatedClaim(o)
         \/ CreateJob(o) \/ DeleteJob(o) \/ UpdateJob(o) \/ UpdateCreatedJob(o)
  PROVE  LatestInv'
<1>1. pc[o] \in Steps /\ pc[o] \notin Writing /\ UNCHANGED << cr, cache, latest >>
  BY DEF CheckMongodbConnection, CreateOrUpdateConfigMap, UpdateCreatedConfigMap,
         CreateOrUpdateClaim, UpdateCreatedClaim, CreateJob, DeleteJob, UpdateJob,
         UpdateCreatedJob, Steps, Writing
<1>2. /\ {"configMap", "configMapUpdate", "claim", "claimUpdate", "job", "jobUpdate", "status"}
            \subseteq Steps \ Writing
      /\ {"", "success", "failed"} \subseteq HealthChecks
  BY DEF Steps, Writing, HealthChecks
<1>3. CASE CheckMongodbConnection(o)
  <2>1. \/ Fail(o) \/ Panic(o) \/ Abort(o, "failed")
        \/ /\ pc' = [pc EXCEPT ![o] = "configMap"]
           /\ work' = [work EXCEPT ![o] = WithStatus(work[o], Checked(work[o].cr.status, "success"))]
    BY <1>3 DEF CheckMongodbConnection
  <2> QED
    BY <1>1, <1>2, <2>1, LatestMoves, LatestChecked
<1>4. CASE DeleteJob(o)
  <2>1. \/ Abort(o, "")
        \/ /\ pc' = [pc EXCEPT ![o] = "status"]
           /\ work' = [work EXCEPT ![o] = WithStatus(work[o], Checked(work[o].cr.status, ""))]
    BY <1>4 DEF DeleteJob
  <2> QED
    BY <1>1, <1>2, <2>1, LatestMoves, LatestChecked
<1>5. CASE CreateOrUpdateConfigMap(o) \/ UpdateCreatedConfigMap(o)
  <2>1. Goto(o, "claim") \/ Fail(o) \/ Answered(o, "configMapUpdate") \/ Answered(o, "claim")
    BY <1>5 DEF CreateOrUpdateConfigMap, UpdateCreatedConfigMap
  <2> QED
    BY <1>1, <1>2, <2>1, LatestMoves
<1>6. CASE CreateOrUpdateClaim(o) \/ UpdateCreatedClaim(o)
  <2>1. Panic(o) \/ Goto(o, "job") \/ Fail(o) \/ Answered(o, "claimUpdate")
    BY <1>6 DEF CreateOrUpdateClaim, UpdateCreatedClaim, WithoutClaim
  <2> QED
    BY <1>1, <1>2, <2>1, LatestMoves
<1>7. CASE CreateJob(o) \/ UpdateJob(o) \/ UpdateCreatedJob(o)
  <2>1. Goto(o, "status") \/ Fail(o) \/ Answered(o, "status") \/ Answered(o, "jobUpdate")
    BY <1>7 DEF CreateJob, UpdateJob, UpdateCreatedJob
  <2> QED
    BY <1>1, <1>2, <2>1, LatestMoves
<1> QED
  BY <1>3, <1>4, <1>5, <1>6, <1>7

LEMMA LatestReconcileJob ==
  ASSUME StatusInv, LatestInv, NEW o \in Operators, ReconcileJob(o)
  PROVE  LatestInv'
<1> DEFINE w == [work[o] EXCEPT !.found = cache[o].job]
           step == IF cache[o].job = Absent /\ work[o].cr.spec.pause THEN "status" ELSE "jobWrite"
<1>1. pc[o] \in Steps /\ pc[o] \notin Writing /\ UNCHANGED << cr, cache, latest >>
  BY DEF ReconcileJob, Steps, Writing
<1>2. work[o] \in Works
  BY <1>1, Busy DEF StatusInv, PassInv
<1>3. w.cr = work[o].cr
  BY <1>2 DEF Works
<1>4. step \in Steps
  BY DEF Steps
<1>5. work' = [work EXCEPT ![o] = w] /\ pc' = [pc EXCEPT ![o] = step]
  BY DEF ReconcileJob
<1> HIDE DEF w, step
<1> QED
  BY <1>1, <1>3, <1>4, <1>5, LatestStep DEF Extends

LEMMA LatestReportJob ==
  ASSUME StatusInv, LatestInv, NEW o \in Operators, ReportJob(o)
  PROVE  LatestInv'
<1>1. pc[o] \in Steps /\ pc[o] \notin Writing /\ UNCHANGED << cr, cache, latest >>
  BY DEF ReportJob, Steps, Writing
<1>2. /\ work[o] \in Works
      /\ work[o].cr.status \in Statuses
      /\ Coherent(work[o].cr.status)
  BY <1>1, Busy DEF StatusInv, PassInv
<1>3. PICK outcome \in PodOutcomes(work[o].cr.spec.pause, Mode(work[o].cr.spec), ListedPods(o)) :
        work' = [work EXCEPT ![o] =
                   WithStatus(work[o], JobReported(work[o].cr.status, outcome.state,
                                                   "initializing"))]
  BY DEF ReportJob
<1> DEFINE s == JobReported(work[o].cr.status, outcome.state, "initializing")
           w == WithStatus(work[o], s)
<1>4. outcome.state \in AppStates \ {"error"}
  BY <1>3, OutcomeType
<1>5. s \in Statuses /\ Extends(s.conditions, work[o].cr.status.conditions)
  BY <1>2, <1>4, JobReportedCoherent
<1>6. w.cr.uid = work[o].cr.uid /\ w.cr.spec = work[o].cr.spec /\ w.cr.status = s
  BY <1>2, <1>5, WithStatusType
<1>7. work' = [work EXCEPT ![o] = w] /\ pc' = [pc EXCEPT ![o] = "statusWrite"]
  BY <1>3 DEF ReportJob
<1>8. "statusWrite" \in Steps /\ "statusWrite" \in Writing
  BY DEF Steps, Writing
<1> HIDE DEF s, w
<1> QED
  BY <1>1, <1>5, <1>6, <1>7, <1>8, LatestStep

\* The status is about to be written, and stays so.
LEMMA LatestFallback ==
  ASSUME StatusInv, LatestInv, NEW o \in Operators, pc[o] = "statusWrite",
         UNCHANGED << cr, cache, cachedLatest, heldLatest, work >>,
         pc' = [pc EXCEPT ![o] = "fallback"]
  PROVE  LatestInv'
<1>1. /\ pc \in [Operators -> Steps \cup {"idle", "down"}]
      /\ heldLatest \subseteq Operators
  BY DEF StatusInv, PassInv, PassesOK, CacheInv, CachesOK
<1>2. ASSUME NEW q \in heldLatest PROVE Held(q)'
  <2>1. Held(q)
    BY DEF LatestInv
  <2>2. CASE q = o
    BY <2>1, <2>2, <1>1 DEF Held, Steps, Writing
  <2>3. CASE q # o
    BY <2>1, <2>3, <1>1, HeldSame
  <2> QED
    BY <2>2, <2>3
<1> QED
  BY <1>2 DEF LatestInv

LEMMA LatestWrite ==
  ASSUME StatusInv, LatestInv, NEW o \in Operators,
         WriteStatus(o) \/ FallbackUpdate(o)
  PROVE  LatestInv'
<1>1. /\ pc \in [Operators -> Steps \cup {"idle", "down"}]
      /\ work \in [Operators -> Works \cup {Absent}]
      /\ heldLatest \subseteq Operators
  BY DEF StatusInv, PassInv, PassesOK, CacheInv, CachesOK
<1>2. UNCHANGED cache
  BY DEF WriteStatus, FallbackUpdate
<1>3. ASSUME NEW new, Stored(new, Operators \ {o}), Finish(o) PROVE LatestInv'
  <2>1. \A q \in heldLatest \cap (Operators \ {o}) : pc'[q] = pc[q] /\ work'[q] = work[q]
    BY <1>1, <1>3 DEF Finish
  <2> QED
    BY <1>2, <1>3, <2>1, LatestStored
<1>4. ASSUME NEW new, pc[o] = "statusWrite", Stored(new, Operators),
             pc' = [pc EXCEPT ![o] = "fallback"], UNCHANGED work
      PROVE  LatestInv'
  <2>1. CASE new = cr
    <3>1. UNCHANGED << cr, cachedLatest, heldLatest >>
      BY <1>1, <1>4, <2>1 DEF Stored
    <3> QED
      BY <1>2, <1>4, <3>1, LatestFallback
  <2>2. CASE new # cr
    BY <1>4, <2>2 DEF LatestInv, Stored
  <2> QED
    BY <2>1, <2>2
<1>5. ASSUME Finish(o), heldLatest' = heldLatest \ {o}, UNCHANGED << cr, cachedLatest >>
      PROVE  LatestInv'
  BY <1>2, <1>5, LatestDrop DEF Finish
<1> QED
  BY <1>3, <1>4, <1>5 DEF WriteStatus, FallbackUpdate

LEMMA LatestOther ==
  ASSUME StatusInv, LatestInv, NEW o \in Operators,
         PanicInStatus(o) \/ Crash(o) \/ ApiFault(o)
  PROVE  LatestInv'
<1>1. UNCHANGED << cr, cache, cachedLatest >>
  BY DEF PanicInStatus, Crash, ApiFault
<1>2. CASE PanicInStatus(o) \/ Crash(o)
  BY <1>1, <1>2, LatestDrop DEF PanicInStatus, Crash
<1>3. CASE ApiFault(o)
  <2>1. CASE /\ pc[o] \in {"configMap", "configMapUpdate", "claim", "claimUpdate", "job",
                           "jobWrite", "jobUpdate"}
             /\ Abort(o, Health(o))
             /\ UNCHANGED heldLatest
    <3>1. pc[o] \in Steps /\ pc[o] \notin Writing
      BY <2>1 DEF Steps, Writing
    <3>2. Health(o) \in HealthChecks
      BY <3>1, Busy DEF StatusInv, PassInv
    <3> QED
      BY <1>1, <2>1, <3>1, <3>2, LatestMoves DEF latest
  <2>2. CASE pc[o] = "statusWrite" /\ pc' = [pc EXCEPT ![o] = "fallback"]
             /\ UNCHANGED << work, heldLatest >>
    BY <1>1, <2>2, LatestFallback
  <2>3. CASE Finish(o) /\ heldLatest' = heldLatest \ {o}
    BY <1>1, <2>3, LatestDrop DEF Finish
  <2> QED
    BY <1>3, <2>1, <2>2, <2>3 DEF ApiFault
<1> QED
  BY <1>2, <1>3

LEMMA LatestSync ==
  ASSUME StatusInv, LatestInv, NEW o \in Operators, Sync(o) \/ Restart(o)
  PROVE  LatestInv'
<1>1. /\ pc \in [Operators -> Steps \cup {"idle", "down"}]
      /\ heldLatest \subseteq Operators
      /\ cachedLatest \subseteq Operators
      /\ cache \in [Operators -> Caches]
  BY DEF StatusInv, PassInv, PassesOK, CacheInv, CachesOK
<1>2. UNCHANGED << cr, work, heldLatest >>
  BY DEF Sync, SyncResource, SyncConfigMap, SyncClaim, SyncJob, SyncPods, Restart, local, latest
<1>3. \A q \in heldLatest : pc'[q] = pc[q]
  <2>1. CASE Restart(o)
    <3>1. o \notin heldLatest
      BY <2>1 DEF Restart, LatestInv, Held, Steps
    <3> QED
      BY <1>1, <2>1, <3>1 DEF Restart
  <2>2. CASE Sync(o)
    BY <2>2 DEF Sync, SyncResource, SyncConfigMap, SyncClaim, SyncJob, SyncPods, local
  <2> QED
    BY <2>1, <2>2
<1>4. \A q \in heldLatest : Held(q)'
  BY <1>2, <1>3, HeldSame DEF LatestInv
<1>5. \A q \in cachedLatest' : cache'[q].cr = cr
  <2>1. CASE SyncResource(o)
    BY <1>1, <2>1 DEF SyncResource, Caches, LatestInv
  <2>2. CASE SyncConfigMap(o)
    BY <1>1, <2>2 DEF SyncConfigMap, Caches, LatestInv, latest
  <2>3. CASE SyncClaim(o)
    BY <1>1, <2>3 DEF SyncClaim, Caches, LatestInv, latest
  <2>4. CASE SyncJob(o)
    BY <1>1, <2>4 DEF SyncJob, Caches, LatestInv, latest
  <2>5. CASE SyncPods(o)
    BY <1>1, <2>5 DEF SyncPods, Caches, LatestInv, latest
  <2>6. CASE Restart(o)
    <3>1. Current.cr = cr
      BY DEF Current
    <3> QED
      BY <1>1, <2>6, <3>1 DEF Restart, LatestInv
  <2> QED
    BY <2>1, <2>2, <2>3, <2>4, <2>5, <2>6 DEF Sync
<1> QED
  BY <1>2, <1>4, <1>5 DEF LatestInv

LEMMA LatestInit == Init => LatestInv
  BY DEF Init, LatestInv, Current

LEMMA LatestNext == StatusInv /\ LatestInv /\ [Next]_vars => LatestInv'
<1> SUFFICES ASSUME StatusInv, LatestInv, [Next]_vars PROVE LatestInv'
  OBVIOUS
<1>1. ASSUME NEW o \in Operators, OperatorNext(o) PROVE LatestInv'
  BY <1>1, LatestReconcile, LatestPassStep, LatestReconcileJob, LatestReportJob, LatestWrite,
     LatestOther, LatestSync DEF OperatorNext, Step
<1>2. CASE User
  <2>1. \E new : Stored(new, {})
    BY <1>2 DEF User, CreateResource, EditSpec
  <2>2. UNCHANGED cache
    BY <1>2 DEF User, CreateResource, EditSpec
  <2> QED
    BY <2>1, <2>2, LatestStored
<1>3. CASE UNCHANGED << cr, cache, latest, pc, work >>
  BY <1>3, HeldSame DEF LatestInv, latest
<1>4. ASSUME NEW p \in Pods, PodNext(p) PROVE LatestInv'
  BY <1>3, <1>4 DEF PodNext, StartPod, RunPod, FinishPod, FailPod, local
<1>5. CASE UNCHANGED vars
  BY <1>3, <1>5 DEF vars, local
<1> QED
  BY <1>1, <1>2, <1>4, <1>5 DEF Next

\* A working copy with the current resourceVersion was made from the stored resource.
THEOREM LatestCopies == Spec => []LatestInv
  BY LatestInit, LatestNext, StatusInvariant, PTL DEF Spec

----------------------------------------------------------------------------
(* What a step may change of the resource.                                  *)

\* Only the writes of a pass and the user change the resource.
LEMMA Writers ==
  ASSUME [Next]_vars
  PROVE  \/ cr' = cr
         \/ User
         \/ \E o \in Operators : WriteStatus(o) \/ FallbackUpdate(o)
<1>1. ASSUME NEW o \in Operators, OperatorNext(o), ~WriteStatus(o), ~FallbackUpdate(o)
      PROVE  cr' = cr
  BY <1>1 DEF OperatorNext, Step, Sync, Reconcile, CheckMongodbConnection,
       CreateOrUpdateConfigMap, UpdateCreatedConfigMap, CreateOrUpdateClaim, UpdateCreatedClaim,
       ReconcileJob, CreateJob, DeleteJob, UpdateJob, UpdateCreatedJob, ReportJob, PanicInStatus,
       ApiFault, SyncResource, SyncConfigMap, SyncClaim, SyncJob, SyncPods, Crash, Restart
<1>2. ASSUME NEW p \in Pods, PodNext(p) PROVE cr' = cr
  BY <1>2 DEF PodNext, StartPod, RunPod, FinishPod, FailPod
<1> QED
  BY <1>1, <1>2 DEF Next, vars

\* A write of a pass stores the status or the spec of a copy of what is stored.
LEMMA WriteKeeps ==
  ASSUME StatusInv, LatestInv, NEW o \in Operators, WriteStatus(o) \/ FallbackUpdate(o),
         cr # Absent
  PROVE  /\ cr'.spec \in {cr.spec, Defaulted(cr.spec)}
         /\ Extends(cr'.status.conditions, cr.status.conditions)
<1>1. cr \in Resources
  BY DEF StatusInv, StoreInv, StoreOK
<1>2. CASE cr' = cr
  BY <1>2 DEF Extends
<1>3. CASE cr' # cr
  <2>1. o \in heldLatest
    BY <1>3 DEF WriteStatus, FallbackUpdate, Accepts
  <2>2. Held(o)
    BY <2>1 DEF LatestInv
  <2>3. \/ cr' = [cr EXCEPT !.status = work[o].cr.status]
        \/ cr' = [cr EXCEPT !.spec = work[o].cr.spec]
    BY <1>3 DEF WriteStatus, FallbackUpdate, Stored
  <2> QED
    BY <1>1, <2>2, <2>3 DEF Held, Resources, Extends
<1> QED
  BY <1>2, <1>3

\* The user creates the resource, or edits its spec.
LEMMA UserKeeps ==
  ASSUME StatusInv, User, cr # Absent
  PROVE  budget'.edits < budget.edits /\ cr'.status = cr.status
<1>1. cr \in Resources /\ budget \in Budgets
  BY DEF StatusInv, StoreInv, StoreOK, PassInv, PassesOK
<1>2. EditSpec
  BY DEF User, CreateResource
<1>3. budget'.edits < budget.edits
  <2>1. budget' = [budget EXCEPT !.edits = budget.edits - 1] /\ budget.edits \in Nat
    BY <1>1, <1>2 DEF EditSpec, Budgets
  <2>2. budget'.edits = budget.edits - 1
    BY <1>1, <2>1 DEF Budgets
  <2> QED
    BY <2>1, <2>2
<1>4. \E spec : cr' = [cr EXCEPT !.spec = spec]
  BY <1>2 DEF EditSpec, Stored
<1> QED
  BY <1>1, <1>3, <1>4 DEF Resources

\* No pass takes back what the user asked for, although each may write a spec it read
\* long before.
THEOREM IntentKept == Spec => OperatorKeepsIntent
<1>1. StatusInv /\ LatestInv /\ [Next]_vars =>
        [cr # Absent /\ cr' # Absent =>
           \/ cr'.spec \in {cr.spec, Defaulted(cr.spec)}
           \/ budget'.edits < budget.edits]_vars
  BY Writers, WriteKeeps, UserKeeps
<1> QED
  BY <1>1, StatusInvariant, LatestCopies, PTL DEF Spec, OperatorKeepsIntent

\* No pass loses or reorders what another pass reported.
THEOREM HistoryKept == Spec => ConditionsGrow
<1>1. StatusInv /\ LatestInv /\ [Next]_vars =>
        [cr # Absent /\ cr' # Absent =>
           Extends(cr'.status.conditions, cr.status.conditions)]_vars
  BY Writers, WriteKeeps, UserKeeps DEF Extends
<1> QED
  BY <1>1, StatusInvariant, LatestCopies, PTL DEF Spec, ConditionsGrow
============================================================================

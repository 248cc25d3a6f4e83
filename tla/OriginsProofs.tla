--------------------------- MODULE OriginsProofs ---------------------------
(***************************************************************************)
(* The operator implements JobPromise, for every set of operator processes *)
(* and specs and every bound.  OriginInv is inductive relative to the      *)
(* invariants of ReconcilerProofs; the refinement follows from it, step by *)
(* step, with MountsBeforeJob and the optimistic concurrency that          *)
(* PassProofs states.                                                      *)
(***************************************************************************)
EXTENDS Origins, PassProofs

----------------------------------------------------------------------------
(* What CheckNSetDefaults makes of a spec.                                 *)

LEMMA AcceptedIsValid == \A spec \in Specs : Accepted(spec) <=> ~Invalid(spec)
BY DEF Accepted, Invalid, Specs

LEMMA DefaultedFields ==
  ASSUME NEW spec \in Specs
  PROVE  /\ Defaulted(spec) \in Specs
         /\ Defaulted(Defaulted(spec)) = Defaulted(spec)
         /\ Defaulted(spec).pause = spec.pause
         /\ Defaulted(spec).image = spec.image
         /\ Accepted(spec) => Defaulted(spec).configuration = Printed(spec)
<1>1. CASE spec.configuration = "" /\ ~Invalid(spec)
  <2>1. spec.collector \in Collectors
    BY <1>1 DEF Invalid, Specs
  <2>2. spec.collector.text \in Texts /\ spec.collector.text # ""
    BY <2>1, ConstantsAssumption DEF Collectors
  <2>3. Defaulted(spec) = [spec EXCEPT !.configuration = spec.collector.text]
    BY <1>1 DEF Defaulted
  <2>4. Defaulted(spec).configuration = spec.collector.text
    BY <2>3 DEF Specs
  <2>5. Defaulted(Defaulted(spec)) = Defaulted(spec)
    BY <2>2, <2>4 DEF Defaulted
  <2> QED
    BY <1>1, <2>3, <2>4, <2>5, DefaultedType DEF Specs, Printed
<1>2. CASE ~(spec.configuration = "" /\ ~Invalid(spec))
  <2>1. Defaulted(spec) = spec
    BY <1>2 DEF Defaulted
  <2> QED
    BY <1>2, <2>1, AcceptedIsValid DEF Printed
<1> QED
  BY <1>1, <1>2

\* A known spec that is not rejected is completed to one a pass may work with.
LEMMA KnownCompletes ==
  ASSUME submitted \subseteq Specs, NEW spec \in KnownSpecs, ~Invalid(spec)
  PROVE  Defaulted(spec) \in PassSpecs
<1>1. PICK s \in submitted : spec = s \/ spec = Defaulted(s)
  BY DEF KnownSpecs
<1>2. s \in Specs /\ Defaulted(spec) = Defaulted(s)
  BY <1>1, DefaultedFields
<1>3. Accepted(s)
  <2>1. CASE spec = s
    BY <1>2, <2>1, AcceptedIsValid
  <2>2. CASE spec # s
    BY <1>1, <2>2 DEF Defaulted, Accepted, Invalid
  <2> QED
    BY <2>1, <2>2
<1> QED
  BY <1>1, <1>2, <1>3 DEF PassSpecs, AcceptedSpecs

LEMMA PassSpecsKnown == PassSpecs \subseteq KnownSpecs
BY DEF PassSpecs, AcceptedSpecs, KnownSpecs

\* What was submitted stays so.
LEMMA OriginsGrow ==
  ASSUME submitted \subseteq submitted'
  PROVE  KnownSpecs \subseteq KnownSpecs' /\ PassSpecs \subseteq PassSpecs'
BY DEF KnownSpecs, PassSpecs, AcceptedSpecs

----------------------------------------------------------------------------
(* OriginInv is an invariant.                                              *)

LEMMA CopySame ==
  ASSUME NEW o, CopyKnown(o), submitted \subseteq submitted',
         pc'[o] = pc[o], work'[o] = work[o]
  PROVE  CopyKnown(o)'
BY OriginsGrow DEF CopyKnown

\* The steps of a pass between its first read and its writes of the status.
PassStep(o) ==
  \/ CheckMongodbConnection(o)
  \/ CreateOrUpdateConfigMap(o) \/ UpdateCreatedConfigMap(o)
  \/ CreateOrUpdateClaim(o) \/ UpdateCreatedClaim(o)
  \/ ReconcileJob(o)
  \/ CreateJob(o) \/ DeleteJob(o) \/ UpdateJob(o) \/ UpdateCreatedJob(o)
  \/ ReportJob(o)

\* What a step of a pass never changes of its local variables: the spec it works on and
\* the resource it works for; the job it has found is one the cache showed.
Keeps(o, w) ==
  /\ w.cr.spec = work[o].cr.spec
  /\ w.cr.uid = work[o].cr.uid
  /\ w.found \in {work[o].found, cache[o].job}

\* A pass takes a step.
Moves(o) ==
  /\ pc[o] \in Steps \ Writing
  /\ UNCHANGED << cr, cache >>
  /\ \E step \in Steps : \E w :
       /\ pc' = [pc EXCEPT ![o] = step]
       /\ work' = [work EXCEPT ![o] = w]
       /\ Keeps(o, w)

LEMMA WithStatusKeeps ==
  ASSUME NEW o, work[o] \in Works, NEW status \in Statuses
  PROVE  Keeps(o, WithStatus(work[o], status))
BY DEF Keeps, WithStatus, Works, Resources

LEMMA FormsMove ==
  ASSUME StatusInv, NEW o \in Operators, pc[o] \in Steps \ Writing, UNCHANGED << cr, cache >>,
         \/ \E step \in Steps : Goto(o, step) \/ Answered(o, step)
         \/ Fail(o)
         \/ Panic(o)
         \/ \E health \in HealthChecks : Abort(o, health)
         \/ \E status \in Statuses, step \in Steps :
              /\ pc' = [pc EXCEPT ![o] = step]
              /\ work' = [work EXCEPT ![o] = WithStatus(work[o], status)]
  PROVE  Moves(o)
<1>1. work \in [Operators -> Works \cup {Absent}] /\ work[o] \in Works
  BY Busy DEF StatusInv, PassInv, PassesOK
<1>2. work[o].cr.status \in Statuses /\ Coherent(work[o].cr.status) /\ Health(o) \in HealthChecks
  BY Busy DEF StatusInv, PassInv
<1>3. ASSUME NEW step \in Steps, Goto(o, step) PROVE Moves(o)
  <2>1. pc' = [pc EXCEPT ![o] = step] /\ work' = [work EXCEPT ![o] = work[o]]
    BY <1>1, <1>3 DEF Goto
  <2> QED
    BY <2>1 DEF Moves, Keeps
<1>4. ASSUME NEW status \in Statuses, NEW step \in Steps, pc' = [pc EXCEPT ![o] = step],
             work' = [work EXCEPT ![o] = WithStatus(work[o], status)]
      PROVE  Moves(o)
  <2>1. Keeps(o, WithStatus(work[o], status))
    BY <1>1, WithStatusKeeps
  <2> QED
    BY <1>4, <2>1 DEF Moves
<1>5. ASSUME NEW health \in HealthChecks, Abort(o, health) PROVE Moves(o)
  <2> DEFINE s == Checked(work[o].cr.status, health)
  <2>1. s \in Statuses /\ Coherent(s)
    BY <1>2, CheckedType
  <2>2. ErrorReported(s) \in Statuses
    BY <2>1, ErrorReportedCoherent
  <2>3. /\ pc' = [pc EXCEPT ![o] = "statusWrite"]
        /\ work' = [work EXCEPT ![o] = WithStatus(work[o], ErrorReported(s))]
    BY <1>5 DEF Abort
  <2>4. "statusWrite" \in Steps
    BY DEF Steps
  <2> HIDE DEF s
  <2> QED
    BY <1>4, <2>2, <2>3, <2>4
<1>6. ASSUME Panic(o) PROVE Moves(o)
  <2> DEFINE w == [work[o] EXCEPT !.panic = TRUE]
  <2>1. w.cr = work[o].cr /\ w.found = work[o].found
    BY <1>1 DEF Works
  <2>2. pc' = [pc EXCEPT ![o] = "status"] /\ work' = [work EXCEPT ![o] = w] /\ "status" \in Steps
    BY <1>6 DEF Panic, Steps
  <2> HIDE DEF w
  <2> QED
    BY <2>1, <2>2 DEF Moves, Keeps
<1> QED
  BY <1>2, <1>3, <1>4, <1>5, <1>6 DEF Answered, Fail

LEMMA PassStepMoves ==
  ASSUME StatusInv, NEW o \in Operators, PassStep(o)
  PROVE  Moves(o)
<1>1. pc[o] \in Steps \ Writing /\ UNCHANGED << cr, cache >>
  BY DEF PassStep, CheckMongodbConnection, CreateOrUpdateConfigMap, UpdateCreatedConfigMap,
         CreateOrUpdateClaim, UpdateCreatedClaim, ReconcileJob, CreateJob, DeleteJob, UpdateJob,
         UpdateCreatedJob, ReportJob, Steps, Writing
<1>2. /\ work[o] \in Works
      /\ work[o].cr.status \in Statuses
      /\ Coherent(work[o].cr.status)
  BY <1>1, Busy DEF StatusInv, PassInv
<1>3. /\ {"configMap", "configMapUpdate", "claim", "claimUpdate", "job", "jobWrite", "jobUpdate",
          "status", "statusWrite"} \subseteq Steps
      /\ {"", "success", "failed"} \subseteq HealthChecks
  BY DEF Steps, HealthChecks
<1>4. \A health \in HealthChecks : Checked(work[o].cr.status, health) \in Statuses
  BY <1>2, CheckedType
<1>5. CASE CheckMongodbConnection(o)
  <2>1. \/ Fail(o) \/ Panic(o) \/ Abort(o, "failed")
        \/ /\ pc' = [pc EXCEPT ![o] = "configMap"]
           /\ work' = [work EXCEPT ![o] = WithStatus(work[o], Checked(work[o].cr.status, "success"))]
    BY <1>5 DEF CheckMongodbConnection
  <2> QED
    BY <1>1, <1>3, <1>4, <2>1, FormsMove
<1>6. CASE DeleteJob(o)
  <2>1. \/ Abort(o, "")
        \/ /\ pc' = [pc EXCEPT ![o] = "status"]
           /\ work' = [work EXCEPT ![o] = WithStatus(work[o], Checked(work[o].cr.status, ""))]
    BY <1>6 DEF DeleteJob
  <2> QED
    BY <1>1, <1>3, <1>4, <2>1, FormsMove
<1>7. CASE CreateOrUpdateConfigMap(o) \/ UpdateCreatedConfigMap(o)
  <2>1. Goto(o, "claim") \/ Fail(o) \/ Answered(o, "configMapUpdate") \/ Answered(o, "claim")
    BY <1>7 DEF CreateOrUpdateConfigMap, UpdateCreatedConfigMap
  <2> QED
    BY <1>1, <1>3, <2>1, FormsMove
<1>8. CASE CreateOrUpdateClaim(o) \/ UpdateCreatedClaim(o)
  <2>1. Panic(o) \/ Goto(o, "job") \/ Fail(o) \/ Answered(o, "claimUpdate")
    BY <1>8 DEF CreateOrUpdateClaim, UpdateCreatedClaim, WithoutClaim
  <2> QED
    BY <1>1, <1>3, <2>1, FormsMove
<1>9. CASE CreateJob(o) \/ UpdateJob(o) \/ UpdateCreatedJob(o)
  <2>1. Goto(o, "status") \/ Fail(o) \/ Answered(o, "status") \/ Answered(o, "jobUpdate")
    BY <1>9 DEF CreateJob, UpdateJob, UpdateCreatedJob
  <2> QED
    BY <1>1, <1>3, <2>1, FormsMove
<1>10. CASE ReconcileJob(o)
  <2> DEFINE w == [work[o] EXCEPT !.found = cache[o].job]
             step == IF cache[o].job = Absent /\ work[o].cr.spec.pause THEN "status" ELSE "jobWrite"
  <2>1. w.cr = work[o].cr /\ w.found = cache[o].job /\ step \in Steps
    BY <1>2, <1>3 DEF Works
  <2>2. work' = [work EXCEPT ![o] = w] /\ pc' = [pc EXCEPT ![o] = step]
    BY <1>10 DEF ReconcileJob
  <2> HIDE DEF w, step
  <2> QED
    BY <1>1, <2>1, <2>2 DEF Moves, Keeps
<1>11. CASE ReportJob(o)
  <2>1. PICK outcome \in PodOutcomes(work[o].cr.spec.pause, Mode(work[o].cr.spec), ListedPods(o)) :
          work' = [work EXCEPT ![o] =
                     WithStatus(work[o], JobReported(work[o].cr.status, outcome.state,
                                                     "initializing"))]
    BY <1>11 DEF ReportJob
  <2> DEFINE s == JobReported(work[o].cr.status, outcome.state, "initializing")
  <2>2. s \in Statuses
    BY <1>2, <2>1, OutcomeType, JobReportedCoherent
  <2>3. work' = [work EXCEPT ![o] = WithStatus(work[o], s)] /\ pc' = [pc EXCEPT ![o] = "statusWrite"]
    BY <1>11, <2>1 DEF ReportJob
  <2> HIDE DEF s
  <2> QED
    BY <1>1, <1>3, <2>2, <2>3, FormsMove
<1> QED
  BY <1>5, <1>6, <1>7, <1>8, <1>9, <1>10, <1>11 DEF PassStep

LEMMA MoveKnown ==
  ASSUME StatusInv, OriginInv, NEW o \in Operators, Moves(o), UNCHANGED submitted
  PROVE  OriginInv'
<1>1. pc \in [Operators -> Steps \cup {"idle", "down"}] /\ work \in [Operators -> Works \cup {Absent}]
  BY DEF StatusInv, PassInv, PassesOK
<1>2. PICK step, w :
        /\ step \in Steps
        /\ pc' = [pc EXCEPT ![o] = step]
        /\ work' = [work EXCEPT ![o] = w]
        /\ w.cr.spec = work[o].cr.spec
  BY DEF Moves, Keeps
<1>3. KnownSpecs' = KnownSpecs /\ PassSpecs' = PassSpecs
  BY DEF KnownSpecs, PassSpecs, AcceptedSpecs
<1>4. CopyKnown(o)'
  <2>1. work[o].cr.spec \in KnownSpecs /\ work[o].cr.spec \in PassSpecs
    BY DEF Moves, OriginInv, CopyKnown, Writing
  <2>2. work'[o] = w
    BY <1>1, <1>2
  <2> QED
    BY <1>2, <1>3, <2>1, <2>2 DEF CopyKnown
<1>5. ASSUME NEW q \in Operators, q # o PROVE CopyKnown(q)'
  BY <1>1, <1>2, <1>5, CopySame DEF OriginInv
<1>6. UNCHANGED << cr, cache >>
  BY DEF Moves
<1> QED
  BY <1>3, <1>4, <1>5, <1>6 DEF OriginInv

\* A pass ends, or goes on to the fallback; the resource is still a known one.
LEMMA EndKnown ==
  ASSUME StatusInv, OriginInv, NEW o \in Operators, submitted \subseteq submitted',
         submitted' \subseteq Specs,
         cr' # Absent => cr'.spec \in KnownSpecs', UNCHANGED cache,
         NEW place, pc' = [pc EXCEPT ![o] = place],
         \/ place \in {"idle", "down"}
         \/ pc[o] \in Steps /\ place = "fallback" /\ UNCHANGED work,
         \A q \in Operators : q # o => work'[q] = work[q]
  PROVE  OriginInv'
<1>1. pc \in [Operators -> Steps \cup {"idle", "down"}]
  BY DEF StatusInv, PassInv, PassesOK
<1>2. KnownSpecs \subseteq KnownSpecs'
  BY OriginsGrow
<1>3. ASSUME NEW q \in Operators, q # o PROVE CopyKnown(q)'
  BY <1>1, <1>3, CopySame DEF OriginInv
<1>4. CopyKnown(o)'
  <2>1. CASE place \in {"idle", "down"}
    BY <1>1, <2>1 DEF CopyKnown, Steps
  <2>2. CASE pc[o] \in Steps /\ place = "fallback" /\ UNCHANGED work
    BY <1>1, <1>2, <2>2 DEF CopyKnown, OriginInv
  <2> QED
    BY <2>1, <2>2
<1> QED
  BY <1>2, <1>3, <1>4 DEF OriginInv

LEMMA ReconcileKnown ==
  ASSUME StatusInv, OriginInv, NEW o \in Operators, Reconcile(o), UNCHANGED submitted
  PROVE  OriginInv'
<1> DEFINE got  == cache[o].cr
           copy == IF Invalid(got.spec) THEN [got EXCEPT !.status = ErrorReported(@)]
                                        ELSE [got EXCEPT !.spec = Defaulted(@)]
           w    == [cr |-> copy, panic |-> FALSE, found |-> Absent]
           step == IF Invalid(got.spec) THEN "statusWrite"
                   ELSE IF NoPing(got) THEN "configMap" ELSE "ping"
<1>1. /\ pc \in [Operators -> Steps \cup {"idle", "down"}]
      /\ work \in [Operators -> Works \cup {Absent}]
      /\ cache \in [Operators -> Caches]
  BY DEF StatusInv, PassInv, PassesOK, CacheInv, CachesOK
<1>2. UNCHANGED << cr, cache >>
  BY DEF Reconcile
<1>3. CASE UNCHANGED << pc, work >>
  BY <1>2, <1>3, CopySame DEF OriginInv, KnownSpecs
<1>4. CASE /\ got # Absent
           /\ work' = [work EXCEPT ![o] = w]
           /\ pc' = [pc EXCEPT ![o] = step]
  <2>1. got \in Resources /\ got.spec \in KnownSpecs
    BY <1>1, <1>4 DEF OriginInv, Caches
  <2>2. copy.spec \in KnownSpecs /\ (~Invalid(got.spec) => copy.spec \in PassSpecs)
    <3>1. CASE Invalid(got.spec)
      BY <2>1, <3>1 DEF Resources
    <3>2. CASE ~Invalid(got.spec)
      <4>1. copy.spec = Defaulted(got.spec)
        BY <2>1, <3>2 DEF Resources
      <4> QED
        BY <2>1, <3>2, <4>1, KnownCompletes, PassSpecsKnown DEF OriginInv
    <3> QED
      BY <3>1, <3>2
  <2>3. w.cr = copy /\ (Invalid(got.spec) => step \in {"statusWrite", "fallback"})
    OBVIOUS
  <2> HIDE DEF copy, step, w
  <2>4. pc'[o] = step /\ work'[o] = w
    BY <1>1, <1>4
  <2>5. KnownSpecs' = KnownSpecs /\ PassSpecs' = PassSpecs
    BY DEF KnownSpecs, PassSpecs, AcceptedSpecs
  <2>6. CopyKnown(o)'
    BY <2>2, <2>3, <2>4, <2>5 DEF CopyKnown
  <2>7. ASSUME NEW q \in Operators, q # o PROVE CopyKnown(q)'
    BY <1>1, <1>4, <2>7, CopySame DEF OriginInv
  <2> QED
    BY <1>2, <2>5, <2>6, <2>7 DEF OriginInv
<1> QED
  BY <1>3, <1>4 DEF Reconcile

LEMMA WriteKnown ==
  ASSUME StatusInv, OriginInv, NEW o \in Operators, WriteStatus(o) \/ FallbackUpdate(o),
         UNCHANGED submitted
  PROVE  OriginInv'
<1>1. work \in [Operators -> Works \cup {Absent}]
  BY DEF StatusInv, PassInv, PassesOK
<1>2. pc[o] \in Steps /\ UNCHANGED cache
  BY DEF WriteStatus, FallbackUpdate, Steps
<1>3. work[o].cr.spec \in KnownSpecs /\ KnownSpecs' = KnownSpecs
  BY <1>2 DEF OriginInv, CopyKnown, KnownSpecs
<1>4. cr' # Absent => cr'.spec \in KnownSpecs'
  <2>1. CASE cr' = cr
    BY <1>3, <2>1 DEF OriginInv
  <2>2. CASE cr' # cr
    <3>1. /\ cr # Absent
          /\ \/ cr' = [cr EXCEPT !.status = work[o].cr.status]
             \/ cr' = [cr EXCEPT !.spec = work[o].cr.spec]
      BY <2>2 DEF WriteStatus, FallbackUpdate, Accepts, Stored
    <3>2. cr \in Resources /\ cr.spec \in KnownSpecs
      BY <3>1 DEF StatusInv, StoreInv, StoreOK, OriginInv
    <3> QED
      BY <1>3, <3>1, <3>2 DEF Resources
  <2> QED
    BY <2>1, <2>2
<1>5. CASE Finish(o)
  <2>1. \E place \in {"idle", "down"} : pc' = [pc EXCEPT ![o] = place]
    BY <1>5 DEF Finish
  <2>2. \A q \in Operators : q # o => work'[q] = work[q]
    BY <1>1, <1>5 DEF Finish
  <2> QED
    BY <1>2, <1>4, <2>1, <2>2, EndKnown DEF OriginInv
<1>6. CASE pc' = [pc EXCEPT ![o] = "fallback"] /\ UNCHANGED work
  BY <1>2, <1>4, <1>6, EndKnown DEF OriginInv
<1> QED
  BY <1>5, <1>6 DEF WriteStatus, FallbackUpdate

LEMMA OtherKnown ==
  ASSUME StatusInv, OriginInv, NEW o \in Operators, PanicInStatus(o) \/ Crash(o) \/ ApiFault(o),
         UNCHANGED submitted
  PROVE  OriginInv'
<1>1. work \in [Operators -> Works \cup {Absent}]
  BY DEF StatusInv, PassInv, PassesOK
<1>2. UNCHANGED << cr, cache >> /\ KnownSpecs' = KnownSpecs /\ submitted \subseteq Specs
  BY DEF PanicInStatus, Crash, ApiFault, KnownSpecs, OriginInv
<1>3. cr' # Absent => cr'.spec \in KnownSpecs'
  BY <1>2 DEF OriginInv
<1>4. CASE PanicInStatus(o) \/ Crash(o)
  <2>1. pc' = [pc EXCEPT ![o] = "down"] /\ work' = [work EXCEPT ![o] = Absent]
    BY <1>4 DEF PanicInStatus, Crash
  <2> QED
    BY <1>1, <1>2, <1>3, <2>1, EndKnown
<1>5. CASE pc[o] = "statusWrite" /\ pc' = [pc EXCEPT ![o] = "fallback"] /\ UNCHANGED work
  <2>1. pc[o] \in Steps
    BY <1>5 DEF Steps
  <2> QED
    BY <1>2, <1>3, <1>5, <2>1, EndKnown
<1>6. CASE Finish(o)
  <2>1. \E place \in {"idle", "down"} : pc' = [pc EXCEPT ![o] = place]
    BY <1>6 DEF Finish
  <2>2. \A q \in Operators : q # o => work'[q] = work[q]
    BY <1>1, <1>6 DEF Finish
  <2> QED
    BY <1>2, <1>3, <2>1, <2>2, EndKnown
<1>7. CASE /\ pc[o] \in {"configMap", "configMapUpdate", "claim", "claimUpdate", "job",
                          "jobWrite", "jobUpdate"}
           /\ Abort(o, Health(o))
  <2>1. pc[o] \in Steps \ Writing
    BY <1>7 DEF Steps, Writing
  <2>2. Health(o) \in HealthChecks
    BY <2>1, Busy DEF StatusInv, PassInv
  <2> QED
    BY <1>2, <1>7, <2>1, <2>2, FormsMove, MoveKnown
<1> QED
  BY <1>4, <1>5, <1>6, <1>7 DEF ApiFault

LEMMA SyncKnown ==
  ASSUME StatusInv, OriginInv, NEW o \in Operators, Sync(o) \/ Restart(o), UNCHANGED submitted
  PROVE  OriginInv'
<1>1. /\ pc \in [Operators -> Steps \cup {"idle", "down"}]
      /\ cache \in [Operators -> Caches]
  BY DEF StatusInv, PassInv, PassesOK, CacheInv, CachesOK
<1>2. UNCHANGED << cr, work >> /\ KnownSpecs' = KnownSpecs
  BY DEF Sync, SyncResource, SyncConfigMap, SyncClaim, SyncJob, SyncPods, Restart, local, KnownSpecs
<1>3. \A q \in Operators : cache'[q].cr = cache[q].cr \/ cache'[q].cr = cr
  <2>1. CASE SyncResource(o)
    BY <1>1, <2>1 DEF SyncResource, Caches
  <2>2. CASE SyncConfigMap(o)
    BY <1>1, <2>2 DEF SyncConfigMap, Caches
  <2>3. CASE SyncClaim(o)
    BY <1>1, <2>3 DEF SyncClaim, Caches
  <2>4. CASE SyncJob(o)
    BY <1>1, <2>4 DEF SyncJob, Caches
  <2>5. CASE SyncPods(o)
    BY <1>1, <2>5 DEF SyncPods, Caches
  <2>6. CASE Restart(o)
    <3>1. Current.cr = cr
      BY DEF Current
    <3> QED
      BY <1>1, <2>6, <3>1 DEF Restart
  <2> QED
    BY <2>1, <2>2, <2>3, <2>4, <2>5, <2>6 DEF Sync
<1>4. \A q \in Operators : cache'[q].cr # Absent => cache'[q].cr.spec \in KnownSpecs
  BY <1>3 DEF OriginInv
<1>5. ASSUME NEW q \in Operators PROVE CopyKnown(q)'
  <2>1. CASE pc'[q] = pc[q]
    BY <1>2, <2>1, CopySame DEF OriginInv
  <2>2. CASE pc'[q] # pc[q]
    <3>1. pc'[q] = "idle"
      BY <1>1, <2>2 DEF Sync, SyncResource, SyncConfigMap, SyncClaim, SyncJob, SyncPods, Restart, local
    <3> QED
      BY <3>1 DEF CopyKnown, Steps
  <2> QED
    BY <2>1, <2>2
<1> QED
  BY <1>2, <1>4, <1>5 DEF OriginInv

LEMMA UserKnown ==
  ASSUME StatusInv, StatusInv', OriginInv, User, submitted' = submitted \cup {cr'.spec}
  PROVE  OriginInv'
<1>1. cr' \in Resources /\ UNCHANGED << cache, pc, work >>
  <2>1. cr' # Absent
    <3>1. CASE CreateResource
      <4>1. PICK spec \in UserSpecs :
              cr' = [uid |-> budget.creates, spec |-> spec, status |-> NewStatus]
        BY <3>1 DEF CreateResource, Stored
      <4>2. spec \in Specs /\ budget.creates \in Nat
        BY ConstantsAssumption DEF StatusInv, PassInv, PassesOK, Budgets
      <4>3. NewStatus \in Statuses
        BY MaxStatusesAssumption DEF NewStatus, Statuses, NoState, HealthChecks
      <4>4. cr' \in Resources
        BY <4>1, <4>2, <4>3 DEF Resources
      <4> QED
        BY <4>4, ConstantsAssumption
    <3>2. CASE EditSpec
      <4>1. cr \in Resources
        BY <3>2 DEF EditSpec, StatusInv, StoreInv, StoreOK
      <4>2. \E spec : cr' = [cr EXCEPT !.spec = spec] /\ spec \in Specs
        <5>1. PICK spec, configuration :
                 /\ spec \in UserSpecs
                 /\ configuration \in {spec.configuration, cr.spec.configuration}
                 /\ cr' = [cr EXCEPT !.spec = [spec EXCEPT !.configuration = configuration]]
          BY <3>2 DEF EditSpec, Stored
        <5>2. spec \in Specs /\ cr.spec \in Specs
          BY <4>1, <5>1, ConstantsAssumption DEF Resources
        <5>3. configuration \in Texts \cup {""}
          BY <5>1, <5>2 DEF Specs
        <5>4. [spec EXCEPT !.configuration = configuration] \in Specs
          BY <5>2, <5>3 DEF Specs
        <5> QED
          BY <5>1, <5>4
      <4>3. cr' \in Resources
        BY <4>1, <4>2 DEF Resources
      <4> QED
        BY <4>3, ConstantsAssumption
    <3> QED
      BY <3>1, <3>2 DEF User
  <2> QED
    BY <2>1 DEF StatusInv, StoreInv, StoreOK, User, CreateResource, EditSpec, local
<1>2. submitted' \subseteq Specs
  BY <1>1 DEF OriginInv, Resources
<1>3. cr'.spec \in KnownSpecs' /\ KnownSpecs \subseteq KnownSpecs'
  BY OriginsGrow DEF KnownSpecs
<1>4. \A q \in Operators : CopyKnown(q)'
  BY <1>1, CopySame DEF OriginInv
<1> QED
  BY <1>1, <1>2, <1>3, <1>4 DEF OriginInv

LEMMA OriginInit == OriginsInit => OriginInv
BY DEF OriginsInit, Init, OriginInv, CopyKnown, Current, Steps

\* A step that is not the user's.
LEMMA SystemStep ==
  ASSUME StatusInv, Next, budget'.creates = budget.creates, budget'.edits = budget.edits
  PROVE  \/ \E o \in Operators : OperatorNext(o)
         \/ \E p \in Pods : PodNext(p)
<1>1. ASSUME User PROVE FALSE
  <2>1. budget \in Budgets
    BY DEF StatusInv, PassInv, PassesOK
  <2>2. CASE CreateResource
    <3>1. budget' = [budget EXCEPT !.creates = budget.creates - 1]
      BY <2>2 DEF CreateResource
    <3>2. budget'.creates = budget.creates - 1 /\ budget.creates \in Nat
      BY <2>1, <3>1 DEF Budgets
    <3> QED
      BY <3>2
  <2>3. CASE EditSpec
    <3>1. budget' = [budget EXCEPT !.edits = budget.edits - 1]
      BY <2>3 DEF EditSpec
    <3>2. budget'.edits = budget.edits - 1 /\ budget.edits \in Nat
      BY <2>1, <3>1 DEF Budgets
    <3> QED
      BY <3>2
  <2> QED
    BY <1>1, <2>2, <2>3 DEF User
<1> QED
  BY <1>1 DEF Next

LEMMA OriginNext ==
  StatusInv /\ StatusInv' /\ OriginInv /\ [OriginsNext]_<< vars, submitted >> => OriginInv'
<1> SUFFICES ASSUME StatusInv, StatusInv', OriginInv, [OriginsNext]_<< vars, submitted >>
             PROVE  OriginInv'
  OBVIOUS
<1>1. CASE UNCHANGED << cr, cache, pc, work, submitted >>
  BY <1>1, CopySame DEF OriginInv, KnownSpecs
<1>2. CASE User /\ submitted' = submitted \cup {cr'.spec}
  BY <1>2, UserKnown
<1>3. ASSUME NEW o \in Operators, OperatorNext(o), UNCHANGED submitted PROVE OriginInv'
  BY <1>3, ReconcileKnown, PassStepMoves, MoveKnown, WriteKnown, OtherKnown, SyncKnown
     DEF OperatorNext, Step, PassStep
<1>4. ASSUME NEW p \in Pods, PodNext(p), UNCHANGED submitted PROVE OriginInv'
  BY <1>1, <1>4 DEF PodNext, StartPod, RunPod, FinishPod, FailPod, local
<1> QED
  BY <1>1, <1>2, <1>3, <1>4, SystemStep DEF OriginsNext, vars, local

LEMMA OriginsRefine == OriginsSpec => Spec
<1>1. [OriginsNext]_<< vars, submitted >> => [Next]_vars
  BY DEF OriginsNext, Next
<1> QED
  BY <1>1, PTL DEF OriginsSpec, OriginsInit, Spec

\* Every spec in the API server, in a cache or in a pass is the user's, or one of theirs
\* completed.
THEOREM SpecsHaveOrigin == OriginsSpec => []OriginInv
BY OriginInit, OriginNext, OriginsRefine, StatusInvariant, PTL DEF OriginsSpec

----------------------------------------------------------------------------
(* The refinement.                                                         *)

\* The template of a pass for an accepted spec is one that was asked for.
LEMMA PassTemplates ==
  ASSUME OriginInv, NEW spec \in PassSpecs
  PROVE  /\ spec.configuration \in Asked
         /\ ~spec.pause => DesiredTemplate(spec) \in AskedTemplates
         /\ spec.pause => PauseAsked
<1>1. PICK s \in AcceptedSpecs : spec = Defaulted(s)
  BY DEF PassSpecs
<1>2. s \in submitted /\ s \in Specs /\ Accepted(s)
  BY <1>1 DEF AcceptedSpecs, OriginInv
<1>3. /\ spec.configuration = Printed(s)
      /\ spec.image = s.image
      /\ spec.pause = s.pause
  BY <1>1, <1>2, DefaultedFields
<1>4. spec.pause \in BOOLEAN
  BY <1>2, <1>3 DEF Specs
<1>5. DesiredTemplate(spec) = [text |-> Printed(s), image |-> s.image]
  BY <1>3 DEF DesiredTemplate
<1> QED
  BY <1>1, <1>3, <1>5 DEF Asked, AskedTemplates, PauseAsked

\* What of the mapped state a step leaves alone.
PublishedSame == Shown(cm, "text")' = Shown(cm, "text")
RunningSame   == Shown(job, "template")' = Shown(job, "template")

\* The spec of a pass that writes objects.
LEMMA WriterSpec ==
  ASSUME OriginInv, NEW o \in Operators, pc[o] \in Steps \ Writing
  PROVE  work[o].cr.spec \in PassSpecs
BY DEF OriginInv, CopyKnown, Writing

LEMMA ConfigMapMaps ==
  ASSUME StatusInv, OriginInv, NEW o \in Operators,
         CreateOrUpdateConfigMap(o) \/ UpdateCreatedConfigMap(o), UNCHANGED submitted
  PROVE  \/ Promise!Publish /\ cm' # Absent
         \/ UNCHANGED << submitted, cm, job, cr >>
<1>1. UNCHANGED << cr, job, submitted >>
  BY DEF CreateOrUpdateConfigMap, UpdateCreatedConfigMap, objects
<1>2. pc[o] \in Steps \ Writing
  BY DEF CreateOrUpdateConfigMap, UpdateCreatedConfigMap, Steps, Writing
<1>3. \/ cm' = cm
      \/ cm' = DesiredConfigMap(work[o].cr)
  BY DEF CreateOrUpdateConfigMap, UpdateCreatedConfigMap, objects
<1>4. CASE cm' = DesiredConfigMap(work[o].cr)
  <2>1. work[o].cr \in Resources /\ work[o].cr.uid \in Nat /\ work[o].cr.spec \in Specs
    BY <1>2, Busy DEF StatusInv, PassInv
  <2>2. cm' \in ConfigMaps
    BY <1>4, <2>1 DEF DesiredConfigMap, ConfigMaps, Specs
  <2>3. cm' # Absent
    BY <2>2, ConstantsAssumption
  <2>4. Shown(cm, "text")' = work[o].cr.spec.configuration
    BY <1>4, <2>3 DEF Shown, DesiredConfigMap
  <2>5. Shown(cm, "text")' \in Asked
    BY <1>2, <2>4, WriterSpec, PassTemplates
  <2>6. UNCHANGED << Asked, AskedTemplates, PauseAsked, Reports >> /\ RunningSame
    BY <1>1 DEF Asked, AskedTemplates, PauseAsked, AcceptedSpecs, Reports, RunningSame, Shown
  <2> QED
    BY <2>3, <2>5, <2>6 DEF Promise!Publish, Promise!asks, RunningSame
<1> QED
  BY <1>1, <1>3, <1>4

LEMMA JobMaps ==
  ASSUME StatusInv, OriginInv, NEW o \in Operators,
         CreateJob(o) \/ DeleteJob(o) \/ UpdateJob(o) \/ UpdateCreatedJob(o), UNCHANGED submitted
  PROVE  /\ UNCHANGED << submitted, cm, cr >>
         /\ \/ Promise!Run /\ job' # Absent
            \/ Promise!Stop /\ job' = Absent
            \/ RunningSame
<1> DEFINE spec == work[o].cr.spec
<1>1. UNCHANGED << cr, cm, submitted >>
  BY DEF CreateJob, DeleteJob, UpdateJob, UpdateCreatedJob, objects
<1> SUFFICES \/ Promise!Run /\ job' # Absent
             \/ Promise!Stop /\ job' = Absent
             \/ RunningSame
  BY <1>1
<1>2. pc[o] \in Steps \ Writing
  BY DEF CreateJob, DeleteJob, UpdateJob, UpdateCreatedJob, Steps, Writing
<1>3. /\ UNCHANGED << Asked, AskedTemplates, PauseAsked, Reports >>
      /\ PublishedSame
  BY <1>1 DEF Asked, AskedTemplates, PauseAsked, AcceptedSpecs, Reports, PublishedSame, Shown
<1>4. /\ work[o] \in Works /\ work[o].cr \in Resources /\ work[o].cr.uid \in Nat
      /\ spec \in Specs /\ spec \in PassSpecs
  BY <1>2, Busy, WriterSpec DEF StatusInv, PassInv
<1>5. job \in Jobs \cup {Absent} /\ cm \in ConfigMaps \cup {Absent}
  BY DEF StatusInv, StoreInv, StoreOK
<1>6. CASE DeleteJob(o)
  <2>1. spec.pause /\ job' \in {job, Absent}
    BY <1>6 DEF DeleteJob
  <2>2. PauseAsked
    BY <1>4, <2>1, PassTemplates
  <2>3. CASE job' = job
    BY <1>1, <2>3 DEF RunningSame, Shown
  <2>4. CASE job' # job
    <3>1. job \in Jobs /\ job' = Absent
      BY <1>5, <2>1, <2>4
    <3>2. job.template \in Templates /\ job.template # Absent
      BY <3>1, ConstantsAssumption DEF Jobs
    <3>3. Shown(job, "template") # Absent /\ Shown(job, "template")' = Absent
      BY <3>1, <3>2, <1>5, ConstantsAssumption DEF Shown
    <3> QED
      BY <1>3, <2>2, <3>1, <3>3 DEF Promise!Stop, Promise!asks, PublishedSame
  <2> QED
    BY <2>3, <2>4
<1>7. CASE CreateJob(o) \/ UpdateJob(o) \/ UpdateCreatedJob(o)
  <2>1. \/ job' = job
        \/ \E found \in Jobs \cup {Absent} :
             /\ job' = DesiredJob(work[o].cr, found)
             /\ job # Absent /\ job.template = DesiredTemplate(spec)
        \/ job = Absent /\ job' = DesiredJob(work[o].cr, Absent) /\ ~spec.pause
    <3>1. work[o].found \in Jobs \cup {Absent}
      BY <1>4 DEF Works
    <3> QED
      BY <1>7, <3>1 DEF CreateJob, UpdateJob, UpdateCreatedJob, objects, DesiredJob
  <2>2. CASE job' = job
    BY <1>1, <2>2 DEF RunningSame, Shown
  <2>3. ASSUME job # Absent, job.template = DesiredTemplate(spec),
               NEW found \in Jobs \cup {Absent}, job' = DesiredJob(work[o].cr, found)
        PROVE  RunningSame
    <3>1. job' # Absent
      <4>1. found # Absent => found.owner \in Nat
        BY DEF Jobs
      <4>2. job' \in Jobs
        BY <1>4, <2>3, <4>1 DEF DesiredJob, Jobs, DesiredTemplate, Templates, Specs
      <4> QED
        BY <4>2, ConstantsAssumption
    <3>2. job'.template = DesiredTemplate(spec)
      BY <2>3 DEF DesiredJob
    <3> QED
      BY <2>3, <3>1, <3>2 DEF RunningSame, Shown
  <2>4. CASE job = Absent /\ job' = DesiredJob(work[o].cr, Absent) /\ ~spec.pause
    <3>1. job' = [owner |-> work[o].cr.uid, template |-> DesiredTemplate(spec), backoff |-> spec.backoff]
      BY <2>4 DEF DesiredJob
    <3>2. job' \in Jobs
      BY <1>4, <3>1 DEF Jobs, DesiredTemplate, Templates, Specs
    <3>3. job' # Absent /\ job'.template = DesiredTemplate(spec)
      BY <3>1, <3>2, ConstantsAssumption
    <3>4. Shown(job, "template") = Absent /\ Shown(job, "template")' \in AskedTemplates
      BY <1>4, <2>4, <3>3, PassTemplates DEF Shown
    <3> QED
      BY <1>3, <3>3, <3>4 DEF Promise!Run, Promise!asks, PublishedSame
  <2> QED
    BY <2>1, <2>2, <2>3, <2>4
<1> QED
  BY <1>6, <1>7

\* What is there to see of an object that is there.
LEMMA ShownOnlyIfThere ==
  ASSUME StatusInv
  PROVE  /\ Shown(cm, "text") = Absent <=> cm = Absent
         /\ Shown(job, "template") = Absent <=> job = Absent
<1>1. job \in Jobs \cup {Absent} /\ cm \in ConfigMaps \cup {Absent}
  BY DEF StatusInv, StoreInv, StoreOK
<1>2. cm # Absent => cm.text \in Texts \cup {""}
  BY <1>1 DEF ConfigMaps
<1>3. job # Absent => job.template \in Templates
  BY <1>1 DEF Jobs
<1> QED
  BY <1>2, <1>3, ConstantsAssumption DEF Shown

\* A job that is made finds the ConfigMap there.
LEMMA RunMounted ==
  ASSUME StatusInv, MountsBeforeJob', Promise!Run, job' # Absent, UNCHANGED cm
  PROVE  Promise!Start
BY ShownOnlyIfThere DEF MountsBeforeJob, Promise!Start

\* What a step of the operator that reaches neither the ConfigMap nor the job leaves.
LEMMA ReportMaps ==
  ASSUME StatusInv, LatestInv, NEW o \in Operators, WriteStatus(o) \/ FallbackUpdate(o),
         UNCHANGED submitted
  PROVE  Promise!Report
<1>1. UNCHANGED << cm, job, submitted >>
  BY DEF WriteStatus, FallbackUpdate, objects
<1>2. UNCHANGED << Asked, AskedTemplates, PauseAsked >> /\ PublishedSame /\ RunningSame
  BY <1>1 DEF Asked, AskedTemplates, PauseAsked, AcceptedSpecs, PublishedSame, RunningSame, Shown
<1>3. Extends(Reports', Reports)
  <2>1. CASE cr' = cr
    BY <2>1 DEF Reports, Extends
  <2>2. CASE cr' # cr
    <3>1. cr # Absent
      BY <2>2 DEF WriteStatus, FallbackUpdate, Accepts
    <3>2. Extends(cr'.status.conditions, cr.status.conditions)
      BY <3>1, WriteKeeps
    <3>3. cr' # Absent
      <4>1. \/ cr' = [cr EXCEPT !.status = work[o].cr.status]
            \/ cr' = [cr EXCEPT !.spec = work[o].cr.spec]
        BY <2>2 DEF WriteStatus, FallbackUpdate, Stored
      <4>2. pc[o] \in Steps
        BY DEF WriteStatus, FallbackUpdate, Steps
      <4>3. cr \in Resources /\ work[o].cr.status \in Statuses /\ work[o].cr.spec \in Specs
        BY <3>1, <4>2, Busy DEF StatusInv, StoreInv, StoreOK, PassInv
      <4>4. cr' \in Resources
        BY <4>1, <4>3 DEF Resources
      <4> QED
        BY <4>4, ConstantsAssumption
    <3> QED
      BY <3>1, <3>2, <3>3 DEF Reports
  <2> QED
    BY <2>1, <2>2
<1>4. Promise!Extends(Reports', Reports)
  BY <1>3 DEF Extends, Promise!Extends, AppStates, Promise!AppStates
<1> QED
  BY <1>2, <1>4 DEF Promise!Report, Promise!asks, PublishedSame, RunningSame

LEMMA UserMaps ==
  ASSUME StatusInv, StatusInv', User, submitted' = submitted \cup {cr'.spec}
  PROVE  Promise!Ask
<1>1. UNCHANGED << cm, job >>
  BY DEF User, CreateResource, EditSpec, objects
<1>2. PublishedSame /\ RunningSame
  BY <1>1 DEF PublishedSame, RunningSame, Shown
<1>3. AcceptedSpecs \subseteq AcceptedSpecs'
  BY DEF AcceptedSpecs
<1>4. Asked \subseteq Asked' /\ AskedTemplates \subseteq AskedTemplates'
      /\ (PauseAsked => PauseAsked')
  BY <1>3 DEF Asked, AskedTemplates, PauseAsked
<1>5. Reports' = Reports
  <2>1. CASE CreateResource
    <3>1. cr = Absent /\ cr'.status = NewStatus
      BY <2>1 DEF CreateResource, Stored
    <3>2. NewStatus.conditions = << >>
      BY DEF NewStatus
    <3>3. cr'.status.conditions = << >>
      BY <3>1, <3>2
    <3> QED
      BY <3>1, <3>3 DEF Reports
  <2>2. CASE EditSpec
    <3>1. cr # Absent /\ \E spec : cr' = [cr EXCEPT !.spec = spec]
      BY <2>2 DEF EditSpec, Stored
    <3>2. cr \in Resources
      BY <3>1 DEF StatusInv, StoreInv, StoreOK
    <3>3. cr'.status = cr.status
      BY <3>1, <3>2 DEF Resources
    <3>4. cr' # Absent
      <4>1. cr'.uid = cr.uid /\ cr.uid \in Nat
        BY <3>1, <3>2 DEF Resources
      <4>2. PICK spec, configuration :
               /\ spec \in UserSpecs
               /\ configuration \in {spec.configuration, cr.spec.configuration}
               /\ cr' = [cr EXCEPT !.spec = [spec EXCEPT !.configuration = configuration]]
        BY <2>2 DEF EditSpec, Stored
      <4>3. [spec EXCEPT !.configuration = configuration] \in Specs
        BY <3>2, <4>2, ConstantsAssumption DEF Resources, Specs
      <4>4. cr' \in Resources
        BY <3>2, <4>2, <4>3 DEF Resources
      <4> QED
        BY <4>4, ConstantsAssumption
    <3> QED
      BY <3>1, <3>3, <3>4 DEF Reports
  <2> QED
    BY <2>1, <2>2 DEF User
<1> QED
  BY <1>2, <1>4, <1>5 DEF Promise!Ask, Promise!shown, PublishedSame, RunningSame

\* The mapped state, all of it.
Mapped == << << Asked, AskedTemplates, PauseAsked >>,
             << Shown(cm, "text"), Shown(job, "template"), Reports >> >>

LEMMA MappedSame ==
  ASSUME UNCHANGED << submitted, cm, cr >>, RunningSame
  PROVE  UNCHANGED Mapped
BY DEF Mapped, RunningSame, Asked, AskedTemplates, PauseAsked, AcceptedSpecs, Reports, Shown

LEMMA OperatorMaps ==
  ASSUME StatusInv, LatestInv, OriginInv, MountsBeforeJob', NEW o \in Operators,
         OperatorNext(o), UNCHANGED submitted
  PROVE  [Promise!Next]_Mapped
<1>1. CASE UNCHANGED << cr, cm, job >>
  <2>1. RunningSame
    BY <1>1 DEF RunningSame, Shown
  <2> QED
    BY <1>1, <2>1, MappedSame
<1>2. CASE CreateOrUpdateConfigMap(o) \/ UpdateCreatedConfigMap(o)
  BY <1>1, <1>2, ConfigMapMaps DEF Promise!Next
<1>3. CASE CreateJob(o) \/ DeleteJob(o) \/ UpdateJob(o) \/ UpdateCreatedJob(o)
  BY <1>3, JobMaps, RunMounted, MappedSame DEF Promise!Next
<1>4. CASE WriteStatus(o) \/ FallbackUpdate(o)
  BY <1>4, ReportMaps DEF Promise!Next
<1>5. CASE \/ Reconcile(o) \/ CheckMongodbConnection(o)
           \/ CreateOrUpdateClaim(o) \/ UpdateCreatedClaim(o) \/ ReconcileJob(o)
           \/ ReportJob(o) \/ PanicInStatus(o)
           \/ ApiFault(o) \/ Sync(o) \/ Crash(o) \/ Restart(o)
  BY <1>1, <1>5 DEF Reconcile, CheckMongodbConnection, CreateOrUpdateClaim, UpdateCreatedClaim,
     ReconcileJob, ReportJob, PanicInStatus, ApiFault, Sync, SyncResource, SyncConfigMap, SyncClaim,
     SyncJob, SyncPods, Crash, Restart, objects
<1> QED
  BY <1>2, <1>3, <1>4, <1>5 DEF OperatorNext, Step

LEMMA StepMaps ==
  /\ StatusInv /\ StatusInv' /\ LatestInv /\ OriginInv /\ MountsBeforeJob'
  /\ [OriginsNext]_<< vars, submitted >>
  => [Promise!Next]_Mapped
<1> SUFFICES ASSUME StatusInv, StatusInv', LatestInv, OriginInv, MountsBeforeJob',
                    [OriginsNext]_<< vars, submitted >>
             PROVE  [Promise!Next]_Mapped
  OBVIOUS
<1>1. CASE UNCHANGED << cr, cm, job, submitted >>
  <2>1. RunningSame
    BY <1>1 DEF RunningSame, Shown
  <2> QED
    BY <1>1, <2>1, MappedSame
<1>2. CASE User /\ submitted' = submitted \cup {cr'.spec}
  BY <1>2, UserMaps DEF Promise!Next
<1>3. ASSUME NEW o \in Operators, OperatorNext(o), UNCHANGED submitted
      PROVE  [Promise!Next]_Mapped
  BY <1>3, OperatorMaps
<1>4. ASSUME NEW p \in Pods, PodNext(p), UNCHANGED submitted PROVE [Promise!Next]_Mapped
  BY <1>1, <1>4 DEF PodNext, StartPod, RunPod, FinishPod, FailPod
<1> QED
  BY <1>1, <1>2, <1>3, <1>4, SystemStep DEF OriginsNext, vars, objects

LEMMA InitMaps == OriginsInit => Promise!Init
BY DEF OriginsInit, Init, Promise!Init, Asked, AskedTemplates, PauseAsked, AcceptedSpecs, Reports,
       Shown

\* The operator implements JobPromise.
THEOREM PromiseKept == OriginsSpec => KeepsPromise
<1>1. /\ StatusInv /\ StatusInv' /\ LatestInv /\ OriginInv /\ MountsBeforeJob'
      /\ [OriginsNext]_<< vars, submitted >>
      => [Promise!Next]_<< Promise!asks, Promise!shown >>
  BY StepMaps DEF Mapped, Promise!asks, Promise!shown
<1> QED
  BY <1>1, InitMaps, OriginsRefine, SpecsHaveOrigin, StatusInvariant, LatestCopies, MountsFirst, PTL
     DEF OriginsSpec, KeepsPromise, Promise!Spec
=============================================================================

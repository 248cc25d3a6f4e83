----------------------------- MODULE Reconciler -----------------------------
(***************************************************************************)
(* The MongoShake operator reconciling one MongoShake resource.            *)
(*                                                                         *)
(* The API server holds the resource and the objects made for it (cr, cm,  *)
(* pvc, job, pods).  An operator process reads them through informer       *)
(* caches that lag arbitrarily, one kind independently of another, and     *)
(* writes to the API server.  Reconcile runs as a sequence of steps, one   *)
(* per function that talks to the API server, so that the user, the Job    *)
(* controller, the kubelet and a second operator process (leader election  *)
(* is off) act between them.                                               *)
(*                                                                         *)
(* A read from a cache and the write it decides are one step: a cache may  *)
(* lag, so a longer delay between the two adds no behaviour.               *)
(***************************************************************************)
EXTENDS PodOutcome, PingOutcome, FiniteSets

CONSTANTS
  Operators,    \* operator processes
  Pods,         \* names for the pods of the job
  Texts,        \* non-empty contents of collector.conf
  Images,       \* container images
  Sizes,        \* storage requests of the log volume
  Uncanonical,  \* those of Sizes the API server stores in another form, as 1.5Gi
  UserSpecs,    \* specs the user may submit
  Absent,       \* no such object, or a field that is not set
  MaxCreates,   \* bound on the creations of the resource
  MaxEdits,     \* bound on the user's edits of the spec
  MaxFaults,    \* bound on failed pings, pods and API calls
  MaxCrashes    \* bound on crashes of operator processes

Collectors == [mode : SyncModes, mongo : MongoSpecs \cup {Absent},
               tunnel : BOOLEAN, text : Texts]

Specs == [pause : BOOLEAN, collector : Collectors \cup {Absent},
          configuration : Texts \cup {""}, image : Images \cup {""},
          claim : Sizes \cup {Absent}, backoff : Nat, healthCheck : BOOLEAN]

Resources == [uid : Nat, spec : Specs, status : Statuses]

ConfigMaps == [owner : Nat, text : Texts \cup {""}]

Claims == [owner : Nat, size : Sizes]

\* The template carries the hash of the configuration; the annotation
\* last-config-hash of a job is a function of its template and backoff limit.
Templates == [text : Texts \cup {""}, image : Images \cup {""}]

Jobs == [owner : Nat, template : Templates, backoff : Nat]

PodValues == PodPhases \cup {Absent}

\* A pass: the working copy of the resource, whether a panic is unwinding the stack,
\* and the job the first Get of reconcileJob found.
Works == [cr : Resources, panic : BOOLEAN, found : Jobs \cup {Absent}]

ASSUME ConstantsAssumption ==
  /\ UserSpecs \subseteq Specs
  /\ "" \notin Texts
  /\ Absent \notin Resources \cup ConfigMaps \cup Claims \cup Jobs \cup Works
  /\ Absent \notin PodPhases \cup Collectors \cup Sizes \cup MongoSpecs
  /\ Absent \notin Texts \cup {""} \cup Templates
  /\ Absent \notin Nat
  /\ MaxCreates \in Nat
  /\ MaxEdits \in Nat
  /\ MaxFaults \in Nat
  /\ MaxCrashes \in Nat

VARIABLES
  cr,           \* the MongoShake resource
  cm,           \* its ConfigMap
  pvc,          \* its PersistentVolumeClaim
  job,          \* its Job
  pods,         \* the phase of each pod
  cache,        \* what each operator's informers hold
  cachedLatest, \* operators whose cached resource has the current resourceVersion
  queued,       \* operators with a reconcile request in their work queue
  pc,           \* where each operator is in Reconcile
  work,         \* the local variables of Reconcile
  heldLatest,   \* operators whose working copy has the current resourceVersion
  budget        \* what is left of the bounds

objects == << cm, pvc, job, pods >>
local   == << queued, pc, work >>
latest  == << cachedLatest, heldLatest >>
vars    == << cr, objects, cache, local, latest, budget >>

----------------------------------------------------------------------------
(* CheckNSetDefaults.                                                      *)

\* A faulty variant of Invalid: a missing image is not noticed.
InvalidButImage(spec) ==
  /\ spec.configuration = ""
  /\ \/ spec.collector = Absent
     \/ spec.collector.mode = ""
     \/ spec.collector.mongo = Absent
     \/ ~spec.collector.tunnel

\* The five required values, which are looked at only without a configuration.
Invalid(spec) ==
  /\ spec.configuration = ""
  /\ \/ spec.collector = Absent
     \/ spec.collector.mode = ""
     \/ spec.collector.mongo = Absent
     \/ ~spec.collector.tunnel
     \/ spec.image = ""

\* The text completedConfig writes becomes the configuration.
Defaulted(spec) ==
  IF spec.configuration = "" /\ ~Invalid(spec)
  THEN [spec EXCEPT !.configuration = spec.collector.text] ELSE spec

Mode(spec) == IF spec.collector = Absent THEN "" ELSE spec.collector.mode

----------------------------------------------------------------------------
(* What a pass wants to exist.                                             *)

\* The owner of an object without owner reference.
NoOwner == 0

\* Faulty variants of DesiredConfigMap and DesiredJob: setControllerReference is left out.
UnownedConfigMap(r) == [owner |-> NoOwner, text |-> r.spec.configuration]
UnownedJob(r, found) ==
  [owner |-> NoOwner, backoff |-> r.spec.backoff,
   template |-> [text |-> r.spec.configuration, image |-> r.spec.image]]

DesiredConfigMap(r) == [owner |-> r.uid, text |-> r.spec.configuration]

DesiredClaim(r) == [owner |-> r.uid, size |-> r.spec.claim]

DesiredTemplate(spec) == [text |-> spec.configuration, image |-> spec.image]

\* MongoshakeJob and MongoshakeJobSpec.  A job that the first Get found keeps its
\* metadata, owner included.
DesiredJob(r, found) ==
  [owner |-> IF found = Absent THEN r.uid ELSE found.owner,
   template |-> DesiredTemplate(r.spec), backoff |-> r.spec.backoff]

\* A faulty variant of SameSpec: the hash leaves out the template.
SameBackoff(known, wanted) == known.backoff = wanted.backoff

\* The hash of getObjectHash: the specs of the two jobs are equal.
SameSpec(known, wanted) ==
  known.template = wanted.template /\ known.backoff = wanted.backoff

----------------------------------------------------------------------------
(* The local state of a pass, and how its steps end.                       *)

Steps == {"ping", "configMap", "configMapUpdate", "claim", "claimUpdate", "job",
          "jobWrite", "jobUpdate", "status", "statusWrite", "fallback"}

\* What the code looks at of each cached object: the text of a ConfigMap, the size of
\* a claim, the whole of a job.
Caches == [cr : Resources \cup {Absent}, cm : Texts \cup {"", Absent},
           pvc : Sizes \cup {Absent}, job : Jobs \cup {Absent},
           pods : [Pods -> PodValues]]

Budgets == [creates : Nat, edits : Nat, faults : Nat, crashes : Nat]

Shown(object, field) == IF object = Absent THEN Absent ELSE object[field]

Current == [cr |-> cr, cm |-> Shown(cm, "text"), pvc |-> Shown(pvc, "size"),
            job |-> job, pods |-> pods]

Goto(o, step) ==
  /\ pc' = [pc EXCEPT ![o] = step]
  /\ UNCHANGED << work, budget >>

\* The pass gives its working copy another status.
WithStatus(w, status) == [w EXCEPT !.cr.status = status]

Checked(status, health) == [status EXCEPT !.health = health]

\* The rest of the pass is skipped, and the deferred updateStatus puts the error in the
\* status of the working copy, whose health check the pass may have changed.
Abort(o, health) ==
  LET status == Checked(work[o].cr.status, health) IN
  /\ pc' = [pc EXCEPT ![o] = "statusWrite"]
  /\ work' = [work EXCEPT ![o] = WithStatus(work[o], ErrorReported(status))]

Health(o) == work[o].cr.status.health

Fail(o) == Abort(o, Health(o)) /\ UNCHANGED budget

Fault == budget.faults > 0 /\ budget' = [budget EXCEPT !.faults = @ - 1]

\* A write that reached the API server is answered, or its answer is lost.
Answered(o, step) ==
  \/ Goto(o, step)
  \/ Fault /\ Abort(o, Health(o))

\* A nil pointer is dereferenced.  The deferred updateStatus runs while the stack
\* unwinds; err is nil then.
Panic(o) ==
  /\ pc' = [pc EXCEPT ![o] = "status"]
  /\ work' = [work EXCEPT ![o].panic = TRUE]
  /\ UNCHANGED budget

\* A faulty variant of Finish: the working copy survives the pass.
FinishHolding(o) ==
  /\ pc' = [pc EXCEPT ![o] = IF work[o].panic THEN "down" ELSE "idle"]
  /\ UNCHANGED work

\* The pass is over; its request, which is queued again after an error or in five
\* seconds, never left the queue here.  A panic that reaches the controller ends the
\* process.
Finish(o) ==
  /\ pc' = [pc EXCEPT ![o] = IF work[o].panic THEN "down" ELSE "idle"]
  /\ work' = [work EXCEPT ![o] = Absent]

----------------------------------------------------------------------------
(* Reconcile, step by step.                                                *)

\* CheckMongodbConnection has nothing to do.
NoPing(r) == ~r.spec.healthCheck \/ r.spec.pause \/ r.status.health = "success"

\* Get of the resource, then CheckNSetDefaults on the copy.  A resource that is not
\* there ends the pass, and nothing is queued.
Reconcile(o) ==
  /\ pc[o] = "idle"
  /\ queued[o]
  /\ \/ /\ cache[o].cr = Absent
        /\ queued' = [queued EXCEPT ![o] = FALSE]
        /\ UNCHANGED << pc, work, heldLatest >>
     \/ LET got  == cache[o].cr
            copy == IF Invalid(got.spec) THEN [got EXCEPT !.status = ErrorReported(@)]
                                         ELSE [got EXCEPT !.spec = Defaulted(@)]
        IN
        /\ got # Absent
        /\ work' = [work EXCEPT ![o] = [cr |-> copy, panic |-> FALSE, found |-> Absent]]
        /\ pc' = [pc EXCEPT ![o] = IF Invalid(got.spec) THEN "statusWrite"
                                   ELSE IF NoPing(got) THEN "configMap" ELSE "ping"]
        /\ heldLatest' = IF o \in cachedLatest THEN heldLatest \cup {o}
                                               ELSE heldLatest \ {o}
        /\ UNCHANGED queued
  /\ UNCHANGED << cr, objects, cache, cachedLatest, budget >>

\* The loop over the URLs is that of module HealthCheck.
CheckMongodbConnection(o) ==
  LET collector == work[o].cr.spec.collector
      Outcomes  == CheckOutcomes(collector.mode, collector.mongo)
  IN
  /\ pc[o] = "ping"
  /\ IF collector = Absent THEN Fail(o)
     ELSE IF collector.mongo = Absent THEN Fail(o)
     ELSE
       \/ /\ "success" \in Outcomes
          /\ work' = [work EXCEPT ![o] =
                        WithStatus(work[o], Checked(work[o].cr.status, "success"))]
          /\ pc' = [pc EXCEPT ![o] = "configMap"]
          /\ UNCHANGED budget
       \/ /\ "failed" \in Outcomes
          /\ Fault
          /\ Abort(o, "failed")
       \/ /\ "panic" \in Outcomes
          /\ Panic(o)
  /\ UNCHANGED << cr, objects, cache, queued, latest >>

\* createOrUpdateConfigMap up to its first write.
CreateOrUpdateConfigMap(o) ==
  LET known  == cache[o].cm
      wanted == DesiredConfigMap(work[o].cr)
  IN
  /\ pc[o] = "configMap"
  /\ \/ /\ known = Absent /\ cm = Absent
        /\ cm' = wanted
        /\ Answered(o, "configMapUpdate")
     \/ /\ known = Absent /\ cm # Absent        \* already exists
        /\ Fail(o)
        /\ UNCHANGED cm
     \/ /\ known # Absent /\ known = wanted.text
        /\ Goto(o, "claim")
        /\ UNCHANGED cm
     \/ /\ known # Absent /\ known # wanted.text /\ cm # Absent
        /\ cm' = wanted                         \* whatever its resourceVersion
        /\ Answered(o, "claim")
     \/ /\ known # Absent /\ known # wanted.text /\ cm = Absent
        /\ Fail(o)
        /\ UNCHANGED cm
  /\ UNCHANGED << cr, pvc, job, pods, cache, queued, latest >>

\* The update that follows a create, because the data compared with is still that of
\* the empty result of Get; it carries the resourceVersion of the created object.
UpdateCreatedConfigMap(o) ==
  /\ pc[o] = "configMapUpdate"
  /\ IF cm = DesiredConfigMap(work[o].cr) THEN Goto(o, "claim") ELSE Fail(o)
  /\ UNCHANGED << cr, objects, cache, queued, latest >>

\* A faulty variant of WithoutClaim: the claim is left out, but the job still mounts it.
SkippedClaim(o) == Goto(o, "job")

\* Without a claim in the spec a nil pointer is dereferenced.
WithoutClaim(o) == Panic(o)

\* The comparison of two quantities by their representation.
SameQuantity(known, size) == known = size /\ size \notin Uncanonical

\* reconcileMongoshakeLogPVC and createOrUpdatePersistentVolumeClaim up to its first
\* write.  The API server rejects the update of a claim that exists, whatever its size:
\* the claim sent has no volume.
CreateOrUpdateClaim(o) ==
  LET known  == cache[o].pvc
      wanted == DesiredClaim(work[o].cr)
  IN
  /\ pc[o] = "claim"
  /\ IF work[o].cr.spec.claim = Absent
     THEN WithoutClaim(o) /\ UNCHANGED pvc
     ELSE \/ /\ known = Absent /\ pvc = Absent
             /\ pvc' = wanted
             /\ Answered(o, "claimUpdate")
          \/ /\ known = Absent /\ pvc # Absent
             /\ Fail(o)
             /\ UNCHANGED pvc
          \/ /\ known # Absent
             /\ IF SameQuantity(known, wanted.size) THEN Goto(o, "job") ELSE Fail(o)
             /\ UNCHANGED pvc
  /\ UNCHANGED << cr, cm, job, pods, cache, queued, latest >>

\* The update after a create: a conflict if the volume binder wrote to the claim in
\* between.
UpdateCreatedClaim(o) ==
  /\ pc[o] = "claimUpdate"
  /\ \/ pvc = DesiredClaim(work[o].cr) /\ Goto(o, "job")
     \/ Fail(o)
  /\ UNCHANGED << cr, objects, cache, queued, latest >>

\* A faulty variant of ReconcileJob: a paused resource is left with the job it has.
LeavesPausedJob(o) ==
  /\ pc[o] = "job"
  /\ work' = [work EXCEPT ![o].found = cache[o].job]
  /\ pc' = [pc EXCEPT ![o] = IF work[o].cr.spec.pause THEN "status" ELSE "jobWrite"]
  /\ UNCHANGED << cr, objects, cache, queued, latest, budget >>

\* A faulty variant of ReconcileJob: a missing job ends it, pause or not.
LeavesMissingJob(o) ==
  /\ pc[o] = "job"
  /\ work' = [work EXCEPT ![o].found = cache[o].job]
  /\ pc' = [pc EXCEPT ![o] = IF cache[o].job = Absent THEN "status" ELSE "jobWrite"]
  /\ UNCHANGED << cr, objects, cache, queued, latest, budget >>

\* reconcileJob up to the call of createOrUpdateJob.
ReconcileJob(o) ==
  /\ pc[o] = "job"
  /\ work' = [work EXCEPT ![o].found = cache[o].job]
  /\ pc' = [pc EXCEPT ![o] = IF cache[o].job = Absent /\ work[o].cr.spec.pause
                             THEN "status" ELSE "jobWrite"]
  /\ UNCHANGED << cr, objects, cache, queued, latest, budget >>

\* createOrUpdateJob when its own Get finds no job.  Create refuses an object with a
\* resourceVersion, which a job has that the first Get still found.
CreateJob(o) ==
  /\ pc[o] = "jobWrite"
  /\ cache[o].job = Absent
  /\ \/ /\ work[o].cr.spec.pause
        /\ Goto(o, "status")
        /\ UNCHANGED job
     \/ /\ ~work[o].cr.spec.pause
        /\ work[o].found = Absent /\ job = Absent
        /\ job' = DesiredJob(work[o].cr, Absent)
        /\ Answered(o, "jobUpdate")
     \/ /\ ~work[o].cr.spec.pause
        /\ work[o].found # Absent \/ job # Absent
        /\ Fail(o)
        /\ UNCHANGED job
  /\ UNCHANGED << cr, cm, pvc, pods, cache, queued, latest >>

\* createOrUpdateJob when the resource is paused: the job is deleted by name and its
\* pods are orphaned.
DeleteJob(o) ==
  /\ pc[o] = "jobWrite"
  /\ cache[o].job # Absent
  /\ work[o].cr.spec.pause
  /\ \/ /\ job # Absent
        /\ job' = Absent
        /\ work' = [work EXCEPT ![o] =
                      WithStatus(work[o], Checked(work[o].cr.status, ""))]
        /\ pc' = [pc EXCEPT ![o] = "status"]
        /\ UNCHANGED budget
     \/ /\ Fault                                \* the call fails, or its answer is lost
        /\ job' \in {job, Absent}
        /\ Abort(o, "")
     \/ /\ job = Absent                         \* not found
        /\ Abort(o, "")
        /\ UNCHANGED << job, budget >>
  /\ UNCHANGED << cr, cm, pvc, pods, cache, queued, latest >>

\* createOrUpdateJob on a job: it is updated when its hash differs, or its metadata,
\* which is empty when only the second Get found it.  The update carries the
\* resourceVersion of the cached job; a template is immutable.
UpdateJob(o) ==
  LET known    == cache[o].job
      wanted   == DesiredJob(work[o].cr, work[o].found)
      same     == SameSpec(known, wanted) /\ work[o].found # Absent
      accepted == job = known /\ job.template = wanted.template
  IN
  /\ pc[o] = "jobWrite"
  /\ known # Absent
  /\ ~work[o].cr.spec.pause
  /\ \/ /\ same
        /\ Goto(o, "status")
        /\ UNCHANGED job
     \/ /\ ~same
        /\ accepted
        /\ job' = wanted
        /\ Answered(o, "status")
     \/ /\ ~same
        /\ ~accepted
        /\ Fail(o)
        /\ UNCHANGED job
  /\ UNCHANGED << cr, cm, pvc, pods, cache, queued, latest >>

\* The update after a create: the cached job is empty, so that the hash differs, and
\* the update is made whatever the resourceVersion.
UpdateCreatedJob(o) ==
  LET wanted   == DesiredJob(work[o].cr, Absent)
      accepted == job # Absent /\ job.template = wanted.template
  IN
  /\ pc[o] = "jobUpdate"
  /\ \/ /\ accepted
        /\ job' = wanted
        /\ Answered(o, "status")
     \/ /\ ~accepted
        /\ Fail(o)
        /\ UNCHANGED job
  /\ UNCHANGED << cr, cm, pvc, pods, cache, queued, latest >>

----------------------------------------------------------------------------
(* updateStatus, deferred: it ends every pass that found the resource.     *)

\* getJobPods: the cached pods.  The collector has no readiness probe, so that a pod
\* is ready when it runs.
ListedPods(o) ==
  [p \in {q \in Pods : cache[o].pods[q] # Absent} |->
     [phase |-> cache[o].pods[p], ready |-> cache[o].pods[p] = "Running"]]

\* A paused resource without collector has a mode that cannot be read.
UnreadableMode(o) ==
  /\ work[o].cr.spec.pause
  /\ DOMAIN ListedPods(o) # {}
  /\ work[o].cr.spec.collector = Absent

\* A pod whose deletion fails is only logged.
ReportJob(o) ==
  LET spec == work[o].cr.spec IN
  /\ pc[o] = "status"
  /\ ~UnreadableMode(o)
  /\ \E outcome \in PodOutcomes(spec.pause, Mode(spec), ListedPods(o)) :
       /\ work' = [work EXCEPT ![o] =
                     WithStatus(work[o], JobReported(work[o].cr.status, outcome.state,
                                                     "initializing"))]
       /\ \E spared \in SUBSET outcome.deleted :
            /\ IF spared = {} THEN UNCHANGED budget ELSE Fault
            /\ pods' = [p \in Pods |-> IF p \in outcome.deleted \ spared THEN Absent
                                                                        ELSE pods[p]]
  /\ pc' = [pc EXCEPT ![o] = "statusWrite"]
  /\ UNCHANGED << cr, cm, pvc, job, cache, queued, latest >>

\* The panic of a nil collector in the deferred call ends the process at once.
PanicInStatus(o) ==
  /\ pc[o] = "status"
  /\ UnreadableMode(o)
  /\ pc' = [pc EXCEPT ![o] = "down"]
  /\ work' = [work EXCEPT ![o] = Absent]
  /\ heldLatest' = heldLatest \ {o}
  /\ UNCHANGED << cr, objects, cache, queued, cachedLatest, budget >>

\* A faulty variant of Accepts: the update carries no resourceVersion.
AcceptsAny(o) == cr # Absent

\* The API server accepts an update of the resource from operator o: it carries the
\* resourceVersion of the working copy.
Accepts(o) == cr # Absent /\ o \in heldLatest

\* A write that changes the resource outdates every copy of it.
Stored(new, writers) ==
  /\ cr' = new
  /\ cachedLatest' = IF new = cr THEN cachedLatest ELSE {}
  /\ heldLatest' = IF new = cr THEN heldLatest \cap writers ELSE {}

\* writeStatus: the status subresource is updated.  When the working copy is outdated,
\* or the resource gone, the fallback is rejected as well, and that is only logged.
WriteStatus(o) ==
  LET new    == [cr EXCEPT !.status = work[o].cr.status]
      others == Operators \ {o}
  IN
  /\ pc[o] = "statusWrite"
  /\ \/ /\ Accepts(o)
        /\ Stored(new, others)
        /\ Finish(o)
        /\ UNCHANGED budget
     \/ /\ Accepts(o)                           \* the answer is lost
        /\ Fault
        /\ Stored(new, Operators)
        /\ pc' = [pc EXCEPT ![o] = "fallback"]
        /\ UNCHANGED work
     \/ /\ ~Accepts(o)
        /\ Finish(o)
        /\ heldLatest' = heldLatest \ {o}
        /\ UNCHANGED << cr, cachedLatest, budget >>
  /\ UNCHANGED << objects, cache, queued >>

\* writeStatus after a failed update: the resource itself is updated, which stores the
\* spec of the working copy and ignores its status.  An error is only logged.
FallbackUpdate(o) ==
  /\ pc[o] = "fallback"
  /\ IF Accepts(o)
     THEN Stored([cr EXCEPT !.spec = work[o].cr.spec], Operators \ {o})
     ELSE heldLatest' = heldLatest \ {o} /\ UNCHANGED << cr, cachedLatest >>
  /\ Finish(o)
  /\ UNCHANGED << objects, cache, queued, budget >>

\* A call of the API server fails before it has any effect.
ApiFault(o) ==
  /\ Fault
  /\ \/ /\ pc[o] \in {"configMap", "configMapUpdate", "claim", "claimUpdate", "job",
                      "jobWrite", "jobUpdate"}
        /\ Abort(o, Health(o))
        /\ UNCHANGED heldLatest
     \/ /\ pc[o] = "statusWrite"
        /\ pc' = [pc EXCEPT ![o] = "fallback"]
        /\ UNCHANGED << work, heldLatest >>
     \/ /\ pc[o] \in {"status", "fallback"}       \* the pods cannot be listed, or
                                                 \* the fallback fails: only logged
        /\ Finish(o)
        /\ heldLatest' = heldLatest \ {o}
  /\ UNCHANGED << cr, objects, cache, queued, cachedLatest >>

----------------------------------------------------------------------------
(* The operator process and its caches.                                    *)

\* The event of a resource that changed queues a request.
SyncResource(o) ==
  /\ pc[o] # "down"
  /\ o \notin cachedLatest
  /\ cache' = [cache EXCEPT ![o].cr = cr]
  /\ cachedLatest' = cachedLatest \cup {o}
  /\ queued' = [queued EXCEPT ![o] = TRUE]
  /\ UNCHANGED << cr, objects, pc, work, heldLatest, budget >>

\* No controller watches the other kinds: they only refresh the cache.
SyncConfigMap(o) ==
  /\ pc[o] # "down"
  /\ cache[o].cm # Current.cm
  /\ cache' = [cache EXCEPT ![o].cm = Current.cm]
  /\ UNCHANGED << cr, objects, local, latest, budget >>

SyncClaim(o) ==
  /\ pc[o] # "down"
  /\ cache[o].pvc # Current.pvc
  /\ cache' = [cache EXCEPT ![o].pvc = Current.pvc]
  /\ UNCHANGED << cr, objects, local, latest, budget >>

SyncJob(o) ==
  /\ pc[o] # "down"
  /\ cache[o].job # Current.job
  /\ cache' = [cache EXCEPT ![o].job = Current.job]
  /\ UNCHANGED << cr, objects, local, latest, budget >>

SyncPods(o) ==
  /\ pc[o] # "down"
  /\ cache[o].pods # Current.pods
  /\ cache' = [cache EXCEPT ![o].pods = Current.pods]
  /\ UNCHANGED << cr, objects, local, latest, budget >>

\* The process dies; nothing it held survives.
Crash(o) ==
  /\ pc[o] # "down"
  /\ budget.crashes > 0
  /\ budget' = [budget EXCEPT !.crashes = @ - 1]
  /\ pc' = [pc EXCEPT ![o] = "down"]
  /\ work' = [work EXCEPT ![o] = Absent]
  /\ heldLatest' = heldLatest \ {o}
  /\ UNCHANGED << cr, objects, cache, queued, cachedLatest >>

\* A faulty variant of Restart: nothing is queued.
RestartIdle(o) ==
  /\ pc[o] = "down"
  /\ cache' = [cache EXCEPT ![o] = Current]
  /\ cachedLatest' = cachedLatest \cup {o}
  /\ pc' = [pc EXCEPT ![o] = "idle"]
  /\ queued' = [queued EXCEPT ![o] = FALSE]
  /\ UNCHANGED << cr, objects, work, heldLatest, budget >>

\* A new process fills its caches, and each resource it lists is queued.
Restart(o) ==
  /\ pc[o] = "down"
  /\ cache' = [cache EXCEPT ![o] = Current]
  /\ cachedLatest' = cachedLatest \cup {o}
  /\ pc' = [pc EXCEPT ![o] = "idle"]
  /\ queued' = [queued EXCEPT ![o] = cr # Absent]
  /\ UNCHANGED << cr, objects, work, heldLatest, budget >>

----------------------------------------------------------------------------
(* The user, the Job controller and the kubelet.                           *)

CreateResource ==
  /\ cr = Absent
  /\ budget.creates > 0
  /\ \E spec \in UserSpecs :
       Stored([uid |-> budget.creates, spec |-> spec, status |-> NewStatus], {})
  /\ budget' = [budget EXCEPT !.creates = @ - 1]
  /\ UNCHANGED << objects, cache, local >>

\* The user replaces the spec, or merges a manifest without configuration into it.
EditSpec ==
  /\ cr # Absent
  /\ budget.edits > 0
  /\ \E spec \in UserSpecs : \E configuration \in {spec.configuration, cr.spec.configuration} :
       LET new == [spec EXCEPT !.configuration = configuration] IN
       /\ spec.configuration # "" => configuration = spec.configuration
       /\ new # cr.spec
       /\ Stored([cr EXCEPT !.spec = new], {})
  /\ budget' = [budget EXCEPT !.edits = @ - 1]
  /\ UNCHANGED << objects, cache, local >>

PodsIn(phases) == {p \in Pods : pods[p] \in phases}

\* The job has one completion: a pod is started when none is active or has succeeded,
\* as long as no more pods failed than the backoff limit.  Its name is new: no cache
\* lists it.
StartPod(p) ==
  /\ job # Absent
  /\ pods[p] = Absent
  /\ \A o \in Operators : cache[o].pods[p] = Absent
  /\ PodsIn({"Pending", "Running", "Succeeded"}) = {}
  /\ Cardinality(PodsIn({"Failed"})) <= job.backoff
  /\ pods' = [pods EXCEPT ![p] = "Pending"]
  /\ UNCHANGED << cr, cm, pvc, job, cache, local, latest, budget >>

\* The kubelet starts the collector once it can mount the ConfigMap and the claim.
RunPod(p) ==
  /\ pods[p] = "Pending"
  /\ cm # Absent /\ pvc # Absent
  /\ pods' = [pods EXCEPT ![p] = "Running"]
  /\ UNCHANGED << cr, cm, pvc, job, cache, local, latest, budget >>

FinishPod(p) ==
  /\ pods[p] = "Running"
  /\ pods' = [pods EXCEPT ![p] = "Succeeded"]
  /\ UNCHANGED << cr, cm, pvc, job, cache, local, latest, budget >>

FailPod(p) ==
  /\ pods[p] \in {"Pending", "Running"}
  /\ Fault
  /\ pods' = [pods EXCEPT ![p] = "Failed"]
  /\ UNCHANGED << cr, cm, pvc, job, cache, local, latest >>

----------------------------------------------------------------------------
Init ==
  /\ cr = Absent
  /\ cm = Absent
  /\ pvc = Absent
  /\ job = Absent
  /\ pods = [p \in Pods |-> Absent]
  /\ cache = [o \in Operators |-> Current]
  /\ cachedLatest = Operators
  /\ queued = [o \in Operators |-> FALSE]
  /\ pc = [o \in Operators |-> "idle"]
  /\ work = [o \in Operators |-> Absent]
  /\ heldLatest = {}
  /\ budget = [creates |-> MaxCreates, edits |-> MaxEdits,
               faults |-> MaxFaults, crashes |-> MaxCrashes]

\* One step of the pass of operator o.
Step(o) ==
  \/ Reconcile(o)
  \/ CheckMongodbConnection(o)
  \/ CreateOrUpdateConfigMap(o) \/ UpdateCreatedConfigMap(o)
  \/ CreateOrUpdateClaim(o) \/ UpdateCreatedClaim(o)
  \/ ReconcileJob(o)
  \/ CreateJob(o) \/ DeleteJob(o) \/ UpdateJob(o) \/ UpdateCreatedJob(o)
  \/ ReportJob(o) \/ PanicInStatus(o)
  \/ WriteStatus(o) \/ FallbackUpdate(o)

Sync(o) ==
  \/ SyncResource(o)
  \/ SyncConfigMap(o)
  \/ SyncClaim(o)
  \/ SyncJob(o)
  \/ SyncPods(o)

OperatorNext(o) == Step(o) \/ ApiFault(o) \/ Sync(o) \/ Crash(o) \/ Restart(o)

User == CreateResource \/ EditSpec

PodNext(p) == StartPod(p) \/ RunPod(p) \/ FinishPod(p) \/ FailPod(p)

Next ==
  \/ \E o \in Operators : OperatorNext(o)
  \/ User
  \/ \E p \in Pods : PodNext(p)

Spec == Init /\ [][Next]_vars

(* The work queue, the caches and the process supervisor keep going, and so do the Job *)
(* controller and the kubelet.  Only a collector in mode full ever finishes.  Nothing  *)
(* is assumed of the user, of failures and of crashes.                                 *)
Fairness ==
  /\ \A o \in Operators :
       /\ WF_vars(Step(o))
       /\ WF_vars(SyncResource(o))
       /\ WF_vars(SyncConfigMap(o))
       /\ WF_vars(SyncClaim(o))
       /\ WF_vars(SyncJob(o))
       /\ WF_vars(SyncPods(o))
       /\ WF_vars(Restart(o))
  /\ WF_vars(\E p \in Pods : StartPod(p))
  /\ \A p \in Pods :
       /\ WF_vars(RunPod(p))
       /\ WF_vars(cr # Absent /\ Mode(cr.spec) = "full" /\ FinishPod(p))

FairSpec == Spec /\ Fairness

----------------------------------------------------------------------------
(* What must hold.                                                         *)

StoreOK ==
  /\ cr \in Resources \cup {Absent}
  /\ cm \in ConfigMaps \cup {Absent}
  /\ pvc \in Claims \cup {Absent}
  /\ job \in Jobs \cup {Absent}
  /\ pods \in [Pods -> PodValues]

CachesOK ==
  /\ cache \in [Operators -> Caches]
  /\ cachedLatest \in SUBSET Operators
  /\ queued \in [Operators -> BOOLEAN]
  /\ heldLatest \in SUBSET Operators

\* An operator has a working copy exactly during a pass.
PassesOK ==
  /\ pc \in [Operators -> Steps \cup {"idle", "down"}]
  /\ work \in [Operators -> Works \cup {Absent}]
  /\ \A o \in Operators : work[o] # Absent <=> pc[o] \in Steps
  /\ budget \in Budgets

TypeOK == StoreOK /\ CachesOK /\ PassesOK

\* updateStatus keeps the status coherent whatever the order of passes, failures and
\* lost answers: the newest condition is the state, the history is bounded and does not
\* repeat itself, an error message goes with the state error and with no other.
StatusCoherent == cr # Absent => Coherent(cr.status)

\* The pods of a job mount the ConfigMap and the claim: a pass only reaches the job
\* when both exist, even though it knows them from caches that lag.
MountsBeforeJob == job # Absent => cm # Absent /\ pvc # Absent

\* The operator never takes back what the user asked for: although writeStatus may
\* store the spec of a copy made long before, every change of the stored spec is an
\* edit, or completes the stored spec with its defaults.
OperatorKeepsIntent ==
  [][cr # Absent /\ cr' # Absent =>
       \/ cr'.spec \in {cr.spec, Defaulted(cr.spec)}
       \/ budget'.edits < budget.edits]_vars

\* No pass loses or reorders conditions another pass reported: the stored history only
\* grows by one new condition at a time and only loses its oldest one.
ConditionsGrow ==
  [][cr # Absent /\ cr' # Absent =>
       Extends(cr'.status.conditions, cr.status.conditions)]_vars

ReportedState == IF cr = Absent THEN NoState ELSE cr.status.state

Pausing == IF cr = Absent THEN FALSE ELSE cr.spec.pause

Wanted == IF cr = Absent THEN FALSE ELSE ~cr.spec.pause

\* Every pass for the stored spec comes to the job: the spec is not rejected, it has a
\* claim, and the claim that is stored is found equal to it.
ReachesJob ==
  IF cr = Absent THEN FALSE
  ELSE /\ ~Invalid(cr.spec)
       /\ cr.spec.claim # Absent
       /\ pvc # Absent => SameQuantity(pvc.size, cr.spec.claim)

\* A pass for this spec, which is not paused, dereferences no nil and indexes nothing out
\* of range: the spec is rejected, or it has a claim and every URL to ping has credentials.
Survives(spec) ==
  \/ Invalid(spec)
  \/ /\ spec.claim # Absent
     /\ IF ~spec.healthCheck \/ spec.collector = Absent THEN TRUE
        ELSE IF spec.collector.mongo = Absent THEN TRUE
        ELSE Pinged(spec.collector.mode) \subseteq spec.collector.mongo.urls

PassesSurvive == IF cr = Absent THEN FALSE ELSE Survives(cr.spec)

\* The comment above the deletion of the job, made to hold in the end: a resource that
\* stays paused has its job stopped, every pod gone, and state paused, whatever stale
\* caches, lost writes and crashes came in between.  It does not hold of a spec whose
\* passes never come to the job, nor without a collector, where every pass with pods
\* panics in its deferred call, until the user resumes the resource.
PauseSettles ==
  <>[](Pausing /\ ReachesJob /\ cr.spec.collector # Absent) =>
    <>[](job = Absent /\ PodsIn(PodPhases) = {} /\ ReportedState = "paused")

\* The job and the ConfigMap are those of the spec.
UpToDate ==
  IF cr = Absent \/ cm = Absent \/ job = Absent THEN FALSE
  ELSE LET spec == Defaulted(cr.spec) IN
       /\ job.template = DesiredTemplate(spec)
       /\ job.backoff = spec.backoff
       /\ cm.text = spec.configuration

\* A resource that stays unpaused, and whose passes do not panic, ends up with the job of
\* its spec, or says why not: a job that keeps running an older template, which cannot be
\* changed, a claim that cannot be resized, or a spec that is rejected, never hides behind
\* another state.
RunSettles == <>[](Wanted /\ PassesSurvive) => <>[](UpToDate \/ ReportedState = "error")

\* Every pod of the wanted job is running.
AllRunning ==
  /\ Wanted
  /\ UpToDate
  /\ PodsIn(PodPhases) # {}
  /\ PodsIn(PodPhases) = PodsIn({"Running"})

\* The state converges to what the pods show: when the job of the spec keeps running, and
\* passes come to it, the resource ends up in state running, and no error of an earlier
\* pass stays.
RunningReported ==
  <>[](AllRunning /\ ReachesJob /\ PassesSurvive) => <>[](ReportedState = "running")
============================================================================

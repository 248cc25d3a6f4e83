# A verification of the MongoShake Kubernetes operator

The operator turns a `MongoShake` resource into a ConfigMap (`collector.conf`), a
PersistentVolumeClaim for logs and a Job that runs the MongoShake collector, and reports
the state of the Job's pods in the resource's status. This directory holds TLA+ models of
it, TLC configurations that check them and TLAPS proofs about them. Paths such as
`controllers/status.go` are relative to `src/`; `PROJECT.json` maps each definition to the
lines it stands for.

## The system

| part | source | state it keeps | operations |
|---|---|---|---|
| reconcile loop | `controllers/mongoshake_controller.go` | local variables of a pass, work queue, informer caches | `Reconcile`, `SetupWithManager` |
| spec defaults | `api/v1/mongoshake_default.go` | none; rewrites the working copy's spec | `CheckNSetDefaults`, `completedConfig` |
| health check | `CheckMongodbConnection`, `controllers/ms/mongo.go` | `Status.HealthCheck` | `PingMongoClient`, `Dial` |
| objects | `createOrUpdateConfigMap`, `...PersistentVolumeClaim`, `createOrUpdateJob`, `controllers/ms/job.go` | ConfigMap, claim, Job in the API server | create, update, delete on pause |
| status reporting | `controllers/status.go`, `AddCondition` in `api/v1/mongoshake_types.go` | state, message, bounded condition history | `updateStatus`, `jobStatus`, `writeStatus` |
| lock store | `lockStore` in the controller | one mutex per resource | `LoadOrCreate`, lock, unlock |
| wiring | `main.go`, `config/` | leader election (off by default) | start, restart |
| collector image | `build/` | outside the operator | — |

They interact as follows. A change of the resource reaches the operator through a watch,
which refreshes the cache and queues a request; no other kind is watched, so changes of
the Job or its pods are noticed by the next pass, five seconds after the last. A pass reads
through the caches and writes to the API server: defaults, health check, ConfigMap, claim,
Job, then the status in a deferred call that also runs after errors and while a panic
unwinds. The Job controller and the kubelet run pods; the garbage collector removes objects
whose owner is gone. With leader election off, two operator processes may do all this at
once.

What is hard about it: every read is stale by an arbitrary amount, one kind independently
of another; the working copy is written back by a status update whose fallback writes the
spec; redundant updates follow each create; calls fail or their answers are lost; the
process can die between any two writes; two nil dereferences and an index out of range
are reachable from specs a user may submit; maps are shared between spec and template;
checks whose results are remembered may be remembered wrongly. `PROJECT.json` lists these
hazards at their lines, each with the properties that would catch it.

What makes each part correct:
- *status*: the reported state, message and history agree (`StatusCoherent`), no report is
  lost or reordered (`ConditionsGrow`), the state converges to what the pods show
  (`RunningReported`, `PauseSettles`);
- *pod outcome*: the result does not depend on the order in which pods are listed
  (`OutcomeIsOrderFree`), a ready full synchronisation is left to finish (`ReadyPodsFinish`);
- *objects*: the Job never comes before what its pods mount (`MountsBeforeJob`), and the
  cluster converges to the spec or says why not (`RunSettles`);
- *resource*: what the user asked for is not taken back (`OperatorKeepsIntent`), and nothing is
  made that was not asked for (`KeepsPromise`, `OriginInv`);
- *defaults*: a second completion changes nothing, chosen values survive
  (`CompletionSettles`, `ChosenValuesKept`);
- *job template*, made of the completed spec: the hash is current, and the template only changes when the user's spec
  does (`HashIsCurrent`, `TemplateIsStable`);
- *health check*: a check that succeeds had an answer from every URL, no job exists without
  such a check since the last stop, and failures are not final (`SuccessIsWhole`, `JobIsChecked`,
  `CheckSettles`), all of it within the outcomes the reconciler reckons with (`OutcomesAgree`);
- *lock store*: passes for one resource exclude each other, those for different ones do not,
  and every request is served (`PassesExclude`, `LocksAreSeparate`, `RequestsAreServed`);
- *lifecycle*: owned objects go, a successor with the same name gets its own, other than a
  claim that a pod keeps in use (`OwnedObjectsGo`, `SuccessorSettles`, `PassesStayWithTheirResource`), and every object has an
  owner that exists or was deleted and is taken away only for a reason (`OwnersKnown`, `KeepsOwnership`).

## The modules

```
AppStatus  <-  PodOutcome  <-  JobStatus
    ^               ^
    |    PingOutcome  <-  HealthCheck
    |          ^    |
    |       Reconciler  <-  Lifecycle  <-  Divergences     (MCReconciler, MCLifecycle)
    |          ^    ^-  Mounted                            (MCMounted)
JobPromise <~  Origins                                     (MCOrigins)
    ^                 ^
OwnedPromise <~  Succession  (also <- Lifecycle)           (MCSuccession)
SerialPasses <~  LockStore
Defaults  <-  JobTemplate  <-  WorkingCopy                 (MCWorkingCopy)

ReconcilerProofs  <-  PassProofs  <-  OriginsProofs  <-  LifecycleProofs
JobStatusProofs, HealthCheckProofs, LockStoreProofs, WorkingCopyProofs
```

`<-` is EXTENDS, `<~` an implemented abstract specification; in brackets the instances for TLC.

- **AppStatus**: the status record, `AddCondition`, and the two branches of `updateStatus`
  as operators (`ErrorReported`, `JobReported`). Texts and times are left out; `message` tells
  whether there is one. The branch of `updateStatus` for the job calls `AddCondition` twice;
  that this adds at most one condition is a lemma.
- **PodOutcome**: what `jobStatus` may conclude from a set of pods, without the loop.
- **JobStatus**: the loop of `jobStatus`, one iteration per step, over every list of pods.
  It implements PodOutcome (`OutcomeIsOrderFree`), which Reconciler then uses as one step.
- **Reconciler**: the resource and its objects in the API server (`cr`, `cm`, `pvc`, `job`,
  `pods`), per operator process its `cache`, `queued` request, place in the pass (`pc`) and
  local variables (`work`: the working copy, whether a panic is unwinding, the job the
  first Get found). Each action is a function of the controller up to its next call that writes:

  | code | actions |
  |---|---|
  | `Reconcile` with `CheckNSetDefaults` | `Reconcile` |
  | `CheckMongodbConnection`, `PingMongoClient` | `CheckMongodbConnection` |
  | `createOrUpdateConfigMap` | `CreateOrUpdateConfigMap`, `UpdateCreatedConfigMap` |
  | `createOrUpdatePersistentVolumeClaim` | `CreateOrUpdateClaim`, `UpdateCreatedClaim` |
  | `reconcileJob`, `createOrUpdateJob` | `ReconcileJob`, `CreateJob`, `DeleteJob`, `UpdateJob`, `UpdateCreatedJob` |
  | `updateStatus`, `jobStatus` | `ReportJob`, `PanicInStatus`, `Abort` |
  | `writeStatus` | `WriteStatus`, `FallbackUpdate` |

  The rest is the environment: `Sync...` (informers), `Crash`, `Restart`, the user
  (`CreateResource`, `EditSpec`), Job controller and kubelet (`StartPod`, ..., `FailPod`).
- **JobPromise**, **Origins**: what the operator promises without caches, passes or failures
  (a ConfigMap holds a text that was asked for, a job is started with a template asked for,
  never changes in place, and stops only once a pause was asked for, reports are only added
  to), and the reconciler with a history of the submitted specs, which implements it. The
  mapping reads `cm`, `job` and the history of `cr`; "asked for" is said by `Accepted` and
  `Printed`, without `CheckNSetDefaults`.
- **Mounted**: the configuration each pod has read when it started, as a history of Reconciler.
- **Defaults**: `CheckNSetDefaults` and `completedConfig` as operators: the required values in
  their order (`Missing`), then the writes in theirs (`WithPullPolicy`, `WithConfiguration`),
  the collector field by field.
- **JobTemplate**: the pod template of `MongoshakeJobSpec`, with the map of annotations shared
  between the working copy and the template, as operators.
- **WorkingCopy** composes the two: passes that complete a copy of the stored spec and come to
  their job (`PassWithJob`) or not (`PassWithoutJob`: a value is missing, a pause, a failure
  before it), the fallback of `writeStatus` that may store either copy, and the user's edits
  of a field, the configuration, the annotations, the requirements, and of the image, pull
  policy and placement (node selector and tolerations) of the pods.
- **PingOutcome**, **HealthCheck**: what a check may conclude from the URLs, which Reconciler
  uses as one step, and the check itself over many passes: the loop over the URLs, one dial per
  step, servers that go down, and the result remembered in a status whose write may be lost
  or rejected. `OutcomesAgree` shows that the second fails or panics only as the first allows.
  Two histories, `checked` and `earned`, tell which URLs answered in the check at hand and
  whether all did in one since the last reported stop of the job; no action reads them.
- **SerialPasses**, **LockStore**: passes one after another per resource, and the
  `sync.Map` of mutexes with the workers that implements them. The work queue would
  already keep a resource from two workers; LockStore assumes that it does not, so that
  what is shown is what the lock adds.
- **Lifecycle**: adds deletion of the resource by the user and the garbage collector, which
  leaves a claim alone as long as a pod that has not ended mounts it.
- **OwnedPromise**, **Succession**: JobPromise for a resource that may be deleted and created
  again, with the owner of the ConfigMap and of the job, and Lifecycle with the history of the
  submitted specs, which implements it. A pass for a deleted resource may still make objects,
  and a late update may hand a job over to another resource of the name, but only what a
  deleted resource owns is collected. A started job may lack its ConfigMap once a resource was
  deleted: a lagging cache shows the pass its predecessor's, which is collected meanwhile
  (the premise of `StartOwned`).
- **Divergences**: statements of comments that the code does not keep.

### Abstractions

- A `resourceVersion` of the resource is two sets: operators whose cached copy is the
  current one (`cachedLatest`), and operators whose working copy is (`heldLatest`). A write that
  changes the resource empties both, one that changes nothing leaves them.
- Updates of the ConfigMap carry no resourceVersion and are unconditional. An update of a
  job carries the one of the cached job; the model compares the jobs instead, so that a job
  replaced by an equal one counts as the same. Status changes the Job controller makes to
  a job, which would also be conflicts, are covered by failed calls (`ApiFault`).
- In Reconciler a template is what can change in it: the hash of the configuration and the
  image. The rest of what a template takes from the spec is in JobTemplate; volumes, mounts,
  ports and command are constants of the code.
- The claim's size is the only part of it the code compares. The update the code sends
  lacks the volume name, hence the API server rejects every change of the size. Sizes are
  compared by representation (`controllers/mongoshake_controller.go:366`): one that the API
  server stores in another form (`Uncanonical`, 1.5Gi) differs from itself (`SameQuantity`).
- The collector has no readiness probe (`mongoshakeContainer`), so that a pod's
  containers are ready exactly while it runs. JobStatus does not assume this for running pods.
- A deleted pod is gone at once; the caches may list it for any time. A new pod has a name
  no cache lists. A Job adopts the pods with its labels, because its selector is manual.
- In Reconciler the text of `collector.conf` is one value per collector (`text`), in Defaults
  the function from the printed fields to their values, where every value is a string and
  `Unset` stands for the zero value. A URL is known only by whether it has the form
  `user:password@host`.
- HealthCheck has one pass at a time and keeps of the objects whether there is a job. The
  clients of `Dial` are left out: nothing depends on them, and whether the deferred
  `Disconnect`, whose error is only logged, takes effect is up to the driver. Its edits are pauses and resumptions; a resource edited during a pass rejects its status.
- LockStore is one life of the process: a panic ends it, and the store with it.
- The work queue never runs two passes for one resource in one process, and a request that
  was served is queued again, after an error or in five seconds: it simply stays queued.

## The runs

All runs take about three minutes or less with two workers. Common bounds: two texts and
images, three sizes, one of them uncanonical; the history holds two conditions (one in `core_liveness`, `fault_liveness`,
`two_operators` and `stale_mount`) instead of 20, the smallest that show trimming next to growing.

| run | instance | shows |
|---|---|---|
| `job_status` | lists of up to 4 pods | `OutcomeIsOrderFree`, `ReadyPodsFinish` |
| `core_safety` | 1 operator, 1 pod, 8 specs, 1 edit, 1 failure | `StatusCoherent`, `MountsBeforeJob`, `OperatorKeepsIntent`, `ConditionsGrow`, `OriginInv`; Reconciler implements JobPromise (`KeepsPromise`) |
| `two_operators` | 2 operators, no pod, from a settled resource, 1 edit | `PauseSettles`, `RunSettles` with two processes |
| `core_liveness` | 1 operator, 1 pod, 4 specs, 2 edits | `PauseSettles`, `RunSettles`, `RunningReported` |
| `fault_liveness` | 1 operator, 1 pod, 5 specs, health check, 1 edit, 1 failure, 1 crash | `PauseSettles`, `RunSettles` |
| `lifecycle` | 1 operator, 1 pod, 2 specs, 2 creations, 1 deletion | `OwnersKnown`, `OwnedObjectsGo`, `SuccessorSettles`, `PassesStayWithTheirResource`; Lifecycle implements OwnedPromise (`KeepsOwnership`) |
| `working_copy` | 276 specs, 2 edits | `CompletionSettles`, `ChosenValuesKept`, `HashIsCurrent`, `TemplateIsStable` |
| `health_check` | 1 or 2 URLs per field in every form, 2 edits, 2 server changes, 1 lost status | `OutcomesAgree`, `SuccessIsWhole`, `JobIsChecked`, `CheckSettles` |
| `lock_store` | 3 workers, 2 resources of one name | the lock invariants; LockStore implements SerialPasses; `RequestsAreServed` |
| `paused_resize`, `orphaned_pods`, `stale_mount` | a few specs | a counterexample, see below |

Why the bounds are enough: one edit races with every step of a pass and with every lag of
the caches; two edits give pause and resume; one failure or crash can be at any step of any
pass, and passes repeat without bound. The 8 specs of `core_safety` reach each exit of a
pass but one: success, each rejected spec, the panics of a missing claim, a missing `mongo` and a
malformed URL, each rejected update, that of an uncanonical size included. The last, the
panic in the deferred call, is reached in `fault_liveness`, which also pauses a resource
without collector, submits a spec that is rejected and one whose passes panic. `core_liveness`
adds an uncanonical size to pause and resume. `two_operators` starts
from a resource that runs or is paused, with both processes idle: what matters is the race
after the edit. It has no pods, so that of `PauseSettles` it shows the job and the state.
In `health_check` two changes let a server go down and come back, two URLs in a field let the
first answer and the second not, and two edits with one lost status give the pause whose
clearing of the result is lost. In `lock_store` three workers let two meet at the first
request of a resource while a third is busy. The specs of `working_copy` combine every field that a
default looks at (the other fields behave alike), and, apart from those, every pair of lists of
requirements with annotations missing, empty or given; two edits put a completed
configuration in and take it out again. In `lifecycle` one resource is deleted (`MaxDeletes`)
and one takes its name; of the two, each synchronises incrementally, where the pod never
ends, or is a paused full synchronisation, with another configuration. The deletion and the
creation race with every step of a pass, every lag of the caches and the pod, which may
protect its claim from the garbage collector. A pod that is orphaned by a pause, the
exception of `OwnedObjectsGo`, is in `orphaned_pods`. Every safety and action property of these runs is also proved for all values of the
constants, thereby for any number of operator processes, URLs, pods of a list or workers; the
liveness properties are checked for the
instances above only. Deadlock is checked except where the system may stop: the loop of
`jobStatus` ends, and a deleted resource leaves nothing to do.

Each property has a mutant in `PROJECT.json`: a plausible bug (a missing owner reference, a
hash without the template, an update without resourceVersion, ...) that makes it fail.

### Fairness

Weak fairness of each operator's step (the work queue and the five-second requeue), of each
informer separately (a watch that lags but is not stuck), of the restart of a dead
process (a Deployment), of the Job controller's start of a pod, of the kubelet's start of a
pod that can mount its volumes, and of the end of a collector in mode `full`, the only one
that ends. In Lifecycle also of the garbage collector. `two_operators` takes the
same for each of its two processes. HealthCheck assumes only that the operator takes its next
step: a pass follows the last within five seconds or a backoff. LockStore assumes that the
queue, which is first in first out, hands each request over in the end, that a waiting
goroutine gets its mutex in the end (both strong fairness: Go's mutex does not starve a
waiter), and that a pass ends, since its calls are answered or time out. Nothing is assumed of the user,
failures, crashes, or the success of a particular call beyond the bound on failures.

### What the code does not keep

Three runs expect a counterexample to what a comment says:

- `paused_resize`: a pause does not stop the job while the size of the claim differs,
  because the rejected update ends each pass before the job is reached.
- `orphaned_pods`: the job is deleted without its pods; a pod of a paused full
  synchronisation belongs to nobody and outlives the resource.
- `stale_mount`: a pass that compares with a lagging ConfigMap starts a collector which reads
  another configuration than the spec's, and nothing restarts it.

The models contain the following behaviours too, which no run singles out. They are why
some properties have an exception or a premise:

- A pass that runs while a pod has no way to end keeps what it mounts: the claim of a deleted
  resource stays as long as a pod of it or of its successor has not ended, and if the successor
  started its pod before the garbage collector came to the claim, an incremental
  synchronisation runs for ever on a claim that nobody owns. `OwnedObjectsGo` and `SuccessorSettles`
  except a claim in use (`ClaimInUse`).
- A claim size that the API server stores in another form, such as 1.5Gi, differs from itself
  (`controllers/mongoshake_controller.go:366`): the pass that makes the claim also makes the job,
  and each later one has its update rejected and reports an error. A pause of such a
  resource never stops its job, as in `paused_resize`, and the state of a running one stays error;
  hence the premise `ReachesJob` of `PauseSettles` and `RunningReported`.
- Pausing a resource without collector, such as the one in `config/samples`, dereferences nil
  in the deferred `updateStatus` of each pass (`controllers/status.go:116`, action
  `PanicInStatus`): the pod runs on and the state is
  never reported. `PauseSettles` is about resources with a collector; `fault_liveness` shows that
  such a resource recovers when it is resumed.
- A resource without claim panics in each pass (`controllers/mongoshake_controller.go:334`,
  `CreateOrUpdateClaim`) and never gets a job, though `api/v1/mongoshake_types.go:439` reads
  as if a claim could be missing; with the health check so does a URL without credentials
  (`controllers/ms/mongo.go:70`), which `api/v1/mongoshake_types.go:378` allows. The state then
  stays initializing for ever. Hence the premise `PassesSurvive` of `RunSettles` and `SuccessorSettles`, and
  `Pinged(mode) \subseteq Mongo.urls` in `CheckSettles`. A spec that is rejected is no exception: it
  ends in the state error.
- The fallback of `writeStatus` (`controllers/status.go:142`) stores the completed spec, never
  the status, which is a subresource; from then on the collector section has no effect
  (`api/v1/mongoshake_default.go:25`). `OperatorKeepsIntent` allows the completion.
- A collector without mode is rejected (`api/v1/mongoshake_default.go:31`), though its type
  documents a default (`api/v1/mongoshake_types.go:395`).
- A batch queue size is overwritten by 1024 unless adaptive batching is set
  (`api/v1/mongoshake_default.go:140`), which seems to be meant for the adaptive size itself:
  the exception of `ChosenValuesKept`.
- The root certificate of the checkpoint store is never printed (`Printed` in Defaults).
- A quantity that cannot be parsed is dropped without an error (`controllers/ms/resources.go:17`),
  and with it the lists after it (`CreateResources`).
- The controller has one worker (`controllers/mongoshake_controller.go:162`), so that the locks
  per resource never matter and a slow pass holds up all other resources.
- A failed pod that was replaced stays in the count of `jobStatus` (`controllers/status.go:128`),
  and the state never becomes running although the replacement runs: `RunningReported` is
  about a job all of whose pods run.

## The proofs

TLAPS proves these for all values of the constants, under the named assumptions
`MaxStatusesAssumption`, `ConstantsAssumption`, `MaxPodsAssumption`, `NoRequestAssumption`,
`BoundsAssumption`, `SpecsAssumption` and `AbsentAssumption`. They type the constants, keep
`Absent`, `NoText` and `NoRequest` apart from the values they stand beside, and ask of the
health check that a list has at least one URL.

- **ReconcilerProofs**: first, `AddCondition`, `ErrorReported` and `JobReported` keep a status
  coherent, and extend its history by at most one condition. Then `TypeCorrect` and
  `StatusCoherence`. `StatusCoherent` alone is not inductive,
  since a pass writes a status it computed from a copy: the invariant `StatusInv` adds the
  types and the coherence of every cached and every working copy. One lemma per way a step
  changes the local state (`GotoInv`, `AbortInv`, `FinishInv`, ...), then one per action.
- **PassProofs**: `MountsFirst` (`MountsBeforeJob`), where the invariant adds that a cache never
  shows a ConfigMap or claim that was not made, and that a pass beyond the step that makes
  an object has seen it made. This is of `Spec`, in which nobody deletes these objects. Then
  `IntentKept` (`OperatorKeepsIntent`) and `HistoryKept` (`ConditionsGrow`), from
  `LatestCopies`: a copy with the current resourceVersion has the uid of the stored
  resource and differs from it only by completed defaults, and by the condition of a pass
  that is about to write.
- **OriginsProofs**: `SpecsHaveOrigin` (`OriginInv`, which is inductive together with the types) and
  `PromiseKept` (`KeepsPromise`): with `OriginInv`, `MountsBeforeJob` and `ConditionsGrow`, one lemma for the
  writers of the ConfigMap, one for those of the job, one for the status and one for the user
  maps their steps to steps of JobPromise; every other step is a stutter.
- **LifecycleProofs**: the invariants above are preserved by a deletion, which outdates every
  copy, and by the garbage collector; hence `PassesStay` (`PassesStayWithTheirResource`: an accepted
  write carries the current resourceVersion, and a copy that is current has the uid of the
  stored resource), and `StatusCoherent`, `OperatorKeepsIntent` and `ConditionsGrow` again, with
  deletions. The writer is the operator that takes the step, for any number of them. `OwnersAreKnown` (`OwnersKnown`) is inductive only with the owners in the caches and
  in the jobs that passes found, which an update stores. `OwnershipKept` (`KeepsOwnership`) follows
  step by step; `MountsBeforeJob` holds as long as nothing was deleted and is part of the
  invariant `SuccessionInv` under that premise, since a job may be started without its ConfigMap afterwards.
- **HealthCheckProofs**: `JobsAreChecked`, `SuccessesAreWhole`, `OutcomesAllowed`. The invariant `CheckInv`
  adds that every evidence of a success, in the stored status, in the copy or in the place of the pass,
  follows a check that succeeded; that the loop has found credentials in the URLs before the one it
  is at, and had their answers; and that a failure that is remembered is that of a check which dialed the first URL.
- **WorkingCopyProofs**: `CompletionIsFinal` and `ChoicesKept`. Of the single defaults the proofs use only
  which fields have one and that none is the zero value; idempotence then rests on the two
  defaults that look at other fields. `HashCurrent` and `TemplateStable`
  follow from `SpecsInv`: a copy is the completion of the stored spec, possibly with the
  hash that the shared map has put into its annotations, and the template does not tell these apart.
- **LockStoreProofs**: `LocksAreSound`, `PassesNeverOverlap`, `LocksNeverShared`, and `LockStoreImplements`, that every step is a
  step of SerialPasses or a stutter. Exclusion is not inductive: `LockInv` adds that a key keeps
  its first lock, that what a worker loaded is that lock, and that a locked mutex has one busy
  holder.
- **JobStatusProofs**: `OrderFree`, `ReadyPodsKept` and `TypeCorrect`, for lists of any length. The invariant says
  what the counter of ready pods tells: zero means none so far, `i` means all so far.

Only model-checked: the liveness properties (`PauseSettles`, `RunSettles`, `RunningReported`,
`OwnedObjectsGo`, `SuccessorSettles`, `CheckSettles`, `RequestsAreServed`), since the prover has neither
fairness nor `ENABLED`; and the three counterexamples.

## Not modelled, and what is left

Not modelled: generated deep copies and scheme registration (no behaviour of their own),
process flags, probes and metrics, the manifests (data), volumes, mounts and ports (constants),
probes and volume kinds of the API types that no code reads, the flag `updateSync` (written and
never read), the driver behind `Dial` (a server that answers or does not) and the collector
image with its scripts. The end of the process by a panic is in Reconciler and HealthCheck,
not in LockStore.

The plan was carried out in this order: AppStatus, PodOutcome and JobStatus, Reconciler,
Lifecycle, their runs and proofs; then Defaults, JobTemplate and their composition WorkingCopy,
PingOutcome and HealthCheck, SerialPasses and LockStore, JobPromise and Origins, Mounted, and
the run with two processes. Then the proofs: of every
safety and action property of the runs, and OwnedPromise with Succession, the refinement for
the lifecycle. What is left:

1. Larger instances of the liveness runs: two operators with a pod and a failure.
2. The steps of the liveness arguments that are safety (a pass that is not disturbed ends with
   the wanted objects) as action properties, proved for all constants.

----------------------------- MODULE Lifecycle -----------------------------
(***************************************************************************)
(* Deletion of the MongoShake resource, by the user, while passes that     *)
(* read it go on, the garbage collection of the objects it owns, and the   *)
(* creation of another resource with the same name.  The operator has no   *)
(* finalizer: it learns of a deletion from its cache only, and owner       *)
(* references do the rest.                                                 *)
(***************************************************************************)
EXTENDS Reconciler

CONSTANT MaxDeletes   \* bound on the deletions of the resource

\* The uids of the resources created so far, and those of the deleted ones.
Given == (budget.creates + 1) .. MaxCreates
Gone == Given \ {Shown(cr, "uid")}

DeleteResource ==
  /\ cr # Absent
  /\ Cardinality(Gone) < MaxDeletes
  /\ Stored(Absent, {})
  /\ UNCHANGED << objects, cache, local, budget >>

\* setControllerReference made the resource with this uid the owner; it is gone.
Ownerless(object) ==
  IF object = Absent THEN FALSE
  ELSE IF object.owner = NoOwner THEN FALSE
  ELSE IF cr = Absent THEN TRUE ELSE object.owner # cr.uid

CollectConfigMap ==
  /\ Ownerless(cm)
  /\ cm' = Absent
  /\ UNCHANGED << cr, pvc, job, pods, cache, local, latest, budget >>

\* A claim is protected while a pod that has not ended uses it.
CollectClaim ==
  /\ Ownerless(pvc)
  /\ PodsIn({"Pending", "Running"}) = {}
  /\ pvc' = Absent
  /\ UNCHANGED << cr, cm, job, pods, cache, local, latest, budget >>

\* The pods of the job, all of which the Job controller has adopted, go with it.
CollectJob ==
  /\ Ownerless(job)
  /\ job' = Absent
  /\ pods' = [p \in Pods |-> Absent]
  /\ UNCHANGED << cr, cm, pvc, cache, local, latest, budget >>

Collect == CollectConfigMap \/ CollectClaim \/ CollectJob

LifecycleNext == Next \/ DeleteResource \/ Collect

LifecycleSpec == Init /\ [][LifecycleNext]_vars

LifecycleFairness ==
  /\ Fairness
  /\ WF_vars(CollectConfigMap)
  /\ WF_vars(CollectClaim)
  /\ WF_vars(CollectJob)

LifecycleFairSpec == LifecycleSpec /\ LifecycleFairness

----------------------------------------------------------------------------
Deleted == cr = Absent

\* A pod that has not ended protects the claim it mounts.
ClaimInUse == PodsIn({"Pending", "Running"}) # {}

\* The resource's own objects are garbage collected, as the comment in Reconcile says: a
\* pass that still works for a deleted resource may create objects after its deletion,
\* but none of them stays, other than the claim of a pod that lost its job on a pause and
\* that nothing stops (Divergences).
OwnedObjectsGo ==
  <>[]Deleted => <>[](cm = Absent /\ job = Absent /\ (pvc # Absent => ClaimInUse))

\* The object is not there, or belongs to the resource that exists.
Own(object) == object # Absent => object.owner = cr.uid

\* A resource created with the name of a deleted one, and whose passes do not panic, ends up
\* with its configuration and job, both its own, or says why not, although the passes for it
\* find, and keep as they are, the objects of its predecessor until the garbage collector
\* takes those away.  The claim may stay the predecessor's: a pass that still finds it makes
\* a job, and the pod of that job protects it as long as it runs; a claim in nobody's use
\* goes and is made again.
SuccessorSettles ==
  <>[](Wanted /\ PassesSurvive) =>
    <>[](/\ (UpToDate /\ pvc # Absent) \/ ReportedState = "error"
         /\ Own(cm) /\ Own(job)
         /\ Own(pvc) \/ ClaimInUse)

\* A pass that began for a deleted resource never writes to the resource that took its
\* name: a status is only ever written by a pass for the same resource, so that a new
\* resource starts from an empty history and its own spec.
PassesStayWithTheirResource ==
  [][cr # Absent /\ cr' # Absent /\ cr'.uid = cr.uid /\ cr' # cr /\ budget'.edits = budget.edits =>
       \E o \in Operators : pc'[o] # pc[o] /\ work[o] # Absent /\ work[o].cr.uid = cr.uid]_vars
============================================================================

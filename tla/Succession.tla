----------------------------- MODULE Succession -----------------------------
(***************************************************************************)
(* Lifecycle with the history of the specs the user submitted, for every   *)
(* resource of the name, and the refinement that shows what becomes of the *)
(* objects when their resource is deleted in the middle of a pass and      *)
(* another takes its name.                                                 *)
(***************************************************************************)
EXTENDS Lifecycle, Origins

SuccessionNext ==
  \/ OriginsNext
  \/ (DeleteResource \/ Collect) /\ UNCHANGED submitted

SuccessionSpec == OriginsInit /\ [][SuccessionNext]_<< vars, submitted >>

SuccessionFairSpec == SuccessionSpec /\ LifecycleFairness

----------------------------------------------------------------------------
Ownership == INSTANCE OwnedPromise WITH
  Nothing <- Absent, texts <- Asked, templates <- AskedTemplates, stoppable <- PauseAsked,
  published <- Shown(cm, "text"), running <- Shown(job, "template"), reports <- Reports,
  resource <- Shown(cr, "uid"), gone <- Gone,
  holder <- Shown(cm, "owner"), owner <- Shown(job, "owner")

\* The operator implements OwnedPromise: through deletions too, only what was asked for is
\* published and run; a job of the resource that exists goes only after a pause was asked
\* for, while one handed over to a deleted resource may be collected; a new resource starts
\* from an empty history.
KeepsOwnership == Ownership!OwnedSpec

\* What is stored, what a cache shows, and what a pass works with: the resource it works
\* for, and the job it found.
StoreOwned ==
  /\ cr # Absent => cr.uid \in Given
  /\ \A object \in {cm, pvc, job} : object # Absent => object.owner \in Given

CacheOwned(o) ==
  /\ cache[o].cr # Absent => cache[o].cr.uid \in Given
  /\ cache[o].job # Absent => cache[o].job.owner \in Given

CopyOwned(o) ==
  pc[o] \in Steps =>
    /\ work[o].cr.uid \in Given
    /\ work[o].found # Absent => work[o].found.owner \in Given

\* Every object belongs to a resource of the name that exists or was deleted, so that
\* nothing is left that cannot be collected; and whatever a pass or a cache may yet make
\* the owner of an object was such a resource.
OwnersKnown ==
  /\ StoreOwned
  /\ \A o \in Operators : CacheOwned(o) /\ CopyOwned(o)
=============================================================================

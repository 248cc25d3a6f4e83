------------------------------ MODULE Mounted ------------------------------
(***************************************************************************)
(* The configuration each collector runs with, kept as a history of        *)
(* Reconciler: a pod mounts the ConfigMap as it is when the pod starts, and *)
(* the collector reads it once.                                            *)
(***************************************************************************)
EXTENDS Reconciler

VARIABLE mounted   \* the configuration each pod has read

MountedInit == Init /\ mounted = [p \in Pods |-> Absent]

MountedNext ==
  /\ Next
  /\ mounted' = [p \in Pods |->
                   IF pods'[p] \in {Absent, "Pending"} THEN Absent
                   ELSE IF pods[p] = "Pending" /\ pods'[p] = "Running" THEN cm.text
                   ELSE mounted[p]]

MountedSpec == MountedInit /\ [][MountedNext]_<< vars, mounted >> /\ Fairness

----------------------------------------------------------------------------
(* A statement of a comment that the code does not keep.                   *)

\* "Make the cluster state reflect the state specified by the user": when the job of the
\* spec keeps running, the collector runs with the configuration of the spec.
CollectorReadsItsConfiguration ==
  <>[]AllRunning =>
    <>[](\A p \in PodsIn({"Running"}) :
           job # Absent => mounted[p] = job.template.text)
=============================================================================

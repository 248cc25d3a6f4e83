--------------------------- MODULE MCWorkingCopy ---------------------------
(* An instance of WorkingCopy for TLC.                                      *)
EXTENDS WorkingCopy, TLC

AllValues == STRING

KeysInUse == {HashKey, "k1"}

\* A minimal valid spec, as most users would write it.
Minimal ==
  [configuration |-> NoText, collector |-> [Blank EXCEPT !.Mode = "incr", !.MongoUrls = "u"],
   mongo |-> TRUE, tunnel |-> TRUE, image |-> "i1", pullPolicy |-> Unset,
   placement |-> Absent, annotations |-> Absent, resources |-> Absent]

\* Every way to miss a required value, and a spec whose collector is not used.
Incomplete ==
  {[Minimal EXCEPT !.collector = Absent], [Minimal EXCEPT !.collector.Mode = Unset],
   [Minimal EXCEPT !.mongo = FALSE], [Minimal EXCEPT !.tunnel = FALSE],
   [Minimal EXCEPT !.image = Unset], [Minimal EXCEPT !.configuration = UserText],
   [Minimal EXCEPT !.configuration = UserText, !.collector = Absent]}

\* Every combination of the fields that defaults look at.
Combined ==
  {[Minimal EXCEPT !.pullPolicy = policy,
      !.collector = [@ EXCEPT !.TunnelType = tunnel, !.Worker = worker,
         !.TunnelWriteThread = threads, !.WorkerBatchQueueSize = queue,
         !.AdaptiveBatchingMaxSize = adaptive, !.StorageCollection = collection]] :
     policy \in {Unset, "Never"}, tunnel \in {Unset, "direct", "kafka"},
     worker \in {Unset, "16"}, threads \in {Unset, "32"}, queue \in {Unset, "100"},
     adaptive \in {Unset, "2048"}, collection \in {Unset, "mine"}}

Amount(cpu, memory) == [cpu |-> cpu, memory |-> memory]

\* Each list missing, empty, whole, partly given, or with one amount that is malformed.
Lists ==
  {Absent, Amount(NotGiven, NotGiven), Amount("1", "1G"), Amount("1", NotGiven),
   Amount("1", "lots")}

\* Annotations missing, empty, or of the user, with every pair of lists.
Annotated ==
  {[Minimal EXCEPT !.annotations = annotations, !.resources = resources] :
     annotations \in {Absent, << >>, "k1" :> "x"},
     resources \in {Absent} \cup [requests : Lists, limits : Lists]}

AllInputs == Incomplete \cup Combined \cup Annotated

\* One edit of each field that another depends on.
FieldEdits ==
  ("TunnelType" :> {"kafka"}) @@ ("Worker" :> {"4"}) @@ ("AdaptiveBatchingMaxSize" :> {Unset, "512"})

\* An image that is taken out, and a pull policy that is given or taken out again.
PodFieldEdits ==
  ("image" :> {Unset, "i2"}) @@ ("pullPolicy" :> {Unset, "Never"}) @@ ("placement" :> {"n2"})

AnnotationEdits == {"k1" :> "x", "k1" :> "y"}

ResourceEdits ==
  {Absent, [requests |-> Amount("1", "lots"), limits |-> Amount("1", "1G")],
   [requests |-> Amount("1", NotGiven), limits |-> Absent]}
============================================================================

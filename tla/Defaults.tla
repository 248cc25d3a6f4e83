------------------------------ MODULE Defaults ------------------------------
(***************************************************************************)
(* CheckNSetDefaults field by field, and the text completedConfig makes of *)
(* a collector, as operators on the spec of a resource.                    *)
(*                                                                         *)
(* A field is Unset when it has its zero value.  A section that is missing *)
(* has only such fields, except mongo and tunnel, which are required.      *)
(***************************************************************************)
CONSTANTS
  Absent,     \* a nil pointer, map, list or requirement
  NoText      \* no configuration

\* The zero value of a field.
Unset == "unset"

\* The defaults that depend on nothing else.
Default ==
  [ConfVersion |-> "10", Id |-> "mongoshake", FullSyncHttpPort |-> "9101",
   IncrSyncHttpPort |-> "9100", SystemProfilePort |-> "9200", Level |-> "info",
   File |-> "collector.log", TunnelType |-> "direct", MongoConnect |-> "secondaryPreferred",
   StorageDb |-> "mongoshake", StorageCollection |-> "ckpt_name",
   StartPosition |-> "1970-01-01T00:00:00Z", ReaderCollectionParallel |-> "6",
   ReaderWriteDocumentParallel |-> "8", ReaderDocumentBatchSize |-> "128",
   ReaderParallelThread |-> "1", ReaderParallelIndex |-> "_id", CreateIndex |-> "none",
   MongoFetchMethod |-> "oplog", ShardKey |-> "collection", Worker |-> "8",
   WorkerBatchQueueSize |-> "64", FetcherBufferCapacity |-> "256",
   ConflictWriteTo |-> "none"]

\* The fields of a collector, by the sections of its type.  A name that two sections use
\* carries that of the section.
OwnFields ==
  {"ConfVersion", "Id", "MasterQuorum", "FullSyncHttpPort", "IncrSyncHttpPort",
   "SystemProfilePort", "Mode", "MongoConnect", "TransformNamespace", "SpecialSourceDbFlag"}

LogFields == {"Level", "Dir", "File", "Flush"}

MongoFields == {"MongoUrls", "MongoCsUrl", "MongoSUrl", "MongoSslRootCaFile"}

TunnelFields ==
  {"TunnelType", "Address", "Message", "KafkaPartitionNumber", "JsonFormat",
   "TunnelMongoSslRootCaFile"}

FilterFields ==
  {"NamespaceBlack", "NamespaceWhite", "PassSpecialDb", "DdlEnable", "FilterOplogGids"}

CheckPointFields ==
  {"StorageUrl", "StorageDb", "StorageCollection", "StorageUrlMongoSslRootCaFile",
   "StartPosition"}

FullSyncFields ==
  {"ReaderCollectionParallel", "ReaderWriteDocumentParallel", "ReaderDocumentBatchSize",
   "ReaderParallelThread", "ReaderParallelIndex", "CollectionExistDrop", "CreateIndex",
   "FullSyncInsertOnDupUpdate", "ExecutorFilterOrphanDocument", "FullSyncMajorityEnable"}

IncrSyncFields ==
  {"MongoFetchMethod", "ChangeStreamWatchFullDocument", "OplogGids", "ShardKey",
   "ShardByObjectIdWhitelist", "Worker", "TunnelWriteThread", "TargetDelay",
   "WorkerBatchQueueSize", "AdaptiveBatchingMaxSize", "FetcherBufferCapacity",
   "ExecutorUpsert", "IncrSyncInsertOnDupUpdate", "ConflictWriteTo",
   "IncrSyncMajorityEnable"}

Fields ==
  UNION {OwnFields, LogFields, MongoFields, TunnelFields, FilterFields, CheckPointFields,
         FullSyncFields, IncrSyncFields}

\* A collector whose fields are all zero.
Blank == [f \in Fields |-> Unset]

\* The fields completedConfig writes to collector.conf.
Printed == Fields \ {"AdaptiveBatchingMaxSize", "StorageUrlMongoSslRootCaFile"}

----------------------------------------------------------------------------
SetDefaults(c) ==
  [f \in Fields |-> IF f \in DOMAIN Default /\ c[f] = Unset THEN Default[f] ELSE c[f]]

\* Faulty variants of WriteThreads and BatchQueue, for mutation testing.
WriteThreadsAlways(c) == IF c.TunnelType # "direct" THEN c.Worker ELSE c.TunnelWriteThread
BatchQueueSwapped(c) ==
  IF c.WorkerBatchQueueSize = Default.WorkerBatchQueueSize THEN "1024"
  ELSE Default.WorkerBatchQueueSize

\* The write threads of a tunnel that is not direct follow the workers.
WriteThreads(c) ==
  IF c.TunnelType # "direct" /\ c.TunnelWriteThread = Unset THEN c.Worker
                                                            ELSE c.TunnelWriteThread

\* Without a maximum for adaptive batching the queue size is replaced.
BatchQueue(c) ==
  IF c.AdaptiveBatchingMaxSize = Unset THEN "1024" ELSE c.WorkerBatchQueueSize

Completed(c) ==
  LET d == SetDefaults(c) IN
  [d EXCEPT !.TunnelWriteThread = WriteThreads(d), !.WorkerBatchQueueSize = BatchQueue(d)]

completedConfig(c) == [f \in Printed |-> c[f]]

\* The first required value that is missing, in the order in which the code looks at them:
\* no field of a collector is looked at before the collector itself.
Missing(spec) ==
  IF      spec.collector = Absent     THEN "collector"
  ELSE IF spec.collector.Mode = Unset THEN "mode"
  ELSE IF ~spec.mongo                 THEN "mongo"
  ELSE IF ~spec.tunnel                THEN "tunnel"
  ELSE IF spec.image = Unset          THEN "image"
  ELSE "nothing"

\* With a configuration nothing is required, an image included.
Rejected(spec) == spec.configuration = NoText /\ Missing(spec) # "nothing"

\* The first field that is written, once every required value was found.
WithPullPolicy(spec) == [spec EXCEPT !.pullPolicy = IF @ = Unset THEN "Always" ELSE @]

\* The collector is completed and printed last.
WithConfiguration(spec) ==
  LET c == Completed(spec.collector)
  IN  [spec EXCEPT !.collector = c, !.configuration = completedConfig(c)]

\* What a pass works on after CheckNSetDefaults: all its writes come after all its errors.
CheckNSetDefaults(spec) ==
  IF spec.configuration # NoText \/ Rejected(spec) THEN spec
  ELSE WithConfiguration(WithPullPolicy(spec))
=============================================================================

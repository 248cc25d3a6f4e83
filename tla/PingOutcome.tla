---------------------------- MODULE PingOutcome ----------------------------
(***************************************************************************)
(* What CheckMongodbConnection may conclude from the URLs of a collector,  *)
(* stated without the loop of PingMongoClient.  Module HealthCheck is the  *)
(* loop, and shows that a check always ends in one of these outcomes.      *)
(***************************************************************************)

\* The URLs of CollectorSpec.Mongo, in the order CheckMongodbConnection pings them.
UrlFields == {"mongo_urls", "mongo_s_url", "mongo_cs_url"}

\* urls: the fields whose URLs all have the form user:password@host.
\* first: whether the first URL of mongo_urls has it.
MongoSpecs == [urls : SUBSET UrlFields, first : BOOLEAN]

\* The fields a health check pings.
Pinged(mode) == IF mode = "full" THEN {"mongo_urls"} ELSE UrlFields

\* Every ping is answered, or a URL without credentials is indexed out of range; or,
\* before that, a ping fails.
CheckOutcomes(mode, mongo) ==
  (IF Pinged(mode) \subseteq mongo.urls THEN {"success"} ELSE {"panic"})
    \cup (IF mongo.first THEN {"failed"} ELSE {})
============================================================================

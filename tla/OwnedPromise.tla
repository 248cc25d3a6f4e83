---------------------------- MODULE OwnedPromise ----------------------------
(***************************************************************************)
(* JobPromise for a resource that may be deleted and created again: who    *)
(* owns what is published and what runs, and when it may be taken away.    *)
(***************************************************************************)
EXTENDS JobPromise

VARIABLES
  resource,  \* the resource, or Nothing
  gone,      \* the resources of its name that were deleted
  holder,    \* the owner of what is published
  owner      \* the owner of the job

ownership == << resource, gone, holder, owner >>

\* Whoever owns an object exists, or is gone and leaves the object to be collected.
Owners == gone \cup ({resource} \ {Nothing})

Submit ==
  /\ Ask
  /\ IF resource = Nothing THEN resource' \notin gone \cup {Nothing} ELSE UNCHANGED resource
  /\ UNCHANGED << gone, holder, owner >>

Delete ==
  /\ resource # Nothing
  /\ resource' = Nothing
  /\ gone' = gone \cup {resource}
  /\ reports' = << >>
  /\ UNCHANGED << asks, published, running, holder, owner >>

PublishOwned ==
  /\ Publish
  /\ holder' \in Owners
  /\ UNCHANGED << resource, gone, owner >>

\* What a pass found published may be a predecessor's and be collected at that time.
StartOwned ==
  /\ Run
  /\ published # Nothing \/ gone # {}
  /\ owner' \in Owners
  /\ UNCHANGED << resource, gone, holder >>

HandOver ==
  /\ running # Nothing
  /\ owner' \in Owners
  /\ UNCHANGED << asks, shown, resource, gone, holder >>

StopOwned ==
  /\ Stop
  /\ owner' = Nothing
  /\ UNCHANGED << resource, gone, holder >>

ReportOwned ==
  /\ resource # Nothing
  /\ Report
  /\ UNCHANGED ownership

CollectPublished ==
  /\ published # Nothing
  /\ holder \in gone
  /\ published' = Nothing /\ holder' = Nothing
  /\ UNCHANGED << asks, running, reports, resource, gone, owner >>

CollectRunning ==
  /\ running # Nothing
  /\ owner \in gone
  /\ running' = Nothing /\ owner' = Nothing
  /\ UNCHANGED << asks, published, reports, resource, gone, holder >>

OwnedInit ==
  /\ Init
  /\ resource = Nothing /\ gone = {} /\ holder = Nothing /\ owner = Nothing

OwnedNext ==
  \/ Submit \/ Delete
  \/ PublishOwned \/ StartOwned \/ HandOver \/ StopOwned \/ ReportOwned
  \/ CollectPublished \/ CollectRunning

OwnedSpec == OwnedInit /\ [][OwnedNext]_<<asks, shown, ownership>>
=============================================================================

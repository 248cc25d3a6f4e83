---------------------------- MODULE HealthCheck ----------------------------
(***************************************************************************)
(* The health check of a resource over many passes: CheckMongodbConnection *)
(* with the loop of PingMongoClient, the memory it has in the status of    *)
(* the resource, and what a pass then does to the job.  The status is      *)
(* written from a copy made when the pass began, and is lost when the user *)
(* edits the resource in between.  The clients of Dial are left out: what  *)
(* becomes of them is up to the driver.                                    *)
(***************************************************************************)
EXTENDS PingOutcome, Naturals, Sequences

CONSTANTS
  MaxUrls,    \* bound on the URLs of one field
  MaxEdits,   \* bound on pauses and resumptions
  MaxFlaps,   \* bound on servers that go down or come back
  MaxLost     \* bound on status writes that fail

ASSUME BoundsAssumption ==
  /\ MaxUrls \in Nat \ {0}
  /\ MaxEdits \in Nat /\ MaxFlaps \in Nat /\ MaxLost \in Nat

VARIABLES
  form,       \* per field, which of its URLs have the form user:password@host
  mode,       \* cr.Spec.Collector.Mode
  paused,     \* cr.Spec.Pause in the API server
  stored,     \* cr.Status.HealthCheck in the API server
  job,        \* whether there is a job
  dead,       \* the URLs whose server does not answer
  pc,         \* where the pass is
  copy,       \* the working copy: pause, health, whether an edit outdated it, and
              \* whether the pass stopped the job
  next,       \* the URL the check pings next
  checked,    \* the URLs that answered in the current check
  earned,     \* whether all did in one, since a stop of the job was last reported
  budget      \* what is left of the bounds

resource == << form, mode, paused, stored, job >>
vars == << resource, dead, pc, copy, next, checked, earned, budget >>

----------------------------------------------------------------------------
Pings(field) == [k \in 1 .. Len(form[field]) |-> << field, k >>]

\* A faulty variant of Plan: the shards are pinged first.
ShardsFirst ==
  IF mode = "full" THEN Pings("mongo_urls")
  ELSE Pings("mongo_s_url") \o Pings("mongo_cs_url") \o Pings("mongo_urls")

\* The URLs in the order of the check.
Plan ==
  IF mode = "full" THEN Pings("mongo_urls")
  ELSE Pings("mongo_urls") \o Pings("mongo_s_url") \o Pings("mongo_cs_url")

Urls == {Plan[k] : k \in 1 .. Len(Plan)}

HasCredentials(url) == form[url[1]][url[2]]

Goto(step) == pc' = step

\* CheckMongodbConnection returns at once.
NothingToCheck == copy.pause \/ copy.health = "success"

\* A pass reads the resource.
Begin ==
  /\ pc = "idle"
  /\ copy' = [pause |-> paused, health |-> stored, outdated |-> FALSE, stopped |-> FALSE]
  /\ Goto("check")
  /\ UNCHANGED << resource, dead, next, checked, earned, budget >>

\* A faulty variant of Check: a check that failed is never made again.
CheckOnce ==
  /\ pc = "check"
  /\ next' = 1 /\ checked' = {}
  /\ Goto(IF NothingToCheck THEN "job" ELSE IF copy.health = "failed" THEN "write" ELSE "ping")
  /\ UNCHANGED << resource, dead, copy, earned, budget >>

Check ==
  /\ pc = "check"
  /\ next' = 1 /\ checked' = {}
  /\ Goto(IF NothingToCheck THEN "job" ELSE "ping")
  /\ UNCHANGED << resource, dead, copy, earned, budget >>

\* PingMongoClient takes the next URL apart, and Dial connects a client.
Connect ==
  /\ pc = "ping"
  /\ next <= Len(Plan)
  /\ Goto(IF HasCredentials(Plan[next]) THEN "dialing" ELSE "panic")
  /\ UNCHANGED << resource, dead, copy, next, checked, earned, budget >>

\* Dial gets an answer to its ping.
PingAnswered ==
  /\ pc = "dialing"
  /\ Plan[next] \notin dead
  /\ checked' = checked \cup {Plan[next]}
  /\ earned' = (earned \/ Urls \subseteq checked')
  /\ next' = next + 1
  /\ Goto("ping")
  /\ UNCHANGED << resource, dead, copy, budget >>

\* A faulty variant of PingFailed: the error of one server is not looked at.
PingSkipped ==
  /\ pc = "dialing"
  /\ Plan[next] \in dead
  /\ next' = next + 1
  /\ Goto("ping")
  /\ UNCHANGED << resource, dead, copy, checked, earned, budget >>

\* The server does not answer before the timeout: the check ends there.
PingFailed ==
  /\ pc = "dialing"
  /\ Plan[next] \in dead
  /\ copy' = [copy EXCEPT !.health = "failed"]
  /\ Goto("write")
  /\ UNCHANGED << resource, dead, next, checked, earned, budget >>

\* Every URL answered.
Succeed ==
  /\ pc = "ping"
  /\ next > Len(Plan)
  /\ copy' = [copy EXCEPT !.health = "success"]
  /\ Goto("job")
  /\ UNCHANGED << resource, dead, next, checked, earned, budget >>

\* A faulty variant of ReconcileJob: the result of the check outlives the job.
StopKeepsHealth ==
  /\ pc = "job"
  /\ job' = ~copy.pause
  /\ copy' = [copy EXCEPT !.stopped = copy.pause /\ job]
  /\ Goto("write")
  /\ UNCHANGED << form, mode, paused, stored, dead, next, checked, earned, budget >>

\* reconcileJob: a job is made, or the one of a paused resource is deleted, and the
\* result of the check with it.
ReconcileJob ==
  /\ pc = "job"
  /\ job' = ~copy.pause
  /\ copy' = [copy EXCEPT !.stopped = copy.pause /\ job,
                          !.health = IF copy.pause /\ job THEN "" ELSE @]
  /\ Goto("write")
  /\ UNCHANGED << form, mode, paused, stored, dead, next, checked, earned, budget >>

\* The deferred updateStatus; an outdated copy is rejected, and any write may fail.
WriteStatus ==
  /\ pc \in {"write", "panic"}
  /\ \/ /\ ~copy.outdated
        /\ stored' = copy.health
        /\ earned' = (earned /\ ~copy.stopped)
        /\ UNCHANGED budget
     \/ /\ copy.outdated
        /\ UNCHANGED << stored, earned, budget >>
     \/ /\ budget.lost > 0
        /\ budget' = [budget EXCEPT !.lost = @ - 1]
        /\ UNCHANGED << stored, earned >>
  /\ Goto(IF pc = "panic" THEN "down" ELSE "idle")
  /\ UNCHANGED << form, mode, paused, job, dead, copy, next, checked >>

Restart ==
  /\ pc = "down"
  /\ Goto("idle")
  /\ UNCHANGED << resource, dead, copy, next, checked, earned, budget >>

Operator ==
  \/ Begin \/ Check \/ Connect \/ PingAnswered \/ PingFailed \/ Succeed
  \/ ReconcileJob \/ WriteStatus \/ Restart

\* The user pauses or resumes.
EditPause ==
  /\ budget.edits > 0
  /\ budget' = [budget EXCEPT !.edits = @ - 1]
  /\ paused' = ~paused
  /\ copy' = [copy EXCEPT !.outdated = TRUE]
  /\ UNCHANGED << form, mode, stored, job, dead, pc, next, checked, earned >>

\* A server stops answering, or answers again.
Flap ==
  /\ budget.flaps > 0
  /\ budget' = [budget EXCEPT !.flaps = @ - 1]
  /\ \E url \in Urls : dead' = IF url \in dead THEN dead \ {url} ELSE dead \cup {url}
  /\ UNCHANGED << resource, pc, copy, next, checked, earned >>

Init ==
  /\ form \in [UrlFields -> UNION {[1 .. n -> BOOLEAN] : n \in 1 .. MaxUrls}]
  /\ mode \in {"full", "incr"}
  /\ paused \in BOOLEAN
  /\ stored = ""
  /\ job = FALSE
  /\ dead = {}
  /\ pc = "idle"
  /\ copy = [pause |-> FALSE, health |-> "", outdated |-> FALSE, stopped |-> FALSE]
  /\ next = 1
  /\ checked = {}
  /\ earned = FALSE
  /\ budget = [edits |-> MaxEdits, flaps |-> MaxFlaps, lost |-> MaxLost]

Next == Operator \/ EditPause \/ Flap

Spec == Init /\ [][Next]_vars

\* The work queue brings the next pass; nothing is assumed of the user and the servers.
FairSpec == Spec /\ WF_vars(Operator)

----------------------------------------------------------------------------
Mongo ==
  [urls  |-> {field \in UrlFields : \A k \in 1 .. Len(form[field]) : form[field][k]},
   first |-> form["mongo_urls"][1]]

\* What a check has concluded.
Conclusion ==
  CASE pc = "panic"                            -> "panic"
    [] pc = "write" /\ copy.health = "failed"  -> "failed"
    [] OTHER                                   -> "none"

\* A check that fails or panics ends in an outcome that PingOutcome allows without the
\* loop, which Reconciler relies on: it fails only where the first URL can be dialled, and
\* panics only where some URL has no credentials.
OutcomesAgree == Conclusion # "none" => Conclusion \in CheckOutcomes(mode, Mongo)

\* A pass only comes to the result success, other than by reading it, when every URL of
\* every field answered in the check it made itself: a server that fails after others have
\* answered is never passed over, and PingOutcome allows the success.
SuccessIsWhole ==
  [][pc # "idle" /\ copy.health # "success" /\ copy'.health = "success" =>
       Urls \subseteq checked /\ "success" \in CheckOutcomes(mode, Mongo)]_vars

\* A resource with the health check enabled only has a job once every URL of one check
\* answered, and again so after each stop of the job that was reported, whatever checks
\* failed before and statuses were lost.
JobIsChecked == job => earned

\* A resource that stays unpaused gets its job once its servers answer, although a
\* failed check is remembered in the status and its report may be lost.
CheckSettles ==
  <>[](~paused /\ dead = {} /\ Pinged(mode) \subseteq Mongo.urls) => <>[]job
============================================================================

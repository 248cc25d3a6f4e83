------------------------- MODULE HealthCheckProofs -------------------------
(***************************************************************************)
(* The safety of the health check, for every number of URLs per field and  *)
(* every bound: a job only comes after a whole check since the last stop   *)
(* that was reported, a check only succeeds when every URL answered in it, *)
(* and one that fails or panics ends in an outcome of PingOutcome.         *)
(***************************************************************************)
EXTENDS HealthCheck, TLAPS

Forms == [UrlFields -> UNION {[1 .. n -> BOOLEAN] : n \in 1 .. MaxUrls}]

Steps == {"idle", "check", "ping", "dialing", "job", "write", "panic", "down"}

CheckTypes ==
  /\ form \in Forms
  /\ mode \in {"full", "incr"}
  /\ pc \in Steps
  /\ DOMAIN copy = {"pause", "health", "outdated", "stopped"}
  /\ next \in Nat \ {0}

\* Whatever lets a pass come to its job without a check, or is evidence of a success,
\* follows a whole check; a pass that stopped the job carries no success to its report.
EarnedInv ==
  /\ job => earned
  /\ stored = "success" => earned
  /\ copy.health = "success" => earned
  /\ pc = "job" /\ ~copy.pause => earned
  /\ pc = "write" /\ copy.stopped => ~job /\ copy.health # "success"
  /\ pc # "write" /\ pc # "idle" => ~copy.stopped

Valid == Pinged(mode) \subseteq Mongo.urls

\* The loop has found credentials in every URL before the one it is at, and had its answer;
\* a failure that is remembered is that of a check which dialed the first URL.
LoopInv ==
  /\ pc \in {"ping", "dialing"} =>
       \A k \in 1 .. Len(Plan) : k < next => HasCredentials(Plan[k]) /\ Plan[k] \in checked
  /\ pc = "ping" /\ next > Len(Plan) => earned
  /\ pc \in {"dialing", "panic"} => next <= Len(Plan)
  /\ pc = "dialing" => HasCredentials(Plan[next])
  /\ pc = "panic" => ~HasCredentials(Plan[next])
  /\ "failed" \in {stored, copy.health} => form["mongo_urls"][1]

CheckInv == CheckTypes /\ EarnedInv /\ LoopInv

----------------------------------------------------------------------------
(* The sequence of the URLs.                                               *)

Elements(s) == {s[k] : k \in 1 .. Len(s)}

LEMMA Concatenated ==
  ASSUME NEW S, NEW s \in Seq(S), NEW t \in Seq(S)
  PROVE  /\ s \o t \in Seq(S)
         /\ Len(s \o t) = Len(s) + Len(t)
         /\ Len(s) # 0 => (s \o t)[1] = s[1]
         /\ Elements(s \o t) = Elements(s) \cup Elements(t)
<1> DEFINE r == s \o t
<1>1. /\ r \in Seq(S)
      /\ Len(r) = Len(s) + Len(t)
      /\ \A k \in 1 .. Len(s) : r[k] = s[k]
      /\ \A k \in 1 .. Len(t) : r[Len(s) + k] = t[k]
      /\ \A k \in 1 .. Len(r) : k > Len(s) => r[k] = t[k - Len(s)]
      /\ Len(s) \in Nat /\ Len(t) \in Nat
  OBVIOUS
<1> HIDE DEF r
<1>2. ASSUME NEW k \in 1 .. Len(r) PROVE r[k] \in Elements(s) \cup Elements(t)
  <2>1. CASE k \in 1 .. Len(s)
    BY <2>1, <1>1 DEF Elements
  <2>2. CASE k - Len(s) \in 1 .. Len(t)
    BY <2>2, <1>1 DEF Elements
  <2> QED
    BY <2>1, <2>2, <1>1
<1>3. ASSUME NEW k \in 1 .. Len(s) PROVE s[k] \in Elements(r)
  <2>1. k \in 1 .. Len(r) /\ r[k] = s[k]
    <3>1. r[k] = s[k]
      BY <1>1
    <3>2. k \in 1 .. Len(r)
      BY <1>1
    <3> QED
      BY <3>1, <3>2
  <2> QED
    BY <2>1 DEF Elements
<1>4. ASSUME NEW k \in 1 .. Len(t) PROVE t[k] \in Elements(r)
  <2>1. Len(s) + k \in 1 .. Len(r) /\ r[Len(s) + k] = t[k]
    BY <1>1
  <2> QED
    BY <2>1 DEF Elements
<1>5. Elements(r) = Elements(s) \cup Elements(t)
  BY <1>2, <1>3, <1>4 DEF Elements
<1>6. Len(s) # 0 => r[1] = s[1]
  BY <1>1
<1> QED
  BY <1>1, <1>5, <1>6 DEF r

UrlsOf(field) == {<< field, k >> : k \in 1 .. Len(form[field])}

AnyUrls == UrlFields \X Nat

LEMMA FormLengths ==
  ASSUME form \in Forms, NEW field \in UrlFields
  PROVE  Len(form[field]) \in Nat \ {0}
<1>1. PICK n \in 1 .. MaxUrls : form[field] \in [1 .. n -> BOOLEAN]
  BY DEF Forms
<1>2. Len(form[field]) = n
  BY <1>1, BoundsAssumption
<1> QED
  BY <1>1, <1>2, BoundsAssumption

LEMMA PingsSequence ==
  ASSUME form \in Forms, NEW field \in UrlFields
  PROVE  /\ Pings(field) \in Seq(AnyUrls)
         /\ Len(Pings(field)) \in Nat \ {0}
         /\ Pings(field)[1] = << field, 1 >>
         /\ Elements(Pings(field)) = UrlsOf(field)
<1>1. Len(form[field]) \in Nat \ {0}
  BY FormLengths
<1>2. \A k \in 1 .. Len(form[field]) : << field, k >> \in AnyUrls
  BY <1>1 DEF AnyUrls
<1>3. /\ Pings(field) \in Seq(AnyUrls)
      /\ Len(Pings(field)) = Len(form[field])
      /\ \A k \in 1 .. Len(form[field]) : Pings(field)[k] = << field, k >>
  BY <1>1, <1>2 DEF Pings
<1>4. Elements(Pings(field)) = UrlsOf(field)
  BY <1>3 DEF Elements, UrlsOf
<1> QED
  BY <1>1, <1>3, <1>4

\* The plan starts with the first URL of mongo_urls, and holds the URLs of the fields that
\* are pinged, every one and no other.
LEMMA PlanHolds ==
  ASSUME form \in Forms, mode \in {"full", "incr"}
  PROVE  /\ Len(Plan) \in Nat \ {0}
         /\ Plan[1] = << "mongo_urls", 1 >>
         /\ Urls = UNION {UrlsOf(field) : field \in Pinged(mode)}
<1> DEFINE a == Pings("mongo_urls")
           b == Pings("mongo_s_url")
           c == Pings("mongo_cs_url")
<1>1. {"mongo_urls", "mongo_s_url", "mongo_cs_url"} = UrlFields
  BY DEF UrlFields
<1>2. /\ a \in Seq(AnyUrls) /\ Len(a) \in Nat \ {0} /\ a[1] = << "mongo_urls", 1 >>
      /\ Elements(a) = UrlsOf("mongo_urls")
  BY <1>1, PingsSequence
<1>3. /\ b \in Seq(AnyUrls) /\ Len(b) \in Nat \ {0}
      /\ Elements(b) = UrlsOf("mongo_s_url")
  BY <1>1, PingsSequence
<1>4. /\ c \in Seq(AnyUrls) /\ Len(c) \in Nat \ {0}
      /\ Elements(c) = UrlsOf("mongo_cs_url")
  BY <1>1, PingsSequence
<1>5. Urls = Elements(Plan)
  BY DEF Urls, Elements
<1> HIDE DEF a, b, c
<1>6. CASE mode = "full"
  <2>1. Plan = a /\ Pinged(mode) = {"mongo_urls"}
    BY <1>6 DEF Plan, Pinged, a
  <2> QED
    BY <2>1, <1>2, <1>5
<1>7. CASE mode = "incr"
  <2> DEFINE ab == a \o b
  <2>1. Plan = ab \o c /\ Pinged(mode) = UrlFields
    BY <1>7 DEF Plan, Pinged, a, b, c
  <2>2. /\ ab \in Seq(AnyUrls) /\ Len(ab) = Len(a) + Len(b)
        /\ ab[1] = a[1]
        /\ Elements(ab) = Elements(a) \cup Elements(b)
    BY <1>2, <1>3, Concatenated
  <2> HIDE DEF ab
  <2>3. /\ Len(Plan) = Len(ab) + Len(c)
        /\ Plan[1] = ab[1]
        /\ Elements(Plan) = Elements(ab) \cup Elements(c)
    <3>1. Len(ab) # 0
      BY <1>2, <1>3, <2>2
    <3>2. /\ Len(ab \o c) = Len(ab) + Len(c)
          /\ Len(ab) # 0 => (ab \o c)[1] = ab[1]
          /\ Elements(ab \o c) = Elements(ab) \cup Elements(c)
      BY <1>4, <2>2, Concatenated
    <3> QED
      BY <2>1, <3>1, <3>2
  <2>4. UNION {UrlsOf(field) : field \in Pinged(mode)} =
          (UrlsOf("mongo_urls") \cup UrlsOf("mongo_s_url")) \cup UrlsOf("mongo_cs_url")
    BY <1>1, <2>1
  <2>5. Len(Plan) \in Nat \ {0}
    BY <1>2, <1>3, <1>4, <2>2, <2>3
  <2>6. Elements(Plan) = UNION {UrlsOf(field) : field \in Pinged(mode)}
    BY <1>2, <1>3, <1>4, <2>2, <2>3, <2>4
  <2> QED
    BY <1>2, <1>5, <2>2, <2>3, <2>5, <2>6
<1> QED
  BY <1>6, <1>7

----------------------------------------------------------------------------
(* Where the loop is.                                                      *)

\* The credentials of every URL of the plan are those of every field that is pinged.
LEMMA AllValid ==
  ASSUME CheckTypes
  PROVE  (\A k \in 1 .. Len(Plan) : HasCredentials(Plan[k])) <=> Valid
<1>1. (\A k \in 1 .. Len(Plan) : HasCredentials(Plan[k])) <=> \A url \in Urls : HasCredentials(url)
  BY DEF Urls
<1>2. Urls = UNION {UrlsOf(field) : field \in Pinged(mode)}
  BY PlanHolds DEF CheckTypes
<1>3. (\A url \in Urls : HasCredentials(url)) <=>
        \A field \in Pinged(mode) : \A k \in 1 .. Len(form[field]) : HasCredentials(<< field, k >>)
  BY <1>2 DEF UrlsOf
<1>4. Pinged(mode) \subseteq UrlFields
  BY DEF Pinged, UrlFields
<1>5. \A field \in UrlFields :
        field \in Mongo.urls <=> \A k \in 1 .. Len(form[field]) : form[field][k]
  BY DEF Mongo
<1>6. \A field \in UrlFields :
        field \in Mongo.urls <=> \A k \in 1 .. Len(form[field]) : HasCredentials(<< field, k >>)
  BY <1>5 DEF HasCredentials
<1> QED
  BY <1>1, <1>3, <1>4, <1>6 DEF Valid

\* The plan does not change during a check.
LEMMA PlanSame ==
  ASSUME UNCHANGED << form, mode >>
  PROVE  /\ Plan' = Plan
         /\ \A url : HasCredentials(url)' = HasCredentials(url)
         /\ Mongo' = Mongo
         /\ Valid' = Valid
BY DEF Plan, Pings, HasCredentials, Mongo, Valid

----------------------------------------------------------------------------
(* The steps.                                                              *)

LEMMA TypesNext == CheckTypes /\ [Next]_vars => CheckTypes'
<1> SUFFICES ASSUME CheckTypes, [Next]_vars PROVE CheckTypes'
  OBVIOUS
<1> USE DEF CheckTypes, Steps, resource, Goto
<1>1. CASE Begin
  BY <1>1 DEF Begin
<1>2. CASE Check
  BY <1>2 DEF Check
<1>3. CASE Connect
  BY <1>3 DEF Connect
<1>4. CASE PingAnswered
  BY <1>4 DEF PingAnswered
<1>5. CASE PingFailed
  BY <1>5 DEF PingFailed
<1>6. CASE Succeed
  BY <1>6 DEF Succeed
<1>7. CASE ReconcileJob
  <2>1. \E t, h : copy' = [copy EXCEPT !.stopped = t, !.health = h]
    BY <1>7 DEF ReconcileJob
  <2> QED
    BY <1>7, <2>1 DEF ReconcileJob
<1>8. CASE WriteStatus
  BY <1>8 DEF WriteStatus
<1>9. CASE Restart
  BY <1>9 DEF Restart
<1>10. CASE EditPause
  BY <1>10 DEF EditPause
<1>11. CASE Flap
  BY <1>11 DEF Flap
<1>12. CASE UNCHANGED vars
  BY <1>12 DEF vars
<1> QED
  BY <1>1, <1>2, <1>3, <1>4, <1>5, <1>6, <1>7, <1>8, <1>9, <1>10, <1>11, <1>12
     DEF Next, Operator

\* The results the status may hold differ.
LEMMA ResultsDiffer == "" # "success" /\ "" # "failed"
BY Zenon

LEMMA EarnedNext == CheckInv /\ [Next]_vars => EarnedInv'
<1> SUFFICES ASSUME CheckTypes, EarnedInv, LoopInv, [Next]_vars PROVE EarnedInv'
  BY DEF CheckInv
<1> USE DEF CheckTypes, EarnedInv, resource, Goto
<1>1. CASE Begin
  BY <1>1 DEF Begin
<1>2. CASE Check
  BY <1>2 DEF Check, NothingToCheck
<1>3. CASE Connect
  BY <1>3 DEF Connect
<1>4. CASE PingAnswered
  BY <1>4 DEF PingAnswered
<1>5. CASE PingFailed
  BY <1>5 DEF PingFailed
<1>6. CASE Succeed
  <2>1. earned
    BY <1>6 DEF Succeed, LoopInv
  <2> QED
    BY <1>6, <2>1 DEF Succeed
<1>7. CASE ReconcileJob
  <2>1. CASE copy.pause /\ job
    <3>1. \E t, h : copy' = [copy EXCEPT !.stopped = t, !.health = h] /\ h # "success"
      BY <1>7, <2>1, ResultsDiffer DEF ReconcileJob
    <3>2. pc' = "write" /\ ~job' /\ UNCHANGED << stored, earned >>
      BY <1>7, <2>1 DEF ReconcileJob
    <3> QED
      BY <2>1, <3>1, <3>2
  <2>2. CASE ~(copy.pause /\ job)
    <3>1. \E t : copy' = [copy EXCEPT !.stopped = t, !.health = copy.health] /\ ~t
      BY <1>7, <2>2 DEF ReconcileJob
    <3>2. pc' = "write" /\ job' = ~copy.pause /\ UNCHANGED << stored, earned >>
      BY <1>7 DEF ReconcileJob
    <3>3. job' => earned'
      <4>1. pc = "job" /\ (~copy.pause => earned)
        BY <1>7 DEF ReconcileJob
      <4>2. (job' <=> ~copy.pause) /\ (earned' <=> earned)
        BY <3>2, Zenon
      <4> QED
        BY <4>1, <4>2, Zenon
    <3>4. copy'.health = copy.health /\ ~copy'.stopped
      BY <3>1
    <3> QED
      BY <3>2, <3>3, <3>4
  <2> QED
    BY <2>1, <2>2
<1>8. CASE WriteStatus
  <2>1. /\ UNCHANGED << job, copy >>
        /\ pc \in {"write", "panic"} /\ pc' \in {"down", "idle"}
        /\ pc' = "down" => pc = "panic"
    BY <1>8 DEF WriteStatus
  <2>2. CASE stored' = copy.health /\ earned' = (earned /\ ~copy.stopped)
    <3>1. CASE copy.stopped
      BY <2>1, <2>2, <3>1
    <3>2. CASE ~copy.stopped
      <4>1. earned' <=> earned
        BY <2>2, <3>2, Zenon
      <4> QED
        BY <2>1, <2>2, <3>2, <4>1
    <3> QED
      BY <3>1, <3>2
  <2>3. CASE UNCHANGED << stored, earned >>
    BY <2>1, <2>3
  <2> QED
    BY <1>8, <2>2, <2>3 DEF WriteStatus
<1>9. CASE Restart
  BY <1>9 DEF Restart
<1>10. CASE EditPause
  BY <1>10 DEF EditPause
<1>11. CASE Flap
  BY <1>11 DEF Flap
<1>12. CASE UNCHANGED vars
  BY <1>12 DEF vars
<1> QED
  BY <1>1, <1>2, <1>3, <1>4, <1>5, <1>6, <1>7, <1>8, <1>9, <1>10, <1>11, <1>12
     DEF Next, Operator

\* No step changes the URLs.
LEMMA FormSame == [Next]_vars => UNCHANGED << form, mode >>
BY DEF Next, Operator, Begin, Check, Connect, PingAnswered, PingFailed, Succeed, ReconcileJob,
       WriteStatus, Restart, EditPause, Flap, vars, resource

LEMMA LoopNext == CheckTypes /\ LoopInv /\ [Next]_vars => LoopInv'
<1> SUFFICES ASSUME CheckTypes, LoopInv, [Next]_vars PROVE LoopInv'
  OBVIOUS
<1>1. /\ form' = form
      /\ Plan' = Plan
      /\ \A url : HasCredentials(url)' = HasCredentials(url)
      /\ Valid' = Valid
  BY FormSame, PlanSame
<1>2. Len(Plan) \in Nat \ {0} /\ Plan[1] = << "mongo_urls", 1 >>
  BY PlanHolds DEF CheckTypes
<1> USE DEF CheckTypes, LoopInv, resource, Goto
<1>3. CASE Begin
  BY <1>1, <1>3 DEF Begin
<1>4. CASE Check
  BY <1>1, <1>2, <1>4 DEF Check
<1>5. CASE Connect
  BY <1>1, <1>5 DEF Connect
<1>6. CASE PingAnswered
  <2>1. /\ pc' = "ping" /\ next' = next + 1 /\ pc = "dialing"
        /\ checked' = checked \cup {Plan[next]}
        /\ earned' = (earned \/ Urls \subseteq checked')
        /\ UNCHANGED << stored, copy >>
    BY <1>6 DEF PingAnswered
  <2>2. \A k \in 1 .. Len(Plan) : k < next' => HasCredentials(Plan[k]) /\ Plan[k] \in checked'
    BY <2>1
  <2>3. next' > Len(Plan) => earned'
    <3>1. next \in Nat /\ Len(Plan) \in Nat
      BY <1>2
    <3>2. next' > Len(Plan) => \A k \in 1 .. Len(Plan) : Plan[k] \in checked'
      BY <2>2, <2>1, <3>1
    <3>3. next' > Len(Plan) => Urls \subseteq checked'
      BY <3>2 DEF Urls
    <3> QED
      BY <2>1, <3>3
  <2> QED
    BY <1>1, <2>1, <2>2, <2>3
<1>7. CASE PingFailed
  <2>1. HasCredentials(Plan[1])
    BY <1>2, <1>7 DEF PingFailed
  <2>2. form["mongo_urls"][1]
    BY <2>1, <1>2 DEF HasCredentials
  <2> QED
    BY <1>1, <1>7, <2>2 DEF PingFailed
<1>8. CASE Succeed
  BY <1>1, <1>8 DEF Succeed
<1>9. CASE ReconcileJob
  <2>1. \E t, h : /\ copy' = [copy EXCEPT !.stopped = t, !.health = h]
                  /\ h # "failed" \/ h = copy.health
    BY <1>9, ResultsDiffer DEF ReconcileJob
  <2> QED
    BY <1>1, <1>9, <2>1 DEF ReconcileJob
<1>10. CASE WriteStatus
  BY <1>1, <1>10 DEF WriteStatus
<1>11. CASE Restart
  BY <1>1, <1>11 DEF Restart
<1>12. CASE EditPause
  BY <1>1, <1>12 DEF EditPause
<1>13. CASE Flap
  BY <1>1, <1>13 DEF Flap
<1>14. CASE UNCHANGED vars
  BY <1>1, <1>14 DEF vars
<1> QED
  BY <1>3, <1>4, <1>5, <1>6, <1>7, <1>8, <1>9, <1>10, <1>11, <1>12, <1>13, <1>14
     DEF Next, Operator

LEMMA InitCheck == Init => CheckInv
<1> SUFFICES ASSUME Init PROVE CheckInv
  OBVIOUS
<1>1. stored # "success" /\ stored # "failed"
  BY ResultsDiffer, Zenon DEF Init
<1>2. DOMAIN copy = {"pause", "health", "outdated", "stopped"} /\ copy.health = stored
  BY Zenon DEF Init
<1>3. /\ form \in Forms /\ mode \in {"full", "incr"}
      /\ job = FALSE /\ pc = "idle" /\ next = 1 /\ earned = FALSE
  BY Zenon DEF Init, Forms
<1> QED
  BY <1>1, <1>2, <1>3 DEF CheckInv, CheckTypes, EarnedInv, LoopInv, Steps

\* Between its steps a check has earned what it remembers, and the loop has examined what
\* its place says, whatever servers went down, edits were made and reports were lost.
THEOREM CheckInvariant == Spec => []CheckInv
<1>1. CheckInv /\ [Next]_vars => CheckInv'
  BY TypesNext, EarnedNext, LoopNext DEF CheckInv
<1> QED
  BY <1>1, InitCheck, PTL DEF Spec

\* However many checks failed, reports were lost and jobs were stopped before: a resource
\* only has a job if a whole check answered since the last stop that was reported.
THEOREM JobsAreChecked == Spec => []JobIsChecked
<1>1. CheckInv => JobIsChecked
  BY DEF CheckInv, EarnedInv, JobIsChecked
<1> QED
  BY <1>1, CheckInvariant, PTL

\* For every number of URLs, a check that fails or panics ends in an outcome that
\* PingOutcome allows.
THEOREM OutcomesAllowed == Spec => []OutcomesAgree
<1>1. ASSUME CheckInv PROVE OutcomesAgree
  <2> USE <1>1 DEF CheckInv
  <2>1. CASE pc = "panic"
    <3>1. ~Valid
      BY <2>1, PlanHolds, AllValid DEF LoopInv, CheckTypes
    <3>2. "panic" \in CheckOutcomes(mode, Mongo)
      BY <3>1 DEF CheckOutcomes, Valid
    <3> QED
      BY <2>1, <3>2 DEF OutcomesAgree, Conclusion
  <2>2. CASE pc # "panic" /\ copy.health = "failed"
    <3>1. Mongo.first
      BY <2>2 DEF LoopInv, Mongo
    <3> QED
      BY <2>2, <3>1 DEF OutcomesAgree, Conclusion, CheckOutcomes
  <2>3. CASE pc # "panic" /\ copy.health # "failed"
    BY <2>3 DEF OutcomesAgree, Conclusion
  <2> QED
    BY <2>1, <2>2, <2>3
<1> QED
  BY <1>1, CheckInvariant, PTL

\* For every number of URLs, a check only succeeds when each of them answered in it.
THEOREM SuccessesAreWhole == Spec => SuccessIsWhole
<1> DEFINE Whole ==
      pc # "idle" /\ copy.health # "success" /\ copy'.health = "success" =>
        Urls \subseteq checked /\ "success" \in CheckOutcomes(mode, Mongo)
<1>1. ASSUME CheckInv, Next PROVE Whole
  <2> SUFFICES ASSUME pc # "idle", copy.health # "success", copy'.health = "success"
               PROVE  Urls \subseteq checked /\ "success" \in CheckOutcomes(mode, Mongo)
    OBVIOUS
  <2>1. DOMAIN copy = {"pause", "health", "outdated", "stopped"}
    BY <1>1 DEF CheckInv, CheckTypes
  <2>2. Succeed
    <3>1. ~Begin
      BY DEF Begin
    <3>2. ~PingFailed
      BY <2>1 DEF PingFailed
    <3>3. ~ReconcileJob
      <4> SUFFICES ASSUME ReconcileJob PROVE FALSE
        OBVIOUS
      <4>1. \E t, h : copy' = [copy EXCEPT !.stopped = t, !.health = h] /\ h # "success"
        BY ResultsDiffer DEF ReconcileJob
      <4> QED
        BY <2>1, <4>1
    <3>4. ~(Check \/ Connect \/ PingAnswered \/ WriteStatus \/ Restart \/ Flap)
      BY DEF Check, Connect, PingAnswered, WriteStatus, Restart, Flap
    <3>5. ~EditPause
      BY <2>1 DEF EditPause
    <3> QED
      BY <1>1, <3>1, <3>2, <3>3, <3>4, <3>5 DEF Next, Operator
  <2>3. \A k \in 1 .. Len(Plan) : HasCredentials(Plan[k]) /\ Plan[k] \in checked
    <3>1. pc = "ping" /\ next > Len(Plan)
      BY <2>2 DEF Succeed
    <3>2. next \in Nat /\ Len(Plan) \in Nat
      BY <1>1, PlanHolds DEF CheckInv, CheckTypes
    <3> QED
      BY <1>1, <3>1, <3>2 DEF CheckInv, LoopInv
  <2>4. Valid
    BY <1>1, <2>3, AllValid DEF CheckInv
  <2>5. "success" \in CheckOutcomes(mode, Mongo)
    BY <2>4 DEF CheckOutcomes, Valid
  <2> QED
    BY <2>3, <2>5 DEF Urls
<1>2. CheckInv /\ [Next]_vars => [Whole]_vars
  BY <1>1 DEF vars
<1> QED
  BY <1>2, CheckInvariant, PTL DEF Spec, SuccessIsWhole
============================================================================

-------------------------- MODULE ReconcilerProofs --------------------------
(***************************************************************************)
(* Theorems about Reconciler, for every set of operator processes, pods    *)
(* and specs and every bound.                                              *)
(***************************************************************************)
EXTENDS Reconciler, TLAPS

----------------------------------------------------------------------------
(* The status operators, for every length of the history.                  *)

\* AddCondition keeps the history a sequence of states of bounded length in which no two
\* neighbours are equal, and puts the given state at its end.
LEMMA AddConditionCoherent ==
  ASSUME NEW c \in Seq(AppStates), NEW t \in AppStates,
         Len(c) <= maxStatusesQuantity,
         \A i \in 1 .. Len(c) - 1 : c[i] # c[i + 1]
  PROVE  LET r == AddCondition(c, t) IN
         /\ r \in Seq(AppStates)
         /\ Len(r) <= maxStatusesQuantity
         /\ \A i \in 1 .. Len(r) - 1 : r[i] # r[i + 1]
         /\ r # << >>
         /\ r[Len(r)] = t
         /\ Extends(r, c)
<1> DEFINE grown == IF Len(c) = 0 \/ c[Len(c)] # t THEN Append(c, t) ELSE c
           extra == Len(grown) - maxStatusesQuantity
           r     == AddCondition(c, t)
<1> USE MaxStatusesAssumption
<1>1. CASE Len(c) # 0 /\ c[Len(c)] = t
  <2>1. r = c
    BY <1>1 DEF AddCondition
  <2> QED
    BY <1>1, <2>1 DEF Extends
<1>2. CASE Len(c) = 0 \/ c[Len(c)] # t
  <2>1. /\ grown = Append(c, t)
        /\ grown \in Seq(AppStates)
        /\ Len(grown) = Len(c) + 1
        /\ \A i \in 1 .. Len(c) : grown[i] = c[i]
        /\ grown[Len(c) + 1] = t
    BY <1>2
  <2>2. \A i \in 1 .. Len(grown) - 1 : grown[i] # grown[i + 1]
    <3> TAKE i \in 1 .. Len(grown) - 1
    <3>1. CASE i < Len(c)
      BY <3>1, <2>1
    <3>2. CASE i = Len(c)
      BY <3>2, <2>1, <1>2
    <3> QED
      BY <3>1, <3>2, <2>1
  <2>3. CASE Len(c) < maxStatusesQuantity
    <3>1. r = Append(c, t)
      <4>1. ~(extra > 0)
        BY <2>3, <2>1
      <4>2. r = grown
        BY <4>1, <1>2 DEF AddCondition
      <4> QED
        BY <4>2, <2>1
    <3>2. Extends(r, c)
      <4>1. c = << >> \/ c[Len(c)] # t
        BY <1>2
      <4> QED
        BY <3>1, <2>3, <4>1 DEF Extends
    <3> QED
      BY <3>1, <3>2, <2>1, <2>2, <2>3
  <2>4. CASE Len(c) = maxStatusesQuantity
    <3>1. r = SubSeq(grown, 2, Len(grown))
      <4>1. extra = 1
        BY <2>4, <2>1
      <4> QED
        BY <4>1, <1>2 DEF AddCondition
    <3>2. /\ r \in Seq(AppStates)
          /\ Len(r) = Len(c)
          /\ \A i \in 1 .. Len(r) : r[i] = grown[i + 1]
      BY <3>1, <2>1, <2>4
    <3>3. \A i \in 1 .. Len(r) - 1 : r[i] # r[i + 1]
      BY <3>2, <2>1, <2>2
    <3>4. Append(Tail(c), t) \in Seq(AppStates) /\ Len(Append(Tail(c), t)) = Len(c)
      BY <2>4
    <3>5. \A i \in 1 .. Len(c) : r[i] = Append(Tail(c), t)[i]
      BY <3>2, <2>1, <2>4
    <3>6. r = Append(Tail(c), t)
      BY <3>2, <3>4, <3>5
    <3>7. Extends(r, c)
      <4>1. c = << >> \/ c[Len(c)] # t
        BY <1>2
      <4> QED
        BY <3>6, <2>4, <4>1 DEF Extends
    <3> QED
      BY <3>2, <3>3, <3>7, <2>1, <2>4
  <2> QED
    BY <2>3, <2>4
<1> QED
  BY <1>1, <1>2

\* A state that is already the last condition is not added again.
LEMMA AddConditionAgain ==
  ASSUME NEW c \in Seq(AppStates), c # << >>, Len(c) <= maxStatusesQuantity
  PROVE  AddCondition(c, c[Len(c)]) = c
<1>1. Len(c) # 0 /\ ~(Len(c) - maxStatusesQuantity > 0)
  BY MaxStatusesAssumption
<1> QED
  BY <1>1 DEF AddCondition

\* An error report of a coherent status is coherent, and its history extends the old one.
LEMMA ErrorReportedCoherent ==
  ASSUME NEW s \in Statuses, Coherent(s)
  PROVE  LET e == ErrorReported(s) IN
         /\ e \in Statuses
         /\ Coherent(e)
         /\ Extends(e.conditions, s.conditions)
<1> DEFINE e == ErrorReported(s)
<1>1. s.conditions \in Seq(AppStates) /\ "error" \in AppStates /\ s.health \in HealthChecks
  BY DEF Statuses, AppStates
<1>2. CASE s.state = "error"
  <2>1. e = [s EXCEPT !.state = "error", !.message = TRUE]
    BY <1>2 DEF ErrorReported, Statuses
  <2>2. e.state = "error" /\ e.message = TRUE /\ e.conditions = s.conditions /\ e.health = s.health
    BY <2>1 DEF Statuses
  <2>3. e \in Statuses
    BY <2>1, <1>1 DEF Statuses
  <2>4. Coherent(e)
    BY <2>2, <1>2 DEF Coherent
  <2> QED
    BY <2>2, <2>3, <2>4 DEF Extends
<1>3. CASE s.state # "error"
  <2> DEFINE c == AddCondition(s.conditions, "error")
  <2>1. e = [s EXCEPT !.state = "error", !.message = TRUE, !.conditions = c]
    BY <1>3 DEF ErrorReported, Statuses
  <2>2. /\ c \in Seq(AppStates)
        /\ Len(c) <= maxStatusesQuantity
        /\ \A i \in 1 .. Len(c) - 1 : c[i] # c[i + 1]
        /\ c # << >>
        /\ c[Len(c)] = "error"
        /\ Extends(c, s.conditions)
    BY <1>1, AddConditionCoherent DEF Coherent
  <2>3. e.state = "error" /\ e.message = TRUE /\ e.conditions = c /\ e.health = s.health
    BY <2>1 DEF Statuses
  <2>4. e \in Statuses
    BY <2>1, <2>2, <1>1 DEF Statuses
  <2>5. Coherent(e)
    BY <2>2, <2>3 DEF Coherent, NoState
  <2> QED
    BY <2>2, <2>3, <2>4, <2>5
<1> QED
  BY <1>2, <1>3

\* So is the report of what the pods show, for each state jobStatus returns; although
\* AddCondition is called twice, at most one condition is added.
LEMMA JobReportedCoherent ==
  ASSUME NEW s \in Statuses, Coherent(s), NEW j \in AppStates \ {"error"}
  PROVE  LET e == JobReported(s, j, "initializing") IN
         /\ e \in Statuses
         /\ Coherent(e)
         /\ Extends(e.conditions, s.conditions)
<1> DEFINE e == JobReported(s, j, "initializing")
           changed == IF j # s.state THEN AddCondition(s.conditions, j) ELSE s.conditions
           state == IF j \in {"running", "complete", "stopping", "paused"}
                    THEN j ELSE "initializing"
<1>1. s.conditions \in Seq(AppStates) /\ s.health \in HealthChecks
  BY DEF Statuses
<1>2. state = j
  BY DEF AppStates
<1>3. /\ changed \in Seq(AppStates)
      /\ Len(changed) <= maxStatusesQuantity
      /\ \A i \in 1 .. Len(changed) - 1 : changed[i] # changed[i + 1]
      /\ changed # << >>
      /\ changed[Len(changed)] = j
      /\ Extends(changed, s.conditions)
  <2>1. CASE j # s.state
    <3>1. changed = AddCondition(s.conditions, j)
      BY <2>1
    <3>2. /\ Len(s.conditions) <= maxStatusesQuantity
          /\ \A i \in 1 .. Len(s.conditions) - 1 : s.conditions[i] # s.conditions[i + 1]
      BY DEF Coherent
    <3> HIDE DEF changed
    <3> QED
      BY <3>1, <3>2, <1>1, AddConditionCoherent
  <2>2. CASE j = s.state
    <3>1. s.state # NoState
      BY <2>2 DEF AppStates, NoState
    <3> QED
      BY <3>1, <2>2, <1>1 DEF Coherent, Extends
  <2> QED
    BY <2>1, <2>2
<1>4. AddCondition(changed, state) = changed
  BY <1>2, <1>3, AddConditionAgain
<1>5. e = [s EXCEPT !.state = state, !.message = FALSE, !.conditions = AddCondition(changed, state)]
  BY DEF JobReported
<1>6. e = [s EXCEPT !.state = j, !.message = FALSE, !.conditions = changed]
  BY <1>2, <1>4, <1>5
<1>7. e.state = j /\ e.message = FALSE /\ e.conditions = changed /\ e.health = s.health
  BY <1>6 DEF Statuses
<1>8. e \in Statuses
  BY <1>6, <1>3, <1>1 DEF Statuses
<1>9. Coherent(e)
  BY <1>3, <1>7 DEF Coherent, NoState, AppStates
<1> QED
  BY <1>3, <1>7, <1>8, <1>9

----------------------------------------------------------------------------
(* Types of the parts the actions are built from.                          *)

LEMMA DefaultedType == \A spec \in Specs : Defaulted(spec) \in Specs
<1> SUFFICES ASSUME NEW spec \in Specs PROVE Defaulted(spec) \in Specs
  OBVIOUS
<1>1. CASE spec.configuration = "" /\ ~Invalid(spec)
  <2>1. spec.collector \in Collectors
    BY <1>1 DEF Invalid, Specs
  <2>2. spec.collector.text \in Texts
    BY <2>1 DEF Collectors
  <2> QED
    BY <1>1, <2>2 DEF Defaulted, Specs
<1>2. CASE ~(spec.configuration = "" /\ ~Invalid(spec))
  BY <1>2 DEF Defaulted
<1> QED
  BY <1>1, <1>2

LEMMA CheckedType ==
  ASSUME NEW s \in Statuses, NEW health \in HealthChecks
  PROVE  /\ Checked(s, health) \in Statuses
         /\ Coherent(s) => Coherent(Checked(s, health))
         /\ Checked(s, health).conditions = s.conditions
  BY DEF Checked, Statuses, Coherent

LEMMA WithStatusType ==
  ASSUME NEW w \in Works, NEW s \in Statuses
  PROVE  /\ WithStatus(w, s) \in Works
         /\ WithStatus(w, s).cr = [w.cr EXCEPT !.status = s]
         /\ WithStatus(w, s).cr \in Resources
         /\ WithStatus(w, s).cr.status = s
         /\ WithStatus(w, s).cr.spec = w.cr.spec
         /\ WithStatus(w, s).cr.uid = w.cr.uid
  BY DEF WithStatus, Works, Resources

\* The working copy of an operator in a pass.
LEMMA Busy ==
  ASSUME PassesOK, NEW o \in Operators, pc[o] \in Steps
  PROVE  /\ work[o] \in Works
         /\ work[o] # Absent
         /\ work[o].cr \in Resources
         /\ work[o].cr.uid \in Nat
         /\ work[o].cr.spec \in Specs
         /\ work[o].cr.status \in Statuses
         /\ Health(o) \in HealthChecks
         /\ work[o].panic \in BOOLEAN
<1>1. work[o] \in Works /\ work[o] # Absent
  BY DEF PassesOK
<1> QED
  BY <1>1 DEF Works, Resources, Statuses, Health

----------------------------------------------------------------------------
(* The inductive invariant behind TypeOK and StatusCoherent: the types, and *)
(* the coherence of the status of every copy of the resource.               *)

StoreInv == StoreOK /\ (cr # Absent => Coherent(cr.status))

CacheInv ==
  /\ CachesOK
  /\ \A o \in Operators : cache[o].cr # Absent => Coherent(cache[o].cr.status)

PassInv ==
  /\ PassesOK
  /\ \A o \in Operators : work[o] # Absent => Coherent(work[o].cr.status)

StatusInv == StoreInv /\ CacheInv /\ PassInv

LEMMA GotoInv ==
  ASSUME PassInv, NEW o \in Operators, pc[o] \in Steps, NEW step \in Steps, Goto(o, step)
  PROVE  PassInv'
<1>1. work' = work /\ budget' = budget
  BY DEF Goto
<1>2. pc' = [pc EXCEPT ![o] = step]
  BY DEF Goto
<1>3. pc' \in [Operators -> Steps \cup {"idle", "down"}]
  BY <1>2 DEF PassInv, PassesOK
<1>4. \A q \in Operators : work'[q] # Absent <=> pc'[q] \in Steps
  BY <1>1, <1>2 DEF PassInv, PassesOK
<1> QED
  BY <1>1, <1>3, <1>4 DEF PassInv, PassesOK

LEMMA FallbackInv ==
  ASSUME PassInv, NEW o \in Operators, pc[o] \in Steps,
         pc' = [pc EXCEPT ![o] = "fallback"], UNCHANGED work, budget' \in Budgets
  PROVE  PassInv'
<1>1. pc' \in [Operators -> Steps \cup {"idle", "down"}]
  BY DEF PassInv, PassesOK, Steps
<1>2. \A q \in Operators : work'[q] # Absent <=> pc'[q] \in Steps
  BY DEF PassInv, PassesOK, Steps
<1> QED
  BY <1>1, <1>2 DEF PassInv, PassesOK

\* A pass goes on at another step with a working copy that has another status.
LEMMA RewriteInv ==
  ASSUME PassInv, NEW o \in Operators, pc[o] \in Steps, NEW step \in Steps,
         NEW s \in Statuses, Coherent(s),
         pc' = [pc EXCEPT ![o] = step],
         work' = [work EXCEPT ![o] = WithStatus(work[o], s)],
         budget' \in Budgets
  PROVE  PassInv'
<1>1. work[o] \in Works /\ work[o] # Absent
  BY Busy DEF PassInv
<1>2. /\ WithStatus(work[o], s) \in Works
      /\ WithStatus(work[o], s).cr.status = s
  BY <1>1, WithStatusType
<1>3. WithStatus(work[o], s) # Absent
  BY <1>2, ConstantsAssumption
<1>4. pc' \in [Operators -> Steps \cup {"idle", "down"}]
  BY DEF PassInv, PassesOK
<1>5. work' \in [Operators -> Works \cup {Absent}]
  BY <1>2 DEF PassInv, PassesOK
<1>6. \A q \in Operators : work'[q] # Absent <=> pc'[q] \in Steps
  BY <1>3 DEF PassInv, PassesOK
<1>7. \A q \in Operators : work'[q] # Absent => Coherent(work'[q].cr.status)
  BY <1>2 DEF PassInv, PassesOK
<1> QED
  BY <1>4, <1>5, <1>6, <1>7 DEF PassInv, PassesOK

LEMMA AbortInv ==
  ASSUME PassInv, NEW o \in Operators, pc[o] \in Steps, NEW health \in HealthChecks,
         Abort(o, health), budget' \in Budgets
  PROVE  PassInv'
<1> DEFINE s == Checked(work[o].cr.status, health)
<1>1. work[o].cr.status \in Statuses /\ Coherent(work[o].cr.status)
  BY Busy DEF PassInv
<1>2. s \in Statuses /\ Coherent(s)
  BY <1>1, CheckedType
<1>3. ErrorReported(s) \in Statuses /\ Coherent(ErrorReported(s))
  BY <1>2, ErrorReportedCoherent
<1>4. /\ pc' = [pc EXCEPT ![o] = "statusWrite"]
      /\ work' = [work EXCEPT ![o] = WithStatus(work[o], ErrorReported(s))]
  BY DEF Abort
<1>5. "statusWrite" \in Steps
  BY DEF Steps
<1> HIDE DEF s
<1> QED
  BY <1>3, <1>4, <1>5, RewriteInv

LEMMA FaultType == ASSUME budget \in Budgets, Fault PROVE budget' \in Budgets
  BY DEF Budgets, Fault

LEMMA FailInv ==
  ASSUME PassInv, NEW o \in Operators, pc[o] \in Steps, Fail(o)
  PROVE  PassInv'
<1>1. Health(o) \in HealthChecks /\ budget' \in Budgets
  BY Busy DEF PassInv, PassesOK, Fail
<1> QED
  BY <1>1, AbortInv DEF Fail

LEMMA AnsweredInv ==
  ASSUME PassInv, NEW o \in Operators, pc[o] \in Steps, NEW step \in Steps, Answered(o, step)
  PROVE  PassInv'
<1>1. CASE Goto(o, step)
  BY <1>1, GotoInv
<1>2. CASE Fault /\ Abort(o, Health(o))
  <2>1. Health(o) \in HealthChecks /\ budget' \in Budgets
    BY <1>2, Busy, FaultType DEF PassInv, PassesOK
  <2> QED
    BY <1>2, <2>1, AbortInv
<1> QED
  BY <1>1, <1>2 DEF Answered

LEMMA PanicInv ==
  ASSUME PassInv, NEW o \in Operators, pc[o] \in Steps, Panic(o)
  PROVE  PassInv'
<1>1. work[o] \in Works
  BY Busy DEF PassInv
<1>2. [work[o] EXCEPT !.panic = TRUE] \in Works /\ [work[o] EXCEPT !.panic = TRUE].cr = work[o].cr
  BY <1>1 DEF Works
<1>3. /\ pc' = [pc EXCEPT ![o] = "status"]
      /\ work' = [work EXCEPT ![o] = [work[o] EXCEPT !.panic = TRUE]]
      /\ budget' = budget
  BY DEF Panic
<1>4. [work[o] EXCEPT !.panic = TRUE] # Absent
  BY <1>2, ConstantsAssumption
<1>5. pc' \in [Operators -> Steps \cup {"idle", "down"}] /\ work' \in [Operators -> Works \cup {Absent}]
  BY <1>2, <1>3 DEF PassInv, PassesOK, Steps
<1>6. \A q \in Operators : work'[q] # Absent <=> pc'[q] \in Steps
  BY <1>3, <1>4 DEF PassInv, PassesOK, Steps
<1>7. \A q \in Operators : work'[q] # Absent => Coherent(work'[q].cr.status)
  <2> SUFFICES ASSUME NEW q \in Operators, work'[q] # Absent
               PROVE  Coherent(work'[q].cr.status)
    OBVIOUS
  <2>1. work[o] # Absent
    BY Busy DEF PassInv
  <2>2. CASE q = o
    <3>1. work'[q].cr = work[o].cr
      BY <2>2, <1>2, <1>3 DEF PassInv, PassesOK
    <3> QED
      BY <3>1, <2>1 DEF PassInv
  <2>3. CASE q # o
    BY <2>3, <1>3 DEF PassInv, PassesOK
  <2> QED
    BY <2>2, <2>3
<1> QED
  BY <1>3, <1>5, <1>6, <1>7 DEF PassInv, PassesOK

\* A pass ends, or its process dies: the working copy is gone.
LEMMA DropInv ==
  ASSUME PassInv, NEW o \in Operators, NEW place \in {"idle", "down"},
         pc' = [pc EXCEPT ![o] = place],
         work' = [work EXCEPT ![o] = Absent],
         budget' \in Budgets
  PROVE  PassInv'
<1>1. pc' \in [Operators -> Steps \cup {"idle", "down"}] /\ work' \in [Operators -> Works \cup {Absent}]
  BY DEF PassInv, PassesOK
<1>2. \A q \in Operators : work'[q] # Absent <=> pc'[q] \in Steps
  BY DEF PassInv, PassesOK, Steps
<1>3. \A q \in Operators : work'[q] # Absent => Coherent(work'[q].cr.status)
  BY DEF PassInv, PassesOK
<1> QED
  BY <1>1, <1>2, <1>3 DEF PassInv, PassesOK

LEMMA FinishInv ==
  ASSUME PassInv, NEW o \in Operators, Finish(o), budget' \in Budgets
  PROVE  PassInv'
<1> DEFINE place == IF work[o].panic THEN "down" ELSE "idle"
<1>1. place \in {"idle", "down"}
  OBVIOUS
<1>2. pc' = [pc EXCEPT ![o] = place] /\ work' = [work EXCEPT ![o] = Absent]
  BY DEF Finish
<1> HIDE DEF place
<1> QED
  BY <1>1, <1>2, DropInv

LEMMA StoreSame == ASSUME StoreInv, UNCHANGED << cr, objects >> PROVE StoreInv'
  BY DEF StoreInv, StoreOK, objects

LEMMA CacheSame ==
  ASSUME CacheInv, UNCHANGED << cache, cachedLatest, queued >>, heldLatest' \in SUBSET Operators
  PROVE  CacheInv'
  BY DEF CacheInv, CachesOK

LEMMA PassSame == ASSUME PassInv, UNCHANGED << pc, work >>, budget' \in Budgets PROVE PassInv'
  BY DEF PassInv, PassesOK

\* A write that stores a coherent resource.
LEMMA StoredInv ==
  ASSUME StoreInv, CachesOK, NEW new \in Resources, Coherent(new.status), NEW writers \in SUBSET Operators,
         Stored(new, writers), UNCHANGED objects
  PROVE  StoreInv' /\ cachedLatest' \in SUBSET Operators /\ heldLatest' \in SUBSET Operators
  BY DEF StoreInv, StoreOK, CachesOK, Stored, objects

----------------------------------------------------------------------------
(* The steps of a pass preserve the invariant.                              *)

LEMMA ReconcileInv ==
  ASSUME StatusInv, NEW o \in Operators, Reconcile(o)
  PROVE  StatusInv'
<1> DEFINE got  == cache[o].cr
           copy == IF Invalid(got.spec) THEN [got EXCEPT !.status = ErrorReported(@)]
                                        ELSE [got EXCEPT !.spec = Defaulted(@)]
<1>1. StoreInv'
  BY StoreSame DEF StatusInv, Reconcile
<1>2. CacheInv /\ CachesOK /\ PassInv /\ PassesOK
  BY DEF StatusInv, CacheInv, PassInv
<1>3. CASE cache[o].cr = Absent /\ queued' = [queued EXCEPT ![o] = FALSE]
           /\ UNCHANGED << pc, work, heldLatest >>
  <2>1. CacheInv'
    BY <1>2, <1>3 DEF CacheInv, CachesOK, Reconcile
  <2>2. PassInv'
    BY <1>2, <1>3, PassSame DEF PassesOK, Reconcile
  <2> QED
    BY <1>1, <2>1, <2>2 DEF StatusInv
<1>4. CASE /\ got # Absent
           /\ work' = [work EXCEPT ![o] = [cr |-> copy, panic |-> FALSE, found |-> Absent]]
           /\ pc' = [pc EXCEPT ![o] = IF Invalid(got.spec) THEN "statusWrite"
                                      ELSE IF NoPing(got) THEN "configMap" ELSE "ping"]
           /\ heldLatest' = IF o \in cachedLatest THEN heldLatest \cup {o} ELSE heldLatest \ {o}
           /\ UNCHANGED queued
  <2>1. CacheInv'
    <3>1. heldLatest' \in SUBSET Operators
      BY <1>2, <1>4 DEF CachesOK
    <3> QED
      BY <3>1, <1>2, <1>4, CacheSame DEF Reconcile
  <2>2. got \in Resources /\ Coherent(got.status)
    BY <1>2, <1>4 DEF CacheInv, CachesOK, Caches
  <2>3. got.spec \in Specs /\ got.status \in Statuses
    BY <2>2 DEF Resources
  <2>4. copy \in Resources /\ Coherent(copy.status)
    <3>1. CASE Invalid(got.spec)
      <4>1. ErrorReported(got.status) \in Statuses /\ Coherent(ErrorReported(got.status))
        BY <2>2, <2>3, ErrorReportedCoherent
      <4> QED
        BY <3>1, <4>1, <2>2 DEF Resources
    <3>2. CASE ~Invalid(got.spec)
      <4>1. Defaulted(got.spec) \in Specs
        BY <2>3, DefaultedType
      <4> QED
        BY <3>2, <4>1, <2>2 DEF Resources
    <3> QED
      BY <3>1, <3>2
  <2> DEFINE w == [cr |-> copy, panic |-> FALSE, found |-> Absent]
  <2>5. w \in Works /\ w.cr = copy
    BY <2>4 DEF Works
  <2>6. w # Absent
    BY <2>5, ConstantsAssumption
  <2> HIDE DEF copy
  <2>7. PassInv'
    <3>1. pc' \in [Operators -> Steps \cup {"idle", "down"}]
      BY <1>2, <1>4 DEF PassesOK, Steps
    <3>2. work' \in [Operators -> Works \cup {Absent}]
      BY <1>2, <1>4, <2>5 DEF PassesOK
    <3>3. \A q \in Operators : work'[q] # Absent <=> pc'[q] \in Steps
      BY <1>2, <1>4, <2>6 DEF PassesOK, Steps
    <3>4. \A q \in Operators : work'[q] # Absent => Coherent(work'[q].cr.status)
      <4> SUFFICES ASSUME NEW q \in Operators, work'[q] # Absent
                   PROVE  Coherent(work'[q].cr.status)
        OBVIOUS
      <4>1. CASE q = o
        BY <4>1, <1>2, <1>4, <2>4, <2>5 DEF PassesOK
      <4>2. CASE q # o
        BY <4>2, <1>2, <1>4 DEF PassesOK, PassInv
      <4> QED
        BY <4>1, <4>2
    <3> QED
      BY <3>1, <3>2, <3>3, <3>4, <1>2 DEF PassInv, PassesOK, Reconcile
  <2> QED
    BY <1>1, <2>1, <2>7 DEF StatusInv
<1> QED
  BY <1>3, <1>4 DEF Reconcile

\* A step of a pass that touches neither the resource nor the caches.
LEMMA QuietInv ==
  ASSUME StatusInv, UNCHANGED << cr, cache, queued, latest >>, PassInv',
         cm' \in ConfigMaps \cup {Absent}, pvc' \in Claims \cup {Absent},
         job' \in Jobs \cup {Absent}, pods' \in [Pods -> PodValues]
  PROVE  StatusInv'
  BY DEF StatusInv, StoreInv, StoreOK, CacheInv, CachesOK, latest

\* A pass ends without a write.
LEMMA EndInv ==
  ASSUME StatusInv, NEW o \in Operators, Finish(o), budget' \in Budgets,
         UNCHANGED << cr, objects, cache, queued, cachedLatest >>,
         heldLatest' = heldLatest \ {o}
  PROVE  StatusInv'
<1>1. StoreInv'
  BY StoreSame DEF StatusInv
<1>2. CacheInv'
  <2>1. heldLatest' \in SUBSET Operators
    BY DEF StatusInv, CacheInv, CachesOK
  <2> QED
    BY <2>1, CacheSame DEF StatusInv
<1>3. PassInv'
  BY FinishInv DEF StatusInv
<1> QED
  BY <1>1, <1>2, <1>3 DEF StatusInv

LEMMA PingInv ==
  ASSUME StatusInv, NEW o \in Operators, CheckMongodbConnection(o)
  PROVE  StatusInv'
<1>1. PassInv /\ PassesOK /\ StoreOK
  BY DEF StatusInv, PassInv, StoreInv
<1>2. pc[o] \in Steps
  BY DEF CheckMongodbConnection, Steps
<1>3. PassInv'
  <2> DEFINE s == Checked(work[o].cr.status, "success")
  <2>1. CASE Fail(o)
    BY <1>1, <1>2, <2>1, FailInv
  <2>2. CASE /\ work' = [work EXCEPT ![o] = WithStatus(work[o], s)]
             /\ pc' = [pc EXCEPT ![o] = "configMap"]
             /\ UNCHANGED budget
    <3>1. work[o].cr.status \in Statuses /\ Coherent(work[o].cr.status)
      BY <1>1, <1>2, Busy DEF PassInv
    <3>2. s \in Statuses /\ Coherent(s)
      BY <3>1, CheckedType DEF HealthChecks
    <3>3. "configMap" \in Steps /\ budget' \in Budgets
      BY <1>1, <2>2 DEF Steps, PassesOK
    <3> HIDE DEF s
    <3> QED
      BY <1>1, <1>2, <2>2, <3>2, <3>3, RewriteInv
  <2>3. CASE Fault /\ Abort(o, "failed")
    <3>1. budget' \in Budgets /\ "failed" \in HealthChecks
      BY <1>1, <2>3, FaultType DEF PassesOK, HealthChecks
    <3> QED
      BY <1>1, <1>2, <2>3, <3>1, AbortInv
  <2>4. CASE Panic(o)
    BY <1>1, <1>2, <2>4, PanicInv
  <2> QED
    BY <2>1, <2>2, <2>3, <2>4 DEF CheckMongodbConnection
<1>4. UNCHANGED << cr, objects, cache, queued, latest >>
  BY DEF CheckMongodbConnection
<1> QED
  BY <1>1, <1>3, <1>4, QuietInv DEF StoreOK, objects

LEMMA ConfigMapInv ==
  ASSUME StatusInv, NEW o \in Operators,
         CreateOrUpdateConfigMap(o) \/ UpdateCreatedConfigMap(o)
  PROVE  StatusInv'
<1> DEFINE wanted == DesiredConfigMap(work[o].cr)
<1>1. PassInv /\ PassesOK /\ StoreOK
  BY DEF StatusInv, PassInv, StoreInv
<1>2. pc[o] \in Steps
  BY DEF CreateOrUpdateConfigMap, UpdateCreatedConfigMap, Steps
<1>3. wanted \in ConfigMaps
  <2>1. work[o].cr.uid \in Nat /\ work[o].cr.spec \in Specs
    BY <1>1, <1>2, Busy
  <2> QED
    BY <2>1 DEF DesiredConfigMap, ConfigMaps, Specs
<1>4. PassInv'
  <2>1. Goto(o, "claim") \/ Fail(o) \/ Answered(o, "configMapUpdate") \/ Answered(o, "claim")
    BY DEF CreateOrUpdateConfigMap, UpdateCreatedConfigMap
  <2> QED
    BY <1>1, <1>2, <2>1, GotoInv, FailInv, AnsweredInv DEF Steps
<1>5. cm' \in ConfigMaps \cup {Absent}
  BY <1>1, <1>3 DEF CreateOrUpdateConfigMap, UpdateCreatedConfigMap, StoreOK, objects
<1>6. UNCHANGED << cr, pvc, job, pods, cache, queued, latest >>
  BY DEF CreateOrUpdateConfigMap, UpdateCreatedConfigMap, objects
<1> QED
  BY <1>1, <1>4, <1>5, <1>6, QuietInv DEF StoreOK

LEMMA ClaimInv ==
  ASSUME StatusInv, NEW o \in Operators, CreateOrUpdateClaim(o) \/ UpdateCreatedClaim(o)
  PROVE  StatusInv'
<1> DEFINE wanted == DesiredClaim(work[o].cr)
<1>1. PassInv /\ PassesOK /\ StoreOK
  BY DEF StatusInv, PassInv, StoreInv
<1>2. pc[o] \in Steps
  BY DEF CreateOrUpdateClaim, UpdateCreatedClaim, Steps
<1>3. work[o].cr.spec.claim # Absent => wanted \in Claims
  <2>1. work[o].cr.uid \in Nat /\ work[o].cr.spec \in Specs
    BY <1>1, <1>2, Busy
  <2> QED
    BY <2>1 DEF DesiredClaim, Claims, Specs
<1>4. PassInv'
  <2>1. Panic(o) \/ Goto(o, "job") \/ Fail(o) \/ Answered(o, "claimUpdate")
    BY DEF CreateOrUpdateClaim, UpdateCreatedClaim, WithoutClaim
  <2> QED
    BY <1>1, <1>2, <2>1, GotoInv, FailInv, AnsweredInv, PanicInv DEF Steps
<1>5. pvc' \in Claims \cup {Absent}
  BY <1>1, <1>3 DEF CreateOrUpdateClaim, UpdateCreatedClaim, StoreOK, objects
<1>6. UNCHANGED << cr, cm, job, pods, cache, queued, latest >>
  BY DEF CreateOrUpdateClaim, UpdateCreatedClaim, objects
<1> QED
  BY <1>1, <1>4, <1>5, <1>6, QuietInv DEF StoreOK

LEMMA JobWriteInv ==
  ASSUME StatusInv, NEW o \in Operators,
         CreateJob(o) \/ DeleteJob(o) \/ UpdateJob(o) \/ UpdateCreatedJob(o)
  PROVE  StatusInv'
<1>1. PassInv /\ PassesOK /\ StoreOK
  BY DEF StatusInv, PassInv, StoreInv
<1>2. pc[o] \in Steps
  BY DEF CreateJob, DeleteJob, UpdateJob, UpdateCreatedJob, Steps
<1>3. \A found \in Jobs \cup {Absent} : DesiredJob(work[o].cr, found) \in Jobs
  <2>1. work[o].cr.uid \in Nat /\ work[o].cr.spec \in Specs
    BY <1>1, <1>2, Busy
  <2>2. DesiredTemplate(work[o].cr.spec) \in Templates /\ work[o].cr.spec.backoff \in Nat
    BY <2>1 DEF DesiredTemplate, Templates, Specs
  <2> QED
    BY <2>1, <2>2 DEF DesiredJob, Jobs
<1>4. work[o].found \in Jobs \cup {Absent}
  BY <1>1, <1>2, Busy DEF Works
<1>5. PassInv'
  <2>1. "status" \in Steps /\ "jobUpdate" \in Steps /\ "" \in HealthChecks
    BY DEF Steps, HealthChecks
  <2>2. CASE Goto(o, "status") \/ Answered(o, "status") \/ Answered(o, "jobUpdate") \/ Fail(o)
    BY <1>1, <1>2, <2>1, <2>2, GotoInv, FailInv, AnsweredInv
  <2>3. CASE Abort(o, "") /\ (Fault \/ UNCHANGED budget)
    <3>1. budget' \in Budgets
      BY <1>1, <2>3, FaultType DEF PassesOK
    <3> QED
      BY <1>1, <1>2, <2>1, <2>3, <3>1, AbortInv
  <2>4. CASE /\ work' = [work EXCEPT ![o] = WithStatus(work[o], Checked(work[o].cr.status, ""))]
             /\ pc' = [pc EXCEPT ![o] = "status"]
             /\ UNCHANGED budget
    <3> DEFINE s == Checked(work[o].cr.status, "")
    <3>1. work[o].cr.status \in Statuses /\ Coherent(work[o].cr.status) /\ budget' \in Budgets
      BY <1>1, <1>2, <2>4, Busy DEF PassInv, PassesOK
    <3>2. s \in Statuses /\ Coherent(s)
      BY <2>1, <3>1, CheckedType
    <3>3. work' = [work EXCEPT ![o] = WithStatus(work[o], s)]
      BY <2>4
    <3> HIDE DEF s
    <3> QED
      BY <1>1, <1>2, <2>1, <2>4, <3>1, <3>2, <3>3, RewriteInv
  <2> QED
    BY <2>2, <2>3, <2>4 DEF CreateJob, DeleteJob, UpdateJob, UpdateCreatedJob
<1>6. job' \in Jobs \cup {Absent}
  BY <1>1, <1>3, <1>4 DEF CreateJob, DeleteJob, UpdateJob, UpdateCreatedJob, StoreOK
<1>7. UNCHANGED << cr, cm, pvc, pods, cache, queued, latest >>
  BY DEF CreateJob, DeleteJob, UpdateJob, UpdateCreatedJob
<1> QED
  BY <1>1, <1>5, <1>6, <1>7, QuietInv DEF StoreOK

LEMMA ReconcileJobInv ==
  ASSUME StatusInv, NEW o \in Operators, ReconcileJob(o)
  PROVE  StatusInv'
<1>1. PassInv /\ PassesOK /\ StoreOK /\ CachesOK
  BY DEF StatusInv, PassInv, StoreInv, CacheInv
<1>2. pc[o] \in Steps
  BY DEF ReconcileJob, Steps
<1> DEFINE w == [work[o] EXCEPT !.found = cache[o].job]
<1>3. cache[o].job \in Jobs \cup {Absent}
  BY <1>1 DEF CachesOK, Caches
<1>4. w \in Works /\ w.cr = work[o].cr
  BY <1>1, <1>2, <1>3, Busy DEF Works
<1>5. w # Absent
  BY <1>4, ConstantsAssumption
<1>6. work' = [work EXCEPT ![o] = w]
  BY DEF ReconcileJob
<1>7. Coherent(w.cr.status)
  BY <1>1, <1>2, <1>4, Busy DEF PassInv
<1> HIDE DEF w
<1>8. PassInv'
  <2>1. pc' \in [Operators -> Steps \cup {"idle", "down"}]
    BY <1>1 DEF ReconcileJob, PassesOK, Steps
  <2>2. work' \in [Operators -> Works \cup {Absent}]
    BY <1>1, <1>4, <1>6 DEF PassesOK
  <2>3. \A q \in Operators : work'[q] # Absent <=> pc'[q] \in Steps
    BY <1>1, <1>5, <1>6 DEF ReconcileJob, PassesOK, Steps
  <2>4. \A q \in Operators : work'[q] # Absent => Coherent(work'[q].cr.status)
    BY <1>1, <1>6, <1>7 DEF PassInv, PassesOK
  <2> QED
    BY <1>1, <2>1, <2>2, <2>3, <2>4 DEF PassInv, PassesOK, ReconcileJob
<1>9. UNCHANGED << cr, objects, cache, queued, latest >>
  BY DEF ReconcileJob
<1> QED
  BY <1>1, <1>8, <1>9, QuietInv DEF StoreOK, objects

\* What jobStatus finds on any pods is a state it may report, and never an error.
LEMMA OutcomeType ==
  ASSUME NEW pause, NEW mode, NEW listed, NEW outcome \in PodOutcomes(pause, mode, listed)
  PROVE  outcome.state \in AppStates \ {"error"}
<1>1. Observed(listed) \in {"running", "complete", "initializing"}
  BY DEF Observed
<1>2. PICK state \in {Observed(listed), "paused", "stopping"} :
        \E deleted : outcome = Outcome(state, deleted)
  BY DEF PodOutcomes
<1>3. outcome.state = state
  BY <1>2 DEF Outcome
<1> QED
  BY <1>1, <1>2, <1>3 DEF AppStates

LEMMA ReportJobInv ==
  ASSUME StatusInv, NEW o \in Operators, ReportJob(o)
  PROVE  StatusInv'
<1>1. PassInv /\ PassesOK /\ StoreOK
  BY DEF StatusInv, PassInv, StoreInv
<1>2. pc[o] \in Steps
  BY DEF ReportJob, Steps
<1>3. PICK outcome \in PodOutcomes(work[o].cr.spec.pause, Mode(work[o].cr.spec), ListedPods(o)) :
        /\ work' = [work EXCEPT ![o] =
                      WithStatus(work[o], JobReported(work[o].cr.status, outcome.state,
                                                      "initializing"))]
        /\ \E spared \in SUBSET outcome.deleted :
             /\ IF spared = {} THEN UNCHANGED budget ELSE Fault
             /\ pods' = [p \in Pods |-> IF p \in outcome.deleted \ spared THEN Absent
                                                                         ELSE pods[p]]
  BY DEF ReportJob
<1> DEFINE s == JobReported(work[o].cr.status, outcome.state, "initializing")
<1>4. outcome.state \in AppStates \ {"error"}
  BY <1>3, OutcomeType
<1>5. s \in Statuses /\ Coherent(s)
  <2>1. work[o].cr.status \in Statuses /\ Coherent(work[o].cr.status)
    BY <1>1, <1>2, Busy DEF PassInv
  <2> QED
    BY <2>1, <1>4, JobReportedCoherent
<1>6. budget' \in Budgets
  BY <1>1, <1>3, FaultType DEF PassesOK
<1>7. PassInv'
  <2>1. work' = [work EXCEPT ![o] = WithStatus(work[o], s)]
    BY <1>3
  <2>2. pc' = [pc EXCEPT ![o] = "statusWrite"] /\ "statusWrite" \in Steps
    BY DEF ReportJob, Steps
  <2> HIDE DEF s
  <2> QED
    BY <1>1, <1>2, <1>5, <1>6, <2>1, <2>2, RewriteInv
<1>8. pods' \in [Pods -> PodValues]
  BY <1>1, <1>3 DEF StoreOK, PodValues
<1>9. UNCHANGED << cr, cm, pvc, job, cache, queued, latest >>
  BY DEF ReportJob
<1> QED
  BY <1>1, <1>7, <1>8, <1>9, QuietInv DEF StoreOK

\* The process of an operator dies, which its caches survive here until it restarts.
LEMMA DeathInv ==
  ASSUME StatusInv, NEW o \in Operators, PanicInStatus(o) \/ Crash(o)
  PROVE  StatusInv'
<1>1. StoreInv /\ CacheInv /\ CachesOK /\ PassInv /\ PassesOK
  BY DEF StatusInv, CacheInv, PassInv
<1>2. StoreInv'
  BY <1>1, StoreSame DEF PanicInStatus, Crash
<1>3. CacheInv'
  <2>1. heldLatest' \in SUBSET Operators
    BY <1>1 DEF PanicInStatus, Crash, CachesOK
  <2> QED
    BY <1>1, <2>1, CacheSame DEF PanicInStatus, Crash
<1>4. PassInv'
  <2>1. budget' \in Budgets
    BY <1>1 DEF PanicInStatus, Crash, PassesOK, Budgets
  <2>2. pc' = [pc EXCEPT ![o] = "down"] /\ work' = [work EXCEPT ![o] = Absent]
    BY DEF PanicInStatus, Crash
  <2> QED
    BY <1>1, <2>1, <2>2, DropInv
<1> QED
  BY <1>2, <1>3, <1>4 DEF StatusInv

LEMMA WriteStatusInv ==
  ASSUME StatusInv, NEW o \in Operators, WriteStatus(o)
  PROVE  StatusInv'
<1> DEFINE new == [cr EXCEPT !.status = work[o].cr.status]
<1>1. StoreInv /\ CacheInv /\ CachesOK /\ PassInv /\ PassesOK
  BY DEF StatusInv, CacheInv, PassInv
<1>2. pc[o] \in Steps
  BY DEF WriteStatus, Steps
<1>3. UNCHANGED << objects, cache, queued >>
  BY DEF WriteStatus
<1>4. Accepts(o) => new \in Resources /\ Coherent(new.status)
  <2>1. work[o].cr.status \in Statuses /\ Coherent(work[o].cr.status)
    BY <1>1, <1>2, Busy DEF PassInv
  <2>2. Accepts(o) => cr \in Resources
    BY <1>1 DEF StoreInv, StoreOK, Accepts
  <2> QED
    BY <2>1, <2>2 DEF Resources
<1> HIDE DEF new
<1>5. CASE Accepts(o) /\ Stored(new, Operators \ {o}) /\ Finish(o) /\ UNCHANGED budget
  <2>1. StoreInv' /\ cachedLatest' \in SUBSET Operators /\ heldLatest' \in SUBSET Operators
    BY <1>1, <1>3, <1>4, <1>5, StoredInv
  <2>2. CacheInv'
    BY <1>1, <1>3, <2>1 DEF CacheInv, CachesOK
  <2>3. PassInv'
    BY <1>1, <1>5, FinishInv DEF PassesOK
  <2> QED
    BY <2>1, <2>2, <2>3 DEF StatusInv
<1>6. CASE Accepts(o) /\ Fault /\ Stored(new, Operators) /\ pc' = [pc EXCEPT ![o] = "fallback"]
           /\ UNCHANGED work
  <2>1. StoreInv' /\ cachedLatest' \in SUBSET Operators /\ heldLatest' \in SUBSET Operators
    BY <1>1, <1>3, <1>4, <1>6, StoredInv
  <2>2. CacheInv'
    BY <1>1, <1>3, <2>1 DEF CacheInv, CachesOK
  <2>3. PassInv'
    BY <1>1, <1>2, <1>6, FaultType, FallbackInv DEF PassesOK
  <2> QED
    BY <2>1, <2>2, <2>3 DEF StatusInv
<1>7. CASE Finish(o) /\ heldLatest' = heldLatest \ {o} /\ UNCHANGED << cr, cachedLatest, budget >>
  BY <1>1, <1>3, <1>7, EndInv DEF PassesOK
<1> QED
  BY <1>5, <1>6, <1>7 DEF WriteStatus, new

LEMMA FallbackUpdateInv ==
  ASSUME StatusInv, NEW o \in Operators, FallbackUpdate(o)
  PROVE  StatusInv'
<1> DEFINE new == [cr EXCEPT !.spec = work[o].cr.spec]
<1>1. StoreInv /\ CacheInv /\ CachesOK /\ PassInv /\ PassesOK
  BY DEF StatusInv, CacheInv, PassInv
<1>2. pc[o] \in Steps
  BY DEF FallbackUpdate, Steps
<1>3. UNCHANGED << objects, cache, queued, budget >> /\ Finish(o)
  BY DEF FallbackUpdate
<1>4. CASE Accepts(o)
  <2>1. cr \in Resources /\ Coherent(cr.status)
    BY <1>1, <1>4 DEF StoreInv, StoreOK, Accepts
  <2>2. new \in Resources /\ Coherent(new.status)
    BY <1>1, <1>2, <2>1, Busy DEF Resources
  <2>3. Stored(new, Operators \ {o})
    BY <1>4 DEF FallbackUpdate
  <2> HIDE DEF new
  <2>4. StoreInv' /\ cachedLatest' \in SUBSET Operators /\ heldLatest' \in SUBSET Operators
    BY <1>1, <1>3, <2>2, <2>3, StoredInv
  <2>5. CacheInv'
    BY <1>1, <1>3, <2>4 DEF CacheInv, CachesOK
  <2>6. PassInv'
    BY <1>1, <1>3, FinishInv DEF PassesOK
  <2> QED
    BY <2>4, <2>5, <2>6 DEF StatusInv
<1>5. CASE ~Accepts(o)
  <2>1. heldLatest' = heldLatest \ {o} /\ UNCHANGED << cr, cachedLatest >>
    BY <1>5 DEF FallbackUpdate
  <2> QED
    BY <1>1, <1>3, <2>1, EndInv DEF PassesOK
<1> QED
  BY <1>4, <1>5

LEMMA ApiFaultInv ==
  ASSUME StatusInv, NEW o \in Operators, ApiFault(o)
  PROVE  StatusInv'
<1>1. StoreInv /\ CacheInv /\ CachesOK /\ PassInv /\ PassesOK /\ StoreOK
  BY DEF StatusInv, CacheInv, PassInv, StoreInv
<1>2. budget' \in Budgets
  BY <1>1, FaultType DEF PassesOK, ApiFault
<1>3. UNCHANGED << cr, objects, cache, queued, cachedLatest >>
  BY DEF ApiFault
<1>4. CASE pc[o] \in Steps /\ Abort(o, Health(o)) /\ UNCHANGED heldLatest
  <2>1. PassInv'
    BY <1>1, <1>2, <1>4, Busy, AbortInv
  <2> QED
    BY <1>1, <1>3, <1>4, <2>1, QuietInv DEF StoreOK, objects, latest
<1>5. CASE pc[o] = "statusWrite" /\ pc' = [pc EXCEPT ![o] = "fallback"]
           /\ UNCHANGED << work, heldLatest >>
  <2>1. PassInv'
    BY <1>1, <1>2, <1>5, FallbackInv DEF Steps
  <2> QED
    BY <1>1, <1>3, <1>5, <2>1, QuietInv DEF StoreOK, objects, latest
<1>6. CASE Finish(o) /\ heldLatest' = heldLatest \ {o}
  BY <1>1, <1>2, <1>3, <1>6, EndInv
<1> QED
  BY <1>4, <1>5, <1>6 DEF ApiFault, Steps

----------------------------------------------------------------------------
(* Everybody else preserves it.                                             *)

LEMMA SyncInv ==
  ASSUME StatusInv, NEW o \in Operators, Sync(o) \/ Restart(o)
  PROVE  StatusInv'
<1>1. StoreInv /\ CacheInv /\ CachesOK /\ PassInv /\ PassesOK /\ StoreOK
  BY DEF StatusInv, CacheInv, PassInv, StoreInv
<1>2. UNCHANGED << cr, objects, work, heldLatest, budget >>
  BY DEF Sync, SyncResource, SyncConfigMap, SyncClaim, SyncJob, SyncPods, Restart, local, latest
<1>3. StoreInv'
  BY <1>1, <1>2, StoreSame
<1>4. /\ Current \in Caches
      /\ Current.cr = cr
  BY <1>1 DEF Current, Caches, Shown, StoreOK, ConfigMaps, Claims, PodValues
<1>5. /\ cache' \in [Operators -> Caches]
      /\ \A q \in Operators : cache'[q].cr \in {cache[q].cr, cr}
  <2>1. CASE SyncResource(o)
    BY <1>1, <1>4, <2>1 DEF SyncResource, CachesOK, Caches
  <2>2. CASE SyncConfigMap(o)
    BY <1>1, <1>4, <2>2 DEF SyncConfigMap, CachesOK, Caches
  <2>3. CASE SyncClaim(o)
    BY <1>1, <1>4, <2>3 DEF SyncClaim, CachesOK, Caches
  <2>4. CASE SyncJob(o)
    BY <1>1, <1>4, <2>4 DEF SyncJob, CachesOK, Caches
  <2>5. CASE SyncPods(o)
    BY <1>1, <1>4, <2>5 DEF SyncPods, CachesOK, Caches
  <2>6. CASE Restart(o)
    BY <1>1, <1>4, <2>6 DEF Restart, CachesOK
  <2> QED
    BY <2>1, <2>2, <2>3, <2>4, <2>5, <2>6 DEF Sync
<1>6. cachedLatest' \in SUBSET Operators /\ queued' \in [Operators -> BOOLEAN]
  BY <1>1 DEF Sync, SyncResource, SyncConfigMap, SyncClaim, SyncJob, SyncPods, Restart,
              local, latest, CachesOK
<1>7. CacheInv'
  BY <1>1, <1>2, <1>5, <1>6 DEF CacheInv, CachesOK, StoreInv
<1>8. PassInv'
  <2>1. CASE UNCHANGED pc
    BY <1>1, <1>2, <2>1, PassSame DEF PassesOK
  <2>2. CASE Restart(o)
    BY <1>1, <1>2, <2>2 DEF Restart, PassInv, PassesOK, Steps
  <2> QED
    BY <2>1, <2>2 DEF Sync, SyncResource, SyncConfigMap, SyncClaim, SyncJob, SyncPods, local
<1> QED
  BY <1>3, <1>7, <1>8 DEF StatusInv

LEMMA UserInv ==
  ASSUME StatusInv, User
  PROVE  StatusInv'
<1>1. StoreInv /\ CacheInv /\ CachesOK /\ PassInv /\ PassesOK /\ StoreOK
  BY DEF StatusInv, CacheInv, PassInv, StoreInv
<1>2. UNCHANGED << objects, cache, queued, pc, work >>
  BY DEF User, CreateResource, EditSpec, local
<1>3. \E new \in Resources : Coherent(new.status) /\ Stored(new, {})
  <2>1. CASE CreateResource
    <3>1. NewStatus \in Statuses /\ Coherent(NewStatus)
      BY MaxStatusesAssumption DEF NewStatus, Statuses, Coherent, NoState, HealthChecks
    <3>2. PICK spec \in UserSpecs :
            Stored([uid |-> budget.creates, spec |-> spec, status |-> NewStatus], {})
      BY <2>1 DEF CreateResource
    <3>3. budget.creates \in Nat /\ spec \in Specs
      BY <1>1, ConstantsAssumption DEF PassesOK, Budgets
    <3> QED
      BY <3>1, <3>2, <3>3 DEF Resources
  <2>2. CASE EditSpec
    <3>1. cr \in Resources /\ Coherent(cr.status)
      BY <1>1, <2>2 DEF EditSpec, StoreInv, StoreOK
    <3>2. PICK spec \in UserSpecs, configuration \in Texts \cup {""} :
            Stored([cr EXCEPT !.spec = [spec EXCEPT !.configuration = configuration]], {})
      <4>1. PICK spec \in UserSpecs :
              \E configuration \in {spec.configuration, cr.spec.configuration} :
                Stored([cr EXCEPT !.spec = [spec EXCEPT !.configuration = configuration]], {})
        BY <2>2 DEF EditSpec
      <4>2. spec \in Specs /\ cr.spec \in Specs
        BY <3>1, ConstantsAssumption DEF Resources
      <4>3. {spec.configuration, cr.spec.configuration} \subseteq Texts \cup {""}
        BY <4>2 DEF Specs
      <4> QED
        BY <4>1, <4>3
    <3>3. [spec EXCEPT !.configuration = configuration] \in Specs
      BY ConstantsAssumption DEF Specs
    <3>4. [cr EXCEPT !.spec = [spec EXCEPT !.configuration = configuration]] \in Resources
      BY <3>1, <3>3 DEF Resources
    <3>5. [cr EXCEPT !.spec = [spec EXCEPT !.configuration = configuration]].status = cr.status
      BY <3>1 DEF Resources
    <3> QED
      BY <3>1, <3>2, <3>4, <3>5
  <2> QED
    BY <2>1, <2>2 DEF User
<1>4. StoreInv' /\ cachedLatest' \in SUBSET Operators /\ heldLatest' \in SUBSET Operators
  BY <1>1, <1>2, <1>3, StoredInv
<1>5. CacheInv'
  BY <1>1, <1>2, <1>4 DEF CacheInv, CachesOK
<1>6. budget' \in Budgets
  <2>1. budget \in Budgets
    BY <1>1 DEF PassesOK
  <2>2. CASE budget.creates > 0 /\ budget' = [budget EXCEPT !.creates = @ - 1]
    BY <2>1, <2>2 DEF Budgets
  <2>3. CASE budget.edits > 0 /\ budget' = [budget EXCEPT !.edits = @ - 1]
    BY <2>1, <2>3 DEF Budgets
  <2> QED
    BY <2>2, <2>3 DEF User, CreateResource, EditSpec
<1>7. PassInv'
  BY <1>1, <1>2, <1>6, PassSame
<1> QED
  BY <1>4, <1>5, <1>7 DEF StatusInv

LEMMA PodInv ==
  ASSUME StatusInv, NEW p \in Pods, PodNext(p)
  PROVE  StatusInv'
<1>1. StoreOK /\ PassInv /\ PassesOK
  BY DEF StatusInv, StoreInv, PassInv
<1>2. budget' \in Budgets
  BY <1>1, FaultType DEF PodNext, StartPod, RunPod, FinishPod, FailPod, PassesOK
<1>3. UNCHANGED << cr, cm, pvc, job, cache, queued, pc, work, latest >>
  BY DEF PodNext, StartPod, RunPod, FinishPod, FailPod, local
<1>4. pods' \in [Pods -> PodValues]
  BY <1>1 DEF PodNext, StartPod, RunPod, FinishPod, FailPod, StoreOK, PodValues, PodPhases
<1>5. PassInv'
  BY <1>1, <1>2, <1>3, PassSame
<1> QED
  BY <1>1, <1>3, <1>4, <1>5, QuietInv DEF StoreOK

----------------------------------------------------------------------------
LEMMA InitInv == Init => StatusInv
<1> SUFFICES ASSUME Init PROVE StatusInv
  OBVIOUS
<1>1. StoreInv
  BY DEF Init, StoreInv, StoreOK, PodValues
<1>2. CacheInv
  <2>1. Current \in Caches /\ Current.cr = Absent
    BY DEF Init, Current, Caches, Shown, PodValues
  <2> QED
    BY <2>1 DEF Init, CacheInv, CachesOK
<1>3. PassInv
  BY ConstantsAssumption DEF Init, PassInv, PassesOK, Steps, Budgets
<1> QED
  BY <1>1, <1>2, <1>3 DEF StatusInv

LEMMA NextInv == StatusInv /\ [Next]_vars => StatusInv'
<1> SUFFICES ASSUME StatusInv, [Next]_vars PROVE StatusInv'
  OBVIOUS
<1>1. ASSUME NEW o \in Operators, OperatorNext(o) PROVE StatusInv'
  BY <1>1, ReconcileInv, PingInv, ConfigMapInv, ClaimInv, ReconcileJobInv, JobWriteInv,
     ReportJobInv, DeathInv, WriteStatusInv, FallbackUpdateInv, ApiFaultInv, SyncInv
     DEF OperatorNext, Step
<1>2. CASE User
  BY <1>2, UserInv
<1>3. ASSUME NEW p \in Pods, PodNext(p) PROVE StatusInv'
  BY <1>3, PodInv
<1>4. CASE UNCHANGED vars
  BY <1>4 DEF vars, objects, local, latest, StatusInv, StoreInv, StoreOK, CacheInv, CachesOK,
              PassInv, PassesOK
<1> QED
  BY <1>1, <1>2, <1>3, <1>4 DEF Next

\* Every copy of the resource has a coherent status and every variable its type, at any
\* time.
THEOREM StatusInvariant == Spec => []StatusInv
  BY InitInv, NextInv, PTL DEF Spec

\* The types, and that an operator has a working copy exactly during a pass.
THEOREM TypeCorrect == Spec => []TypeOK
<1>1. StatusInv => TypeOK
  BY DEF StatusInv, StoreInv, CacheInv, PassInv, TypeOK
<1> QED
  BY <1>1, StatusInvariant, PTL

\* Whatever the order of passes, failures and lost answers, the status the API server
\* holds agrees with itself.
THEOREM StatusCoherence == Spec => []StatusCoherent
<1>1. StatusInv => StatusCoherent
  BY DEF StatusInv, StoreInv, StatusCoherent
<1> QED
  BY <1>1, StatusInvariant, PTL
============================================================================

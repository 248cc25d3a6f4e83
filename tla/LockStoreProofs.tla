-------------------------- MODULE LockStoreProofs --------------------------
(***************************************************************************)
(* Proofs about the lock store, for any workers, namespaces and names.     *)
(* LockInv is inductive; that passes exclude each other, and that the lock *)
(* store implements SerialPasses, follow from it.                          *)
(***************************************************************************)
EXTENDS LockStore, TLAPS

LEMMA LockInvInit == Init => LockInv
BY DEF Init, LockInv, TypeOK, LocksStay, LocksHeld, Busy

LEMMA RequestInv ==
  ASSUME LockInv, NEW r \in Requests, Request(r)
  PROVE  LockInv'
BY DEF LockInv, TypeOK, LocksStay, LocksHeld, Busy, Request

LEMMA TakeInv ==
  ASSUME LockInv, NEW w \in Workers, Take(w)
  PROVE  LockInv'
<1> USE DEF LockInv, Take, Busy
<1>1. PICK r \in asked : req' = [req EXCEPT ![w] = r] /\ asked' = asked \ {r}
  OBVIOUS
<1>2. r \in Requests
  BY <1>1 DEF TypeOK
<1>3. TypeOK'
  BY <1>1, <1>2 DEF TypeOK
<1>4. LocksStay'
  BY <1>1 DEF LocksStay, TypeOK
<1>5. \A v \in Workers : Busy(v) <=> Busy(v)'
  BY DEF TypeOK
<1>6. LocksHeld'
  BY <1>5 DEF LocksHeld
<1> QED
  BY <1>3, <1>4, <1>6

LEMMA LoadOrCreateInv ==
  ASSUME LockInv, NEW w \in Workers, LoadOrCreate(w)
  PROVE  LockInv'
<1> USE DEF LockInv, Busy
<1> DEFINE key   == req[w]
           mutex == [by |-> w, key |-> key]
<1>1. /\ pc[w] = "load" /\ pc' = [pc EXCEPT ![w] = "lock"]
      /\ store' = LoadOrStore(key, mutex)
      /\ held' = [held EXCEPT ![w] = store'[key]]
      /\ UNCHANGED << asked, req, locked >>
  BY DEF LoadOrCreate, LockKey
<1>2. key \in Requests /\ mutex \in Mutexes
  BY <1>1 DEF TypeOK, Mutexes
<1>3. /\ DOMAIN store' = DOMAIN store \cup {key}
      /\ \A k \in DOMAIN store : store'[k] = store[k]
      /\ key \notin DOMAIN store => store'[key] = mutex
  BY <1>1 DEF LoadOrStore
<1>4. \A k \in DOMAIN store' : store'[k] \in Mutexes /\ store'[k].key = k
  BY <1>2, <1>3 DEF LocksStay
<1>5. TypeOK'
  BY <1>1, <1>3, <1>4 DEF TypeOK
<1>6. LocksStay'
  BY <1>1, <1>3, <1>4 DEF LocksStay, TypeOK
<1>7. \A v \in Workers : (Busy(v) <=> Busy(v)') /\ (Busy(v) => held'[v] = held[v])
  BY <1>1 DEF TypeOK
<1>8. LocksHeld'
  BY <1>1, <1>7 DEF LocksHeld
<1> QED
  BY <1>5, <1>6, <1>8

LEMMA LockStepInv ==
  ASSUME LockInv, NEW w \in Workers, Lock(w)
  PROVE  LockInv'
<1> USE DEF LockInv, Busy
<1>1. /\ pc[w] = "lock" /\ pc' = [pc EXCEPT ![w] = "pass"]
      /\ held[w] \notin locked /\ locked' = locked \cup {held[w]}
      /\ UNCHANGED << asked, req, store, held >>
  BY DEF Lock
<1>2. TypeOK'
  BY <1>1 DEF TypeOK
<1>3. LocksStay'
  BY <1>1 DEF LocksStay, TypeOK
<1>4. \A v \in Workers : Busy(v)' <=> Busy(v) \/ v = w
  BY <1>1 DEF TypeOK
<1>5. LocksHeld'
  BY <1>1, <1>4 DEF LocksHeld
<1> QED
  BY <1>2, <1>3, <1>5

LEMMA ReturnInv ==
  ASSUME LockInv, NEW w \in Workers, Return(w)
  PROVE  LockInv'
<1> USE DEF LockInv, Busy
<1>1. /\ pc[w] = "pass" /\ pc' = [pc EXCEPT ![w] = "idle"]
      /\ asked' \in {asked, asked \cup {req[w]}}
      /\ locked' = locked \ {held[w]}
      /\ req' = [req EXCEPT ![w] = NoRequest]
      /\ held' = [held EXCEPT ![w] = NoMutex]
      /\ UNCHANGED store
  BY DEF Return, Unlocked
<1>2. TypeOK'
  BY <1>1 DEF TypeOK
<1>3. LocksStay'
  BY <1>1 DEF LocksStay, TypeOK
<1>4. \A v \in Workers : (Busy(v)' <=> Busy(v) /\ v # w) /\ (v # w => held'[v] = held[v])
  BY <1>1 DEF TypeOK
<1>5. LocksHeld'
  BY <1>1, <1>4 DEF LocksHeld
<1> QED
  BY <1>2, <1>3, <1>5

LEMMA LockInvStep == LockInv /\ [Next]_vars => LockInv'
<1> SUFFICES ASSUME LockInv, [Next]_vars
             PROVE  LockInv'
  OBVIOUS
<1>1. CASE UNCHANGED vars
  BY <1>1 DEF vars, LockInv, TypeOK, LocksStay, LocksHeld, Busy
<1>2. CASE \E r \in Requests : Request(r)
  BY <1>2, RequestInv
<1>3. CASE \E w \in Workers : WorkerNext(w)
  BY <1>3, TakeInv, LoadOrCreateInv, LockStepInv, ReturnInv DEF WorkerNext
<1> QED
  BY <1>1, <1>2, <1>3 DEF Next

\* In every state of the lock store its locks stay, and each is locked for one pass at
\* most.
THEOREM LocksAreSound == Spec => []LockInv
BY LockInvInit, LockInvStep, PTL DEF Spec

LEMMA Exclusion == LockInv => PassesExclude
BY DEF LockInv, LocksStay, LocksHeld, PassesExclude, Busy

\* Two passes for the same resource never overlap, for any number of workers.
THEOREM PassesNeverOverlap == Spec => []PassesExclude
BY LocksAreSound, Exclusion, PTL

LEMMA Separation == LockInv => LocksAreSeparate
<1> SUFFICES ASSUME LockInv, NEW w \in Workers, pc[w] = "lock", held[w] \in locked
             PROVE  \E v \in Workers : Busy(v) /\ req[v] = req[w]
  BY DEF LocksAreSeparate
<1>1. PICK v \in Workers : Busy(v) /\ held[v] = held[w]
  BY DEF LockInv, LocksHeld
<1>2. held[v].key = req[v] /\ held[w].key = req[w]
  BY <1>1 DEF LockInv, LocksStay, Busy
<1> QED
  BY <1>1, <1>2

\* No worker waits for a pass of another resource, for any keys.
THEOREM LocksNeverShared == Spec => []LocksAreSeparate
BY LocksAreSound, Separation, PTL

----------------------------------------------------------------------------
(* The refinement: each step is one of SerialPasses, or a stutter.         *)

LEMMA InitMaps == Init => Passes!Init
BY DEF Init, Passes!Init, Waiting, Passing, Busy

LEMMA RequestMaps ==
  ASSUME NEW r \in Requests, Request(r)
  PROVE  Passes!Ask(r)
<1>1. Waiting' = Waiting \cup {r}
  BY DEF Request, Waiting
<1>2. Passing' = Passing
  BY DEF Request, Passing, Busy
<1> QED
  BY <1>1, <1>2 DEF Passes!Ask

\* The request a worker takes, and the lock it loads, leave what is asked for as it is.
LEMMA TakeMaps ==
  ASSUME LockInv, NEW w \in Workers, Take(w)
  PROVE  Waiting' = Waiting /\ Passing' = Passing
<1>1. PICK r \in asked : req' = [req EXCEPT ![w] = r] /\ asked' = asked \ {r}
  BY DEF Take
<1>2. pc[w] = "idle" /\ pc' = [pc EXCEPT ![w] = "load"]
  BY DEF Take
<1> USE DEF LockInv, TypeOK, Busy
<1>3. /\ pc'[w] = "load" /\ req'[w] = r
      /\ \A v \in Workers \ {w} : pc'[v] = pc[v] /\ req'[v] = req[v]
  BY <1>1, <1>2
<1>4. Waiting' = Waiting
  BY <1>1, <1>2, <1>3 DEF Waiting
<1>5. Passing' = Passing
  BY <1>2, <1>3 DEF Passing
<1> QED
  BY <1>4, <1>5

LEMMA LoadOrCreateMaps ==
  ASSUME LockInv, NEW w \in Workers, LoadOrCreate(w)
  PROVE  Waiting' = Waiting /\ Passing' = Passing
<1>1. /\ pc[w] = "load" /\ pc' = [pc EXCEPT ![w] = "lock"]
      /\ UNCHANGED << asked, req >>
  BY DEF LoadOrCreate
<1> QED
  BY <1>1 DEF LockInv, TypeOK, Waiting, Passing, Busy

LEMMA LockMaps ==
  ASSUME LockInv, NEW w \in Workers, Lock(w)
  PROVE  Passes!Begin(req[w])
<1>1. /\ pc[w] = "lock" /\ pc' = [pc EXCEPT ![w] = "pass"]
      /\ held[w] \notin locked
      /\ UNCHANGED << asked, req >>
  BY DEF Lock
<1>2. /\ \A v \in Workers \ {w} : pc'[v] = pc[v]
      /\ pc'[w] = "pass"
  BY <1>1 DEF LockInv, TypeOK
<1>3. req[w] \in Waiting
  BY <1>1 DEF Waiting
<1>4. req[w] \notin Passing
  BY <1>1 DEF Passing, Busy, LockInv, LocksStay, LocksHeld
<1>5. Passing' = Passing \cup {req[w]}
  BY <1>1, <1>2 DEF Passing, Busy
<1>6. Waiting' \in {Waiting, Waiting \ {req[w]}}
  <2>1. Waiting' \subseteq Waiting /\ Waiting \ {req[w]} \subseteq Waiting'
    BY <1>1, <1>2 DEF Waiting
  <2> QED
    BY <2>1
<1> QED
  BY <1>3, <1>4, <1>5, <1>6 DEF Passes!Begin

LEMMA ReturnMaps ==
  ASSUME LockInv, NEW w \in Workers, Return(w)
  PROVE  Passes!End(req[w])
<1>1. /\ pc[w] = "pass" /\ pc' = [pc EXCEPT ![w] = "idle"]
      /\ req' = [req EXCEPT ![w] = NoRequest]
      /\ asked' \in {asked, asked \cup {req[w]}}
  BY DEF Return
<1>2. /\ \A v \in Workers \ {w} : pc'[v] = pc[v] /\ req'[v] = req[v]
      /\ pc'[w] = "idle"
  BY <1>1 DEF LockInv, TypeOK
<1>3. req[w] \in Passing
  BY <1>1 DEF Passing, Busy
<1>4. \A v \in Workers : Busy(v) /\ req[v] = req[w] => v = w
  BY <1>1, Exclusion DEF PassesExclude, Busy
<1>5. Passing' = Passing \ {req[w]}
  BY <1>1, <1>2, <1>4 DEF Passing, Busy
<1>6. Waiting' \in {Waiting, Waiting \cup {req[w]}}
  BY <1>1, <1>2 DEF Waiting
<1> QED
  BY <1>3, <1>5, <1>6 DEF Passes!End

LEMMA StepMaps == LockInv /\ [Next]_vars => [Passes!Next]_<< Waiting, Passing >>
<1> SUFFICES ASSUME LockInv, [Next]_vars
             PROVE  [Passes!Next]_<< Waiting, Passing >>
  OBVIOUS
<1>1. CASE UNCHANGED vars
  BY <1>1 DEF vars, Waiting, Passing, Busy
<1>2. CASE \E r \in Requests : Request(r)
  BY <1>2, RequestMaps DEF Passes!Next
<1>3. ASSUME NEW w \in Workers, WorkerNext(w)
      PROVE  [Passes!Next]_<< Waiting, Passing >>
  <2>1. CASE Take(w) \/ LoadOrCreate(w)
    BY <2>1, TakeMaps, LoadOrCreateMaps
  <2>2. CASE Lock(w) \/ Return(w)
    <3>1. req[w] \in Requests
      BY <2>2 DEF LockInv, TypeOK, Lock, Return
    <3> QED
      BY <2>2, <3>1, LockMaps, ReturnMaps DEF Passes!Next
  <2> QED
    BY <1>3, <2>1, <2>2 DEF WorkerNext
<1> QED
  BY <1>1, <1>2, <1>3 DEF Next

\* The lock store implements SerialPasses: the passes for one resource follow each other,
\* and each takes up a request that was made.
THEOREM LockStoreImplements == Spec => ImplementsPasses
<1>1. Init => Passes!Init
  BY InitMaps
<1>2. LockInv /\ [Next]_vars => [Passes!Next]_<< Waiting, Passing >>
  BY StepMaps
<1> QED
  BY <1>1, <1>2, LocksAreSound, PTL DEF Spec, ImplementsPasses, Passes!Spec
=============================================================================

----------------------------- MODULE LockStore -----------------------------
(***************************************************************************)
(* The lock store of an operator process, and the workers that call        *)
(* Reconcile.  The work queue of the controller is external; of its        *)
(* promises only this is used, that a request is handed to some worker: it *)
(* may hand the same resource to two workers, so that it is the lock alone *)
(* that keeps their passes apart.  The flag updateSync, which nothing      *)
(* reads, is left out.  A panic ends the process, and the store with it.   *)
(***************************************************************************)

CONSTANTS Workers, Namespaces, Names, NoRequest

Requests == [namespace : Namespaces, name : Names]

ASSUME NoRequestAssumption == NoRequest \notin Requests

VARIABLES
  asked,   \* the requests in the work queue
  pc,      \* where each worker is
  req,     \* the request of each worker
  store,   \* lockStore.store: the mutex of each key
  held,    \* the mutex each worker has loaded
  locked   \* the mutexes that are locked

vars == << asked, pc, req, store, held, locked >>

\* A mutex is known by the worker and the key it was made for.
Mutexes == [by : Workers, key : Requests]

NoMutex == [by |-> NoRequest, key |-> NoRequest]

----------------------------------------------------------------------------
\* The resource changed, or an earlier pass asked for the next one.
Request(r) ==
  /\ asked' = asked \cup {r}
  /\ UNCHANGED << pc, req, store, held, locked >>

Take(w) ==
  /\ pc[w] = "idle"
  /\ \E r \in asked :
       /\ req' = [req EXCEPT ![w] = r]
       /\ asked' = asked \ {r}
  /\ pc' = [pc EXCEPT ![w] = "load"]
  /\ UNCHANGED << store, held, locked >>

\* A faulty variant of LockKey: the name without the namespace.
NameOnly(r) == [r EXCEPT !.namespace = CHOOSE n \in Namespaces : TRUE]

\* The key of the store: req.NamespacedName.
LockKey(r) == r

\* A faulty variant of LoadOrStore: a lock that is there is replaced.
AlwaysStore(key, mutex) == [k \in DOMAIN store \cup {key} |-> IF k = key THEN mutex ELSE store[k]]

\* sync.Map.LoadOrStore: the store keeps the first lock of a key.
LoadOrStore(key, mutex) ==
  [k \in DOMAIN store \cup {key} |-> IF k \in DOMAIN store THEN store[k] ELSE mutex]

LoadOrCreate(w) ==
  LET key == LockKey(req[w]) IN
  /\ pc[w] = "load"
  /\ store' = LoadOrStore(key, [by |-> w, key |-> key])
  /\ held' = [held EXCEPT ![w] = store'[key]]
  /\ pc' = [pc EXCEPT ![w] = "lock"]
  /\ UNCHANGED << asked, req, locked >>

\* A faulty variant of Lock: the mutex is not waited for.
TryLock(w) ==
  /\ pc[w] = "lock"
  /\ locked' = locked \cup {held[w]}
  /\ pc' = [pc EXCEPT ![w] = "pass"]
  /\ UNCHANGED << asked, req, store, held >>

Lock(w) ==
  /\ pc[w] = "lock"
  /\ held[w] \notin locked
  /\ locked' = locked \cup {held[w]}
  /\ pc' = [pc EXCEPT ![w] = "pass"]
  /\ UNCHANGED << asked, req, store, held >>

\* A faulty variant of Unlocked: the deferred Unlock is missing.
StillLocked(w) == locked

\* The deferred Unlock, which runs last, after the deferred updateStatus.
Unlocked(w) == locked \ {held[w]}

\* The pass ends; its result asks for the next one, unless the resource was not found.
Return(w) ==
  /\ pc[w] = "pass"
  /\ asked' \in {asked, asked \cup {req[w]}}
  /\ locked' = Unlocked(w)
  /\ req' = [req EXCEPT ![w] = NoRequest]
  /\ held' = [held EXCEPT ![w] = NoMutex]
  /\ pc' = [pc EXCEPT ![w] = "idle"]
  /\ UNCHANGED store

Init ==
  /\ asked = {}
  /\ pc = [w \in Workers |-> "idle"]
  /\ req = [w \in Workers |-> NoRequest]
  /\ store = [k \in {} |-> NoMutex]
  /\ held = [w \in Workers |-> NoMutex]
  /\ locked = {}

WorkerNext(w) == Take(w) \/ LoadOrCreate(w) \/ Lock(w) \/ Return(w)

Next ==
  \/ \E r \in Requests : Request(r)
  \/ \E w \in Workers : WorkerNext(w)

Spec == Init /\ [][Next]_vars

TakeRequest(r) == \E w \in Workers : Take(w) /\ req'[w] = r

(* The queue is first in, first out; a waiting goroutine gets a sync.Mutex in the end; *)
(* a pass ends, since the calls it makes are answered or time out.                     *)
Fairness ==
  /\ \A r \in Requests : SF_vars(TakeRequest(r))
  /\ \A w \in Workers :
       /\ WF_vars(LoadOrCreate(w))
       /\ SF_vars(Lock(w))
       /\ WF_vars(Return(w))

FairSpec == Spec /\ Fairness

----------------------------------------------------------------------------
TypeOK ==
  /\ asked \in SUBSET Requests
  /\ pc \in [Workers -> {"idle", "load", "lock", "pass"}]
  /\ req \in [Workers -> Requests \cup {NoRequest}]
  /\ held \in [Workers -> Mutexes \cup {NoMutex}]
  /\ \A w \in Workers : pc[w] # "idle" => req[w] \in Requests

Busy(w) == pc[w] = "pass"

\* A key keeps its first lock for ever, and what a worker has loaded is that lock.
LocksStay ==
  /\ \A key \in DOMAIN store : store[key] \in Mutexes /\ store[key].key = key
  /\ \A w \in Workers :
       pc[w] \in {"lock", "pass"} => req[w] \in DOMAIN store /\ held[w] = store[req[w]]

\* A mutex is locked exactly while one pass goes on that holds it.
LocksHeld ==
  /\ locked = {held[w] : w \in {v \in Workers : Busy(v)}}
  /\ \A v, w \in Workers : Busy(v) /\ Busy(w) /\ held[v] = held[w] => v = w

\* What the lock store is made of fits together in every state: its locks stay, and each
\* is locked for one pass at most and given back at the end of it.
LockInv == TypeOK /\ LocksStay /\ LocksHeld

\* Two passes for the same resource never overlap, also when two workers meet at its
\* first request and each brings a lock of its own to the store.
PassesExclude ==
  \A v, w \in Workers : Busy(v) /\ Busy(w) /\ req[v] = req[w] => v = w

\* A lock per resource, "so as not to lock those of other clusters": a worker waits for
\* the mutex of its request only while a pass for the same resource goes on.
LocksAreSeparate ==
  \A w \in Workers :
    pc[w] = "lock" /\ held[w] \in locked => \E v \in Workers : Busy(v) /\ req[v] = req[w]

\* The resources a pass is asked for, and those a pass is going on for.
Waiting == asked \cup {req[w] : w \in {v \in Workers : pc[v] \in {"load", "lock"}}}
Passing == {req[w] : w \in {v \in Workers : Busy(v)}}

Passes == INSTANCE SerialPasses WITH waiting <- Waiting, passing <- Passing

\* The lock store implements SerialPasses.
ImplementsPasses == Passes!Spec

\* Every request gets a pass: the mutex held over the whole of a pass, with its calls of
\* the API server and its pings, is always given back.
RequestsAreServed ==
  \A r \in Requests :
    (r \in asked) ~> (\E w \in Workers : Busy(w) /\ req[w] = r)
============================================================================

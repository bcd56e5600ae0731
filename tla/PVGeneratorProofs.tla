------------------------- MODULE PVGeneratorProofs -------------------------
(***************************************************************************)
(* Proofs about PVGenerator, for any number of producers, policies, adds,  *)
(* failures and retries.                                                   *)
(***************************************************************************)
EXTENDS PVGenerator, TLAPS

\* What the worker has read when it is at a step: the key it holds, the info it syncs
\* and the object it is about to update.  The info stays in the dataStore until the
\* worker itself drops it.
WorkerOK ==
    /\ worker.pc = "idle" => worker = Resting
    /\ worker.pc # "idle" => worker.key \in InfoKeys
    /\ worker.pc \in {"sync", "create", "update"} => worker.info \in Info
    /\ worker.pc = "update" => worker.old # None
    /\ worker.pc \in {"sync", "create", "update", "ok", "err"} => store[worker.key] # None

\* The worker holds the one key that is being processed.
QueueOK ==
    /\ Consistent(wq)
    /\ wq.processing = IF worker.pc = "idle" THEN {} ELSE {worker.key}

\* The objects that are yet to be created.
CreatedOK == \A i \in PVId : i > created => pvs[i] = None

\* The inductive invariant.
IndInv == TypeOK /\ WorkerOK /\ QueueOK /\ CreatedOK /\ NoStrandedInfo

-----------------------------------------------------------------------------
(* The key of an info is one of the keys of the queue. *)
LEMMA KeyOfInfo == \A info \in Info : ToKey(info) \in InfoKeys
BY DEF InfoKeys

(* The states of the worker that the steps assign. *)
LEMMA RestingType == Resting \in WorkerType /\ Resting.pc = "idle"
BY DEF Resting, WorkerType

(* Every initial state satisfies the invariant. *)
LEMMA InitInv == Init => IndInv
<1> SUFFICES ASSUME Init PROVE IndInv
  OBVIOUS
<1>1. wq \in WorkQueueType /\ Consistent(wq) /\ wq.processing = {}
  BY EmptyQueueFacts DEF Init, EmptyQueue
<1>2. worker \in WorkerType /\ worker.pc = "idle" /\ worker = Resting
  BY RestingType DEF Init
<1>3. pvs \in PVMap /\ lister \in PVMap
  BY DEF Init, PVMap
<1>4. TypeOK
  BY <1>1, <1>2, <1>3, GeneratorAssumption DEF Init, TypeOK
<1> QED
  BY <1>1, <1>2, <1>4 DEF Init, IndInv, WorkerOK, QueueOK, CreatedOK, NoStrandedInfo

-----------------------------------------------------------------------------
(* Producers. *)

(* enqueue, first half: the info is stored. *)
LEMMA EnqueueStoreInv ==
    ASSUME IndInv, NEW a \in Producers, NEW info \in Info, EnqueueStore(a, info)
    PROVE  IndInv'
<1> USE DEF IndInv
<1>1. ToKey(info) \in InfoKeys /\ info # None
  BY KeyOfInfo, NoneAssumption
<1>2. /\ store' = [store EXCEPT ![ToKey(info)] = info]
      /\ adding' = [adding EXCEPT ![a] = info]
      /\ unsynced' = unsynced \cup {ToKey(info)}
      /\ adds' = adds + 1 /\ adds < MaxAdds /\ adding[a] = None
      /\ UNCHANGED <<wq, worker, pvs, lister, created, faults, deletes>>
  BY DEF EnqueueStore
<1>3. TypeOK'
  BY <1>1, <1>2, GeneratorAssumption DEF TypeOK
<1>4. WorkerOK' /\ QueueOK' /\ CreatedOK'
  BY <1>1, <1>2 DEF WorkerOK, QueueOK, CreatedOK, TypeOK
<1>5. NoStrandedInfo'
  <2> SUFFICES ASSUME NEW k \in unsynced'
               PROVE  /\ store'[k] # None
                      /\ k \in Tracked(wq') \/ Adding(k)' \/ (worker'.pc = "got" /\ worker'.key = k)
    BY DEF NoStrandedInfo
  <2>1. CASE k = ToKey(info)
    BY <1>1, <1>2, <2>1 DEF TypeOK, Adding
  <2>2. CASE k # ToKey(info)
    <3>1. k \in unsynced /\ k \in InfoKeys
      BY <1>2, <2>2 DEF TypeOK
    <3>2. Adding(k) => Adding(k)'
      BY <1>2 DEF Adding, TypeOK
    <3> QED
      BY <1>2, <2>2, <3>1, <3>2 DEF NoStrandedInfo, TypeOK
  <2> QED
    BY <2>1, <2>2
<1> QED
  BY <1>3, <1>4, <1>5

(* enqueue, second half: the key is queued. *)
LEMMA EnqueueQueueInv ==
    ASSUME IndInv, NEW a \in Producers, EnqueueQueue(a)
    PROVE  IndInv'
<1> USE DEF IndInv
<1>1. adding[a] \in Info /\ ToKey(adding[a]) \in InfoKeys
  BY KeyOfInfo DEF EnqueueQueue, TypeOK
<1>2. /\ wq' = Add(wq, ToKey(adding[a]))
      /\ adding' = [adding EXCEPT ![a] = None]
      /\ UNCHANGED <<store, worker, pvs, lister, unsynced, adds, created, faults, deletes>>
  BY DEF EnqueueQueue, bounds
<1>3. /\ wq' \in WorkQueueType /\ wq'.dirty = wq.dirty \cup {ToKey(adding[a])}
      /\ wq'.waiting = wq.waiting /\ wq'.processing = wq.processing /\ Consistent(wq')
  BY <1>1, <1>2, AddFacts DEF TypeOK, QueueOK
<1>4. TypeOK'
  BY <1>2, <1>3 DEF TypeOK
<1>5. WorkerOK' /\ QueueOK' /\ CreatedOK'
  BY <1>2, <1>3 DEF WorkerOK, QueueOK, CreatedOK
<1>6. NoStrandedInfo'
  <2> SUFFICES ASSUME NEW k \in unsynced
               PROVE  /\ store[k] # None
                      /\ k \in Tracked(wq') \/ Adding(k)' \/ (worker.pc = "got" /\ worker.key = k)
    BY <1>2 DEF NoStrandedInfo
  <2>1. Adding(k) => Adding(k)' \/ k = ToKey(adding[a])
    BY <1>2 DEF Adding, TypeOK
  <2> QED
    BY <1>3, <2>1 DEF NoStrandedInfo, Tracked
<1> QED
  BY <1>4, <1>5, <1>6

-----------------------------------------------------------------------------
(* The worker. *)

(* The worker takes a key from the queue. *)
LEMMA WorkerGetInv == ASSUME IndInv, WorkerGet PROVE IndInv'
<1> USE DEF IndInv
<1> DEFINE k == Head(wq.queue)
<1>1. /\ wq' = Get(wq) /\ wq.queue # <<>> /\ worker.pc = "idle"
      /\ worker' = [worker EXCEPT !.pc = "got", !.key = k]
      /\ UNCHANGED <<store, adding, pvs, lister, unsynced, adds, created, faults, deletes>>
  BY DEF WorkerGet, bounds
<1>2. /\ k \in InfoKeys /\ wq' \in WorkQueueType /\ wq'.dirty = wq.dirty \ {k}
      /\ wq'.processing = wq.processing \cup {k} /\ wq'.waiting = wq.waiting
      /\ Consistent(wq')
  BY <1>1, GetFacts DEF TypeOK, QueueOK
<1> HIDE DEF k
<1>3. worker' \in WorkerType /\ worker'.pc = "got" /\ worker'.key = k
  BY <1>1, <1>2 DEF TypeOK, WorkerType
<1>4. TypeOK'
  BY <1>1, <1>2, <1>3 DEF TypeOK
<1>5. WorkerOK' /\ QueueOK' /\ CreatedOK'
  BY <1>1, <1>2, <1>3 DEF WorkerOK, QueueOK, CreatedOK
<1>6. NoStrandedInfo'
  BY <1>1, <1>2, <1>3 DEF NoStrandedInfo, Tracked, Adding
<1> QED
  BY <1>4, <1>5, <1>6

(* The worker looks the info up; a key without an info is forgotten. *)
LEMMA WorkerLookUpInv == ASSUME IndInv, WorkerLookUp PROVE IndInv'
<1> USE DEF IndInv
<1>1. /\ worker.pc = "got" /\ unsynced' = unsynced \ {worker.key}
      /\ UNCHANGED <<store, adding, pvs, lister, adds, created, faults, deletes>>
  BY DEF WorkerLookUp, bounds
<1>2. worker.key \in InfoKeys
  BY <1>1 DEF WorkerOK
<1>3. NoStrandedInfo /\ (wq'.dirty = wq.dirty /\ wq'.waiting = wq.waiting) => NoStrandedInfo'
  BY <1>1 DEF NoStrandedInfo, Tracked, Adding
<1>4. CASE store[worker.key] = None
  <2>1. worker' = Resting /\ wq' = Done(Forget(wq, worker.key), worker.key)
    BY <1>4 DEF WorkerLookUp
  <2>2. /\ Forget(wq, worker.key) \in WorkQueueType /\ Forget(wq, worker.key).dirty = wq.dirty
        /\ Forget(wq, worker.key).waiting = wq.waiting
        /\ Forget(wq, worker.key).processing = wq.processing
        /\ Consistent(Forget(wq, worker.key))
    BY <1>2, ForgetFacts DEF TypeOK, QueueOK
  <2>3. wq.processing = {worker.key}
    BY <1>1 DEF QueueOK
  <2>4. /\ wq' \in WorkQueueType /\ wq'.dirty = wq.dirty /\ wq'.waiting = wq.waiting
        /\ wq'.processing = {} /\ Consistent(wq')
    BY <1>2, <2>1, <2>2, <2>3, DoneFacts
  <2>5. TypeOK'
    BY <1>1, <2>1, <2>4, RestingType DEF TypeOK
  <2> QED
    BY <1>1, <1>3, <2>1, <2>4, <2>5, RestingType DEF WorkerOK, QueueOK, CreatedOK
<1>5. CASE store[worker.key] # None
  <2>1. wq' = wq /\ worker' = [worker EXCEPT !.pc = "sync", !.info = store[worker.key]]
    BY <1>5 DEF WorkerLookUp
  <2>2. store[worker.key] \in Info
    BY <1>2, <1>5 DEF TypeOK
  <2>3. /\ worker' \in WorkerType /\ worker'.pc = "sync" /\ worker'.key = worker.key
        /\ worker'.info = store[worker.key]
    BY <2>1, <2>2 DEF TypeOK, WorkerType
  <2>4. TypeOK'
    BY <1>1, <2>1, <2>3 DEF TypeOK
  <2> QED
    BY <1>1, <1>2, <1>3, <1>5, <2>1, <2>2, <2>3, <2>4 DEF WorkerOK, QueueOK, CreatedOK
<1> QED
  BY <1>4, <1>5

(* A step that only moves the worker on, before the end of its round, keeps the facts
   about the queue and the infos. *)
LEMMA WorkerStays ==
    ASSUME IndInv, worker.pc \notin {"idle", "got"}, worker'.pc \notin {"idle", "got"},
           worker'.key = worker.key,
           UNCHANGED <<store, wq, adding, unsynced>>
    PROVE  QueueOK' /\ NoStrandedInfo'
BY DEF IndInv, QueueOK, NoStrandedInfo, Tracked, Adding

(* The worker compares the info with the informer's objects. *)
LEMMA WorkerGetExistingInv == ASSUME IndInv, WorkerGetExisting PROVE IndInv'
<1> USE DEF IndInv
<1>1. worker.pc = "sync" /\ UNCHANGED <<store, wq, adding, pvs, lister, unsynced, adds, created, faults, deletes>>
  BY DEF WorkerGetExisting, bounds
<1> DEFINE Moved == /\ worker' \in WorkerType /\ worker'.pc \in {"create", "ok", "update"}
                    /\ worker'.key = worker.key /\ worker'.info = worker.info
                    /\ worker'.pc = "update" => worker'.old # None
<1>2. Moved
  <2>1. CASE worker' = [worker EXCEPT !.pc = "create"]
    BY <2>1 DEF TypeOK, WorkerType
  <2>2. ASSUME NEW i \in Existing(worker.info.target),
               worker' = IF lister[i].content = worker.info.content
                         THEN [worker EXCEPT !.pc = "ok"]
                         ELSE [worker EXCEPT !.pc = "update", !.old = [id |-> i, rv |-> lister[i].rv]]
        PROVE  Moved
    <3>1. i \in PVId /\ lister[i] \in PV
      BY DEF Existing, TypeOK, PVMap
    <3>2. [id |-> i, rv |-> lister[i].rv] \in Held
      BY <3>1 DEF PV, Held
    <3>3. CASE lister[i].content = worker.info.content
      BY <2>2, <3>3 DEF TypeOK, WorkerType
    <3>4. CASE lister[i].content # worker.info.content
      <4>1. worker' = [worker EXCEPT !.pc = "update", !.old = [id |-> i, rv |-> lister[i].rv]]
        BY <2>2, <3>4
      <4> QED
        BY <3>2, <4>1, NoneAssumption DEF TypeOK, WorkerType
    <3> QED
      BY <3>3, <3>4
  <2> QED
    BY <2>1, <2>2 DEF WorkerGetExisting
<1>3. TypeOK'
  BY <1>1, <1>2 DEF TypeOK
<1>4. QueueOK' /\ NoStrandedInfo'
  BY <1>1, <1>2, WorkerStays
<1> QED
  BY <1>1, <1>2, <1>3, <1>4 DEF WorkerOK, CreatedOK

(* The worker creates an object under a fresh name. *)
LEMMA WorkerCreateInv == ASSUME IndInv, WorkerCreate PROVE IndInv'
<1> USE DEF IndInv
<1>1. /\ worker.pc = "create" /\ created < MaxPVs /\ created' = created + 1
      /\ pvs' = [pvs EXCEPT ![created + 1] =
                    [target |-> worker.info.target, content |-> worker.info.content, rv |-> 1]]
      /\ worker' = [worker EXCEPT !.pc = "ok"]
      /\ UNCHANGED <<store, wq, adding, lister, unsynced, adds, faults, deletes>>
  BY DEF WorkerCreate
<1>2. worker' \in WorkerType /\ worker'.pc = "ok" /\ worker'.key = worker.key
  BY <1>1 DEF TypeOK, WorkerType
<1>3. [target |-> worker.info.target, content |-> worker.info.content, rv |-> 1] \in PV
  BY <1>1 DEF WorkerOK, Info, PV
<1>4. created + 1 \in PVId /\ created' \in 0..MaxPVs
  BY <1>1, GeneratorAssumption DEF TypeOK, PVId
<1>5. pvs' \in PVMap
  BY <1>1, <1>3, <1>4 DEF TypeOK, PVMap
<1>6. TypeOK'
  BY <1>1, <1>2, <1>4, <1>5 DEF TypeOK
<1>7. CreatedOK'
  BY <1>1, <1>4 DEF CreatedOK, TypeOK, PVMap, PVId
<1>8. QueueOK' /\ NoStrandedInfo'
  BY <1>1, <1>2, WorkerStays
<1> QED
  BY <1>1, <1>2, <1>6, <1>7, <1>8 DEF WorkerOK

(* The worker's update, accepted or refused by the API server. *)
LEMMA WorkerUpdateInv == ASSUME IndInv, WorkerUpdate PROVE IndInv'
<1> USE DEF IndInv
<1> DEFINE i == worker.old.id
<1>1. worker.pc = "update" /\ UNCHANGED <<store, wq, adding, lister, unsynced, adds, created, faults, deletes>>
  BY DEF WorkerUpdate, bounds
<1>2. i \in PVId /\ worker.info \in Info
  BY <1>1 DEF WorkerOK, TypeOK, WorkerType, Held
<1>3. /\ worker' \in WorkerType /\ worker'.pc \in {"ok", "err"} /\ worker'.key = worker.key
  <2>1. worker' \in {[worker EXCEPT !.pc = "ok", !.old = None], [worker EXCEPT !.pc = "err", !.old = None]}
    BY DEF WorkerUpdate
  <2> QED
    BY <2>1 DEF TypeOK, WorkerType
<1>4. pvs' \in PVMap /\ \A j \in PVId : pvs[j] = None => pvs'[j] = None
  <2>1. CASE pvs' = pvs
    BY <2>1 DEF TypeOK
  <2>2. CASE pvs' # pvs
    <3>1. /\ pvs[i] # None
          /\ pvs' = [pvs EXCEPT ![i].content = worker.info.content, ![i].rv = @ + 1]
      BY <2>2 DEF WorkerUpdate
    <3>2. pvs[i] \in PV /\ worker.info.content \in Contents
      BY <1>2, <3>1 DEF TypeOK, PVMap, Info
    <3>3. pvs'[i] = [pvs[i] EXCEPT !.content = worker.info.content, !.rv = @ + 1]
      BY <1>2, <3>1, <3>2 DEF TypeOK, PVMap, PV
    <3>4. pvs'[i] \in PV
      <4>1. pvs[i].rv + 1 \in Nat \ {0}
        BY <3>2 DEF PV
      <4> QED
        BY <3>2, <3>3, <4>1 DEF PV
    <3>5. pvs' = [pvs EXCEPT ![i] = pvs'[i]]
      BY <1>2, <3>1 DEF TypeOK, PVMap
    <3> QED
      BY <1>2, <3>1, <3>4, <3>5 DEF TypeOK, PVMap
  <2> QED
    BY <2>1, <2>2
<1> HIDE DEF i
<1>5. TypeOK'
  BY <1>1, <1>3, <1>4 DEF TypeOK
<1>6. CreatedOK'
  BY <1>1, <1>4 DEF CreatedOK
<1>7. QueueOK' /\ NoStrandedInfo'
  BY <1>1, <1>3, WorkerStays
<1> QED
  BY <1>1, <1>3, <1>5, <1>6, <1>7 DEF WorkerOK

(* The call of the API server fails. *)
LEMMA WorkerFaultInv == ASSUME IndInv, WorkerFault PROVE IndInv'
<1> USE DEF IndInv
<1>1. /\ worker.pc \in {"create", "update"} /\ faults < MaxFaults /\ faults' = faults + 1
      /\ worker' = [worker EXCEPT !.pc = "err", !.old = None]
      /\ UNCHANGED <<store, wq, adding, pvs, lister, unsynced, adds, created, deletes>>
  BY DEF WorkerFault
<1>2. worker' \in WorkerType /\ worker'.pc = "err" /\ worker'.key = worker.key
  BY <1>1 DEF TypeOK, WorkerType
<1>3. TypeOK'
  BY <1>1, <1>2, GeneratorAssumption DEF TypeOK
<1>4. QueueOK' /\ NoStrandedInfo'
  BY <1>1, <1>2, WorkerStays
<1> QED
  BY <1>1, <1>2, <1>3, <1>4 DEF WorkerOK, CreatedOK

(* The worker comes to rest with Done: what the queue is like then, if q is what handleErr
   made of it before. *)
LEMMA WorkerRests ==
    ASSUME TypeOK, worker.key \in InfoKeys,
           NEW q \in WorkQueueType, Consistent(q), q.processing = {worker.key},
           wq' = Done(q, worker.key), worker' = Resting
    PROVE  /\ wq' \in WorkQueueType /\ wq'.dirty = q.dirty /\ wq'.waiting = q.waiting
           /\ QueueOK'
           /\ worker' \in WorkerType /\ WorkerOK'
<1>1. /\ wq' \in WorkQueueType /\ wq'.dirty = q.dirty /\ wq'.waiting = q.waiting
      /\ wq'.processing = {} /\ Consistent(wq')
  BY DoneFacts
<1>2. worker' \in WorkerType /\ worker'.pc = "idle"
  BY RestingType
<1> QED
  BY <1>1, <1>2 DEF QueueOK, WorkerOK

(* handleErr after a success. *)
LEMMA HandleErrNilInv == ASSUME IndInv, HandleErrNil PROVE IndInv'
<1> USE DEF IndInv
<1>1. /\ worker.pc = "ok" /\ wq' = Done(Forget(wq, worker.key), worker.key) /\ worker' = Resting
      /\ UNCHANGED <<store, adding, pvs, lister, unsynced, adds, created, faults, deletes>>
  BY DEF HandleErrNil, bounds
<1>2. worker.key \in InfoKeys /\ wq.processing = {worker.key}
  BY <1>1 DEF WorkerOK, QueueOK
<1>3. /\ Forget(wq, worker.key) \in WorkQueueType /\ Consistent(Forget(wq, worker.key))
      /\ Forget(wq, worker.key).processing = {worker.key}
      /\ Forget(wq, worker.key).dirty = wq.dirty /\ Forget(wq, worker.key).waiting = wq.waiting
  BY <1>2, ForgetFacts DEF TypeOK, QueueOK
<1>4. /\ wq' \in WorkQueueType /\ wq'.dirty = wq.dirty /\ wq'.waiting = wq.waiting
      /\ QueueOK' /\ worker' \in WorkerType /\ WorkerOK'
  BY <1>1, <1>2, <1>3, WorkerRests
<1>5. TypeOK'
  BY <1>1, <1>4 DEF TypeOK
<1>6. NoStrandedInfo'
  BY <1>1, <1>4 DEF NoStrandedInfo, Tracked, Adding
<1> QED
  BY <1>1, <1>4, <1>5, <1>6 DEF CreatedOK

(* handleErr after a failure: the key is tried again; its info is still in the dataStore. *)
LEMMA HandleErrRetryInv == ASSUME IndInv, HandleErrRetry PROVE IndInv'
<1> USE DEF IndInv
<1> DEFINE q == AddRateLimited(wq, worker.key)
<1>1. /\ worker.pc = "err" /\ wq' = Done(q, worker.key) /\ worker' = Resting
      /\ unsynced' = unsynced \cup {worker.key}
      /\ UNCHANGED <<store, adding, pvs, lister, adds, created, faults, deletes>>
  BY DEF HandleErrRetry, bounds
<1>2. worker.key \in InfoKeys /\ wq.processing = {worker.key} /\ store[worker.key] # None
  BY <1>1 DEF WorkerOK, QueueOK
<1>3. /\ q \in WorkQueueType /\ Consistent(q) /\ q.processing = {worker.key}
      /\ q.dirty = wq.dirty /\ q.waiting = wq.waiting \cup {worker.key}
  BY <1>2, AddRateLimitedFacts DEF TypeOK, QueueOK
<1> HIDE DEF q
<1>4. /\ wq' \in WorkQueueType /\ wq'.dirty = wq.dirty /\ wq'.waiting = wq.waiting \cup {worker.key}
      /\ QueueOK' /\ worker' \in WorkerType /\ WorkerOK'
  BY <1>1, <1>2, <1>3, WorkerRests
<1>5. TypeOK'
  BY <1>1, <1>2, <1>4 DEF TypeOK
<1>6. NoStrandedInfo'
  BY <1>1, <1>2, <1>4 DEF NoStrandedInfo, Tracked, Adding
<1> QED
  BY <1>1, <1>4, <1>5, <1>6 DEF CreatedOK

(* handleErr gives a key up, with the info the dataStore has by then. *)
LEMMA HandleErrDropInv == ASSUME IndInv, HandleErrDrop PROVE IndInv'
<1> USE DEF IndInv
<1>1. /\ worker.pc = "err" /\ wq' = Forget(wq, worker.key)
      /\ store' = [store EXCEPT ![worker.key] = None]
      /\ unsynced' = unsynced \ {worker.key}
      /\ worker' = [worker EXCEPT !.pc = "dropped"]
      /\ UNCHANGED <<adding, pvs, lister, adds, created, faults, deletes>>
  BY DEF HandleErrDrop, bounds
<1>2. worker.key \in InfoKeys
  BY <1>1 DEF WorkerOK
<1>3. /\ wq' \in WorkQueueType /\ wq'.dirty = wq.dirty /\ wq'.waiting = wq.waiting
      /\ wq'.processing = wq.processing /\ Consistent(wq')
  BY <1>1, <1>2, ForgetFacts DEF TypeOK, QueueOK
<1>4. worker' \in WorkerType /\ worker'.pc = "dropped" /\ worker'.key = worker.key
  BY <1>1 DEF TypeOK, WorkerType
<1>5. TypeOK'
  BY <1>1, <1>2, <1>3, <1>4 DEF TypeOK
<1>6. NoStrandedInfo'
  <2> SUFFICES ASSUME NEW k \in unsynced, k # worker.key
               PROVE  store'[k] # None /\ (k \in Tracked(wq') \/ Adding(k)')
    BY <1>1 DEF NoStrandedInfo
  <2>1. store[k] # None /\ (k \in Tracked(wq) \/ Adding(k))
    BY <1>1 DEF NoStrandedInfo
  <2>2. k \in InfoKeys
    BY DEF TypeOK
  <2> QED
    BY <1>1, <1>2, <1>3, <2>1, <2>2 DEF TypeOK, Tracked, Adding
<1> QED
  BY <1>1, <1>2, <1>3, <1>4, <1>5, <1>6 DEF WorkerOK, QueueOK, CreatedOK

(* The deferred Done after a drop. *)
LEMMA WorkerDoneInv == ASSUME IndInv, WorkerDone PROVE IndInv'
<1> USE DEF IndInv
<1>1. /\ worker.pc = "dropped" /\ wq' = Done(wq, worker.key) /\ worker' = Resting
      /\ UNCHANGED <<store, adding, pvs, lister, unsynced, adds, created, faults, deletes>>
  BY DEF WorkerDone, bounds
<1>2. worker.key \in InfoKeys /\ wq.processing = {worker.key} /\ Consistent(wq) /\ wq \in WorkQueueType
  BY <1>1 DEF WorkerOK, QueueOK, TypeOK
<1>3. /\ wq' \in WorkQueueType /\ wq'.dirty = wq.dirty /\ wq'.waiting = wq.waiting
      /\ QueueOK' /\ worker' \in WorkerType /\ WorkerOK'
  BY <1>1, <1>2, WorkerRests
<1>4. TypeOK'
  BY <1>1, <1>3 DEF TypeOK
<1>5. NoStrandedInfo'
  BY <1>1, <1>3 DEF NoStrandedInfo, Tracked, Adding
<1> QED
  BY <1>1, <1>3, <1>4, <1>5 DEF CreatedOK

-----------------------------------------------------------------------------
(* The queue's timers, the informer and the other controllers. *)

(* The back-off of a key ends. *)
LEMMA BackOffInv == ASSUME IndInv, NEW k \in InfoKeys, BackOff(k) PROVE IndInv'
<1> USE DEF IndInv
<1>1. /\ k \in wq.waiting /\ wq' = BackOffEnds(wq, k)
      /\ UNCHANGED <<store, adding, worker, pvs, lister, unsynced, adds, created, faults, deletes>>
  BY DEF BackOff, bounds
<1>2. /\ wq' \in WorkQueueType /\ wq'.dirty = wq.dirty \cup {k} /\ wq'.waiting = wq.waiting \ {k}
      /\ wq'.processing = wq.processing /\ Consistent(wq')
  BY <1>1, BackOffEndsFacts DEF TypeOK, QueueOK
<1>3. TypeOK'
  BY <1>1, <1>2 DEF TypeOK
<1>4. NoStrandedInfo'
  BY <1>1, <1>2 DEF NoStrandedInfo, Tracked, Adding
<1> QED
  BY <1>1, <1>2, <1>3, <1>4 DEF WorkerOK, QueueOK, CreatedOK

(* A step that touches neither the infos nor the queue nor the worker. *)
LEMMA OthersInv ==
    ASSUME IndInv, UNCHANGED <<store, wq, adding, worker, unsynced>>
    PROVE  WorkerOK' /\ QueueOK' /\ NoStrandedInfo'
BY DEF IndInv, WorkerOK, QueueOK, NoStrandedInfo, Tracked, Adding

(* Somebody else deletes a violation object. *)
LEMMA DeletePVInv == ASSUME IndInv, NEW i \in PVId, DeletePV(i) PROVE IndInv'
<1> USE DEF IndInv
<1>1. /\ deletes < MaxDeletes /\ pvs' = [pvs EXCEPT ![i] = None] /\ deletes' = deletes + 1
      /\ UNCHANGED <<store, wq, adding, worker, lister, unsynced, adds, created, faults>>
  BY DEF DeletePV
<1>2. TypeOK'
  BY <1>1, GeneratorAssumption DEF TypeOK, PVMap
<1> QED
  BY <1>1, <1>2, OthersInv DEF CreatedOK, TypeOK, PVMap

(* Every step keeps the invariant. *)
LEMMA StepInv == IndInv /\ [Next]_vars => IndInv'
<1> SUFFICES ASSUME IndInv, [Next]_vars PROVE IndInv'
  OBVIOUS
<1>1. CASE \E a \in Producers : EnqueueQueue(a) \/ \E info \in Info : EnqueueStore(a, info)
  BY <1>1, EnqueueQueueInv, EnqueueStoreInv
<1>2. CASE Worker
  BY <1>2, WorkerGetInv, WorkerLookUpInv, WorkerGetExistingInv, WorkerCreateInv, WorkerUpdateInv,
     WorkerFaultInv, HandleErrNilInv, HandleErrRetryInv, HandleErrDropInv, WorkerDoneInv DEF Worker
<1>3. CASE \E k \in InfoKeys : BackOff(k)
  BY <1>3, BackOffInv
<1>4. CASE InformerSync
  <2>1. UNCHANGED <<store, wq, adding, worker, pvs, unsynced, adds, created, faults, deletes>> /\ lister' = pvs
    BY <1>4 DEF InformerSync, bounds
  <2> QED
    BY <2>1, OthersInv DEF IndInv, TypeOK, CreatedOK
<1>5. CASE \E i \in PVId : DeletePV(i)
  BY <1>5, DeletePVInv
<1>6. CASE UNCHANGED vars
  BY <1>6, OthersInv DEF vars, bounds, IndInv, TypeOK, CreatedOK
<1> QED
  BY <1>1, <1>2, <1>3, <1>4, <1>5, <1>6 DEF Next

(* The invariant holds of every behaviour. *)
LEMMA Invariance == Spec => []IndInv
BY InitInv, StepInv, PTL DEF Spec

-----------------------------------------------------------------------------
(* The variables have their types in every reachable state: no step of the worker reads
   an info, an object or a key that it has not been given. *)
THEOREM TypeCorrect == Spec => []TypeOK
<1>1. IndInv => TypeOK
  BY DEF IndInv
<1> QED
  BY <1>1, Invariance, PTL

(* An info in the dataStore that no sync has taken is never stranded, however producers,
   retries, drops and back-offs interleave with the two halves of enqueue. *)
THEOREM InfoNeverStranded == Spec => []NoStrandedInfo
<1>1. IndInv => NoStrandedInfo
  BY DEF IndInv
<1> QED
  BY <1>1, Invariance, PTL

\* A key that waits for a worker is in the FIFO, or the worker has it and queues it again.
KeysServed ==
    \A k \in wq.dirty : (\E i \in DOMAIN wq.queue : wq.queue[i] = k)
                            \/ (worker.pc # "idle" /\ worker.key = k)

(* No dirty key is lost: the deferred Done is called exactly once for every key the worker
   was handed, on each of the paths through processNextWorkitem. *)
THEOREM DirtyKeysServed == Spec => []KeysServed
<1>1. IndInv => KeysServed
  <2> SUFFICES ASSUME IndInv, NEW k \in wq.dirty,
                      ~ (worker.pc # "idle" /\ worker.key = k)
               PROVE  \E i \in DOMAIN wq.queue : wq.queue[i] = k
    BY DEF KeysServed
  <2>1. k \notin wq.processing
    BY DEF IndInv, QueueOK
  <2>2. k \in {wq.queue[i] : i \in DOMAIN wq.queue}
    BY <2>1 DEF IndInv, QueueOK, Consistent
  <2> QED
    BY <2>2
<1> QED
  BY <1>1, Invariance, PTL

(* An existing violation object changes only by an update that was computed from its
   current version: of the steps of all actors, only an accepted updatePV changes one. *)
THEOREM UpdatesNotBlind == Spec => NoBlindUpdate
<1> DEFINE Seen == \A i \in PVId : (pvs[i] # None /\ pvs'[i] # None /\ pvs'[i] # pvs[i])
                                       => worker.old # None /\ worker.old.rv = pvs[i].rv
<1>1. IndInv /\ [Next]_vars => [Seen]_vars
  <2> SUFFICES ASSUME IndInv, Next, NEW i \in PVId,
                      pvs[i] # None, pvs'[i] # None, pvs'[i] # pvs[i]
               PROVE  worker.old # None /\ worker.old.rv = pvs[i].rv
    OBVIOUS
  <2>1. CASE WorkerUpdate
    <3>1. /\ worker.pc = "update" /\ pvs[worker.old.id].rv = worker.old.rv
          /\ pvs' = [pvs EXCEPT ![worker.old.id].content = worker.info.content,
                                ![worker.old.id].rv = @ + 1]
      BY <2>1 DEF WorkerUpdate
    <3>2. worker.old # None
      BY <3>1 DEF IndInv, WorkerOK
    <3>3. i = worker.old.id
      BY <3>1 DEF IndInv, TypeOK, PVMap
    <3> QED
      BY <3>1, <3>2, <3>3
  <2>2. CASE WorkerCreate
    <3>1. created + 1 \in PVId /\ pvs[created + 1] = None
      BY <2>2, GeneratorAssumption DEF WorkerCreate, IndInv, TypeOK, PVId, CreatedOK
    <3>2. i = created + 1
      BY <2>2, <3>1 DEF WorkerCreate, IndInv, TypeOK, PVMap
    <3> QED
      BY <3>1, <3>2
  <2>3. CASE \E j \in PVId : DeletePV(j)
    BY <2>3 DEF DeletePV, IndInv, TypeOK, PVMap
  <2>4. CASE pvs' = pvs
    BY <2>4
  <2>5. WorkerUpdate \/ WorkerCreate \/ (\E j \in PVId : DeletePV(j)) \/ pvs' = pvs
    BY DEF Next, Worker, EnqueueStore, EnqueueQueue, WorkerGet, WorkerLookUp, WorkerGetExisting,
           WorkerFault, HandleErrNil, HandleErrRetry, HandleErrDrop, WorkerDone, BackOff, InformerSync
  <2> QED
    BY <2>1, <2>2, <2>3, <2>4, <2>5
<1> QED
  BY <1>1, Invariance, PTL DEF Spec, NoBlindUpdate
=============================================================================

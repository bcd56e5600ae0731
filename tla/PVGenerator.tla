---------------------------- MODULE PVGenerator ----------------------------
(***************************************************************************)
(* The policy-violation generator (pkg/policyviolation).  Admission        *)
(* requests and the policy controller Add infos; an info is put in the     *)
(* dataStore under a key built from policy, resource and NUMBER of rules,  *)
(* and the key is queued.  One worker looks the info up again, compares it *)
(* with the informer's copy of the violations and creates or updates a     *)
(* violation object, retrying a failed key a few times.                    *)
(***************************************************************************)
EXTENDS Naturals, Sequences, FiniteSets

CONSTANTS Targets,     \* a policy together with a resource
          Contents,    \* lists of violated rules
          NumRules,    \* [Contents -> length of the list]
          Producers,   \* goroutines that call Add
          None,
          RetryLimit,  \* workQueueRetryLimit
          MaxAdds, MaxPVs, MaxFaults, MaxDeletes   \* bounds of the model

ASSUME GeneratorAssumption ==
    /\ NumRules \in [Contents -> Nat]
    /\ {RetryLimit, MaxAdds, MaxPVs, MaxFaults, MaxDeletes} \subseteq Nat

Info == [target : Targets, content : Contents]
\* Info.toKey
ToKey(info) == <<info.target, NumRules[info.content]>>
InfoKeys    == {ToKey(info) : info \in Info}

INSTANCE WorkQueue WITH Keys <- InfoKeys

PV == [target : Targets, content : Contents, rv : Nat \ {0}]
PVId == 1..MaxPVs
PVMap == [PVId -> PV \cup {None}]
\* The object an update is for, by the resource version that was read.
Held  == [id : PVId, rv : Nat \ {0}]

\* "nothing there" is no info and no object.
ASSUME NoneAssumption == None \notin Info /\ None \notin PV /\ None \notin Held

VARIABLES store,     \* dataStore: key -> info
          wq,        \* the work queue
          adding,    \* producer -> info it has stored but not queued yet
          worker,    \* the worker goroutine
          pvs,       \* violation objects at the API server, by creation order
          lister,    \* the informer's copy of them
          unsynced,  \* history: keys whose stored info no sync has taken yet
          adds, created, faults, deletes   \* counters of the bounds

bounds == <<adds, created, faults, deletes>>
vars   == <<store, wq, adding, worker, pvs, lister, unsynced, bounds>>

Resting == [pc |-> "idle", key |-> None, info |-> None, old |-> None]
WorkerType == [pc : {"idle", "got", "sync", "create", "update", "ok", "err", "dropped"},
               key : InfoKeys \cup {None}, info : Info \cup {None}, old : Held \cup {None}]

TypeOK ==
    /\ store \in [InfoKeys -> Info \cup {None}]
    /\ wq \in WorkQueueType
    /\ adding \in [Producers -> Info \cup {None}]
    /\ worker \in WorkerType
    /\ pvs \in PVMap /\ lister \in PVMap
    /\ unsynced \in SUBSET InfoKeys
    /\ adds \in 0..MaxAdds /\ created \in 0..MaxPVs
    /\ faults \in 0..MaxFaults /\ deletes \in 0..MaxDeletes

Init ==
    /\ store = [k \in InfoKeys |-> None]
    /\ wq = EmptyQueue
    /\ adding = [a \in Producers |-> None]
    /\ worker = Resting
    /\ pvs = [i \in PVId |-> None] /\ lister = pvs
    /\ unsynced = {}
    /\ adds = 0 /\ created = 0 /\ faults = 0 /\ deletes = 0

-----------------------------------------------------------------------------
(* Add, called concurrently; enqueue takes the two locks one after the other. *)

(* Mutated form: only the list of rules is stored. *)
EnqueueStoreContent(a, info) ==
    /\ adding[a] = None /\ adds < MaxAdds
    /\ store' = [store EXCEPT ![ToKey(info)] = info.content]
    /\ adding' = [adding EXCEPT ![a] = info]
    /\ unsynced' = unsynced \cup {ToKey(info)}
    /\ adds' = adds + 1
    /\ UNCHANGED <<wq, worker, pvs, lister, created, faults, deletes>>

EnqueueStore(a, info) ==
    /\ adding[a] = None /\ adds < MaxAdds
    /\ store' = [store EXCEPT ![ToKey(info)] = info]
    /\ adding' = [adding EXCEPT ![a] = info]
    /\ unsynced' = unsynced \cup {ToKey(info)}
    /\ adds' = adds + 1
    /\ UNCHANGED <<wq, worker, pvs, lister, created, faults, deletes>>

EnqueueQueue(a) ==
    /\ adding[a] # None
    /\ wq' = Add(wq, ToKey(adding[a]))
    /\ adding' = [adding EXCEPT ![a] = None]
    /\ UNCHANGED <<store, worker, pvs, lister, unsynced, bounds>>

-----------------------------------------------------------------------------
(* The worker. *)

WorkerGet ==
    /\ worker.pc = "idle" /\ wq.queue # <<>>
    /\ worker' = [worker EXCEPT !.pc = "got", !.key = Head(wq.queue)]
    /\ wq' = Get(wq)
    /\ UNCHANGED <<store, adding, pvs, lister, unsynced, bounds>>

\* processNextWorkitem reads the dataStore; a key without an info is forgotten.
WorkerLookUp ==
    /\ worker.pc = "got"
    /\ IF store[worker.key] = None
       THEN /\ worker' = Resting
            /\ wq' = Done(Forget(wq, worker.key), worker.key)
       ELSE /\ worker' = [worker EXCEPT !.pc = "sync", !.info = store[worker.key]]
            /\ wq' = wq
    /\ unsynced' = unsynced \ {worker.key}
    /\ UNCHANGED <<store, adding, pvs, lister, bounds>>

\* getExisting: any violation object of the same policy and resource the lister has.
Existing(t) == {i \in PVId : lister[i] # None /\ lister[i].target = t}

WorkerGetExisting ==
    /\ worker.pc = "sync"
    /\ \/ /\ Existing(worker.info.target) = {}
          /\ worker' = [worker EXCEPT !.pc = "create"]
       \/ \E i \in Existing(worker.info.target) :
             worker' = IF lister[i].content = worker.info.content
                       THEN [worker EXCEPT !.pc = "ok"]     \* did not change
                       ELSE [worker EXCEPT !.pc = "update", !.old = [id |-> i, rv |-> lister[i].rv]]
    /\ UNCHANGED <<store, wq, adding, pvs, lister, unsynced, bounds>>

\* createPV: the resource is found within the retry time and the API server accepts.
WorkerCreate ==
    /\ worker.pc = "create" /\ created < MaxPVs
    /\ created' = created + 1
    /\ pvs' = [pvs EXCEPT ![created + 1] =
                  [target |-> worker.info.target, content |-> worker.info.content, rv |-> 1]]
    /\ worker' = [worker EXCEPT !.pc = "ok"]
    /\ UNCHANGED <<store, wq, adding, lister, unsynced, adds, faults, deletes>>

(* Mutated form: the update is sent without a resource version. *)
WorkerUpdateUnversioned ==
    /\ worker.pc = "update"
    /\ IF pvs[worker.old.id] # None
       THEN /\ pvs' = [pvs EXCEPT ![worker.old.id].content = worker.info.content,
                                  ![worker.old.id].rv = @ + 1]
            /\ worker' = [worker EXCEPT !.pc = "ok", !.old = None]
       ELSE /\ pvs' = pvs
            /\ worker' = [worker EXCEPT !.pc = "err", !.old = None]
    /\ UNCHANGED <<store, wq, adding, lister, unsynced, bounds>>

\* updatePV with the resource version of the object getExisting returned; the API
\* server refuses a version that is not current.
WorkerUpdate ==
    /\ worker.pc = "update"
    /\ IF pvs[worker.old.id] # None /\ pvs[worker.old.id].rv = worker.old.rv
       THEN /\ pvs' = [pvs EXCEPT ![worker.old.id].content = worker.info.content,
                                  ![worker.old.id].rv = @ + 1]
            /\ worker' = [worker EXCEPT !.pc = "ok", !.old = None]
       ELSE /\ pvs' = pvs
            /\ worker' = [worker EXCEPT !.pc = "err", !.old = None]
    /\ UNCHANGED <<store, wq, adding, lister, unsynced, bounds>>

\* The resource is not found in time, or the API server or the network fails.
WorkerFault ==
    /\ worker.pc \in {"create", "update"} /\ faults < MaxFaults
    /\ faults' = faults + 1
    /\ worker' = [worker EXCEPT !.pc = "err", !.old = None]
    /\ UNCHANGED <<store, wq, adding, pvs, lister, unsynced, adds, created, deletes>>

(* Mutated form: a failed key is not queued again. *)
HandleErrNoRequeue ==
    /\ worker.pc = "err" /\ wq.requeues[worker.key] < RetryLimit
    /\ wq' = Done(wq, worker.key)
    /\ worker' = Resting
    /\ UNCHANGED <<store, adding, pvs, lister, unsynced, bounds>>
(* Mutated forms of success: the info is removed as on a drop; Done is not called. *)
HandleErrNilDeletes ==
    /\ worker.pc = "ok"
    /\ wq' = Done(Forget(wq, worker.key), worker.key)
    /\ store' = [store EXCEPT ![worker.key] = None]
    /\ worker' = Resting
    /\ UNCHANGED <<adding, pvs, lister, unsynced, bounds>>
HandleErrNilNoDone ==
    /\ worker.pc = "ok"
    /\ wq' = Forget(wq, worker.key)
    /\ worker' = Resting
    /\ UNCHANGED <<store, adding, pvs, lister, unsynced, bounds>>

\* handleErr: success.
HandleErrNil ==
    /\ worker.pc = "ok"
    /\ wq' = Done(Forget(wq, worker.key), worker.key)
    /\ worker' = Resting
    /\ UNCHANGED <<store, adding, pvs, lister, unsynced, bounds>>

\* handleErr: a failed key is queued again up to RetryLimit times...
HandleErrRetry ==
    /\ worker.pc = "err" /\ wq.requeues[worker.key] < RetryLimit
    /\ wq' = Done(AddRateLimited(wq, worker.key), worker.key)
    /\ unsynced' = unsynced \cup {worker.key}
    /\ worker' = Resting
    /\ UNCHANGED <<store, adding, pvs, lister, bounds>>

\* ... and then dropped together with whatever info the dataStore has by now;
HandleErrDrop ==
    /\ worker.pc = "err" /\ wq.requeues[worker.key] >= RetryLimit
    /\ wq' = Forget(wq, worker.key)
    /\ store' = [store EXCEPT ![worker.key] = None]
    /\ unsynced' = unsynced \ {worker.key}
    /\ worker' = [worker EXCEPT !.pc = "dropped"]
    /\ UNCHANGED <<adding, pvs, lister, bounds>>

\* the deferred Done follows.
WorkerDone ==
    /\ worker.pc = "dropped"
    /\ wq' = Done(wq, worker.key)
    /\ worker' = Resting
    /\ UNCHANGED <<store, adding, pvs, lister, unsynced, bounds>>

Worker ==
    \/ WorkerGet \/ WorkerLookUp \/ WorkerGetExisting \/ WorkerCreate \/ WorkerUpdate
    \/ WorkerFault \/ HandleErrNil \/ HandleErrRetry \/ HandleErrDrop \/ WorkerDone

-----------------------------------------------------------------------------
(* The queue's timers, the informer and the other controllers. *)

BackOff(k) ==
    /\ k \in wq.waiting
    /\ wq' = BackOffEnds(wq, k)
    /\ UNCHANGED <<store, adding, worker, pvs, lister, unsynced, bounds>>

InformerSync ==
    /\ lister # pvs
    /\ lister' = pvs
    /\ UNCHANGED <<store, wq, adding, worker, pvs, unsynced, bounds>>

\* The policy controller or the garbage collector deletes a violation object.
DeletePV(i) ==
    /\ deletes < MaxDeletes /\ pvs[i] # None
    /\ pvs' = [pvs EXCEPT ![i] = None]
    /\ deletes' = deletes + 1
    /\ UNCHANGED <<store, wq, adding, worker, lister, unsynced, adds, created, faults>>

Next ==
    \/ \E a \in Producers : EnqueueQueue(a) \/ \E info \in Info : EnqueueStore(a, info)
    \/ Worker
    \/ \E k \in InfoKeys : BackOff(k)
    \/ InformerSync
    \/ \E i \in PVId : DeletePV(i)

Spec == Init /\ [][Next]_vars

\* The worker goroutine, the queue's timers, a producer in the middle of Add and the
\* informer keep running; nobody has to add, fail or delete anything.
Fairness ==
    /\ WF_vars(Worker) /\ WF_vars(InformerSync)
    /\ \A k \in InfoKeys : WF_vars(BackOff(k))
    /\ \A a \in Producers : WF_vars(EnqueueQueue(a))

FairSpec == Spec /\ Fairness

-----------------------------------------------------------------------------
(* Properties. *)

Adding(k) == \E a \in Producers : adding[a] # None /\ ToKey(adding[a]) = k

\* An info that sits in the dataStore and that no sync has taken is never stranded:
\* its key is queued, in back-off, or about to be queued by the producer that stored
\* it (enqueue stores before it queues; Get and lookup are separate steps).
NoStrandedInfo ==
    \A k \in unsynced : store[k] # None /\ (k \in Tracked(wq) \/ Adding(k) \/ (worker.pc = "got" /\ worker.key = k))

\* An existing violation object changes only by an update that was computed from its
\* current version, so an update never overwrites a change its author did not see.
NoBlindUpdate ==
    [][\A i \in PVId :
          (pvs[i] # None /\ pvs'[i] # None /\ pvs'[i] # pvs[i])
              => worker.old # None /\ worker.old.rv = pvs[i].rv]_vars

\* The generator comes to rest after the last Add: retries end in success or a drop.
ComesToRest == <>[](Quiet(wq) /\ worker = Resting)

\* Each queued request is resolved: at some later time a violation object with its
\* content exists, or the informer shows one (and nothing has to be written), or the
\* request is dropped or replaced by a newer one of its key.
Recorded(m, info) ==
    \E i \in PVId : m[i] # None /\ m[i].target = info.target /\ m[i].content = info.content

RequestResolved ==
    \A k \in InfoKeys : \A info \in Info :
        (k \in Tracked(wq) /\ store[k] = info)
            ~> (store[k] # info \/ Recorded(pvs, info) \/ Recorded(lister, info))
=============================================================================

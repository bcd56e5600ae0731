----------------------- MODULE PolicyControllerProofs -----------------------
(***************************************************************************)
(* Proofs about PolicyController, for any policies, resources, verdicts    *)
(* and numbers of edits and faults: type correctness, that no key of the   *)
(* queue is lost or retried for ever, that the violation count a policy's  *)
(* status gets is that of the specification which is there, that a         *)
(* resource is only skipped as processed while it and the policy are as    *)
(* the scan has seen them, and that no violation of a deleted policy is    *)
(* forgotten.                                                              *)
(***************************************************************************)
EXTENDS PolicyController, FiniteSetTheorems, TLAPS

\* The one worker holds the one key that is being processed, and no key has been retried
\* more often than handleErr allows.
QueueOK(q, v) ==
    /\ q \in WorkQueueType /\ Consistent(q)
    /\ q.processing = IF v.pc = "idle" THEN {} ELSE {v.key}
    /\ v.pc # "idle" => v.key \in Policies
    /\ \A p \in Policies : q.requeues[p] <= MaxRetries

\* A copy of a policy that is as new as the policy differs from it in the status at most.
SameSpec(a, c) == IF a = None THEN c = None ELSE c # None /\ c.spec = a.spec

ObjectsOK ==
    /\ namespaced \in SUBSET Resources
    /\ api \in [Policies -> Policy \cup {None}] /\ cache \in [Policies -> Policy \cup {None}]
    /\ behind \in SUBSET Policies /\ res \in [Resources -> Contents]
    /\ \A p \in Policies \ behind : SameSpec(api[p], cache[p])

\* What the ResourceManager makes a scan skip is what the cached policy is for.
ProcessedOK ==
    /\ processed \in SUBSET Pairs
    /\ \A p \in Policies, r \in Resources :
           <<p, r>> \in processed =>
               cache[p] # None /\ r \in Selected[cache[p].spec] \ AutogenPods

ViolationsOK ==
    /\ pv \in [Pairs -> Engines \cup {None}] /\ pvl \in [Pairs -> Engines \cup {None}]
    /\ requests \in SUBSET (Pairs \X Engines)

CountsOK ==
    /\ fresh \in SUBSET Policies /\ lost \in SUBSET Policies
    /\ edits \in 0..MaxEdits /\ faults \in 0..MaxFaults

\* The worker that scans has the specification of the cached policy, as long as the informer
\* has not replaced the object, and the content of each resource, as long as nobody has
\* changed it.
ScanOK ==
    /\ w.pc \in {"scan", "cleanup"} =>
           /\ w.spec \in Specs
           /\ ~w.old => cache[w.key] # None /\ cache[w.key].spec = w.spec
    /\ w.pc = "scan" =>
           /\ w.todo \subseteq Selected[w.spec] \ AutogenPods
           /\ \A r \in w.todo \ w.changed : w.list[r] = res[r]

WorkerOK ==
    /\ w \in WorkerType /\ QueueOK(wq, w)
    /\ w.pc = "idle" => w = Idle
    /\ w.pc \in {"delcluster", "delnamespaced"} => w.spec = None

IndInv == ObjectsOK /\ ProcessedOK /\ ViolationsOK /\ CountsOK /\ ScanOK /\ WorkerOK

-----------------------------------------------------------------------------
(* Lemmas. *)

(* Queueing one policy. *)
LEMMA QueueOne ==
    ASSUME NEW q, NEW v, QueueOK(q, v), NEW p \in Policies
    PROVE  QueueOK(Add(q, p), v)
BY AddFacts DEF QueueOK

(* The end of a back-off. *)
LEMMA QueueBackOff ==
    ASSUME NEW q, NEW v, QueueOK(q, v), NEW p \in Policies
    PROVE  QueueOK(BackOffEnds(q, p), v)
BY BackOffEndsFacts DEF QueueOK

(* The worker takes the oldest key. *)
LEMMA QueueGet ==
    ASSUME NEW q, NEW u, QueueOK(q, u), u.pc = "idle", q.queue # <<>>,
           NEW v, v.pc # "idle", v.key = Head(q.queue)
    PROVE  QueueOK(Get(q), v) /\ Head(q.queue) \in Policies
BY GetFacts DEF QueueOK

(* The worker keeps its key. *)
LEMMA QueueKeep ==
    ASSUME NEW q, NEW u, QueueOK(q, u), NEW v, v.pc = "idle" <=> u.pc = "idle", v.key = u.key
    PROVE  QueueOK(q, v)
BY DEF QueueOK

(* The worker at rest. *)
LEMMA IdleFacts == Idle \in WorkerType /\ Idle.pc = "idle"
<1>1. Cardinality(Resources) \in Nat
  BY ControllerAssumption, FS_CardinalityType
<1>2. 0 \in 0..Cardinality(Resources)
  BY <1>1
<1> QED
  BY <1>2 DEF Idle, WorkerType

(* handleErr with the deferred Done gives the key back on every path. *)
LEMMA HandleErrOK ==
    ASSUME IndInv, w.pc # "idle", NEW failed, HandleErr(failed)
    PROVE  WorkerOK' /\ ScanOK' /\ lost' \in SUBSET Policies
<1> DEFINE k == w.key
           retry == failed /\ wq.requeues[k] < MaxRetries
           a == IF retry THEN AddRateLimited(wq, k) ELSE Forget(wq, k)
           b == Done(a, k)
<1>1. /\ wq \in WorkQueueType /\ k \in Policies /\ Consistent(wq) /\ wq.processing = {k}
      /\ wq.requeues \in [Policies -> Nat]
      /\ \A p \in Policies : wq.requeues[p] <= MaxRetries
  BY DEF IndInv, WorkerOK, QueueOK, WorkQueueType
<1>2. wq' = b /\ w' = Idle /\ lost' \in {lost, lost \cup {k}}
  BY DEF HandleErr
<1> HIDE DEF k
<1>3. /\ a \in WorkQueueType /\ Consistent(a) /\ a.processing = {k}
      /\ \A p \in Policies : a.requeues[p] <= MaxRetries
  <2>1. CASE retry
    <3> DEFINE c == AddRateLimited(wq, k)
    <3>1. /\ c \in WorkQueueType /\ Consistent(c) /\ c.processing = {k}
          /\ c.requeues = [wq.requeues EXCEPT ![k] = @ + 1]
      BY <1>1, AddRateLimitedFacts
    <3> HIDE DEF c
    <3>2. \A p \in Policies : c.requeues[p] <= MaxRetries
      BY <1>1, <2>1, <3>1, ControllerAssumption
    <3>3. a = c
      BY <2>1 DEF c
    <3> QED
      BY <3>1, <3>2, <3>3
  <2>2. CASE ~retry
    <3> DEFINE c == Forget(wq, k)
    <3>1. /\ c \in WorkQueueType /\ Consistent(c) /\ c.processing = {k}
          /\ c.requeues = [wq.requeues EXCEPT ![k] = 0]
      BY <1>1, ForgetFacts
    <3> HIDE DEF c
    <3>2. \A p \in Policies : c.requeues[p] <= MaxRetries
      BY <1>1, <3>1, ControllerAssumption
    <3>3. a = c
      BY <2>2 DEF c
    <3> QED
      BY <3>1, <3>2, <3>3
  <2> QED
    BY <2>1, <2>2
<1> HIDE DEF a
<1>4. /\ b \in WorkQueueType /\ Consistent(b) /\ b.processing = {k} \ {k}
      /\ b.requeues = a.requeues
  <2>1. k \in a.processing
    BY <1>3
  <2> QED
    BY <1>1, <1>3, <2>1, DoneFacts
<1> HIDE DEF b
<1>5. QueueOK(b, Idle)
  BY <1>3, <1>4, IdleFacts DEF QueueOK
<1>6. WorkerOK'
  BY <1>2, <1>5, IdleFacts DEF WorkerOK, QueueOK
<1>7. ScanOK'
  BY <1>2, IdleFacts DEF ScanOK
<1>8. lost' \in SUBSET Policies
  BY <1>1, <1>2 DEF IndInv, CountsOK
<1> QED
  BY <1>6, <1>7, <1>8

(* The number of the violations of a policy is at most that of the resources. *)
LEMMA CountFacts ==
    ASSUME NEW p \in Policies
    PROVE  Count(p) \in 0..Cardinality(Resources)
<1>1. ViolationsOf(p) \in SUBSET Resources
  BY DEF ViolationsOf
<1>2. /\ IsFiniteSet(ViolationsOf(p)) /\ Cardinality(ViolationsOf(p)) <= Cardinality(Resources)
  BY <1>1, ControllerAssumption, FS_Subset
<1>3. Cardinality(ViolationsOf(p)) \in Nat /\ Cardinality(Resources) \in Nat
  BY <1>2, ControllerAssumption, FS_CardinalityType
<1> QED
  BY <1>2, <1>3 DEF Count

(* One more fault is within the bound. *)
LEMMA FaultBound == ASSUME IndInv, Fault PROVE faults' \in 0..MaxFaults
BY ControllerAssumption DEF IndInv, CountsOK, Fault

(* One more edit is within the bound. *)
LEMMA EditBound ==
    ASSUME IndInv, edits < MaxEdits, edits' = edits + 1 PROVE edits' \in 0..MaxEdits
BY ControllerAssumption DEF IndInv, CountsOK

(* Each part of the invariant only depends on its own variables. *)
LEMMA Frames ==
    ASSUME IndInv
    PROVE  /\ UNCHANGED objects => ObjectsOK'
           /\ UNCHANGED <<cache, processed>> => ProcessedOK'
           /\ UNCHANGED violations => ViolationsOK'
           /\ UNCHANGED <<fresh, lost, bounds>> => CountsOK'
           /\ UNCHANGED <<w, cache, res>> => ScanOK'
           /\ UNCHANGED <<wq, w>> => WorkerOK'
<1>1. UNCHANGED objects => ObjectsOK'
  BY DEF IndInv, ObjectsOK, objects
<1>2. UNCHANGED <<cache, processed>> => ProcessedOK'
  BY DEF IndInv, ProcessedOK
<1>3. UNCHANGED violations => ViolationsOK'
  BY DEF IndInv, ViolationsOK, violations
<1>4. UNCHANGED <<fresh, lost, bounds>> => CountsOK'
  BY DEF IndInv, CountsOK, bounds
<1>5. UNCHANGED <<w, cache, res>> => ScanOK'
  BY DEF IndInv, ScanOK
<1>6. UNCHANGED <<wq, w>> => WorkerOK'
  BY DEF IndInv, WorkerOK, QueueOK
<1> QED
  BY <1>1, <1>2, <1>3, <1>4, <1>5, <1>6

-----------------------------------------------------------------------------
(* The initial states. *)

(* The inductive invariant holds when the process starts. *)
LEMMA InitInv == ASSUME Init PROVE IndInv
<1>1. Cardinality(Resources) \in Nat
  BY ControllerAssumption, FS_CardinalityType
<1>2. ObjectsOK
  <2>1. 0 \in 0..Cardinality(Resources)
    BY <1>1
  <2>2. [spec : Specs, count : {0}] \subseteq Policy
    BY <2>1 DEF Policy
  <2>3. api \in [Policies -> Policy \cup {None}]
    BY <2>2 DEF Init
  <2>4. cache \in [Policies -> Policy \cup {None}] /\ \A p \in Policies : cache[p] = None
    BY DEF Init
  <2>5. res \in [Resources -> Contents]
    BY DEF Init
  <2>6. behind \in SUBSET Policies /\ \A p \in Policies \ behind : api[p] = None
    BY DEF Init
  <2> QED
    BY <2>3, <2>4, <2>5, <2>6 DEF Init, ObjectsOK, SameSpec
<1>3. ProcessedOK
  BY DEF Init, ProcessedOK
<1>4. ViolationsOK
  BY DEF Init, ViolationsOK, Engines
<1>5. CountsOK
  BY ControllerAssumption DEF Init, CountsOK
<1>6. ScanOK
  BY IdleFacts DEF Init, ScanOK
<1>7. WorkerOK
  <2>1. /\ EmptyQueue \in WorkQueueType /\ Consistent(EmptyQueue)
        /\ EmptyQueue.processing = {} /\ \A p \in Policies : EmptyQueue.requeues[p] = 0
    <3>1. EmptyQueue.processing = {} /\ \A p \in Policies : EmptyQueue.requeues[p] = 0
      BY DEF EmptyQueue
    <3> QED
      BY <3>1, EmptyQueueFacts
  <2> QED
    BY <2>1, IdleFacts, ControllerAssumption DEF Init, WorkerOK, QueueOK
<1> QED
  BY <1>2, <1>3, <1>4, <1>5, <1>6, <1>7 DEF IndInv

-----------------------------------------------------------------------------
(* Users, the informers and the violation generator. *)

(* A policy is created, changed or deleted: the informer's copy is behind. *)
LEMMA EditPolicyInv ==
    ASSUME IndInv, NEW p \in Policies, DeletePolicy(p) \/ \E s \in Specs : EditPolicy(p, s)
    PROVE  IndInv'
<1>1. /\ edits < MaxEdits /\ edits' = edits + 1 /\ behind' = behind \cup {p}
      /\ UNCHANGED <<namespaced, cache, res, violations, processed, fresh, wq, w, lost, faults>>
  BY DEF EditPolicy, DeletePolicy
<1>2. \E a \in Policy \cup {None} : api' = [api EXCEPT ![p] = a]
  <2>1. CASE DeletePolicy(p)
    BY <2>1 DEF DeletePolicy
  <2>2. ASSUME NEW s \in Specs, EditPolicy(p, s)
        PROVE  \E a \in Policy : api' = [api EXCEPT ![p] = a]
    <3> DEFINE n == IF api[p] = None THEN 0 ELSE api[p].count
               a == [spec |-> s, count |-> n]
    <3>1. api' = [api EXCEPT ![p] = a]
      BY <2>2 DEF EditPolicy
    <3>2. Cardinality(Resources) \in Nat
      BY ControllerAssumption, FS_CardinalityType
    <3>3. api[p] \in Policy \cup {None}
      BY DEF IndInv, ObjectsOK
    <3>4. n \in 0..Cardinality(Resources)
      BY <3>2, <3>3 DEF Policy
    <3> HIDE DEF n
    <3>5. a \in Policy
      BY <3>4 DEF Policy
    <3> QED
      BY <3>1, <3>5
  <2> QED
    BY <2>1, <2>2
<1>3. PICK a \in Policy \cup {None} : api' = [api EXCEPT ![p] = a]
  BY <1>2
<1>4. ObjectsOK'
  <2>1. api' \in [Policies -> Policy \cup {None}]
    BY <1>3 DEF IndInv, ObjectsOK
  <2>2. \A q \in Policies \ behind' : api'[q] = api[q] /\ q \in Policies \ behind
    BY <1>1, <1>3 DEF IndInv, ObjectsOK
  <2> QED
    BY <1>1, <2>1, <2>2 DEF IndInv, ObjectsOK, SameSpec
<1>5. CountsOK'
  BY <1>1, EditBound DEF IndInv, CountsOK
<1> QED
  BY <1>1, <1>4, <1>5, Frames DEF IndInv

(* A resource is changed: what the ResourceManager has for it is stale, and so is the copy
   of a worker that is yet to come to it. *)
LEMMA EditResourceInv ==
    ASSUME IndInv, NEW r \in Resources, NEW c \in Contents, EditResource(r, c)
    PROVE  IndInv'
<1>1. /\ edits < MaxEdits /\ edits' = edits + 1 /\ res' = [res EXCEPT ![r] = c]
      /\ processed' = {x \in processed : x[2] # r}
      /\ w' = IF r \in w.todo /\ w.pc = "scan" THEN [w EXCEPT !.changed = @ \cup {r}] ELSE w
      /\ UNCHANGED <<namespaced, api, cache, behind, violations, fresh, wq, lost, faults>>
  BY DEF EditResource
<1>2. w \in WorkerType
  BY DEF IndInv, WorkerOK
<1>3. w' \in WorkerType
  BY <1>1, <1>2 DEF WorkerType
<1>4. /\ w'.pc = w.pc /\ w'.key = w.key /\ w'.spec = w.spec /\ w'.old = w.old /\ w'.list = w.list
      /\ w'.todo = w.todo /\ w.changed \subseteq w'.changed
      /\ r \in w.todo /\ w.pc = "scan" => r \in w'.changed
      /\ w.pc # "scan" => w' = w
  BY <1>1, <1>2 DEF WorkerType
<1>5. ObjectsOK'
  BY <1>1 DEF IndInv, ObjectsOK
<1>6. ProcessedOK'
  BY <1>1 DEF IndInv, ProcessedOK
<1>7. CountsOK'
  BY <1>1, EditBound DEF IndInv, CountsOK
<1>8. ScanOK'
  <2>1. \A s \in Resources : s # r => res'[s] = res[s]
    BY <1>1 DEF IndInv, ObjectsOK
  <2>2. w.todo \subseteq Resources
    BY <1>2 DEF WorkerType
  <2>3. w.pc = "scan" => \A s \in w'.todo \ w'.changed : w'.list[s] = res'[s]
    BY <1>4, <2>1, <2>2 DEF IndInv, ScanOK
  <2> QED
    BY <1>1, <1>4, <2>3 DEF IndInv, ScanOK
<1>9. WorkerOK'
  <2>1. QueueOK(wq, w) /\ UNCHANGED wq
    BY <1>1 DEF IndInv, WorkerOK
  <2>2. QueueOK(wq, w')
    BY <1>4, <2>1, QueueKeep
  <2> QED
    BY <1>1, <1>3, <1>4, <2>1, <2>2 DEF IndInv, WorkerOK, QueueOK
<1>10. ViolationsOK'
  BY <1>1, Frames
<1> QED
  BY <1>5, <1>6, <1>7, <1>8, <1>9, <1>10 DEF IndInv

(* addPolicy, updatePolicy and deletePolicy: the cached object is replaced, what the
   ResourceManager has for the policy is stale, and the worker's object is an old one. *)
LEMMA PolicyEventInv == ASSUME IndInv, NEW p \in Policies, PolicyEvent(p) PROVE IndInv'
<1>1. /\ behind' = behind \ {p} /\ cache' = [cache EXCEPT ![p] = api[p]]
      /\ processed' = {x \in processed : x[1] # p}
      /\ w' = IF w.spec # None /\ w.key = p THEN [w EXCEPT !.old = TRUE] ELSE w
      /\ wq' \in {wq, Add(wq, p)}
      /\ fresh' \in {fresh \ {p}, fresh \cup {p}}
      /\ UNCHANGED <<namespaced, api, res, violations, lost, bounds>>
  BY DEF PolicyEvent
<1>2. w \in WorkerType /\ QueueOK(wq, w)
  BY DEF IndInv, WorkerOK
<1>3. w' \in WorkerType
  BY <1>1, <1>2 DEF WorkerType
<1>4. /\ w'.pc = w.pc /\ w'.key = w.key /\ w'.spec = w.spec /\ w'.list = w.list
      /\ w'.todo = w.todo /\ w'.changed = w.changed
      /\ w.spec # None /\ w.key = p => w'.old = TRUE
      /\ w.spec = None \/ w.key # p => w' = w
  BY <1>1, <1>2 DEF WorkerType
<1>5. \A q \in Policies : cache'[q] = IF q = p THEN api[q] ELSE cache[q]
  BY <1>1 DEF IndInv, ObjectsOK
<1>6. ObjectsOK'
  <2>1. cache' \in [Policies -> Policy \cup {None}] /\ behind' \in SUBSET Policies
    BY <1>1 DEF IndInv, ObjectsOK
  <2>2. \A q \in Policies \ behind' : q = p \/ q \in Policies \ behind
    BY <1>1
  <2>3. \A q \in Policies \ behind' : SameSpec(api'[q], cache'[q])
    BY <1>1, <1>5, <2>2 DEF IndInv, ObjectsOK, SameSpec
  <2> QED
    BY <1>1, <2>1, <2>3 DEF IndInv, ObjectsOK
<1>7. ProcessedOK'
  BY <1>1, <1>5 DEF IndInv, ProcessedOK
<1>8. CountsOK'
  BY <1>1 DEF IndInv, CountsOK, bounds
<1>9. ScanOK'
  <2>1. ASSUME w.pc \in {"scan", "cleanup"}, ~w'.old
        PROVE  cache'[w.key] # None /\ cache'[w.key].spec = w.spec
    <3>1. w.spec \in Specs /\ w.key \in Policies
      BY <1>2, <2>1 DEF IndInv, ScanOK, QueueOK
    <3>2. w.key # p /\ ~w.old
      BY <1>4, <2>1, <3>1, NoneAssumption
    <3> QED
      BY <1>5, <2>1, <3>1, <3>2 DEF IndInv, ScanOK
  <2> QED
    BY <1>1, <1>4, <2>1 DEF IndInv, ScanOK
<1>10. WorkerOK'
  <2>1. QueueOK(wq', w)
    BY <1>1, <1>2, QueueOne
  <2>2. QueueOK(wq', w')
    BY <1>4, <2>1, QueueKeep
  <2>3. w.pc = "idle" => w' = w
    BY <1>4 DEF IndInv, WorkerOK, Idle
  <2> QED
    BY <1>3, <1>4, <2>2, <2>3 DEF IndInv, WorkerOK, QueueOK
<1>11. ViolationsOK'
  BY <1>1, Frames
<1> QED
  BY <1>6, <1>7, <1>8, <1>9, <1>10, <1>11 DEF IndInv

(* A resync or the end of a back-off queues a policy. *)
LEMMA RequeueInv == ASSUME IndInv, NEW p \in Policies, Resync(p) \/ BackOff(p) PROVE IndInv'
<1>1. /\ wq' \in {Add(wq, p), BackOffEnds(wq, p)}
      /\ UNCHANGED <<objects, violations, processed, fresh, w, lost, bounds>>
  BY DEF Resync, BackOff
<1>2. QueueOK(wq', w)
  BY <1>1, QueueOne, QueueBackOff DEF IndInv, WorkerOK
<1>3. WorkerOK'
  BY <1>1, <1>2 DEF IndInv, WorkerOK, QueueOK
<1>4. UNCHANGED <<cache, res>>
  BY <1>1 DEF objects
<1> QED
  BY <1>1, <1>3, <1>4, Frames DEF IndInv

(* What the informer of violations brings: the policy is queued, or an orphan deleted. *)
LEMMA ViolationEventInv == ASSUME IndInv, NEW x \in Pairs, ViolationEvent(x) PROVE IndInv'
<1>1. x[1] \in Policies
  BY DEF Pairs
<1>2. /\ pvl' = [pvl EXCEPT ![x] = pv[x]] /\ pv' \in {pv, [pv EXCEPT ![x] = None]}
      /\ wq' \in {wq, Add(wq, x[1])} /\ lost' \in {lost, lost \cup {x[1]}}
      /\ UNCHANGED faults \/ Fault
      /\ UNCHANGED <<objects, requests, processed, fresh, w, edits>>
  BY DEF ViolationEvent, AddClusterPolicyViolation, AddNamespacedPolicyViolation,
         UpdateClusterPolicyViolation, UpdateNamespacedPolicyViolation,
         DeleteClusterPolicyViolation, DeleteNamespacedPolicyViolation, Deleted, Delivered,
         EnqueueOrDelete, DeleteOrphan, bounds
<1>3. ViolationsOK'
  <2>1. pvl' \in [Pairs -> Engines \cup {None}]
    BY <1>2 DEF IndInv, ViolationsOK
  <2>2. pv' \in [Pairs -> Engines \cup {None}]
    BY <1>2 DEF IndInv, ViolationsOK
  <2> QED
    BY <1>2, <2>1, <2>2 DEF IndInv, ViolationsOK
<1>4. CountsOK'
  <2>1. faults' \in 0..MaxFaults
    BY <1>2, FaultBound DEF IndInv, CountsOK
  <2> QED
    BY <1>1, <1>2, <2>1 DEF IndInv, CountsOK
<1>5. QueueOK(wq', w)
  BY <1>1, <1>2, QueueOne DEF IndInv, WorkerOK
<1>6. WorkerOK'
  BY <1>2, <1>5 DEF IndInv, WorkerOK, QueueOK
<1>7. UNCHANGED <<cache, res>>
  BY <1>2 DEF objects
<1> QED
  BY <1>2, <1>3, <1>4, <1>6, <1>7, Frames DEF IndInv

(* The violation generator handles or drops a request. *)
LEMMA GeneratorInv ==
    ASSUME IndInv, NEW q \in Pairs \X Engines, GeneratorSync(q) \/ GeneratorDrops(q)
    PROVE  IndInv'
<1>1. q[1] \in Pairs /\ q[2] \in Engines
  OBVIOUS
<1>2. /\ requests' = requests \ {q} /\ pv' \in {pv, [pv EXCEPT ![q[1]] = q[2]]}
      /\ UNCHANGED faults \/ Fault
      /\ UNCHANGED <<objects, pvl, processed, fresh, wq, w, lost, edits>>
  BY DEF GeneratorSync, GeneratorDrops, bounds
<1>3. ViolationsOK'
  <2>1. pv' \in [Pairs -> Engines \cup {None}]
    BY <1>1, <1>2 DEF IndInv, ViolationsOK
  <2> QED
    BY <1>2, <2>1 DEF IndInv, ViolationsOK
<1>4. CountsOK'
  <2>1. faults' \in 0..MaxFaults
    BY <1>2, FaultBound DEF IndInv, CountsOK
  <2> QED
    BY <1>2, <2>1 DEF IndInv, CountsOK
<1>5. UNCHANGED <<cache, res>>
  BY <1>2 DEF objects
<1> QED
  BY <1>2, <1>3, <1>4, <1>5, Frames DEF IndInv

-----------------------------------------------------------------------------
(* The worker. *)

(* syncPolicy starts a scan with the cached policy and the resources as they are. *)
LEMMA SyncPolicyInv ==
    ASSUME IndInv, NEW p \in Policies, NEW drop \in BOOLEAN, SyncPolicy(p, drop)
    PROVE  IndInv'
<1> DEFINE L == Listed(p, processed')
           f == [r \in Resources |-> IF r \in L THEN res[r] ELSE None]
           s == cache[p].spec
           n == Count(p)
           v == [w EXCEPT !.pc = "scan", !.key = p, !.spec = s, !.count = n, !.list = f,
                          !.todo = L]
<1>1. /\ w.pc = "idle" /\ wq.queue # <<>> /\ p = Head(wq.queue) /\ wq' = Get(wq)
      /\ cache[p] # None /\ processed' \in {{}, processed} /\ w' = v
      /\ UNCHANGED <<objects, violations, fresh, lost, bounds>>
  BY DEF SyncPolicy, TakesKey
<1>2. w = Idle /\ QueueOK(wq, w) /\ w \in WorkerType
  BY <1>1 DEF IndInv, WorkerOK
<1>3. s \in Specs /\ res \in [Resources -> Contents]
  BY <1>1 DEF IndInv, ObjectsOK, Policy
<1>4. L \subseteq Selected[s] \ AutogenPods /\ L \in SUBSET Resources
  BY <1>3, ControllerAssumption DEF Listed
<1>5. n \in 0..Cardinality(Resources)
  BY CountFacts
<1> HIDE DEF L, s, n
<1>6. f \in [Resources -> Contents \cup {None}] /\ \A r \in L : f[r] = res[r]
  BY <1>3, <1>4
<1> HIDE DEF f
<1>7. v \in WorkerType
  BY <1>2, <1>3, <1>4, <1>5, <1>6 DEF WorkerType
<1>8. /\ v.pc = "scan" /\ v.key = p /\ v.spec = s /\ v.list = f /\ v.todo = L
  BY <1>2 DEF WorkerType
<1> HIDE DEF v
<1>9. QueueOK(wq', w')
  BY <1>1, <1>2, <1>8, QueueGet
<1>10. WorkerOK'
  BY <1>1, <1>7, <1>8, <1>9 DEF WorkerOK, QueueOK
<1>11. UNCHANGED <<cache, res>>
  BY <1>1 DEF objects
<1>12. ScanOK'
  BY <1>1, <1>3, <1>4, <1>6, <1>8, <1>11 DEF ScanOK, s
<1>13. ProcessedOK'
  BY <1>1, <1>11 DEF IndInv, ProcessedOK
<1> QED
  BY <1>1, <1>10, <1>12, <1>13, Frames DEF IndInv

(* syncPolicy starts to delete what belongs to a policy that is gone. *)
LEMMA SyncDeletedInv == ASSUME IndInv, NEW p \in Policies, SyncDeleted(p) PROVE IndInv'
<1> DEFINE L == ViolationsOf(p) \ namespaced
           v == [w EXCEPT !.pc = "delcluster", !.key = p, !.todo = L]
<1>1. /\ w.pc = "idle" /\ wq.queue # <<>> /\ p = Head(wq.queue) /\ wq' = Get(wq) /\ w' = v
      /\ UNCHANGED <<objects, violations, processed, fresh, lost, bounds>>
  BY DEF SyncDeleted, TakesKey
<1>2. w = Idle /\ QueueOK(wq, w) /\ w \in WorkerType
  BY <1>1 DEF IndInv, WorkerOK
<1>3. L \in SUBSET Resources
  BY DEF ViolationsOf
<1>4. w.spec = None
  BY <1>2 DEF Idle
<1> HIDE DEF L
<1>5. v \in WorkerType
  BY <1>2, <1>3 DEF WorkerType
<1>6. v.pc = "delcluster" /\ v.key = p /\ v.spec = None
  BY <1>2, <1>4 DEF WorkerType
<1> HIDE DEF v
<1>7. QueueOK(wq', w')
  BY <1>1, <1>2, <1>6, QueueGet
<1>8. WorkerOK'
  BY <1>1, <1>5, <1>6, <1>7 DEF WorkerOK, QueueOK
<1>9. ScanOK'
  BY <1>1, <1>6 DEF ScanOK
<1>10. UNCHANGED <<cache, res>>
  BY <1>1 DEF objects
<1> QED
  BY <1>1, <1>8, <1>9, <1>10, Frames DEF IndInv

(* A step of the worker that keeps its key and its specification and does not touch the
   queue, and after which less is left to do. *)
LEMMA WorkerStep ==
    ASSUME IndInv, w.pc # "idle", UNCHANGED <<wq, cache, res>>,
           NEW pc \in {"scan", "cleanup", "delcluster", "delnamespaced"},
           NEW todo \in SUBSET Resources, NEW done \in SUBSET Resources,
           w' = [w EXCEPT !.pc = pc, !.todo = todo, !.done = done],
           pc = "scan" => w.pc = "scan" /\ todo \subseteq w.todo,
           pc = "cleanup" => w.pc \in {"scan", "cleanup"},
           pc \in {"delcluster", "delnamespaced"} => w.pc \in {"delcluster", "delnamespaced"}
    PROVE  WorkerOK' /\ ScanOK'
<1>1. w \in WorkerType /\ QueueOK(wq, w)
  BY DEF IndInv, WorkerOK
<1>2. w' \in WorkerType
  BY <1>1 DEF WorkerType
<1>3. /\ w'.pc = pc /\ w'.key = w.key /\ w'.spec = w.spec /\ w'.old = w.old /\ w'.list = w.list
      /\ w'.todo = todo /\ w'.changed = w.changed
  BY <1>1 DEF WorkerType
<1>4. QueueOK(wq, w')
  BY <1>1, <1>3, QueueKeep
<1>5. WorkerOK'
  BY <1>2, <1>3, <1>4 DEF IndInv, WorkerOK, QueueOK
<1>6. ScanOK'
  BY <1>3 DEF IndInv, ScanOK
<1> QED
  BY <1>5, <1>6

(* applyPolicy and RegisterResource: a pair is registered only with the versions that are
   current. *)
LEMMA ApplyPolicyInv == ASSUME IndInv, NEW r \in Resources, ApplyPolicy(r) PROVE IndInv'
<1>1. /\ w.pc = "scan" /\ r \in w.todo
      /\ processed' = IF w.old \/ r \in w.changed THEN processed ELSE processed \cup {<<w.key, r>>}
      /\ fresh' \in {fresh, fresh \ {w.key}}
      /\ w' = [w EXCEPT !.todo = @ \ {r}, !.done = @ \cup {r}]
      /\ UNCHANGED <<objects, violations, wq, lost, bounds>>
  BY DEF ApplyPolicy
<1>2. w \in WorkerType /\ w.key \in Policies
  BY <1>1 DEF IndInv, WorkerOK, QueueOK
<1>3. UNCHANGED <<cache, res>>
  BY <1>1 DEF objects
<1>4. WorkerOK' /\ ScanOK'
  <2> DEFINE t == w.todo \ {r}
             d == w.done \cup {r}
  <2>1. t \in SUBSET Resources /\ d \in SUBSET Resources /\ t \subseteq w.todo
    BY <1>2 DEF WorkerType
  <2>2. w' = [w EXCEPT !.pc = "scan", !.todo = t, !.done = d]
    BY <1>1, <1>2 DEF WorkerType
  <2> HIDE DEF t, d
  <2> QED
    BY <1>1, <1>3, <2>1, <2>2, WorkerStep
<1>5. ProcessedOK'
  <2>1. processed' \in SUBSET Pairs
    BY <1>1, <1>2 DEF IndInv, ProcessedOK, Pairs
  <2>2. ASSUME NEW p \in Policies, NEW s \in Resources, <<p, s>> \in processed'
        PROVE  cache[p] # None /\ s \in Selected[cache[p].spec] \ AutogenPods
    <3>1. CASE <<p, s>> \in processed
      BY <3>1 DEF IndInv, ProcessedOK
    <3>2. CASE <<p, s>> \notin processed
      <4>1. p = w.key /\ s = r /\ ~w.old
        BY <1>1, <2>2, <3>2
      <4>2. cache[p] # None /\ cache[p].spec = w.spec /\ r \in Selected[w.spec] \ AutogenPods
        BY <1>1, <4>1 DEF IndInv, ScanOK
      <4> QED
        BY <4>1, <4>2
    <3> QED
      BY <3>1, <3>2
  <2> QED
    BY <1>3, <2>1, <2>2 DEF ProcessedOK
<1>6. CountsOK'
  BY <1>1 DEF IndInv, CountsOK, bounds
<1> QED
  BY <1>1, <1>4, <1>5, <1>6, Frames DEF IndInv

(* cleanupAndReport hands the violations of the scan to the generator. *)
LEMMA CleanupAndReportInv == ASSUME IndInv, CleanupAndReport PROVE IndInv'
<1> DEFINE new == UNION {{<<<<w.key, r>>, e>> : e \in Reports(r)} : r \in w.done}
           t == {r \in w.done : Clears(r) # {}}
<1>1. /\ w.pc = "scan" /\ requests' = requests \cup new
      /\ w' = [w EXCEPT !.pc = "cleanup", !.todo = t]
      /\ UNCHANGED <<objects, pv, pvl, processed, fresh, wq, lost, bounds>>
  BY DEF CleanupAndReport
<1>2. w \in WorkerType /\ w.key \in Policies /\ w.done \in SUBSET Resources
  BY <1>1 DEF IndInv, WorkerOK, QueueOK, WorkerType
<1>3. UNCHANGED <<cache, res>>
  BY <1>1 DEF objects
<1>4. new \in SUBSET (Pairs \X Engines)
  BY <1>2 DEF Pairs, Reports
<1>5. t \in SUBSET Resources
  BY <1>2
<1> HIDE DEF new, t
<1>6. w' = [w EXCEPT !.pc = "cleanup", !.todo = t, !.done = w.done]
  BY <1>1, <1>2 DEF WorkerType
<1>7. WorkerOK' /\ ScanOK'
  BY <1>1, <1>2, <1>3, <1>5, <1>6, WorkerStep
<1>8. ViolationsOK'
  BY <1>1, <1>4 DEF IndInv, ViolationsOK
<1> QED
  BY <1>1, <1>3, <1>7, <1>8, Frames DEF IndInv

(* A step of the worker that deletes at most one violation and goes on. *)
LEMMA DeletingStep ==
    ASSUME IndInv, NEW r \in Resources, w.pc \in {"cleanup", "delcluster", "delnamespaced"},
           w' = [w EXCEPT !.todo = @ \ {r}],
           pv' \in {pv, [pv EXCEPT ![<<w.key, r>>] = None]},
           UNCHANGED faults \/ Fault,
           UNCHANGED <<objects, pvl, requests, processed, fresh, wq, lost, edits>>
    PROVE  IndInv'
<1>1. w \in WorkerType /\ w.key \in Policies
  BY DEF IndInv, WorkerOK, QueueOK
<1>2. UNCHANGED <<cache, res>>
  BY DEF objects
<1>3. WorkerOK' /\ ScanOK'
  <2> DEFINE t == w.todo \ {r}
             d == w.done
  <2>1. t \in SUBSET Resources /\ d \in SUBSET Resources
    BY <1>1 DEF WorkerType
  <2>2. w' = [w EXCEPT !.pc = w.pc, !.todo = t, !.done = d]
    BY <1>1 DEF WorkerType
  <2> HIDE DEF t, d
  <2>3. CASE w.pc = "cleanup"
    <3>1. w' = [w EXCEPT !.pc = "cleanup", !.todo = t, !.done = d]
      BY <2>2, <2>3
    <3> QED
      BY <1>2, <2>1, <2>3, <3>1, WorkerStep
  <2>4. CASE w.pc = "delcluster"
    <3>1. w' = [w EXCEPT !.pc = "delcluster", !.todo = t, !.done = d]
      BY <2>2, <2>4
    <3> QED
      BY <1>2, <2>1, <2>4, <3>1, WorkerStep
  <2>5. CASE w.pc = "delnamespaced"
    <3>1. w' = [w EXCEPT !.pc = "delnamespaced", !.todo = t, !.done = d]
      BY <2>2, <2>5
    <3> QED
      BY <1>2, <2>1, <2>5, <3>1, WorkerStep
  <2> QED
    BY <2>3, <2>4, <2>5
<1>4. ViolationsOK'
  <2>1. <<w.key, r>> \in Pairs
    BY <1>1 DEF Pairs
  <2>2. pv' \in [Pairs -> Engines \cup {None}]
    BY <2>1 DEF IndInv, ViolationsOK
  <2> QED
    BY <2>2 DEF IndInv, ViolationsOK
<1>5. CountsOK'
  <2>1. faults' \in 0..MaxFaults
    BY FaultBound DEF IndInv, CountsOK
  <2> QED
    BY <2>1 DEF IndInv, CountsOK
<1> QED
  BY <1>2, <1>3, <1>4, <1>5, Frames DEF IndInv

(* cleanUpPolicyViolation. *)
LEMMA CleanUpInv == ASSUME IndInv, NEW r \in Resources, CleanUpPolicyViolation(r) PROVE IndInv'
<1>1. /\ w.pc = "cleanup" /\ w' = [w EXCEPT !.todo = @ \ {r}]
      /\ pv' \in {pv, [pv EXCEPT ![<<w.key, r>>] = None]} /\ (UNCHANGED faults \/ Fault)
      /\ UNCHANGED <<objects, pvl, requests, processed, fresh, wq, lost, edits>>
  BY DEF CleanUpPolicyViolation
<1> QED
  BY <1>1, DeletingStep

(* handleErr at the end of a step that leaves the policies alone. *)
LEMMA GivenBack ==
    ASSUME IndInv, w.pc # "idle", NEW failed, HandleErr(failed),
           UNCHANGED faults \/ Fault,
           UNCHANGED <<objects, violations, processed, fresh, edits>>
    PROVE  IndInv'
<1>1. WorkerOK' /\ ScanOK' /\ lost' \in SUBSET Policies
  BY HandleErrOK
<1>2. faults' \in 0..MaxFaults
  BY FaultBound DEF IndInv, CountsOK
<1>3. CountsOK'
  BY <1>1, <1>2 DEF IndInv, CountsOK
<1>4. UNCHANGED <<cache, res>>
  BY DEF objects
<1> QED
  BY <1>1, <1>3, <1>4, Frames DEF IndInv

(* The deletion of the violations of a deleted policy. *)
LEMMA DeleteViolationsInv ==
    ASSUME IndInv, NEW r \in Resources, DeleteViolations(r) PROVE IndInv'
<1>1. /\ w.pc \in {"delcluster", "delnamespaced"}
      /\ UNCHANGED <<objects, pvl, requests, processed, fresh, edits>>
  BY DEF DeleteViolations
<1>2. CASE /\ pv' = [pv EXCEPT ![<<w.key, r>>] = None] /\ w' = [w EXCEPT !.todo = @ \ {r}]
           /\ UNCHANGED <<wq, lost, faults>>
  BY <1>1, <1>2, DeletingStep
<1>3. CASE HandleErr(TRUE) /\ pv' = pv /\ (UNCHANGED faults \/ Fault)
  BY <1>1, <1>3, GivenBack DEF violations
<1> QED
  BY <1>2, <1>3 DEF DeleteViolations

(* The violations of cluster-wide resources are gone, those of namespaced ones follow. *)
LEMMA ClusterViolationsDeletedInv == ASSUME IndInv, ClusterViolationsDeleted PROVE IndInv'
<1> DEFINE t == ViolationsOf(w.key) \cap namespaced
<1>1. /\ w.pc = "delcluster" /\ w' = [w EXCEPT !.pc = "delnamespaced", !.todo = t]
      /\ UNCHANGED <<objects, violations, processed, fresh, wq, lost, bounds>>
  BY DEF ClusterViolationsDeleted
<1>2. w \in WorkerType /\ w.done \in SUBSET Resources /\ t \in SUBSET Resources
  BY DEF IndInv, WorkerOK, WorkerType, ViolationsOf
<1> HIDE DEF t
<1>3. w' = [w EXCEPT !.pc = "delnamespaced", !.todo = t, !.done = w.done]
  BY <1>1, <1>2 DEF WorkerType
<1>4. UNCHANGED <<cache, res>>
  BY <1>1 DEF objects
<1>5. WorkerOK' /\ ScanOK'
  BY <1>1, <1>2, <1>3, <1>4, WorkerStep
<1> QED
  BY <1>1, <1>4, <1>5, Frames DEF IndInv

(* Everything of a deleted policy is gone. *)
LEMMA DeletedPolicyCleanedInv == ASSUME IndInv, DeletedPolicyCleaned PROVE IndInv'
<1>1. /\ w.pc = "delnamespaced" /\ HandleErr(FALSE) /\ UNCHANGED <<edits, faults>>
      /\ UNCHANGED <<objects, violations, processed, fresh>>
  BY DEF DeletedPolicyCleaned, bounds
<1> QED
  BY <1>1, GivenBack

(* The status is written into the informer's object: the object must be there, and it keeps
   its specification. *)
LEMMA WriteHeldFacts ==
    ASSUME IndInv, w.pc = "cleanup", WriteHeld
    PROVE  /\ cache' \in [Policies -> Policy \cup {None}] /\ fresh' \in SUBSET Policies
           /\ \A p \in Policies : SameSpec(cache[p], cache'[p])
           /\ \A p \in Policies : p # w.key => cache'[p] = cache[p]
           /\ ~w.old => cache'[w.key] # None /\ cache'[w.key].spec = w.spec
<1>1. w.key \in Policies /\ w \in WorkerType
  BY DEF IndInv, WorkerOK, QueueOK
<1>2. cache \in [Policies -> Policy \cup {None}] /\ fresh \in SUBSET Policies
  BY DEF IndInv, ObjectsOK, CountsOK
<1>3. CASE w.old
  BY <1>2, <1>3 DEF WriteHeld, SameSpec
<1>4. CASE ~w.old
  <2> DEFINE k == w.key
             n == w.count
             c == [cache[k] EXCEPT !.count = n]
  <2>1. cache[k] \in Policy /\ cache[k].spec = w.spec /\ n \in 0..Cardinality(Resources)
    BY <1>1, <1>2, <1>4 DEF IndInv, ScanOK, WorkerType
  <2>2. cache' = [cache EXCEPT ![k] = c] /\ fresh' = fresh \cup {k}
    BY <1>1, <1>2, <1>4 DEF WriteHeld
  <2>3. k \in Policies
    BY <1>1
  <2> HIDE DEF k, n
  <2>4. c \in Policy /\ c.spec = cache[k].spec
    BY <2>1 DEF Policy
  <2> HIDE DEF c
  <2>5. c # None /\ cache[k] # None
    BY <2>1, <2>4, NoneAssumption
  <2>6. \A p \in Policies : cache'[p] = IF p = k THEN c ELSE cache[p]
    BY <1>2, <2>2
  <2>7. cache' \in [Policies -> Policy \cup {None}] /\ fresh' \in SUBSET Policies
    BY <1>2, <2>2, <2>3, <2>4
  <2>8. \A p \in Policies : SameSpec(cache[p], cache'[p])
    BY <2>4, <2>5, <2>6 DEF SameSpec
  <2> QED
    BY <2>1, <2>3, <2>4, <2>5, <2>6, <2>7, <2>8 DEF k
<1> QED
  BY <1>3, <1>4

(* A change of statuses, at the API server and in the informer's objects. *)
LEMMA StatusStep ==
    ASSUME IndInv, cache' \in [Policies -> Policy \cup {None}],
           api' \in [Policies -> Policy \cup {None}],
           \A p \in Policies : SameSpec(cache[p], cache'[p]) /\ SameSpec(api[p], api'[p]),
           behind' \in {behind, behind \cup {w.key}}, w.key \in Policies,
           UNCHANGED <<namespaced, res, processed>>
    PROVE  ObjectsOK' /\ ProcessedOK'
<1>1. ObjectsOK'
  <2>1. \A p \in Policies \ behind' : SameSpec(api'[p], cache'[p])
    BY DEF IndInv, ObjectsOK, SameSpec
  <2> QED
    BY <2>1 DEF IndInv, ObjectsOK
<1>2. ProcessedOK'
  BY DEF IndInv, ProcessedOK, SameSpec
<1> QED
  BY <1>1, <1>2

(* syncStatusOnly, whatever the API server answers. *)
LEMMA SyncStatusInv == ASSUME IndInv, SyncStatusOnly \/ SyncStatusOnlyFault PROVE IndInv'
<1>1. /\ w.pc = "cleanup" /\ (\E failed \in BOOLEAN : HandleErr(failed))
      /\ UNCHANGED faults \/ Fault
      /\ UNCHANGED <<namespaced, res, violations, processed, edits>>
  BY DEF SyncStatusOnly, SyncStatusOnlyFault, bounds
<1>2. WorkerOK' /\ ScanOK' /\ lost' \in SUBSET Policies
  BY <1>1, HandleErrOK
<1>3. w.key \in Policies /\ w \in WorkerType
  BY <1>1 DEF IndInv, WorkerOK, QueueOK
<1>4. UNCHANGED <<cache, fresh>> \/ WriteHeld
  BY DEF SyncStatusOnly, SyncStatusOnlyFault
<1>5. /\ cache' \in [Policies -> Policy \cup {None}] /\ fresh' \in SUBSET Policies
      /\ \A p \in Policies : SameSpec(cache[p], cache'[p])
  <2>1. CASE UNCHANGED <<cache, fresh>>
    BY <2>1 DEF IndInv, ObjectsOK, CountsOK, SameSpec
  <2>2. CASE WriteHeld
    BY <1>1, <2>2, WriteHeldFacts
  <2> QED
    BY <1>4, <2>1, <2>2
<1>6. /\ api' \in [Policies -> Policy \cup {None}] /\ behind' \in {behind, behind \cup {w.key}}
      /\ \A p \in Policies : SameSpec(api[p], api'[p])
  <2>1. CASE UNCHANGED <<api, behind>>
    BY <2>1 DEF IndInv, ObjectsOK, SameSpec
  <2>2. CASE /\ ~w.old /\ w.key \notin behind /\ api' = [api EXCEPT ![w.key].count = w.count]
             /\ behind' = behind \cup {w.key}
    <3> DEFINE k == w.key
               n == w.count
               a == [api[k] EXCEPT !.count = n]
    <3>1. cache[k] # None /\ SameSpec(api[k], cache[k]) /\ api[k] \in Policy \cup {None}
      BY <1>1, <1>3, <2>2 DEF IndInv, ScanOK, ObjectsOK
    <3>2. api[k] \in Policy /\ n \in 0..Cardinality(Resources) /\ k \in Policies
      BY <1>3, <3>1 DEF SameSpec, WorkerType
    <3>3. api' = [api EXCEPT ![k] = a]
      BY <1>3, <2>2 DEF IndInv, ObjectsOK
    <3> HIDE DEF k, n
    <3>4. a \in Policy /\ a.spec = api[k].spec
      BY <3>2 DEF Policy
    <3> HIDE DEF a
    <3>5. a # None /\ api[k] # None
      BY <3>2, <3>4, NoneAssumption
    <3>6. api' \in [Policies -> Policy \cup {None}]
      BY <3>2, <3>3, <3>4 DEF IndInv, ObjectsOK
    <3>7. \A p \in Policies : api'[p] = IF p = k THEN a ELSE api[p]
      BY <3>3 DEF IndInv, ObjectsOK
    <3> QED
      BY <2>2, <3>4, <3>5, <3>6, <3>7 DEF SameSpec
  <2> QED
    BY <2>1, <2>2 DEF SyncStatusOnly, SyncStatusOnlyFault
<1>7. ObjectsOK' /\ ProcessedOK'
  BY <1>1, <1>3, <1>5, <1>6, StatusStep
<1>8. faults' \in 0..MaxFaults
  BY <1>1, FaultBound DEF IndInv, CountsOK
<1>9. CountsOK'
  BY <1>1, <1>2, <1>5, <1>8 DEF IndInv, CountsOK
<1>10. ViolationsOK'
  BY <1>1, Frames
<1> QED
  BY <1>2, <1>7, <1>9, <1>10 DEF IndInv

-----------------------------------------------------------------------------
(* Theorems. *)

(* Every step keeps the inductive invariant. *)
LEMMA NextInv == ASSUME IndInv, [Next]_vars PROVE IndInv'
<1>1. CASE \E p \in Policies : \/ \E s \in Specs : EditPolicy(p, s)
                               \/ DeletePolicy(p) \/ PolicyEvent(p) \/ Resync(p) \/ BackOff(p)
  BY <1>1, EditPolicyInv, PolicyEventInv, RequeueInv
<1>2. CASE \E r \in Resources, c \in Contents : EditResource(r, c)
  BY <1>2, EditResourceInv
<1>3. CASE \E x \in Pairs : ViolationEvent(x)
  BY <1>3, ViolationEventInv
<1>4. CASE Generator \/ \E q \in Pairs \X Engines : GeneratorDrops(q)
  BY <1>4, GeneratorInv DEF Generator
<1>5. CASE Worker
  BY <1>5, SyncDeletedInv, SyncPolicyInv, ApplyPolicyInv, CleanUpInv, DeleteViolationsInv,
     CleanupAndReportInv, SyncStatusInv, ClusterViolationsDeletedInv, DeletedPolicyCleanedInv
  DEF Worker
<1>6. CASE UNCHANGED vars
  <2>1. UNCHANGED <<objects, violations, processed, fresh, wq, w, lost, bounds, cache, res>>
    BY <1>6 DEF vars, objects
  <2> QED
    BY <2>1, Frames DEF IndInv
<1> QED
  BY <1>1, <1>2, <1>3, <1>4, <1>5, <1>6 DEF Next

(* The inductive invariant. *)
THEOREM Inductive == Spec => []IndInv
<1>1. Init => IndInv
  BY InitInv
<1>2. IndInv /\ [Next]_vars => IndInv'
  BY NextInv
<1> QED
  BY <1>1, <1>2, PTL DEF Spec

(* Every variable keeps its type; above all, the status is only ever written into a policy
   that is there, although the policy may be deleted at any moment of a scan. *)
THEOREM TypeCorrect == Spec => []TypeOK
<1>1. IndInv => TypeOK
  BY DEF IndInv, ObjectsOK, ProcessedOK, ViolationsOK, CountsOK, WorkerOK, QueueOK, TypeOK
<1> QED
  BY <1>1, Inductive, PTL

\* A policy that is to be processed is in the queue or with the worker, on every path
\* through handleErr, and is not retried more than MaxRetries times in a row.
KeysServed ==
    /\ \A p \in wq.dirty :
           (\E i \in DOMAIN wq.queue : wq.queue[i] = p) \/ (w.pc # "idle" /\ w.key = p)
    /\ \A p \in Policies : wq.requeues[p] <= MaxRetries

(* The controller of pkg/policy loses no key of its queue and retries none for ever. *)
THEOREM QueueServed == Spec => []KeysServed
<1>1. ASSUME IndInv, NEW p \in wq.dirty
      PROVE  (\E i \in DOMAIN wq.queue : wq.queue[i] = p) \/ (w.pc # "idle" /\ w.key = p)
  <2>1. QueueOK(wq, w)
    BY <1>1 DEF IndInv, WorkerOK
  <2>2. CASE p \in wq.processing
    BY <2>1, <2>2 DEF QueueOK
  <2>3. CASE p \notin wq.processing
    <3>1. p \in {wq.queue[i] : i \in DOMAIN wq.queue}
      BY <2>1, <2>3 DEF QueueOK, Consistent
    <3> QED
      BY <3>1
  <2> QED
    BY <2>2, <2>3
<1>2. IndInv => KeysServed
  BY <1>1 DEF IndInv, WorkerOK, QueueOK, KeysServed
<1> QED
  BY <1>2, Inductive, PTL

\* The count of violations in a policy's status is only changed by the worker at the end of a
\* scan of the very specification the policy has then.
StatusOfScannedSpec ==
    \A p \in Policies :
        (api[p] # None /\ api'[p] # None /\ api'[p].count # api[p].count) =>
            /\ w.pc = "cleanup" /\ w.key = p /\ w.spec = api[p].spec
            /\ api'[p].spec = api[p].spec /\ api'[p].count = w.count

(* syncStatusOnly never gives a policy the violation count of another specification,
   although the policy may be edited or replaced while its resources are scanned. *)
THEOREM StatusFitsSpec == Spec => [][StatusOfScannedSpec]_vars
<1>1. ASSUME IndInv, Next PROVE StatusOfScannedSpec
  <2> SUFFICES ASSUME NEW p \in Policies, api[p] # None, api'[p] # None,
                      api'[p].count # api[p].count
               PROVE  /\ w.pc = "cleanup" /\ w.key = p /\ w.spec = api[p].spec
                      /\ api'[p].spec = api[p].spec /\ api'[p].count = w.count
    BY DEF StatusOfScannedSpec
  <2>1. api \in [Policies -> Policy \cup {None}] /\ api[p] \in Policy
    BY <1>1 DEF IndInv, ObjectsOK
  <2>2. CASE \E q \in Policies, s \in Specs : EditPolicy(q, s)
    <3>1. PICK q \in Policies, s \in Specs : EditPolicy(q, s)
      BY <2>2
    <3>2. api' = [api EXCEPT ![q] = [spec  |-> s,
                                     count |-> IF api[q] = None THEN 0 ELSE api[q].count]]
      BY <3>1 DEF EditPolicy
    <3>3. CASE q = p
      BY <2>1, <3>2, <3>3
    <3>4. CASE q # p
      BY <2>1, <3>2, <3>4
    <3> QED
      BY <3>3, <3>4
  <2>3. CASE \E q \in Policies : DeletePolicy(q)
    BY <2>1, <2>3 DEF DeletePolicy
  <2>4. CASE SyncStatusOnly /\ ~UNCHANGED api
    <3>1. /\ w.pc = "cleanup" /\ ~w.old /\ w.key \notin behind
          /\ api' = [api EXCEPT ![w.key].count = w.count]
      BY <2>4 DEF SyncStatusOnly
    <3>2. w.key \in Policies
      BY <1>1, <3>1 DEF IndInv, WorkerOK, QueueOK
    <3>3. p = w.key
      BY <2>1, <3>1
    <3>4. cache[p] # None /\ cache[p].spec = w.spec /\ SameSpec(api[p], cache[p])
      BY <1>1, <3>1, <3>2, <3>3 DEF IndInv, ScanOK, ObjectsOK
    <3>5. w.spec = api[p].spec
      BY <3>4 DEF SameSpec
    <3>6. api'[p] = [api[p] EXCEPT !.count = w.count]
      BY <2>1, <3>1, <3>3
    <3>7. api'[p].spec = api[p].spec /\ api'[p].count = w.count
      BY <2>1, <3>6 DEF Policy
    <3> QED
      BY <3>1, <3>3, <3>5, <3>7
  <2>5. CASE UNCHANGED api
    BY <2>5
  <2>6. \/ \E q \in Policies, s \in Specs : EditPolicy(q, s)
        \/ \E q \in Policies : DeletePolicy(q)
        \/ SyncStatusOnly \/ UNCHANGED api
    BY <1>1 DEF Next, PolicyEvent, Resync, BackOff, EditResource, ViolationEvent,
         AddClusterPolicyViolation, AddNamespacedPolicyViolation,
         UpdateClusterPolicyViolation, UpdateNamespacedPolicyViolation,
         DeleteClusterPolicyViolation, DeleteNamespacedPolicyViolation, Deleted, EnqueueOrDelete,
         GeneratorDrops, Generator, GeneratorSync, Worker, SyncDeleted, SyncPolicy, ApplyPolicy,
         CleanUpPolicyViolation, DeleteViolations, CleanupAndReport, SyncStatusOnlyFault,
         ClusterViolationsDeleted, DeletedPolicyCleaned, objects
  <2> QED
    BY <2>2, <2>3, <2>4, <2>5, <2>6
<1>2. IndInv /\ [Next]_vars => [StatusOfScannedSpec]_vars
  BY <1>1
<1> QED
  BY <1>2, Inductive, PTL DEF Spec

\* A resource is registered as processed only when the scan has judged the content it has,
\* by the specification the cached policy has, and stays registered only while both stay.
SkippedAsChecked ==
    \A p \in Policies, r \in Resources : <<p, r>> \in processed' =>
        IF <<p, r>> \in processed
        THEN res'[r] = res[r] /\ cache'[p] # None /\ cache'[p].spec = cache[p].spec
        ELSE /\ w.pc = "scan" /\ w.key = p /\ r \in w.todo
             /\ w.list[r] = res[r] /\ w.spec = cache[p].spec /\ UNCHANGED <<res, cache>>

(* What ProcessResource makes a later scan skip was judged as it is: an entry that
   RegisterResource makes for a version which was replaced between the list and the end of
   the check is never hit. *)
THEOREM SkipIsSound == Spec => [][SkippedAsChecked]_vars
<1>1. ASSUME IndInv, Next PROVE SkippedAsChecked
  <2> SUFFICES ASSUME NEW p \in Policies, NEW r \in Resources, <<p, r>> \in processed'
               PROVE  IF <<p, r>> \in processed
                      THEN res'[r] = res[r] /\ cache'[p] # None /\ cache'[p].spec = cache[p].spec
                      ELSE /\ w.pc = "scan" /\ w.key = p /\ r \in w.todo
                           /\ w.list[r] = res[r] /\ w.spec = cache[p].spec
                           /\ UNCHANGED <<res, cache>>
    BY DEF SkippedAsChecked
  <2>1. <<p, r>> \in processed => cache[p] # None
    BY <1>1 DEF IndInv, ProcessedOK
  <2>2. cache \in [Policies -> Policy \cup {None}] /\ res \in [Resources -> Contents]
    BY <1>1 DEF IndInv, ObjectsOK
  <2>3. CASE \E s \in Resources, c \in Contents : EditResource(s, c)
    <3>1. PICK s \in Resources, c \in Contents : EditResource(s, c)
      BY <2>3
    <3>2. /\ res' = [res EXCEPT ![s] = c] /\ processed' = {x \in processed : x[2] # s}
          /\ UNCHANGED cache
      BY <3>1 DEF EditResource
    <3>3. r # s /\ <<p, r>> \in processed
      BY <3>2
    <3> QED
      BY <2>1, <2>2, <3>2, <3>3
  <2>4. CASE \E q \in Policies : PolicyEvent(q)
    <3>1. PICK q \in Policies : PolicyEvent(q)
      BY <2>4
    <3>2. /\ cache' = [cache EXCEPT ![q] = api[q]] /\ processed' = {x \in processed : x[1] # q}
          /\ UNCHANGED res
      BY <3>1 DEF PolicyEvent
    <3>3. p # q /\ <<p, r>> \in processed
      BY <3>2
    <3> QED
      BY <2>1, <2>2, <3>2, <3>3
  <2>5. CASE SyncStatusOnly \/ SyncStatusOnlyFault
    <3>1. w.pc = "cleanup" /\ UNCHANGED <<res, processed>> /\ (UNCHANGED cache \/ WriteHeld)
      BY <2>5 DEF SyncStatusOnly, SyncStatusOnlyFault
    <3>2. SameSpec(cache[p], cache'[p])
      BY <1>1, <3>1, WriteHeldFacts DEF SameSpec
    <3> QED
      BY <2>1, <3>1, <3>2 DEF SameSpec
  <2>6. CASE \E s \in Resources : ApplyPolicy(s)
    <3>1. PICK s \in Resources : ApplyPolicy(s)
      BY <2>6
    <3>2. /\ w.pc = "scan" /\ s \in w.todo /\ UNCHANGED <<res, cache>>
          /\ processed' = IF w.old \/ s \in w.changed THEN processed ELSE processed \cup {<<w.key, s>>}
      BY <3>1 DEF ApplyPolicy, objects
    <3>3. CASE <<p, r>> \in processed
      BY <2>1, <3>2, <3>3
    <3>4. CASE <<p, r>> \notin processed
      <4>1. p = w.key /\ r = s /\ ~w.old /\ r \notin w.changed
        BY <3>2, <3>4
      <4>2. w.list[r] = res[r] /\ w.spec = cache[p].spec
        BY <1>1, <3>2, <4>1 DEF IndInv, ScanOK
      <4> QED
        BY <3>2, <3>4, <4>1, <4>2
    <3> QED
      BY <3>3, <3>4
  <2>7. CASE processed' \in {{}, processed} /\ UNCHANGED <<res, cache>>
    BY <2>1, <2>7
  <2>8. \/ (\E s \in Resources, c \in Contents : EditResource(s, c))
        \/ (\E q \in Policies : PolicyEvent(q)) \/ SyncStatusOnly \/ SyncStatusOnlyFault
        \/ (\E s \in Resources : ApplyPolicy(s))
        \/ (processed' \in {{}, processed} /\ UNCHANGED <<res, cache>>)
    BY <1>1 DEF Next, EditPolicy, DeletePolicy, Resync, BackOff, ViolationEvent,
         AddClusterPolicyViolation, AddNamespacedPolicyViolation,
         UpdateClusterPolicyViolation, UpdateNamespacedPolicyViolation,
         DeleteClusterPolicyViolation, DeleteNamespacedPolicyViolation, Deleted, EnqueueOrDelete,
         GeneratorDrops, Generator, GeneratorSync, Worker, SyncDeleted, SyncPolicy,
         CleanUpPolicyViolation, DeleteViolations, CleanupAndReport,
         ClusterViolationsDeleted, DeletedPolicyCleaned, objects
  <2> QED
    BY <2>3, <2>4, <2>5, <2>6, <2>7, <2>8
<1>2. IndInv /\ [Next]_vars => [SkippedAsChecked]_vars
  BY <1>1
<1> QED
  BY <1>2, Inductive, PTL DEF Spec

-----------------------------------------------------------------------------
(* Orphaned violations. *)

\* A violation whose policy the informer does not have.
Orphan(p, r) == pv[<<p, r>>] # None /\ cache[p] = None

\* The violation has yet to be delivered, the policy has yet to be processed, the worker is
\* about to delete the violation, or a deletion was given up.
Chased(p, r) ==
    \/ pvl[<<p, r>>] # pv[<<p, r>>]
    \/ p \in Tracked(wq)
    \/ w.key = p /\ w.pc = "delcluster" /\ r \in w.todo \cup namespaced
    \/ w.key = p /\ w.pc = "delnamespaced" /\ r \in w.todo
    \/ p \in lost

\* No orphan is ever forgotten.
OrphansChased == \A p \in Policies, r \in Resources : Orphan(p, r) => Chased(p, r)

(* What keeps an orphan chased when the violation stays. *)
LEMMA ChasedOn ==
    ASSUME OrphansChased, NEW p \in Policies, NEW r \in Resources, Orphan(p, r)',
           cache[p] = None, pv'[<<p, r>>] = pv[<<p, r>>], pvl'[<<p, r>>] = pvl[<<p, r>>],
           Tracked(wq) \subseteq Tracked(wq)', lost \subseteq lost', namespaced' = namespaced,
           \/ w'.key = w.key /\ w'.pc = w.pc /\ w'.todo = w.todo
           \/ w.pc \in {"idle", "scan", "cleanup"}
    PROVE  Chased(p, r)'
BY DEF OrphansChased, Orphan, Chased

(* handleErr: the queue forgets no policy, and a failed step leads to a retry or is recorded. *)
LEMMA HandleErrChased ==
    ASSUME IndInv, w.pc # "idle", NEW failed \in BOOLEAN, HandleErr(failed)
    PROVE  /\ Tracked(wq) \subseteq Tracked(wq)' /\ lost \subseteq lost'
           /\ failed /\ w.spec = None => w.key \in Tracked(wq)' \cup lost'
<1> DEFINE k == w.key
           retry == failed /\ wq.requeues[k] < MaxRetries
           a == IF retry THEN AddRateLimited(wq, k) ELSE Forget(wq, k)
<1>1. wq \in WorkQueueType /\ k \in Policies
  BY DEF IndInv, WorkerOK, QueueOK
<1>2. /\ wq' = Done(a, k)
      /\ lost' = IF failed /\ ~retry /\ w.spec = None THEN lost \cup {k} ELSE lost
  BY DEF HandleErr
<1>3. /\ a \in WorkQueueType /\ a.dirty = wq.dirty /\ wq.waiting \subseteq a.waiting
      /\ retry => k \in a.waiting
  <2>1. CASE retry
    <3>1. a = AddRateLimited(wq, k)
      BY <2>1
    <3> HIDE DEF k, a
    <3> QED
      BY <1>1, <3>1, AddRateLimitedFacts
  <2>2. CASE ~retry
    <3>1. a = Forget(wq, k)
      BY <2>2
    <3> HIDE DEF k, a
    <3> QED
      BY <1>1, <2>2, <3>1, ForgetFacts
  <2> QED
    BY <2>1, <2>2
<1> HIDE DEF a
<1>4. wq'.dirty = a.dirty /\ wq'.waiting = a.waiting
  BY <1>1, <1>2, <1>3, DoneFacts
<1>5. Tracked(wq) \subseteq Tracked(wq)'
  BY <1>3, <1>4 DEF Tracked
<1>6. retry => k \in Tracked(wq)'
  BY <1>3, <1>4 DEF Tracked
<1> QED
  BY <1>2, <1>5, <1>6

(* The policy informer: a deletion the controller knows of is queued. *)
LEMMA PolicyEventChased ==
    ASSUME IndInv, OrphansChased, NEW q \in Policies, PolicyEvent(q),
           NEW p \in Policies, NEW r \in Resources, Orphan(p, r)'
    PROVE  Chased(p, r)'
<1>1. /\ cache \in [Policies -> Policy \cup {None}] /\ wq \in WorkQueueType
      /\ w \in WorkerType
  BY DEF IndInv, ObjectsOK, WorkerOK, QueueOK
<1>2. /\ cache' = [cache EXCEPT ![q] = api[q]]
      /\ wq' = IF \/ api[q] # None /\ api[q].spec \in Background
                  \/ api[q] = None /\ cache[q] # None
               THEN Add(wq, q) ELSE wq
      /\ UNCHANGED <<namespaced, pv, pvl, lost>>
  BY DEF PolicyEvent, violations
<1>3. w'.key = w.key /\ w'.pc = w.pc /\ w'.todo = w.todo
  BY <1>1 DEF PolicyEvent, WorkerType
<1>4. Tracked(wq) \subseteq Tracked(wq)'
  BY <1>1, <1>2, AddFacts DEF Tracked
<1>5. CASE cache[p] = None
  BY <1>2, <1>3, <1>4, <1>5, ChasedOn
<1>6. CASE cache[p] # None
  <2>1. cache'[p] = None
    BY DEF Orphan
  <2>2. p = q /\ api[q] = None
    BY <1>1, <1>2, <1>6, <2>1
  <2>3. wq' = Add(wq, p)
    BY <1>2, <1>6, <2>2
  <2>4. p \in Tracked(wq)'
    BY <1>1, <2>3, AddFacts DEF Tracked
  <2> QED
    BY <2>4 DEF Chased
<1> QED
  BY <1>5, <1>6

(* The informer of violations: an orphan it delivers is deleted, or the failure recorded. *)
LEMMA ViolationEventChased ==
    ASSUME IndInv, OrphansChased, NEW x \in Pairs, ViolationEvent(x),
           NEW p \in Policies, NEW r \in Resources, Orphan(p, r)'
    PROVE  Chased(p, r)'
<1>1. /\ wq \in WorkQueueType /\ pv \in [Pairs -> Engines \cup {None}]
      /\ pvl \in [Pairs -> Engines \cup {None}] /\ <<p, r>> \in Pairs /\ x[1] \in Policies
  BY DEF IndInv, ViolationsOK, WorkerOK, QueueOK, Pairs
<1>2. /\ pvl' = [pvl EXCEPT ![x] = pv[x]] /\ UNCHANGED <<cache, namespaced, w>>
      /\ EnqueueOrDelete(x) \/ (Deleted(x) /\ pv[x] = None /\ UNCHANGED pv)
  BY DEF ViolationEvent, AddClusterPolicyViolation, AddNamespacedPolicyViolation,
         UpdateClusterPolicyViolation, UpdateNamespacedPolicyViolation,
         DeleteClusterPolicyViolation, DeleteNamespacedPolicyViolation, Deleted, Delivered,
         EnqueueOrDelete, objects
<1>3. /\ wq' \in {wq, Add(wq, x[1])} /\ pv' \in {pv, [pv EXCEPT ![x] = None]}
      /\ lost' \in {lost, lost \cup {x[1]}}
  BY <1>2 DEF EnqueueOrDelete, DeleteOrphan, Deleted, bounds
<1>4. Tracked(wq) \subseteq Tracked(wq)' /\ lost \subseteq lost'
  BY <1>1, <1>3, AddFacts DEF Tracked
<1>5. cache[p] = None
  BY <1>2 DEF Orphan
<1>6. CASE <<p, r>> # x
  <2>1. pv'[<<p, r>>] = pv[<<p, r>>] /\ pvl'[<<p, r>>] = pvl[<<p, r>>]
    BY <1>1, <1>2, <1>3, <1>6
  <2> QED
    BY <1>2, <1>4, <1>5, <2>1, ChasedOn
<1>7. CASE <<p, r>> = x
  <2>1. pv'[x] # None
    BY <1>7 DEF Orphan
  <2>2. PolicyForViolation(x) = {}
    BY <1>5, <1>7 DEF PolicyForViolation
  <2>3. EnqueueOrDelete(x)
    BY <1>2, <2>1
  <2>4. DeleteOrphan(x)
    BY <2>2, <2>3 DEF EnqueueOrDelete
  <2>5. x[1] \in lost'
    BY <1>1, <1>7, <2>1, <2>4 DEF DeleteOrphan
  <2> QED
    BY <1>7, <2>5 DEF Chased
<1> QED
  BY <1>6, <1>7

(* The generator: a late violation of a deleted policy has yet to be delivered. *)
LEMMA GeneratorChased ==
    ASSUME IndInv, OrphansChased, NEW q \in Pairs \X Engines, GeneratorSync(q) \/ GeneratorDrops(q),
           NEW p \in Policies, NEW r \in Resources, Orphan(p, r)'
    PROVE  Chased(p, r)'
<1>1. /\ pv \in [Pairs -> Engines \cup {None}] /\ <<p, r>> \in Pairs /\ q[1] \in Pairs
  BY DEF IndInv, ViolationsOK, Pairs
<1>2. /\ pv' \in {pv, [pv EXCEPT ![q[1]] = q[2]]}
      /\ pvl[q[1]] = q[2] => pv' = pv
      /\ UNCHANGED <<cache, namespaced, w, wq, lost, pvl>>
  BY DEF GeneratorSync, GeneratorDrops, objects
<1>3. cache[p] = None
  BY <1>2 DEF Orphan
<1>4. CASE pv'[<<p, r>>] = pv[<<p, r>>]
  BY <1>2, <1>3, <1>4, ChasedOn
<1>5. CASE pv'[<<p, r>>] # pv[<<p, r>>]
  <2> DEFINE x == <<p, r>>
             y == q[1]
             e == q[2]
  <2>1. pv' = [pv EXCEPT ![y] = e] /\ pvl[y] # e /\ pvl' = pvl
    BY <1>2, <1>5
  <2>2. pv'[x] # pv[x] /\ x \in Pairs /\ y \in Pairs
    BY <1>1, <1>5
  <2> HIDE DEF x, y, e
  <2>3. x = y
    BY <1>1, <2>1, <2>2
  <2>4. pv'[x] = e /\ pvl'[x] # e
    BY <1>1, <2>1, <2>2, <2>3
  <2>5. pv'[<<p, r>>] # pvl'[<<p, r>>]
    BY <2>4 DEF x
  <2> QED
    BY <2>5 DEF Chased
<1> QED
  BY <1>4, <1>5

(* The worker takes a key: a deleted policy's violations are in the lister, or to be delivered. *)
LEMMA TakenChased ==
    ASSUME IndInv, OrphansChased, NEW q \in Policies,
           SyncDeleted(q) \/ \E drop \in BOOLEAN : SyncPolicy(q, drop),
           NEW p \in Policies, NEW r \in Resources, Orphan(p, r)'
    PROVE  Chased(p, r)'
<1>1. wq \in WorkQueueType /\ w \in WorkerType
  BY DEF IndInv, WorkerOK, QueueOK
<1>2. /\ w.pc = "idle" /\ wq.queue # <<>> /\ q = Head(wq.queue) /\ wq' = Get(wq)
      /\ UNCHANGED <<cache, namespaced, pv, pvl, lost>>
  BY DEF SyncDeleted, SyncPolicy, TakesKey, objects, violations
<1>3. wq'.dirty = wq.dirty \ {q} /\ wq'.waiting = wq.waiting
  BY <1>1, <1>2, GetFacts
<1>4. Orphan(p, r) /\ cache[p] = None
  BY <1>2 DEF Orphan
<1>5. CASE p # q
  <2>1. pvl[<<p, r>>] # pv[<<p, r>>] \/ p \in Tracked(wq) \/ p \in lost
    BY <1>2, <1>4 DEF OrphansChased, Chased
  <2>2. p \in Tracked(wq) => p \in Tracked(wq)'
    BY <1>3, <1>5 DEF Tracked
  <2> QED
    BY <1>2, <2>1, <2>2 DEF Chased
<1>6. CASE p = q
  <2>1. SyncDeleted(p)
    BY <1>4, <1>6 DEF SyncPolicy
  <2>2. w'.pc = "delcluster" /\ w'.key = p /\ w'.todo = ViolationsOf(p) \ namespaced
    BY <1>1, <2>1 DEF SyncDeleted, WorkerType
  <2>3. CASE pvl[<<p, r>>] = pv[<<p, r>>]
    <3>1. r \in ViolationsOf(p)
      BY <1>4, <2>3 DEF Orphan, ViolationsOf
    <3>2. r \in w'.todo \cup namespaced'
      BY <1>2, <2>2, <3>1
    <3> QED
      BY <2>2, <3>2 DEF Chased
  <2>4. CASE pvl[<<p, r>>] # pv[<<p, r>>]
    BY <1>2, <2>4 DEF Chased
  <2> QED
    BY <2>3, <2>4
<1> QED
  BY <1>5, <1>6

(* The worker on a policy that is there: it may delete violations, and forgets no key. *)
LEMMA ScanChased ==
    ASSUME IndInv, OrphansChased, NEW p \in Policies, NEW r \in Resources, Orphan(p, r)',
           \/ \E s \in Resources : ApplyPolicy(s) \/ CleanUpPolicyViolation(s)
           \/ CleanupAndReport \/ SyncStatusOnly \/ SyncStatusOnlyFault
    PROVE  Chased(p, r)'
<1>1. /\ pv \in [Pairs -> Engines \cup {None}] /\ <<p, r>> \in Pairs
      /\ cache \in [Policies -> Policy \cup {None}]
  BY DEF IndInv, ViolationsOK, ObjectsOK, Pairs
<1>2. /\ w.pc \in {"scan", "cleanup"} /\ UNCHANGED <<namespaced, pvl>>
      /\ pv' = pv \/ \E s \in Resources : pv' = [pv EXCEPT ![<<w.key, s>>] = None]
      /\ UNCHANGED cache \/ (w.pc = "cleanup" /\ WriteHeld)
      /\ UNCHANGED <<wq, lost>> \/ \E failed \in BOOLEAN : HandleErr(failed)
  BY DEF ApplyPolicy, CleanUpPolicyViolation, CleanupAndReport, SyncStatusOnly,
         SyncStatusOnlyFault, objects, violations
<1>3. Tracked(wq) \subseteq Tracked(wq)' /\ lost \subseteq lost'
  <2>1. CASE UNCHANGED <<wq, lost>>
    BY <2>1
  <2>2. CASE \E failed \in BOOLEAN : HandleErr(failed)
    BY <1>2, <2>2, HandleErrChased
  <2> QED
    BY <1>2, <2>1, <2>2
<1>4. cache[p] = None
  <2>1. cache'[p] = None
    BY DEF Orphan
  <2>2. CASE UNCHANGED cache
    BY <2>1, <2>2
  <2>3. CASE w.pc = "cleanup" /\ WriteHeld
    <3>1. SameSpec(cache[p], cache'[p])
      BY <2>3, WriteHeldFacts
    <3> QED
      BY <2>1, <3>1 DEF SameSpec
  <2> QED
    BY <1>2, <2>2, <2>3
<1>5. pv'[<<p, r>>] = pv[<<p, r>>]
  BY <1>1, <1>2 DEF Orphan
<1>6. pvl'[<<p, r>>] = pvl[<<p, r>>] /\ namespaced' = namespaced
  BY <1>2
<1>7. w.pc \in {"idle", "scan", "cleanup"}
  BY <1>2
<1> QED
  BY <1>3, <1>4, <1>5, <1>6, <1>7, ChasedOn

(* The worker on a deleted policy: what it leaves behind is retried, or recorded as given up. *)
LEMMA DeletionChased ==
    ASSUME IndInv, OrphansChased, NEW p \in Policies, NEW r \in Resources, Orphan(p, r)',
           \/ \E s \in Resources : DeleteViolations(s)
           \/ ClusterViolationsDeleted \/ DeletedPolicyCleaned
    PROVE  Chased(p, r)'
<1>1. /\ pv \in [Pairs -> Engines \cup {None}] /\ <<p, r>> \in Pairs /\ w \in WorkerType
  BY DEF IndInv, ViolationsOK, WorkerOK, Pairs
<1>2. /\ w.pc \in {"delcluster", "delnamespaced"} /\ UNCHANGED <<namespaced, pvl, cache>>
  BY DEF DeleteViolations, ClusterViolationsDeleted, DeletedPolicyCleaned, objects, violations
<1>3. w.spec = None
  BY <1>2 DEF IndInv, WorkerOK
<1>4. CASE \E s \in Resources : DeleteViolations(s) /\ ~(\E failed \in BOOLEAN : HandleErr(failed))
  <2>1. PICK s \in Resources : /\ pv' = [pv EXCEPT ![<<w.key, s>>] = None]
                               /\ w' = [w EXCEPT !.todo = @ \ {s}] /\ UNCHANGED <<wq, lost>>
    BY <1>4 DEF DeleteViolations
  <2>2. <<p, r>> # <<w.key, s>> /\ pv'[<<p, r>>] = pv[<<p, r>>]
    BY <1>1, <2>1 DEF Orphan
  <2>3. w'.key = w.key /\ w'.pc = w.pc /\ w'.todo = w.todo \ {s}
    BY <1>1, <2>1 DEF WorkerType
  <2>4. Chased(p, r)
    BY <1>2, <2>2 DEF OrphansChased, Orphan
  <2> QED
    BY <1>2, <2>1, <2>2, <2>3, <2>4 DEF Chased
<1>5. CASE \E s \in Resources : DeleteViolations(s) /\ \E failed \in BOOLEAN : HandleErr(failed)
  <2>1. HandleErr(TRUE) /\ pv' = pv
    <3>1. PICK s \in Resources : DeleteViolations(s) /\ \E failed \in BOOLEAN : HandleErr(failed)
      BY <1>5
    <3>2. w' = Idle
      BY <3>1 DEF HandleErr
    <3>3. w' # [w EXCEPT !.todo = @ \ {s}]
      BY <1>1, <1>2, <3>2, IdleFacts DEF WorkerType
    <3> QED
      BY <3>1, <3>3 DEF DeleteViolations
  <2>2. Tracked(wq) \subseteq Tracked(wq)' /\ lost \subseteq lost' /\ w.key \in Tracked(wq)' \cup lost'
    BY <1>2, <1>3, <2>1, HandleErrChased
  <2>3. Chased(p, r)
    BY <1>2, <2>1 DEF OrphansChased, Orphan
  <2> QED
    BY <1>2, <2>1, <2>2, <2>3 DEF Chased
<1>6. CASE ClusterViolationsDeleted
  <2>1. /\ w.pc = "delcluster" /\ w.todo = {}
        /\ w' = [w EXCEPT !.pc = "delnamespaced", !.todo = ViolationsOf(w.key) \cap namespaced]
        /\ UNCHANGED <<pv, wq, lost>>
    BY <1>6 DEF ClusterViolationsDeleted, violations
  <2>2. w'.key = w.key /\ w'.pc = "delnamespaced" /\ w'.todo = ViolationsOf(w.key) \cap namespaced
    BY <1>1, <2>1 DEF WorkerType
  <2>3. Orphan(p, r) /\ Chased(p, r)
    BY <1>2, <2>1 DEF OrphansChased, Orphan
  <2>4. CASE pvl[<<p, r>>] = pv[<<p, r>>] /\ w.key = p /\ r \in namespaced
    <3>1. r \in ViolationsOf(w.key)
      BY <2>3, <2>4 DEF Orphan, ViolationsOf
    <3>2. r \in w'.todo /\ w'.key = p /\ w'.pc = "delnamespaced"
      BY <2>2, <2>4, <3>1
    <3> QED
      BY <3>2 DEF Chased
  <2>5. CASE ~(pvl[<<p, r>>] = pv[<<p, r>>] /\ w.key = p /\ r \in namespaced)
    BY <1>2, <2>1, <2>3, <2>5 DEF Chased
  <2> QED
    BY <2>4, <2>5
<1>7. CASE DeletedPolicyCleaned
  <2>1. w.pc = "delnamespaced" /\ w.todo = {} /\ HandleErr(FALSE) /\ UNCHANGED pv
    BY <1>7 DEF DeletedPolicyCleaned, violations
  <2>2. Tracked(wq) \subseteq Tracked(wq)' /\ lost \subseteq lost'
    BY <1>2, <2>1, HandleErrChased
  <2>3. Chased(p, r)
    BY <1>2, <2>1 DEF OrphansChased, Orphan
  <2> QED
    BY <1>2, <2>1, <2>2, <2>3 DEF Chased
<1> QED
  BY <1>4, <1>5, <1>6, <1>7

(* Steps that touch neither violations nor the worker's progress. *)
LEMMA OtherChased ==
    ASSUME IndInv, OrphansChased, NEW p \in Policies, NEW r \in Resources, Orphan(p, r)',
           \/ \E q \in Policies : \/ \E s \in Specs : EditPolicy(q, s)
                                  \/ DeletePolicy(q) \/ Resync(q) \/ BackOff(q)
           \/ \E s \in Resources, c \in Contents : EditResource(s, c)
           \/ UNCHANGED vars
    PROVE  Chased(p, r)'
<1>1. wq \in WorkQueueType /\ w \in WorkerType
  BY DEF IndInv, WorkerOK, QueueOK
<1>2. /\ UNCHANGED <<cache, namespaced, pv, pvl, lost>>
      /\ wq' = wq \/ \E q \in Policies : wq' \in {Add(wq, q), BackOffEnds(wq, q)}
      /\ w' = w \/ \E s \in Resources : w' = [w EXCEPT !.changed = @ \cup {s}]
  BY DEF EditPolicy, DeletePolicy, Resync, BackOff, EditResource, vars, objects, violations
<1>3. w'.key = w.key /\ w'.pc = w.pc /\ w'.todo = w.todo
  BY <1>1, <1>2 DEF WorkerType
<1>4. Tracked(wq) \subseteq Tracked(wq)'
  <2>1. ASSUME NEW q \in Policies, wq' = Add(wq, q) PROVE Tracked(wq) \subseteq Tracked(wq)'
    BY <1>1, <2>1, AddFacts DEF Tracked
  <2>2. ASSUME NEW q \in Policies, wq' = BackOffEnds(wq, q) PROVE Tracked(wq) \subseteq Tracked(wq)'
    BY <1>1, <2>2, BackOffEndsFacts DEF Tracked
  <2> QED
    BY <1>2, <2>1, <2>2
<1>5. cache[p] = None
  BY <1>2 DEF Orphan
<1> QED
  BY <1>2, <1>3, <1>4, <1>5, ChasedOn

(* The controller never loses sight of a violation of a deleted policy: on every path through
   the two informers' handlers, deletePolicy, deleteClusterPolicyViolations and handleErr, with
   any order of a late request, a failed deletion and a retry, the violation is still to be
   delivered, its policy is queued or being cleaned up, or a deletion was given up after the
   last retry. *)
THEOREM NoOrphanForgotten == Spec => []OrphansChased
<1>1. Init => OrphansChased
  <2> SUFFICES ASSUME Init, NEW p \in Policies, NEW r \in Resources, Orphan(p, r)
               PROVE  Chased(p, r)
    BY DEF OrphansChased
  <2>1. <<p, r>> \in Pairs /\ pvl[<<p, r>>] = None
    BY DEF Init, Pairs
  <2> QED
    BY <2>1 DEF Orphan, Chased
<1>2. IndInv /\ OrphansChased /\ [Next]_vars => OrphansChased'
  <2> SUFFICES ASSUME IndInv, OrphansChased, [Next]_vars,
                      NEW p \in Policies, NEW r \in Resources, Orphan(p, r)'
               PROVE  Chased(p, r)'
    BY DEF OrphansChased
  <2>1. CASE \E q \in Policies : PolicyEvent(q)
    BY <2>1, PolicyEventChased
  <2>2. CASE \E x \in Pairs : ViolationEvent(x)
    BY <2>2, ViolationEventChased
  <2>3. CASE Generator \/ \E q \in Pairs \X Engines : GeneratorDrops(q)
    BY <2>3, GeneratorChased DEF Generator
  <2>4. CASE Worker
    BY <2>4, TakenChased, ScanChased, DeletionChased DEF Worker
  <2>5. CASE \/ \E q \in Policies : \/ \E s \in Specs : EditPolicy(q, s)
                                    \/ DeletePolicy(q) \/ Resync(q) \/ BackOff(q)
             \/ \E s \in Resources, c \in Contents : EditResource(s, c)
             \/ UNCHANGED vars
    BY <2>5, OtherChased
  <2> QED
    BY <2>1, <2>2, <2>3, <2>4, <2>5 DEF Next
<1> QED
  BY <1>1, <1>2, Inductive, PTL DEF Spec

\* When everything has been delivered, the queue is empty, no key is being processed and no
\* deletion was given up, no violation of a deleted policy is left.
CleanAtRest ==
    (pvl = pv /\ Quiet(wq) /\ lost = {}) =>
        \A p \in Policies, r \in Resources : cache[p] = None => pv[<<p, r>>] = None

(* The controller of pkg/policy comes to rest only with the violations of every deleted
   policy removed, also those a request creates after the clean-up. *)
THEOREM RestIsClean == Spec => []CleanAtRest
<1>1. IndInv /\ OrphansChased => CleanAtRest
  <2> SUFFICES ASSUME IndInv, OrphansChased, pvl = pv, Quiet(wq), lost = {},
                      NEW p \in Policies, NEW r \in Resources, cache[p] = None,
                      pv[<<p, r>>] # None
               PROVE  FALSE
    BY DEF CleanAtRest
  <2>1. Chased(p, r)
    BY DEF OrphansChased, Orphan
  <2>2. w.pc = "idle"
    BY DEF IndInv, WorkerOK, QueueOK, Quiet
  <2> QED
    BY <2>1, <2>2 DEF Chased, Tracked, Quiet
<1> QED
  BY <1>1, Inductive, NoOrphanForgotten, PTL
=============================================================================

----------------------- MODULE GenerateRequestProofs -----------------------
(***************************************************************************)
(* Proofs about GenerateRequest, for any number of requests, rules and     *)
(* faults: type correctness, that neither controller loses a key of its    *)
(* queue or retries one for ever, that the status of a request is only     *)
(* written over the version the worker has worked from, what a request     *)
(* records of the resources that were generated for it, and that requests  *)
(* are lost to the generate controller by its retry limit only.            *)
(***************************************************************************)
EXTENDS GenerateRequest, FiniteSetTheorems, TLAPS

\* A controller's one worker holds the one key that is being processed, and no key has been
\* retried more often than handleErr allows.
QueueOK(q, w) ==
    /\ Consistent(q)
    /\ q.processing = IF w.pc = "idle" THEN {} ELSE {w.key}
    /\ w.pc # "idle" => w.key \in GRs
    /\ \A g \in GRs : q.requeues[g] <= MaxRetries

\* An older copy of a request has a smaller version.
Versioned(copy, g) ==
    copy # None /\ grs[g] # None =>
        copy.rv <= grs[g].rv /\ (copy.rv = grs[g].rv => copy = grs[g])

\* The resources of a list are those of the rules, in their order, or without a name.
OfRules(list) == \A i \in DOMAIN list : list[i] \in {Rules[i], None}

\* What a request records of the resources that were generated for it.
Recording(gr) ==
    /\ OfRules(gr.generated) /\ Len(gr.generated) \in {0, Len(Rules)}
    /\ gr.state # "Completed" => gr.generated = <<>>

\* The progress of the generate worker through the rules.
Making(w) ==
    /\ w.pc = "apply" =>
           /\ OfRules(w.made)
           /\ Len(w.made) = w.rule - 1 \/ (w.made = <<>> /\ w.rule = Len(Rules) + 1)
    /\ w.pc \in {"sync", "failed"} => w.made = <<>>

ClusterOK ==
    /\ trigger \in BOOLEAN /\ asked \in BOOLEAN /\ newer \in BOOLEAN
    /\ policy \in BOOLEAN /\ plister \in BOOLEAN /\ source \subseteq Clones
    /\ target \in [RuleNames -> {"none", "ours", "foreign"}] /\ late \subseteq GRs

CountsOK ==
    /\ channel \in 0..ChannelSize /\ channel + created <= admissions
    /\ admissions \in 0..MaxAdmissions /\ created \in 0..MaxAdmissions
    /\ edits \in 0..MaxEdits /\ faults \in 0..MaxFaults

StoreOK ==
    /\ grs \in [GRs -> GR \cup {None}] /\ lister \in [GRs -> GR \cup {None}]
    /\ \A g \in GRs : /\ Versioned(lister[g], g)
                      /\ grs[g] # None => g <= created /\ Recording(grs[g])
                      /\ lister[g] # None => g <= created
    /\ gw.gr # None => /\ gw.pc # "idle" /\ gw.key \in GRs /\ gw.key <= created
                       /\ Versioned(gw.gr, gw.key)

GenerateOK ==
    /\ gq \in WorkQueueType /\ QueueOK(gq, gw) /\ Making(gw)
    /\ gw \in GenerateWorkerType
    /\ gw.pc \in {"apply", "failed"} => gw.gr # None

CleanupOK ==
    /\ cq \in WorkQueueType /\ QueueOK(cq, cw)
    /\ cw \in CleanupWorkerType

IndInv == ClusterOK /\ CountsOK /\ StoreOK /\ GenerateOK /\ CleanupOK

-----------------------------------------------------------------------------
(* Lemmas. *)

(* A finite set is listed by a sequence that has each of its elements once. *)
LEMMA SetToSeqFacts ==
    ASSUME NEW S, IsFiniteSet(S)
    PROVE  /\ SetToSeq(S) \in Seq(S)
           /\ {SetToSeq(S)[i] : i \in DOMAIN SetToSeq(S)} = S
           /\ \A i, j \in DOMAIN SetToSeq(S) : SetToSeq(S)[i] = SetToSeq(S)[j] => i = j
<1> DEFINE n == Cardinality(S)
           f == SetToSeq(S)
<1>1. n \in Nat /\ ExistsBijection(1..n, S)
  BY FS_CardinalityType
<1>2. \E g \in [1..n -> S] : IsInjective(g)
  BY <1>1 DEF ExistsBijection, Bijection, Injection
<1>3. f \in [1..n -> S] /\ IsInjective(f)
  BY <1>2 DEF SetToSeq
<1> HIDE DEF f
<1>4. f \in Injection(1..n, S)
  BY <1>3 DEF Injection
<1>5. Cardinality(1..n) = n
  BY <1>1, FS_Interval
<1>6. f \in Surjection(1..n, S)
  BY <1>4, <1>5, FS_Injection
<1>7. {f[i] : i \in DOMAIN f} = S
  BY <1>3, <1>6 DEF Surjection
<1>8. f \in Seq(S)
  BY <1>1, <1>3
<1>9. \A i, j \in DOMAIN f : f[i] = f[j] => i = j
  BY <1>3 DEF IsInjective
<1> QED
  BY <1>7, <1>8, <1>9 DEF f

(* Queueing a set of requests. *)
LEMMA QueueAll ==
    ASSUME NEW q \in WorkQueueType, NEW w, QueueOK(q, w), NEW S \in SUBSET GRs
    PROVE  AddAll(q, S) \in WorkQueueType /\ QueueOK(AddAll(q, S), w)
<1> DEFINE D == S \ (q.dirty \cup q.processing)
<1>1. IsFiniteSet(D) /\ D \in SUBSET GRs
  <2>1. IsFiniteSet(GRs)
    BY GenerateAssumption, FS_Interval DEF GRs
  <2> QED
    BY <2>1, FS_Subset
<1>2. /\ SetToSeq(D) \in Seq(D) /\ {SetToSeq(D)[i] : i \in DOMAIN SetToSeq(D)} = D
      /\ \A i, j \in DOMAIN SetToSeq(D) : SetToSeq(D)[i] = SetToSeq(D)[j] => i = j
  BY <1>1, SetToSeqFacts
<1>3. SetToSeq(D) \in Seq(GRs)
  BY <1>1, <1>2
<1>4. Consistent(q)
  BY DEF QueueOK
<1>5. /\ AddAll(q, S) \in WorkQueueType /\ AddAll(q, S).processing = q.processing
      /\ AddAll(q, S).requeues = q.requeues
  BY <1>3, AddAllFacts
<1>6. Consistent(AddAll(q, S))
  BY <1>2, <1>3, <1>4, AddAllConsistent
<1> QED
  BY <1>5, <1>6 DEF QueueOK

(* Queueing one request. *)
LEMMA QueueOne ==
    ASSUME NEW q \in WorkQueueType, NEW w, QueueOK(q, w), NEW g \in GRs
    PROVE  Add(q, g) \in WorkQueueType /\ QueueOK(Add(q, g), w)
BY AddFacts DEF QueueOK

(* A new queue and an idle worker. *)
LEMMA QueueNew ==
    ASSUME NEW w, w.pc = "idle"
    PROVE  EmptyQueue \in WorkQueueType /\ QueueOK(EmptyQueue, w)
<1>1. /\ EmptyQueue \in WorkQueueType /\ Consistent(EmptyQueue)
  BY EmptyQueueFacts
<1>2. EmptyQueue.processing = {} /\ \A g \in GRs : EmptyQueue.requeues[g] = 0
  BY DEF EmptyQueue
<1> QED
  BY <1>1, <1>2, GenerateAssumption DEF QueueOK

(* The worker takes the oldest key. *)
LEMMA QueueGet ==
    ASSUME NEW q \in WorkQueueType, NEW w, QueueOK(q, w), w.pc = "idle", q.queue # <<>>,
           NEW v, v.pc # "idle", v.key = Head(q.queue)
    PROVE  /\ Get(q) \in WorkQueueType /\ QueueOK(Get(q), v)
           /\ Head(q.queue) \in GRs
BY GetFacts DEF QueueOK

(* The worker keeps its key. *)
LEMMA QueueKeep ==
    ASSUME NEW q \in WorkQueueType, NEW w, QueueOK(q, w), w.pc # "idle",
           NEW v, v.pc # "idle", v.key = w.key
    PROVE  QueueOK(q, v)
BY DEF QueueOK

(* handleErr with the deferred Done gives the key back on every path. *)
LEMMA QueueHandled ==
    ASSUME NEW q \in WorkQueueType, NEW w, QueueOK(q, w), w.pc # "idle",
           NEW v, v.pc = "idle", NEW ok
    PROVE  Handled(q, w.key, ok) \in WorkQueueType /\ QueueOK(Handled(q, w.key, ok), v)
<1> DEFINE k == w.key
<1>1. /\ k \in GRs /\ Consistent(q) /\ q.processing = {k} /\ q.requeues \in [GRs -> Nat]
      /\ \A g \in GRs : q.requeues[g] <= MaxRetries
  BY DEF QueueOK, WorkQueueType
<1> HIDE DEF k
<1>2. CASE ok \/ q.requeues[k] >= MaxRetries
  <2> DEFINE a == Forget(q, k)
             b == Done(a, k)
  <2>1. /\ a \in WorkQueueType /\ Consistent(a) /\ a.processing = {k}
        /\ a.requeues = [q.requeues EXCEPT ![k] = 0]
    BY <1>1, ForgetFacts
  <2> HIDE DEF a
  <2>2. /\ b \in WorkQueueType /\ Consistent(b) /\ b.processing = {k} \ {k}
        /\ b.requeues = a.requeues
    <3>1. k \in a.processing
      BY <2>1
    <3>2. /\ b \in WorkQueueType /\ b.processing = a.processing \ {k}
          /\ b.requeues = a.requeues /\ (Consistent(a) /\ k \in a.processing => Consistent(b))
      BY <1>1, <2>1, DoneFacts
    <3> QED
      BY <2>1, <3>1, <3>2
  <2>3. Handled(q, k, ok) = b
    BY <1>2 DEF Handled, a
  <2> HIDE DEF b
  <2>4. \A g \in GRs : b.requeues[g] <= MaxRetries
    BY <1>1, <2>1, <2>2, GenerateAssumption
  <2> QED
    BY <2>2, <2>3, <2>4 DEF QueueOK, k
<1>3. CASE ~(ok \/ q.requeues[k] >= MaxRetries)
  <2> DEFINE a == AddRateLimited(q, k)
             b == BackOffEnds(a, k)
             c == Done(b, k)
  <2>1. /\ a \in WorkQueueType /\ Consistent(a) /\ a.processing = {k}
        /\ a.requeues = [q.requeues EXCEPT ![k] = @ + 1]
    BY <1>1, AddRateLimitedFacts
  <2> HIDE DEF a
  <2>2. /\ b \in WorkQueueType /\ Consistent(b) /\ b.processing = {k}
        /\ b.requeues = a.requeues
    BY <1>1, <2>1, BackOffEndsFacts
  <2> HIDE DEF b
  <2>3. /\ c \in WorkQueueType /\ Consistent(c) /\ c.processing = {k} \ {k}
        /\ c.requeues = b.requeues
    BY <1>1, <2>2, DoneFacts
  <2>4. Handled(q, k, ok) = c
    BY <1>3 DEF Handled, a, b
  <2> HIDE DEF c
  <2>5. \A g \in GRs : c.requeues[g] <= MaxRetries
    BY <1>1, <1>3, <2>1, <2>2, <2>3, GenerateAssumption
  <2> QED
    BY <2>3, <2>4, <2>5 DEF QueueOK, k
<1> QED
  BY <1>2, <1>3

(* The workers at rest. *)
LEMMA IdleFacts ==
    /\ GIdle \in GenerateWorkerType
    /\ GIdle.pc = "idle" /\ GIdle.gr = None /\ GIdle.made = <<>>
    /\ CIdle \in CleanupWorkerType
    /\ CIdle.pc = "idle" /\ CIdle.todo = <<>>
<1>1. <<>> \in Recorded
  BY DEF Recorded
<1>2. 1 \in 1..(Len(Rules) + 1)
  BY GenerateAssumption
<1> QED
  BY <1>1, <1>2 DEF GIdle, CIdle, GenerateWorkerType, CleanupWorkerType

(* A worker between two of its steps, with its key and nothing else. *)
LEMMA RestingFacts ==
    ASSUME NEW pc \in {"sync", "ok", "err"}, NEW k \in GRs
    PROVE  LET v == [GIdle EXCEPT !.pc = pc, !.key = k]
               u == [CIdle EXCEPT !.pc = pc, !.key = k]
           IN  /\ v \in GenerateWorkerType
               /\ v.pc = pc /\ v.key = k /\ v.gr = None /\ v.made = <<>>
               /\ u \in CleanupWorkerType
               /\ u.pc = pc /\ u.key = k
BY IdleFacts DEF GenerateWorkerType, CleanupWorkerType

-----------------------------------------------------------------------------
(* The inductive invariant holds initially. *)

(* The inductive invariant holds in the initial states. *)
LEMMA InitInv == ASSUME Init PROVE IndInv
<1>1. ClusterOK
  BY DEF Init, ClusterOK
<1>2. CountsOK
  BY GenerateAssumption DEF Init, CountsOK
<1>3. StoreOK
  BY IdleFacts DEF Init, StoreOK, Versioned
<1>4. GenerateOK
  BY IdleFacts, QueueNew DEF Init, GenerateOK, Making
<1>5. CleanupOK
  BY IdleFacts, QueueNew DEF Init, CleanupOK
<1> QED
  BY <1>1, <1>2, <1>3, <1>4, <1>5 DEF IndInv

-----------------------------------------------------------------------------
(* Steps that leave a part of the state alone. *)

(* Each part of the invariant only depends on its own variables. *)
LEMMA Frames ==
    ASSUME IndInv
    PROVE  /\ UNCHANGED <<clusterVars, target, late>> => ClusterOK'
           /\ UNCHANGED <<channel, admissions, created, edits, faults>> => CountsOK'
           /\ UNCHANGED <<grs, lister, created>> /\ (UNCHANGED gw \/ gw'.gr = None) => StoreOK'
           /\ UNCHANGED <<gq, gw>> => GenerateOK'
           /\ UNCHANGED <<cq, cw>> => CleanupOK'
<1>1. UNCHANGED <<clusterVars, target, late>> => ClusterOK'
  BY DEF IndInv, ClusterOK, clusterVars
<1>2. UNCHANGED <<channel, admissions, created, edits, faults>> => CountsOK'
  BY DEF IndInv, CountsOK
<1>3. UNCHANGED <<grs, lister, created>> /\ (UNCHANGED gw \/ gw'.gr = None) => StoreOK'
  BY DEF IndInv, StoreOK, Versioned
<1>4. UNCHANGED <<gq, gw>> => GenerateOK'
  BY DEF IndInv, GenerateOK
<1>5. UNCHANGED <<cq, cw>> => CleanupOK'
  BY DEF IndInv, CleanupOK
<1> QED
  BY <1>1, <1>2, <1>3, <1>4, <1>5

-----------------------------------------------------------------------------
(* Admission of the trigger, and the goroutine that stores requests. *)

(* HandleGenerate and StoreTrigger touch only the trigger, the channel and the counters. *)
LEMMA TriggerInv == ASSUME IndInv, HandleGenerate \/ StoreTrigger PROVE IndInv'
<1>1. CASE HandleGenerate
  <2>1. ClusterOK'
    BY <1>1 DEF IndInv, ClusterOK, HandleGenerate
  <2>2. CountsOK'
    BY <1>1, GenerateAssumption DEF IndInv, CountsOK, HandleGenerate
  <2>3. StoreOK' /\ GenerateOK' /\ CleanupOK'
    BY <1>1, Frames DEF HandleGenerate, controllerVars
  <2> QED
    BY <2>1, <2>2, <2>3 DEF IndInv
<1>2. CASE StoreTrigger
  <2>1. ClusterOK'
    BY <1>2 DEF IndInv, ClusterOK, StoreTrigger
  <2>2. CountsOK' /\ StoreOK' /\ GenerateOK' /\ CleanupOK'
    BY <1>2, Frames DEF StoreTrigger, controllerVars, bounds
  <2> QED
    BY <2>1, <2>2 DEF IndInv
<1> QED
  BY <1>1, <1>2

(* CreateGR stores the request under a name that was never used. *)
LEMMA CreateInv == ASSUME IndInv, CreateGR \/ CreateGRFault PROVE IndInv'
<1>1. channel > 0 /\ channel' = channel - 1 /\ created' = created + 1
  BY DEF CreateGR, CreateGRFault
<1>2. created + 1 \in GRs /\ created \in Nat
  BY <1>1, GenerateAssumption DEF IndInv, CountsOK, GRs
<1>3. CountsOK'
  <2>1. /\ channel \in 0..ChannelSize /\ channel + created <= admissions
        /\ admissions \in 0..MaxAdmissions /\ created \in 0..MaxAdmissions
        /\ edits \in 0..MaxEdits /\ faults \in 0..MaxFaults
    BY DEF IndInv, CountsOK
  <2>2. UNCHANGED <<admissions, edits>>
    BY DEF CreateGR, CreateGRFault
  <2>3. faults' \in 0..MaxFaults
    <3>1. UNCHANGED faults \/ (faults < MaxFaults /\ faults' = faults + 1)
      BY DEF CreateGR, CreateGRFault
    <3> QED
      BY <2>1, <3>1, GenerateAssumption
  <2>4. channel' \in 0..ChannelSize /\ created' \in 0..MaxAdmissions
        /\ channel' + created' <= admissions
    BY <1>1, <2>1, GenerateAssumption
  <2> QED
    BY <2>1, <2>2, <2>3, <2>4 DEF CountsOK
<1>4. UNCHANGED <<clusterVars, target, late, lister, gq, gw, cq, cw>>
  BY DEF CreateGR, CreateGRFault, controllerVars
<1>5. ClusterOK' /\ GenerateOK' /\ CleanupOK'
  BY <1>4, Frames
<1>6. \A g \in GRs : g \in Nat
  BY DEF GRs
<1>7. StoreOK'
  <2> DEFINE n == [state |-> "", generated |-> <<>>, rv |-> 1]
             g0 == created + 1
  <2>1. n \in GR /\ Recording(n)
    <3>1. <<>> \in Recorded
      BY DEF Recorded
    <3> QED
      BY <3>1 DEF GR, Recording, OfRules
  <2> HIDE DEF n
  <2>2. grs' = grs \/ grs' = [grs EXCEPT ![g0] = n]
    BY DEF CreateGR, CreateGRFault, n
  <2>3. grs' \in [GRs -> GR \cup {None}]
    BY <2>1, <2>2 DEF IndInv, StoreOK
  <2>4. \A g \in GRs : grs'[g] = grs[g] \/ (g = g0 /\ grs'[g] = n)
    BY <2>2 DEF IndInv, StoreOK
  <2>5. ASSUME NEW g \in GRs
        PROVE  /\ Versioned(lister[g], g)'
               /\ grs'[g] # None => g <= created' /\ Recording(grs'[g])
               /\ lister'[g] # None => g <= created'
    BY <1>1, <1>2, <1>4, <1>6, <2>1, <2>4 DEF IndInv, StoreOK, Versioned
  <2>6. gw'.gr # None => /\ gw'.pc # "idle" /\ gw'.key \in GRs /\ gw'.key <= created'
                         /\ Versioned(gw.gr, gw.key)'
    BY <1>1, <1>2, <1>4, <1>6, <2>4 DEF IndInv, StoreOK, Versioned
  <2> QED
    BY <1>4, <2>3, <2>5, <2>6 DEF IndInv, StoreOK
<1> QED
  BY <1>3, <1>5, <1>7 DEF IndInv

-----------------------------------------------------------------------------
(* The generate controller's worker. *)

(* What the frame of its steps leaves alone. *)
LEMMA GenerateFrame ==
    ASSUME IndInv, UNCHANGED generateFrame
    PROVE  /\ UNCHANGED target => ClusterOK'
           /\ faults' \in 0..MaxFaults => CountsOK'
           /\ CleanupOK'
           /\ UNCHANGED grs /\ (UNCHANGED gw \/ gw'.gr = None) => StoreOK'
           /\ UNCHANGED <<grs, gq>> /\ gw.pc # "idle" /\ gw'.pc # "idle" /\ gw'.key = gw.key
                /\ gw'.gr = gw.gr => StoreOK'
           /\ UNCHANGED <<lister, created>>
<1>1. UNCHANGED <<clusterVars, channel, lister, late, cq, cw, admissions, created, edits>>
  BY DEF generateFrame
<1>2. faults' \in 0..MaxFaults => CountsOK'
  BY <1>1 DEF IndInv, CountsOK
<1>3. UNCHANGED <<grs, gq>> /\ gw.pc # "idle" /\ gw'.pc # "idle" /\ gw'.key = gw.key
        /\ gw'.gr = gw.gr => StoreOK'
  BY <1>1 DEF IndInv, StoreOK, Versioned
<1> QED
  BY <1>1, <1>2, <1>3, Frames

(* Get: the worker takes the oldest key, and nothing of an earlier request with it. *)
LEMMA GenerateGetInv == ASSUME IndInv, GenerateGet PROVE IndInv'
<1> DEFINE k == Head(gq.queue)
           v == [GIdle EXCEPT !.pc = "sync", !.key = k]
<1>1. /\ gw' = v /\ gq' = Get(gq) /\ gw.pc = "idle" /\ gq.queue # <<>>
      /\ UNCHANGED <<generateFrame, target, grs, faults>>
  BY DEF GenerateGet
<1>2. gq \in WorkQueueType /\ QueueOK(gq, gw)
  BY DEF IndInv, GenerateOK
<1>3. k \in GRs
  BY <1>1, <1>2, GetFacts
<1> HIDE DEF k
<1>4. v \in GenerateWorkerType /\ v.pc = "sync" /\ v.key = k /\ v.gr = None
      /\ v.made = <<>>
  BY <1>3, RestingFacts
<1> HIDE DEF v
<1>5. Get(gq) \in WorkQueueType /\ QueueOK(Get(gq), v)
  BY <1>1, <1>2, <1>4, QueueGet DEF k
<1>6. GenerateOK'
  BY <1>1, <1>4, <1>5 DEF GenerateOK, Making
<1>7. faults' \in 0..MaxFaults
  BY <1>1 DEF IndInv, CountsOK
<1>8. ClusterOK' /\ CountsOK' /\ CleanupOK' /\ StoreOK'
  BY <1>1, <1>4, <1>7, GenerateFrame
<1> QED
  BY <1>6, <1>8 DEF IndInv

(* syncGenerateRequest: the worker goes on with the copy of the lister. *)
LEMMA GenerateSyncInv == ASSUME IndInv, GenerateSync PROVE IndInv'
<1>1. /\ gw.pc = "sync" /\ UNCHANGED <<generateFrame, gq, target, grs, faults>>
  BY DEF GenerateSync
<1>2. gq \in WorkQueueType /\ QueueOK(gq, gw) /\ gw \in GenerateWorkerType /\ gw.key \in GRs
  BY <1>1 DEF IndInv, GenerateOK, QueueOK
<1>3. faults' \in 0..MaxFaults
  BY <1>1 DEF IndInv, CountsOK
<1>4. ClusterOK' /\ CountsOK' /\ CleanupOK' /\ UNCHANGED <<lister, created>>
  BY <1>1, <1>3, GenerateFrame
<1>5. CASE lister[gw.key] = None \/ ~trigger
  <2>1. gw' = [gw EXCEPT !.pc = "err"]
    BY <1>5 DEF GenerateSync
  <2>2. /\ gw' \in GenerateWorkerType /\ gw'.pc = "err" /\ gw'.key = gw.key /\ gw'.gr = gw.gr
    BY <1>2, <2>1 DEF GenerateWorkerType
  <2>3. GenerateOK'
    BY <1>1, <1>2, <2>2, QueueKeep DEF GenerateOK, Making
  <2>4. StoreOK'
    BY <1>1, <2>2, GenerateFrame
  <2> QED
    BY <1>4, <2>3, <2>4 DEF IndInv
<1>6. CASE ~(lister[gw.key] = None \/ ~trigger)
  <2> DEFINE first == IF plister THEN 1 ELSE Len(Rules) + 1
             v == [gw EXCEPT !.pc = "apply", !.gr = lister[gw.key], !.rule = first]
  <2>1. gw' = v
    BY <1>6 DEF GenerateSync
  <2>2. lister[gw.key] \in GR
    BY <1>2, <1>6 DEF IndInv, StoreOK
  <2>3. first \in 1..(Len(Rules) + 1) /\ (first = 1 \/ first = Len(Rules) + 1)
    BY GenerateAssumption
  <2> HIDE DEF first
  <2>4. /\ v \in GenerateWorkerType /\ v.pc = "apply" /\ v.key = gw.key
        /\ v.gr = lister[gw.key] /\ v.rule = first /\ v.made = gw.made
    BY <1>2, <2>2, <2>3 DEF GenerateWorkerType
  <2> HIDE DEF v
  <2>5. gw.made = <<>>
    BY <1>1 DEF IndInv, GenerateOK, Making
  <2>6. Making(v)
    BY <2>3, <2>4, <2>5 DEF Making, OfRules
  <2>7. GenerateOK'
    BY <1>1, <1>2, <1>6, <2>1, <2>4, <2>6, QueueKeep DEF GenerateOK
  <2>8. StoreOK'
    <3>1. /\ gw'.pc # "idle" /\ gw'.key \in GRs /\ gw'.key <= created' /\ Versioned(gw.gr, gw.key)'
      BY <1>1, <1>2, <1>4, <1>6, <2>1, <2>4 DEF IndInv, StoreOK, Versioned
    <3> QED
      BY <1>1, <1>4, <3>1 DEF IndInv, StoreOK, Versioned
  <2> QED
    BY <1>4, <2>7, <2>8 DEF IndInv
<1> QED
  BY <1>5, <1>6

(* What the worker holds while it applies the rules. *)
LEMMA ApplyFacts ==
    ASSUME IndInv, gw.pc = "apply", gw.rule <= Len(Rules)
    PROVE  /\ gq \in WorkQueueType /\ QueueOK(gq, gw) /\ gw \in GenerateWorkerType /\ gw.gr # None
           /\ gw.rule \in 1..Len(Rules) /\ Rule \in RuleNames
           /\ OfRules(gw.made) /\ Len(gw.made) = gw.rule - 1
<1>1. /\ gq \in WorkQueueType /\ QueueOK(gq, gw) /\ gw \in GenerateWorkerType /\ gw.gr # None
      /\ OfRules(gw.made)
      /\ Len(gw.made) = gw.rule - 1 \/ (gw.made = <<>> /\ gw.rule = Len(Rules) + 1)
  BY DEF IndInv, GenerateOK, Making
<1>2. Len(Rules) \in Nat /\ DOMAIN Rules = 1..Len(Rules)
  BY GenerateAssumption
<1>3. gw.rule \in 1..(Len(Rules) + 1)
  BY <1>1 DEF GenerateWorkerType
<1>4. gw.rule \in 1..Len(Rules)
  BY <1>2, <1>3
<1>5. Rule \in RuleNames
  BY <1>2, <1>4 DEF Rule, RuleNames
<1> QED
  BY <1>1, <1>2, <1>4, <1>5

(* A rule that is done adds its entry at its own place of the list. *)
LEMMA RuleDoneInv ==
    ASSUME IndInv, gw.pc = "apply", gw.rule <= Len(Rules), NEW e \in {Rule, None}, RuleDone(e),
           UNCHANGED <<generateFrame, gq, grs, faults>>
    PROVE  CountsOK' /\ StoreOK' /\ GenerateOK' /\ CleanupOK'
<1> DEFINE m == Append(gw.made, e)
           n == gw.rule + 1
<1>1. /\ gq \in WorkQueueType /\ QueueOK(gq, gw) /\ gw \in GenerateWorkerType /\ gw.gr # None
      /\ gw.rule \in 1..Len(Rules) /\ Rule \in RuleNames
      /\ OfRules(gw.made) /\ Len(gw.made) = gw.rule - 1
  BY ApplyFacts
<1>2. gw.made \in Recorded
  BY <1>1 DEF GenerateWorkerType
<1>3. m \in Recorded /\ Len(m) = Len(gw.made) + 1
  BY <1>1, <1>2 DEF Recorded
<1>4. OfRules(m)
  <2>1. DOMAIN m = 1..gw.rule /\ DOMAIN gw.made = 1..(gw.rule - 1)
    BY <1>1, <1>2, <1>3 DEF Recorded
  <2>2. m[gw.rule] = e /\ \A i \in 1..(gw.rule - 1) : m[i] = gw.made[i]
    BY <1>1, <1>2 DEF Recorded
  <2>3. e \in {Rules[gw.rule], None}
    BY DEF Rule
  <2> HIDE DEF m
  <2>4. \A i \in 1..gw.rule : i = gw.rule \/ i \in 1..(gw.rule - 1)
    BY <1>1, GenerateAssumption
  <2> QED
    BY <1>1, <2>1, <2>2, <2>3, <2>4 DEF OfRules
<1>5. n \in 1..(Len(Rules) + 1) /\ Len(m) = n - 1
  <2>1. Len(Rules) \in Nat
    BY GenerateAssumption
  <2>2. gw.rule \in 1..Len(Rules) /\ Len(m) = (gw.rule - 1) + 1
    BY <1>1, <1>3
  <2> HIDE DEF m
  <2> QED
    BY <2>1, <2>2
<1>6. gw' = [gw EXCEPT !.rule = n, !.made = m]
  BY DEF RuleDone
<1> HIDE DEF m, n
<1>7. gw' \in GenerateWorkerType
  BY <1>1, <1>3, <1>5, <1>6 DEF GenerateWorkerType
<1>8. /\ gw'.pc = "apply" /\ gw'.key = gw.key /\ gw'.gr = gw.gr /\ gw'.rule = n /\ gw'.made = m
  BY <1>1, <1>6 DEF GenerateWorkerType
<1>9. Making(gw)'
  BY <1>4, <1>5, <1>8 DEF Making, OfRules
<1>10. QueueOK(gq', gw')
  BY <1>1, <1>8, QueueKeep
<1>11. GenerateOK'
  BY <1>1, <1>7, <1>8, <1>9, <1>10 DEF GenerateOK, QueueOK
<1>12. faults' \in 0..MaxFaults
  BY DEF IndInv, CountsOK
<1> QED
  BY <1>8, <1>11, <1>12, GenerateFrame

(* A rule that fails makes the worker forget what the rules before it have generated. *)
LEMMA RuleFailsInv ==
    ASSUME IndInv, gw.pc = "apply", gw.rule <= Len(Rules), RuleFails,
           UNCHANGED <<generateFrame, gq, grs>>, faults' \in 0..MaxFaults
    PROVE  IndInv'
<1>1. gq \in WorkQueueType /\ QueueOK(gq, gw) /\ gw \in GenerateWorkerType /\ gw.gr # None
  BY ApplyFacts
<1>2. <<>> \in Recorded
  BY DEF Recorded
<1>3. gw' = [gw EXCEPT !.pc = "failed", !.made = <<>>] /\ UNCHANGED target
  BY DEF RuleFails
<1>4. gw' \in GenerateWorkerType
  BY <1>1, <1>2, <1>3 DEF GenerateWorkerType
<1>5. gw'.pc = "failed" /\ gw'.key = gw.key /\ gw'.gr = gw.gr /\ gw'.made = <<>>
  BY <1>1, <1>3 DEF GenerateWorkerType
<1>6. QueueOK(gq', gw')
  BY <1>1, <1>5, QueueKeep
<1>7. GenerateOK'
  BY <1>1, <1>4, <1>5, <1>6 DEF GenerateOK, QueueOK, Making
<1>8. ClusterOK' /\ CountsOK' /\ CleanupOK' /\ StoreOK'
  BY <1>3, <1>5, GenerateFrame
<1> QED
  BY <1>7, <1>8 DEF IndInv

(* applyRule. *)
LEMMA ApplyRuleInv == ASSUME IndInv, ApplyRule PROVE IndInv'
<1>1. gw.pc = "apply" /\ gw.rule <= Len(Rules) /\ UNCHANGED <<generateFrame, gq, grs, faults>>
  BY DEF ApplyRule
<1>2. Rule \in RuleNames
  BY <1>1, ApplyFacts
<1>3. CASE \E e \in {Rule, None} :
               RuleDone(e) /\ target' \in {target, [target EXCEPT ![Rule] = "ours"]}
  <2>1. PICK e \in {Rule, None} :
            RuleDone(e) /\ target' \in {target, [target EXCEPT ![Rule] = "ours"]}
    BY <1>3
  <2>2. CountsOK' /\ StoreOK' /\ GenerateOK' /\ CleanupOK'
    BY <1>1, <2>1, RuleDoneInv
  <2>3. target' \in [RuleNames -> {"none", "ours", "foreign"}]
    BY <1>2, <2>1 DEF IndInv, ClusterOK
  <2>4. ClusterOK'
    BY <1>1, <2>3 DEF IndInv, ClusterOK, generateFrame, clusterVars
  <2> QED
    BY <2>2, <2>4 DEF IndInv
<1>4. CASE RuleFails
  <2>1. faults' \in 0..MaxFaults
    BY <1>1 DEF IndInv, CountsOK
  <2> QED
    BY <1>1, <1>4, <2>1, RuleFailsInv
<1> QED
  BY <1>3, <1>4 DEF ApplyRule

(* One more fault is within the bound. *)
LEMMA FaultsBound ==
    ASSUME IndInv, faults < MaxFaults, faults' = faults + 1
    PROVE  faults' \in 0..MaxFaults
BY GenerateAssumption DEF IndInv, CountsOK

(* applyRule fails at the API server. *)
LEMMA ApplyRuleFaultInv == ASSUME IndInv, ApplyRuleFault PROVE IndInv'
BY RuleFailsInv, FaultsBound DEF ApplyRuleFault

(* The worker gives up its request and keeps its key. *)
LEMMA GenerateRestInv ==
    ASSUME IndInv, NEW pc \in {"ok", "err"}, gw.pc # "idle",
           gw' = [GIdle EXCEPT !.pc = pc, !.key = gw.key], UNCHANGED <<generateFrame, gq, target>>
    PROVE  /\ GenerateOK' /\ ClusterOK' /\ CleanupOK'
           /\ faults' \in 0..MaxFaults => CountsOK'
           /\ UNCHANGED grs => StoreOK'
           /\ gw'.gr = None
<1>1. gq \in WorkQueueType /\ QueueOK(gq, gw) /\ gw.key \in GRs
  BY DEF IndInv, GenerateOK, QueueOK
<1>2. gw' \in GenerateWorkerType /\ gw'.pc = pc /\ gw'.key = gw.key /\ gw'.gr = None
  <2> DEFINE k == gw.key
             v == [GIdle EXCEPT !.pc = pc, !.key = k]
  <2>1. k \in GRs /\ pc \in {"sync", "ok", "err"} /\ gw' = v
    BY <1>1
  <2> HIDE DEF k
  <2>2. v \in GenerateWorkerType /\ v.pc = pc /\ v.key = k /\ v.gr = None
    BY <2>1, IdleFacts DEF GenerateWorkerType
  <2> QED
    BY <2>1, <2>2 DEF k
<1>3. QueueOK(gq', gw')
  BY <1>1, <1>2, QueueKeep
<1>4. GenerateOK'
  BY <1>1, <1>2, <1>3 DEF GenerateOK, QueueOK, Making
<1> QED
  BY <1>2, <1>4, GenerateFrame

(* A failed call of the API server. *)
LEMMA GenerateFaultInv == ASSUME IndInv, GenerateFault PROVE IndInv'
<1>1. gw.pc # "idle"
  BY DEF GenerateFault, Applied
<1>2. faults' \in 0..MaxFaults
  BY FaultsBound DEF GenerateFault
<1> QED
  BY <1>1, <1>2, GenerateRestInv DEF GenerateFault, IndInv

(* handleErr. *)
LEMMA GenerateHandleErrInv == ASSUME IndInv, GenerateHandleErr PROVE IndInv'
<1>1. /\ gw.pc # "idle" /\ gw' = GIdle /\ gq' = Handled(gq, gw.key, gw.pc = "ok")
      /\ UNCHANGED <<generateFrame, target, grs, faults>>
  BY DEF GenerateHandleErr
<1>2. gq \in WorkQueueType /\ QueueOK(gq, gw)
  BY DEF IndInv, GenerateOK
<1>3. /\ gw' \in GenerateWorkerType /\ gw'.pc = "idle" /\ gw'.gr = None
  BY <1>1, IdleFacts
<1>4. gq' \in WorkQueueType /\ QueueOK(gq', gw')
  BY <1>1, <1>2, <1>3, QueueHandled
<1>5. GenerateOK'
  BY <1>3, <1>4 DEF GenerateOK, QueueOK, Making
<1>6. faults' \in 0..MaxFaults
  BY <1>1 DEF IndInv, CountsOK
<1>7. ClusterOK' /\ CountsOK' /\ CleanupOK' /\ StoreOK'
  BY <1>1, <1>3, <1>6, GenerateFrame
<1> QED
  BY <1>5, <1>7 DEF IndInv

(* updateStatus: the version goes up, so that no copy of the request stays current but the
   one that was just written. *)
LEMMA GenerateStatusInv == ASSUME IndInv, GenerateStatus PROVE IndInv'
<1> DEFINE k == gw.key
           new == [gw.gr EXCEPT !.state = IF Applied THEN "Completed" ELSE "Failed",
                                !.generated = gw.made]
           st == IF new = grs[k] THEN grs[k] ELSE [new EXCEPT !.rv = @ + 1]
<1>1. /\ Applied \/ gw.pc = "failed"
      /\ UNCHANGED <<generateFrame, gq, target, faults>>
  BY DEF GenerateStatus
<1>2. gw.pc # "idle" /\ gw.pc \in {"apply", "failed"}
  BY <1>1 DEF Applied
<1>3. gw.gr \in GR /\ k \in GRs /\ k <= created /\ Versioned(gw.gr, k) /\ gw.made \in Recorded
  BY <1>2 DEF IndInv, StoreOK, GenerateOK, GenerateWorkerType
<1>4. faults' \in 0..MaxFaults
  BY <1>1 DEF IndInv, CountsOK
<1>5. CASE ~(grs[k] # None /\ grs[k].rv = gw.gr.rv)
  <2>1. gw' = [GIdle EXCEPT !.pc = "err", !.key = gw.key] /\ UNCHANGED grs
    BY <1>5 DEF GenerateStatus
  <2> QED
    BY <1>1, <1>2, <1>4, <2>1, GenerateRestInv DEF IndInv
<1>6. CASE grs[k] # None /\ grs[k].rv = gw.gr.rv
  <2>1. gw' = [GIdle EXCEPT !.pc = "ok", !.key = gw.key] /\ grs' = [grs EXCEPT ![k] = st]
    BY <1>6 DEF GenerateStatus
  <2>2. GenerateOK' /\ ClusterOK' /\ CleanupOK' /\ CountsOK' /\ gw'.gr = None
    BY <1>1, <1>2, <1>4, <2>1, GenerateRestInv
  <2>3. /\ new \in GR /\ new.generated = gw.made /\ new.rv = gw.gr.rv
        /\ new.state \in {"Completed", "Failed"} /\ (new.state = "Completed" => Applied)
    BY <1>3 DEF GR
  <2>4. Recording(new)
    <3>1. CASE Applied
      <4>1. /\ OfRules(gw.made)
            /\ Len(gw.made) = gw.rule - 1 \/ gw.made = <<>>
        BY <3>1 DEF Applied, IndInv, GenerateOK, Making
      <4>2. gw.rule = Len(Rules) + 1
        BY <3>1, GenerateAssumption DEF Applied, IndInv, GenerateOK, GenerateWorkerType
      <4>3. Len(gw.made) \in {0, Len(Rules)}
        BY <4>1, <4>2, GenerateAssumption
      <4>4. new.state = "Completed"
        BY <1>3, <3>1 DEF GR
      <4> QED
        BY <2>3, <4>1, <4>3, <4>4 DEF Recording
    <3>2. CASE ~Applied
      <4>1. gw.made = <<>>
        BY <1>1, <3>2 DEF IndInv, GenerateOK, Making
      <4> QED
        BY <2>3, <4>1 DEF Recording, OfRules
    <3> QED
      BY <3>1, <3>2
  <2> HIDE DEF new
  <2>5. /\ st \in GR /\ Recording(st)
        /\ st = grs[k] \/ st.rv = grs[k].rv + 1
    <3>1. CASE new = grs[k]
      BY <2>3, <2>4, <3>1
    <3>2. CASE new # grs[k]
      <4> DEFINE w == [new EXCEPT !.rv = @ + 1]
      <4>1. st = w
        BY <3>2
      <4>2. w \in GR /\ w.state = new.state /\ w.generated = new.generated /\ w.rv = new.rv + 1
        <5> HIDE DEF st
        <5> DEFINE n == new.rv + 1
        <5>1. new \in GR /\ n \in Nat /\ w = [new EXCEPT !.rv = n]
          <6>1. new.rv \in Nat
            BY <2>3 DEF GR
          <6>2. n \in Nat
            BY <6>1
          <6>3. w = [new EXCEPT !.rv = n]
            OBVIOUS
          <6> QED
            BY <2>3, <6>2, <6>3
        <5> HIDE DEF n, w
        <5>2. w \in GR /\ w.state = new.state /\ w.generated = new.generated /\ w.rv = n
          BY <5>1 DEF GR
        <5> QED
          BY <5>2 DEF n
      <4> HIDE DEF w, st
      <4> QED
        BY <1>6, <2>3, <2>4, <4>1, <4>2 DEF Recording
    <3> QED
      BY <3>1, <3>2
  <2> HIDE DEF st
  <2>6. grs' \in [GRs -> GR \cup {None}] /\ UNCHANGED <<lister, created>>
    BY <1>1, <1>3, <2>1, <2>5 DEF IndInv, StoreOK, generateFrame
  <2>7. StoreOK'
    <3>1. ASSUME NEW g \in GRs
          PROVE  /\ Versioned(lister[g], g)'
                 /\ grs'[g] # None => g <= created' /\ Recording(grs'[g])
                 /\ lister'[g] # None => g <= created'
      <4>1. CASE g # k
        <5>1. grs'[g] = grs[g]
          BY <1>3, <2>1, <4>1 DEF IndInv, StoreOK
        <5> QED
          BY <2>6, <5>1 DEF IndInv, StoreOK, Versioned
      <4>2. CASE g = k
        <5>1. grs'[k] = st
          BY <1>3, <2>1 DEF IndInv, StoreOK
        <5>2. lister[k] \in GR \cup {None} /\ grs[k] \in GR /\ Versioned(lister[k], k)
          BY <1>3, <1>6 DEF IndInv, StoreOK
        <5>3. lister[k] # None => lister[k].rv <= st.rv /\ (lister[k].rv = st.rv => lister[k] = st)
          <6>1. SUFFICES ASSUME lister[k] # None
                PROVE  lister[k].rv <= st.rv /\ (lister[k].rv = st.rv => lister[k] = st)
            OBVIOUS
          <6>2. lister[k].rv \in Nat /\ grs[k].rv \in Nat
            BY <5>2, <6>1 DEF GR
          <6>3. /\ lister[k].rv <= grs[k].rv
                /\ lister[k].rv = grs[k].rv => lister[k] = grs[k]
            BY <1>6, <5>2, <6>1 DEF Versioned
          <6> QED
            BY <2>5, <6>2, <6>3
        <5>4. lister[k] # None => k <= created
          BY <1>3 DEF IndInv, StoreOK
        <5> QED
          BY <1>3, <2>5, <2>6, <4>2, <5>1, <5>3, <5>4 DEF Versioned
      <4> QED
        BY <4>1, <4>2
    <3> QED
      BY <2>2, <2>6, <3>1 DEF IndInv, StoreOK
  <2> QED
    BY <2>2, <2>7 DEF IndInv
<1> QED
  BY <1>5, <1>6

-----------------------------------------------------------------------------
(* The clean-up controller's worker. *)

(* What the frame of its steps leaves alone. *)
LEMMA CleanupFrame ==
    ASSUME IndInv, UNCHANGED cleanupFrame
    PROVE  /\ UNCHANGED target => ClusterOK'
           /\ target' \in [RuleNames -> {"none", "ours", "foreign"}] => ClusterOK'
           /\ UNCHANGED faults => CountsOK'
           /\ faults' \in 0..MaxFaults => CountsOK'
           /\ GenerateOK'
           /\ UNCHANGED grs => StoreOK'
<1>1. UNCHANGED <<clusterVars, channel, lister, late, gq, gw, admissions, created, edits>>
  BY DEF cleanupFrame
<1>2. faults' \in 0..MaxFaults => CountsOK'
  BY <1>1 DEF IndInv, CountsOK
<1>3. UNCHANGED faults => CountsOK'
  BY <1>1 DEF IndInv, CountsOK
<1>4. target' \in [RuleNames -> {"none", "ours", "foreign"}] => ClusterOK'
  BY <1>1 DEF IndInv, ClusterOK, clusterVars
<1> QED
  BY <1>1, <1>2, <1>3, <1>4, Frames

(* Get: the worker takes the oldest key. *)
LEMMA CleanupGetInv == ASSUME IndInv, CleanupGet PROVE IndInv'
<1> DEFINE k == Head(cq.queue)
           v == [CIdle EXCEPT !.pc = "sync", !.key = k]
<1>1. /\ cw' = v /\ cq' = Get(cq) /\ cw.pc = "idle" /\ cq.queue # <<>>
      /\ UNCHANGED <<cleanupFrame, target, grs, faults>>
  BY DEF CleanupGet
<1>2. cq \in WorkQueueType /\ QueueOK(cq, cw)
  BY DEF IndInv, CleanupOK
<1>3. k \in GRs
  BY <1>1, <1>2, GetFacts
<1> HIDE DEF k
<1>4. v \in CleanupWorkerType /\ v.pc = "sync" /\ v.key = k
  BY <1>3, RestingFacts
<1> HIDE DEF v
<1>5. Get(cq) \in WorkQueueType /\ QueueOK(Get(cq), v)
  BY <1>1, <1>2, <1>4, QueueGet DEF k
<1>6. CleanupOK'
  BY <1>1, <1>4, <1>5 DEF CleanupOK
<1>7. ClusterOK' /\ CountsOK' /\ GenerateOK' /\ StoreOK'
  BY <1>1, CleanupFrame
<1> QED
  BY <1>6, <1>7 DEF IndInv

(* A step of the worker that keeps its key. *)
LEMMA CleanupStepOK ==
    ASSUME IndInv, cw.pc # "idle", UNCHANGED cq,
           NEW pc \in {"delete", "ok", "err"}, NEW todo \in Recorded,
           cw' = [cw EXCEPT !.pc = pc, !.todo = todo]
    PROVE  CleanupOK'
<1>1. cq \in WorkQueueType /\ QueueOK(cq, cw) /\ cw \in CleanupWorkerType
  BY DEF IndInv, CleanupOK
<1>2. cw' \in CleanupWorkerType
  BY <1>1 DEF CleanupWorkerType
<1>3. cw'.pc # "idle" /\ cw'.key = cw.key
  BY <1>1 DEF CleanupWorkerType
<1>4. QueueOK(cq', cw')
  BY <1>1, <1>3, QueueKeep
<1> QED
  BY <1>1, <1>2, <1>4 DEF CleanupOK, QueueOK

(* syncGenerateRequest and processGR, whatever the look-up of the trigger finds. *)
LEMMA CleanupSyncInv == ASSUME IndInv, CleanupSync \/ CleanupSyncFault PROVE IndInv'
<1>1. /\ cw.pc = "sync" /\ UNCHANGED <<cleanupFrame, cq, target, grs>>
      /\ \E found \in BOOLEAN : cw' = CleanupDecision(found)
  BY DEF CleanupSync, CleanupSyncFault, IndInv, ClusterOK
<1>2. PICK found \in BOOLEAN : cw' = CleanupDecision(found)
  BY <1>1
<1>3. CountsOK'
  <2>1. CASE CleanupSync
    BY <2>1, CleanupFrame DEF CleanupSync
  <2>2. CASE CleanupSyncFault
    BY <2>2, CleanupFrame, FaultsBound DEF CleanupSyncFault
  <2> QED
    BY <2>1, <2>2
<1>4. cw \in CleanupWorkerType /\ cw.key \in GRs /\ cw.todo \in Recorded
  BY <1>1 DEF IndInv, CleanupOK, QueueOK, CleanupWorkerType
<1>5. \E pc \in {"delete", "ok", "err"}, todo \in Recorded :
          cw' = [cw EXCEPT !.pc = pc, !.todo = todo]
  <2>1. CASE \E pc \in {"delete", "ok", "err"} : cw' = [cw EXCEPT !.pc = pc]
    <3>1. PICK pc \in {"delete", "ok", "err"} : cw' = [cw EXCEPT !.pc = pc]
      BY <2>1
    <3>2. [cw EXCEPT !.pc = pc] = [cw EXCEPT !.pc = pc, !.todo = cw.todo]
      BY <1>4 DEF CleanupWorkerType
    <3> QED
      BY <1>4, <3>1, <3>2
  <2>2. CASE /\ lister[cw.key] # None
             /\ cw' = [cw EXCEPT !.pc = "delete", !.todo = lister[cw.key].generated]
    <3>1. lister[cw.key].generated \in Recorded
      BY <1>4, <2>2 DEF IndInv, StoreOK, GR
    <3> QED
      BY <2>2, <3>1
  <2> QED
    BY <1>2, <2>1, <2>2 DEF CleanupDecision
<1>6. CleanupOK'
  BY <1>1, <1>5, CleanupStepOK
<1>7. ClusterOK' /\ GenerateOK' /\ StoreOK'
  BY <1>1, CleanupFrame
<1> QED
  BY <1>3, <1>6, <1>7 DEF IndInv

(* A failed deletion ends the work on the request. *)
LEMMA CleanupFailsOK ==
    ASSUME IndInv, cw.pc # "idle", UNCHANGED cq, CleanupFails
    PROVE  CleanupOK'
<1> DEFINE k == cw.key
           v == [CIdle EXCEPT !.pc = "err", !.key = k]
<1>1. cq \in WorkQueueType /\ QueueOK(cq, cw) /\ k \in GRs
  BY DEF IndInv, CleanupOK, QueueOK
<1>2. cw' = v
  BY DEF CleanupFails
<1> HIDE DEF k
<1>3. v \in CleanupWorkerType /\ v.pc = "err" /\ v.key = k
  BY <1>1, RestingFacts
<1> HIDE DEF v
<1>4. QueueOK(cq', cw')
  BY <1>1, <1>2, <1>3, QueueKeep DEF k
<1> QED
  BY <1>1, <1>2, <1>3, <1>4 DEF CleanupOK, QueueOK

(* deleteGeneratedResources. *)
LEMMA DeleteGeneratedInv == ASSUME IndInv, DeleteGenerated PROVE IndInv'
<1>1. /\ cw.pc = "delete" /\ cw.todo # <<>> /\ UNCHANGED <<cleanupFrame, cq, grs, faults>>
  BY DEF DeleteGenerated
<1>2. cw.todo \in Recorded /\ cw \in CleanupWorkerType
  BY DEF IndInv, CleanupOK, CleanupWorkerType
<1>3. Head(cw.todo) \in RuleNames \cup {None} /\ Tail(cw.todo) \in Recorded
  BY <1>1, <1>2 DEF Recorded
<1>4. CountsOK' /\ GenerateOK' /\ StoreOK'
  BY <1>1, CleanupFrame
<1>5. CASE Head(cw.todo) = None
  <2>1. CleanupFails /\ UNCHANGED target
    BY <1>5 DEF DeleteGenerated
  <2> QED
    BY <1>1, <1>4, <2>1, CleanupFailsOK, CleanupFrame DEF IndInv
<1>6. CASE Head(cw.todo) # None
  <2> DEFINE r == Head(cw.todo)
             t == Tail(cw.todo)
  <2>1. cw' = [cw EXCEPT !.todo = t] /\ target' = [target EXCEPT ![r] = "none"]
    BY <1>6 DEF DeleteGenerated
  <2>2. r \in RuleNames /\ t \in Recorded
    BY <1>3, <1>6
  <2> HIDE DEF r, t
  <2>3. cw' = [cw EXCEPT !.pc = "delete", !.todo = t]
    BY <1>1, <1>2, <2>1 DEF CleanupWorkerType
  <2>4. CleanupOK'
    BY <1>1, <2>2, <2>3, CleanupStepOK
  <2>5. target' \in [RuleNames -> {"none", "ours", "foreign"}]
    BY <2>1, <2>2 DEF IndInv, ClusterOK
  <2>6. ClusterOK'
    BY <1>1, <2>5, CleanupFrame
  <2> QED
    BY <1>4, <2>4, <2>6 DEF IndInv
<1> QED
  BY <1>5, <1>6

(* A request that is deleted leaves its copies without a newer version. *)
LEMMA DeleteGRInv == ASSUME IndInv, DeleteGR PROVE IndInv'
<1> DEFINE pc == IF grs[cw.key] = None THEN "err" ELSE "ok"
<1>1. /\ cw.pc = "delete" /\ cw.todo = <<>> /\ cw' = [cw EXCEPT !.pc = pc]
      /\ grs' = [grs EXCEPT ![cw.key] = None] /\ UNCHANGED <<cleanupFrame, cq, target, faults>>
  BY DEF DeleteGR
<1>2. cw \in CleanupWorkerType /\ cw.todo \in Recorded
  BY DEF IndInv, CleanupOK, CleanupWorkerType
<1>3. pc \in {"delete", "ok", "err"}
  OBVIOUS
<1> HIDE DEF pc
<1>4. cw' = [cw EXCEPT !.pc = pc, !.todo = cw.todo]
  BY <1>1, <1>2 DEF CleanupWorkerType
<1>5. CleanupOK'
  BY <1>1, <1>2, <1>3, <1>4, CleanupStepOK
<1>6. ClusterOK' /\ CountsOK' /\ GenerateOK'
  BY <1>1, CleanupFrame
<1>7. StoreOK'
  <2>1. \A g \in GRs : grs'[g] = grs[g] \/ grs'[g] = None
    BY <1>1 DEF IndInv, StoreOK
  <2>2. grs' \in [GRs -> GR \cup {None}] /\ UNCHANGED <<lister, created, gw>>
    BY <1>1 DEF IndInv, StoreOK, cleanupFrame
  <2> QED
    BY <2>1, <2>2 DEF IndInv, StoreOK, Versioned
<1> QED
  BY <1>5, <1>6, <1>7 DEF IndInv

(* The API server fails to delete. *)
LEMMA DeleteFaultInv == ASSUME IndInv, DeleteFault PROVE IndInv'
<1>1. /\ cw.pc # "idle" /\ CleanupFails /\ UNCHANGED <<cleanupFrame, cq, target, grs>>
      /\ faults' \in 0..MaxFaults
  BY FaultsBound DEF DeleteFault
<1> QED
  BY <1>1, CleanupFailsOK, CleanupFrame DEF IndInv

(* handleErr. *)
LEMMA CleanupHandleErrInv == ASSUME IndInv, CleanupHandleErr PROVE IndInv'
<1>1. /\ cw.pc # "idle" /\ cw' = CIdle /\ cq' = Handled(cq, cw.key, cw.pc = "ok")
      /\ UNCHANGED <<cleanupFrame, target, grs, faults>>
  BY DEF CleanupHandleErr
<1>2. cq \in WorkQueueType /\ QueueOK(cq, cw)
  BY DEF IndInv, CleanupOK
<1>3. /\ cw' \in CleanupWorkerType /\ cw'.pc = "idle"
  BY <1>1, IdleFacts
<1>4. cq' \in WorkQueueType /\ QueueOK(cq', cw')
  BY <1>1, <1>2, <1>3, QueueHandled
<1>5. CleanupOK'
  BY <1>3, <1>4 DEF CleanupOK, QueueOK
<1> QED
  BY <1>1, <1>5, CleanupFrame DEF IndInv

-----------------------------------------------------------------------------
(* Informers and their handlers. *)

(* What a handler of an informer leaves alone: everything but the listers and the queues. *)
LEMMA InformerFrame ==
    ASSUME IndInv, UNCHANGED informerFrame
    PROVE  /\ plister' \in BOOLEAN => ClusterOK'
           /\ UNCHANGED plister => ClusterOK'
           /\ CountsOK'
           /\ UNCHANGED lister => StoreOK'
           /\ gq' \in WorkQueueType /\ QueueOK(gq', gw) => GenerateOK'
           /\ cq' \in WorkQueueType /\ QueueOK(cq', cw) => CleanupOK'
           /\ UNCHANGED gq => GenerateOK'
           /\ UNCHANGED cq => CleanupOK'
<1>1. UNCHANGED <<trigger, asked, policy, newer, source, target, channel, grs, late, gw, cw,
                  admissions, created, edits, faults>>
  BY DEF informerFrame, bounds
<1>2. plister' \in BOOLEAN => ClusterOK'
  BY <1>1 DEF IndInv, ClusterOK
<1>3. gq' \in WorkQueueType /\ QueueOK(gq', gw) => GenerateOK'
  BY <1>1 DEF IndInv, GenerateOK, QueueOK
<1>4. cq' \in WorkQueueType /\ QueueOK(cq', cw) => CleanupOK'
  BY <1>1 DEF IndInv, CleanupOK, QueueOK
<1>5. plister \in BOOLEAN
  BY DEF IndInv, ClusterOK
<1> QED
  BY <1>1, <1>2, <1>3, <1>4, <1>5, Frames

(* The two queues as the invariant leaves them. *)
LEMMA Queues ==
    ASSUME IndInv
    PROVE  /\ gq \in WorkQueueType /\ QueueOK(gq, gw)
           /\ cq \in WorkQueueType /\ QueueOK(cq, cw)
           /\ Listed \in SUBSET GRs
BY DEF IndInv, GenerateOK, CleanupOK, Listed

(* addGR, updateGR and deleteGR: the lister takes over what is stored. *)
LEMMA InformerSyncInv == ASSUME IndInv, NEW g \in GRs, InformerSync(g) PROVE IndInv'
<1>1. /\ lister' = [lister EXCEPT ![g] = grs[g]] /\ gq' \in {gq, Add(gq, g)} /\ cq' = Add(cq, g)
      /\ UNCHANGED informerFrame /\ UNCHANGED plister
  BY DEF InformerSync
<1>2. gq' \in WorkQueueType /\ QueueOK(gq', gw) /\ cq' \in WorkQueueType /\ QueueOK(cq', cw)
  BY <1>1, Queues, QueueOne
<1>3. ClusterOK' /\ CountsOK' /\ GenerateOK' /\ CleanupOK'
  BY <1>1, <1>2, InformerFrame
<1>4. StoreOK'
  <2>1. lister' \in [GRs -> GR \cup {None}]
    BY <1>1 DEF IndInv, StoreOK
  <2>2. \A h \in GRs : lister'[h] = lister[h] \/ lister'[h] = grs[h]
    BY <1>1 DEF IndInv, StoreOK
  <2>3. UNCHANGED <<grs, gw, created>>
    BY <1>1 DEF informerFrame, bounds
  <2>4. \A h \in GRs : grs[h] # None => grs[h].rv \in Nat
    BY DEF IndInv, StoreOK, GR
  <2>5. \A h \in GRs : Versioned(grs[h], h)
    BY <2>4 DEF Versioned
  <2> QED
    BY <2>1, <2>2, <2>3, <2>5 DEF IndInv, StoreOK, Versioned
<1> QED
  BY <1>3, <1>4 DEF IndInv

(* Resyncs and updates of a watched trigger queue what is listed. *)
LEMMA ResyncInv ==
    ASSUME IndInv, (\E g \in GRs : Resync(g)) \/ UpdateTrigger
    PROVE  IndInv'
<1>1. CASE \E g \in GRs : Resync(g)
  <2>1. PICK g \in GRs : Resync(g)
    BY <1>1
  <2>2. cq' = Add(cq, g) /\ UNCHANGED informerFrame /\ UNCHANGED <<plister, lister, gq>>
    BY <2>1 DEF Resync
  <2>3. cq' \in WorkQueueType /\ QueueOK(cq', cw)
    BY <2>2, Queues, QueueOne
  <2> QED
    BY <2>2, <2>3, InformerFrame DEF IndInv
<1>2. CASE UpdateTrigger
  <2>1. gq' = AddAll(gq, Listed) /\ UNCHANGED informerFrame /\ UNCHANGED <<plister, lister, cq>>
    BY <1>2 DEF UpdateTrigger
  <2>2. gq' \in WorkQueueType /\ QueueOK(gq', gw)
    BY <2>1, Queues, QueueAll
  <2> QED
    BY <2>1, <2>2, InformerFrame DEF IndInv
<1> QED
  BY <1>1, <1>2

(* deletePolicy of the clean-up controller. *)
LEMMA PolicySyncInv == ASSUME IndInv, PolicySync PROVE IndInv'
<1>1. /\ plister' = policy /\ cq' = AddAll(cq, Listed)
      /\ UNCHANGED informerFrame /\ UNCHANGED <<lister, gq>>
  BY DEF PolicySync
<1>2. plister' \in BOOLEAN
  BY <1>1 DEF IndInv, ClusterOK
<1>3. cq' \in WorkQueueType /\ QueueOK(cq', cw)
  BY <1>1, Queues, QueueAll
<1> QED
  BY <1>1, <1>2, <1>3, InformerFrame DEF IndInv

-----------------------------------------------------------------------------
(* Users, time and crashes. *)

(* What the steps of users leave alone. *)
LEMMA UserFrame ==
    ASSUME IndInv, UNCHANGED userFrame
    PROVE  /\ edits < MaxEdits /\ edits' = edits + 1 => CountsOK'
           /\ UNCHANGED edits => CountsOK'
           /\ StoreOK'
           /\ gq' \in WorkQueueType /\ QueueOK(gq', gw) => GenerateOK'
           /\ cq' \in WorkQueueType /\ QueueOK(cq', cw) => CleanupOK'
           /\ UNCHANGED gq => GenerateOK'
           /\ UNCHANGED cq => CleanupOK'
           /\ UNCHANGED <<asked, plister>>
<1>1. UNCHANGED <<asked, plister, channel, grs, lister, gw, cw, admissions, created, faults>>
  BY DEF userFrame
<1>2. ASSUME edits < MaxEdits, edits' = edits + 1 PROVE CountsOK'
  <2>1. edits' \in 0..MaxEdits
    BY <1>2, GenerateAssumption DEF IndInv, CountsOK
  <2> QED
    BY <1>1, <2>1 DEF IndInv, CountsOK
<1>3. gq' \in WorkQueueType /\ QueueOK(gq', gw) => GenerateOK'
  BY <1>1 DEF IndInv, GenerateOK, QueueOK
<1>4. cq' \in WorkQueueType /\ QueueOK(cq', cw) => CleanupOK'
  BY <1>1 DEF IndInv, CleanupOK, QueueOK
<1> QED
  BY <1>1, <1>2, <1>3, <1>4, Frames

(* deleteGenericResource and updatePolicy queue what is listed. *)
LEMMA UserQueueInv == ASSUME IndInv, DeleteTrigger \/ UpdatePolicy PROVE IndInv'
<1>1. CASE DeleteTrigger
  <2>1. /\ edits < MaxEdits /\ edits' = edits + 1 /\ trigger' = FALSE
        /\ cq' \in {cq, AddAll(cq, Listed)}
        /\ UNCHANGED userFrame /\ UNCHANGED <<policy, newer, source, target, late, gq>>
    BY <1>1 DEF DeleteTrigger
  <2>2. cq' \in WorkQueueType /\ QueueOK(cq', cw)
    BY <2>1, Queues, QueueAll
  <2>3. ClusterOK'
    BY <2>1, UserFrame DEF IndInv, ClusterOK
  <2> QED
    BY <2>1, <2>2, <2>3, UserFrame DEF IndInv
<1>2. CASE UpdatePolicy
  <2>1. /\ edits < MaxEdits /\ edits' = edits + 1 /\ newer' \in {newer, trigger}
        /\ gq' = AddAll(gq, Listed)
        /\ UNCHANGED userFrame /\ UNCHANGED <<trigger, policy, source, target, late, cq>>
    BY <1>2 DEF UpdatePolicy
  <2>2. gq' \in WorkQueueType /\ QueueOK(gq', gw)
    BY <2>1, Queues, QueueAll
  <2>3. ClusterOK'
    BY <2>1, UserFrame DEF IndInv, ClusterOK
  <2> QED
    BY <2>1, <2>2, <2>3, UserFrame DEF IndInv
<1> QED
  BY <1>1, <1>2

(* What no controller sees at once: a deleted policy, a changed object, the time. *)
LEMMA UserQuietInv ==
    ASSUME IndInv,
           \/ DeletePolicy \/ (\E g \in GRs : TimeOut(g))
           \/ \E r \in RuleNames : ChangeTarget(r, "none") \/ ChangeTarget(r, "foreign")
    PROVE  IndInv'
<1>1. CASE DeletePolicy
  <2>1. /\ edits < MaxEdits /\ edits' = edits + 1 /\ policy' = FALSE
        /\ UNCHANGED userFrame /\ UNCHANGED <<trigger, newer, source, target, late, gq, cq>>
    BY <1>1 DEF DeletePolicy
  <2>2. ClusterOK'
    BY <2>1, UserFrame DEF IndInv, ClusterOK
  <2> QED
    BY <2>1, <2>2, UserFrame DEF IndInv
<1>2. CASE \E g \in GRs : TimeOut(g)
  <2>1. PICK g \in GRs : TimeOut(g)
    BY <1>2
  <2>2. /\ late' = late \cup {g} /\ UNCHANGED userFrame
        /\ UNCHANGED <<trigger, policy, newer, source, target, gq, cq, edits>>
    BY <2>1 DEF TimeOut
  <2>3. ClusterOK'
    BY <2>2, UserFrame DEF IndInv, ClusterOK
  <2> QED
    BY <2>2, <2>3, UserFrame DEF IndInv
<1>3. CASE \E r \in RuleNames : ChangeTarget(r, "none") \/ ChangeTarget(r, "foreign")
  <2>1. PICK r \in RuleNames, t \in {"none", "foreign"} : ChangeTarget(r, t)
    BY <1>3
  <2>2. /\ edits < MaxEdits /\ edits' = edits + 1 /\ target' = [target EXCEPT ![r] = t]
        /\ UNCHANGED userFrame /\ UNCHANGED <<trigger, policy, newer, source, late, gq, cq>>
    BY <2>1 DEF ChangeTarget
  <2>3. target' \in [RuleNames -> {"none", "ours", "foreign"}]
    BY <2>2 DEF IndInv, ClusterOK
  <2>4. ClusterOK'
    BY <2>2, <2>3, UserFrame DEF IndInv, ClusterOK
  <2> QED
    BY <2>2, <2>4, UserFrame DEF IndInv
<1> QED
  BY <1>1, <1>2, <1>3

(* A restart begins with idle workers and queues that hold every stored request. *)
LEMMA RestartInv == ASSUME IndInv, Restart PROVE IndInv'
<1> DEFINE S == {g \in GRs : grs[g] # None}
           q == AddAll(EmptyQueue, S)
<1>1. /\ faults < MaxFaults /\ faults' = faults + 1 /\ channel' = 0
      /\ plister' = policy /\ lister' = grs /\ gw' = GIdle /\ cw' = CIdle
      /\ gq' = q /\ cq' = q
      /\ UNCHANGED <<trigger, asked, policy, newer, source, target, grs, late,
                     admissions, created, edits>>
  BY DEF Restart
<1>2. /\ q \in WorkQueueType /\ QueueOK(q, GIdle) /\ QueueOK(q, CIdle)
  <2>1. S \in SUBSET GRs
    OBVIOUS
  <2>2. /\ EmptyQueue \in WorkQueueType /\ QueueOK(EmptyQueue, GIdle)
        /\ QueueOK(EmptyQueue, CIdle)
    BY QueueNew, IdleFacts
  <2> HIDE DEF S
  <2> QED
    BY <2>1, <2>2, QueueAll
<1> HIDE DEF q
<1>3. ClusterOK'
  BY <1>1 DEF IndInv, ClusterOK
<1>4. CountsOK'
  <2>1. faults' \in 0..MaxFaults
    BY <1>1, FaultsBound
  <2>2. channel' \in 0..ChannelSize /\ channel' + created <= admissions
    BY <1>1, GenerateAssumption DEF IndInv, CountsOK
  <2> QED
    BY <1>1, <2>1, <2>2 DEF IndInv, CountsOK
<1>5. StoreOK'
  <2>1. \A g \in GRs : grs[g] # None => grs[g].rv \in Nat
    BY DEF IndInv, StoreOK, GR
  <2>2. gw'.gr = None
    BY <1>1, IdleFacts
  <2> QED
    BY <1>1, <2>1, <2>2 DEF IndInv, StoreOK, Versioned
<1>6. GenerateOK'
  BY <1>1, <1>2, IdleFacts DEF GenerateOK, Making
<1>7. CleanupOK'
  BY <1>1, <1>2, IdleFacts DEF CleanupOK
<1> QED
  BY <1>3, <1>4, <1>5, <1>6, <1>7 DEF IndInv

-----------------------------------------------------------------------------
(* Theorems. *)

(* Every step keeps the inductive invariant. *)
LEMMA NextInv == ASSUME IndInv, [Next]_vars PROVE IndInv'
<1>1. CASE HandleGenerate \/ StoreTrigger \/ CreateGR \/ CreateGRFault
  BY <1>1, TriggerInv, CreateInv
<1>2. CASE GenerateWorker
  BY <1>2, GenerateGetInv, GenerateSyncInv, ApplyRuleInv, ApplyRuleFaultInv, GenerateStatusInv,
     GenerateFaultInv, GenerateHandleErrInv DEF GenerateWorker
<1>3. CASE CleanupWorker
  BY <1>3, CleanupGetInv, CleanupSyncInv, DeleteGeneratedInv, DeleteGRInv, DeleteFaultInv,
     CleanupHandleErrInv DEF CleanupWorker
<1>4. CASE \E g \in GRs : InformerSync(g) \/ Resync(g) \/ TimeOut(g)
  BY <1>4, InformerSyncInv, ResyncInv, UserQuietInv
<1>5. CASE UpdateTrigger \/ PolicySync
  BY <1>5, ResyncInv, PolicySyncInv
<1>6. CASE DeleteTrigger \/ DeletePolicy \/ UpdatePolicy \/ Restart
  BY <1>6, UserQueueInv, UserQuietInv, RestartInv
<1>7. CASE \E r \in RuleNames : ChangeTarget(r, "none") \/ ChangeTarget(r, "foreign")
  BY <1>7, UserQuietInv
<1>8. CASE UNCHANGED vars
  <2>1. UNCHANGED <<clusterVars, target, late, channel, admissions, created, edits, faults,
                    grs, lister, gw, gq, cq, cw>>
    BY <1>8 DEF vars, bounds
  <2> QED
    BY <2>1, Frames DEF IndInv
<1> QED
  BY <1>1, <1>2, <1>3, <1>4, <1>5, <1>6, <1>7, <1>8 DEF Next

(* The inductive invariant. *)
THEOREM Inductive == Spec => []IndInv
<1>1. Init => IndInv
  BY InitInv
<1>2. IndInv /\ [Next]_vars => IndInv'
  BY NextInv
<1> QED
  BY <1>1, <1>2, PTL DEF Spec

(* Every variable keeps its type: above all, a worker that is applying rules or recording a
   failure has the request it does so for. *)
THEOREM TypeCorrect == Spec => []TypeOK
<1>1. IndInv => TypeOK
  BY DEF IndInv, ClusterOK, CountsOK, StoreOK, GenerateOK, CleanupOK, TypeOK
<1> QED
  BY <1>1, Inductive, PTL

\* A key that is to be processed is in the queue or with the worker, on every path through
\* handleErr, restarts included, and no key is retried more than MaxRetries times in a row.
KeysServed ==
    /\ \A g \in gq.dirty :
           (\E i \in DOMAIN gq.queue : gq.queue[i] = g) \/ (gw.pc # "idle" /\ gw.key = g)
    /\ \A g \in cq.dirty :
           (\E i \in DOMAIN cq.queue : cq.queue[i] = g) \/ (cw.pc # "idle" /\ cw.key = g)
    /\ \A g \in GRs : gq.requeues[g] <= MaxRetries /\ cq.requeues[g] <= MaxRetries

(* Neither controller of pkg/generate loses a key or retries one for ever. *)
THEOREM QueuesServed == Spec => []KeysServed
<1>1. ASSUME NEW q \in WorkQueueType, NEW w, QueueOK(q, w), NEW g \in q.dirty
      PROVE  (\E i \in DOMAIN q.queue : q.queue[i] = g) \/ (w.pc # "idle" /\ w.key = g)
  <2>1. CASE g \in q.processing
    BY <1>1, <2>1 DEF QueueOK
  <2>2. CASE g \notin q.processing
    <3>1. g \in {q.queue[i] : i \in DOMAIN q.queue}
      BY <1>1, <2>2 DEF QueueOK, Consistent
    <3> QED
      BY <3>1
  <2> QED
    BY <2>1, <2>2
<1>2. IndInv => KeysServed
  <2> SUFFICES ASSUME IndInv PROVE KeysServed
    OBVIOUS
  <2>1. /\ gq \in WorkQueueType /\ QueueOK(gq, gw) /\ cq \in WorkQueueType /\ QueueOK(cq, cw)
    BY Queues
  <2>2. \A g \in GRs : gq.requeues[g] <= MaxRetries /\ cq.requeues[g] <= MaxRetries
    BY <2>1 DEF QueueOK
  <2> QED
    BY <1>1, <2>1, <2>2 DEF KeysServed
<1> QED
  BY <1>2, Inductive, PTL

\* A completed request lists an entry for every rule of the policy, or for none when the
\* policy was gone, each entry at its rule's place; any other request lists nothing.
RecordsMatchRules == \A g \in GRs : grs[g] # None => Recording(grs[g])

(* The clean-up controller reads from a request what the generate controller means to have
   made: never the part of the rules that came before a failure. *)
THEOREM RecordsAreWhole == Spec => []RecordsMatchRules
<1>1. IndInv => RecordsMatchRules
  BY DEF IndInv, StoreOK, RecordsMatchRules
<1> QED
  BY <1>1, Inductive, PTL

\* The status of a request is written over the very version the worker worked from, and the
\* version goes up: updateStatus never overwrites what it has not seen.
StatusNotBlind ==
    \A g \in GRs : (grs[g] # None /\ grs'[g] # None /\ grs'[g] # grs[g]) =>
        gw.key = g /\ gw.gr = grs[g] /\ grs'[g].rv = grs[g].rv + 1

(* No update of a request is blind, though informers, both controllers and restarts
   interleave with the read of the lister and the write. *)
THEOREM UpdatesNotBlind == Spec => [][StatusNotBlind]_vars
<1>1. ASSUME IndInv, Next PROVE StatusNotBlind
  <2> SUFFICES ASSUME NEW g \in GRs, grs[g] # None, grs'[g] # None, grs'[g] # grs[g]
               PROVE  gw.key = g /\ gw.gr = grs[g] /\ grs'[g].rv = grs[g].rv + 1
    BY DEF StatusNotBlind
  <2>0. grs \in [GRs -> GR \cup {None}]
    BY <1>1 DEF IndInv, StoreOK
  <2>1. CASE CreateGR
    <3>1. grs' = [grs EXCEPT ![created + 1] = [state |-> "", generated |-> <<>>, rv |-> 1]]
      BY <2>1 DEF CreateGR
    <3>2. g = created + 1
      BY <2>0, <3>1
    <3>3. g <= created /\ created \in Nat
      BY <1>1 DEF IndInv, StoreOK, CountsOK
    <3> QED
      BY <3>2, <3>3
  <2>2. CASE DeleteGR
    BY <2>0, <2>2 DEF DeleteGR
  <2>3. CASE GenerateStatus
    <3> DEFINE k == gw.key
               new == [gw.gr EXCEPT !.state = IF Applied THEN "Completed" ELSE "Failed",
                                    !.generated = gw.made]
    <3>1. /\ grs[k] # None /\ grs[k].rv = gw.gr.rv
          /\ grs' = [grs EXCEPT ![k] = IF new = grs[k] THEN grs[k] ELSE [new EXCEPT !.rv = @ + 1]]
      BY <2>3 DEF GenerateStatus
    <3>2. gw.gr \in GR /\ gw.gr # None /\ k \in GRs /\ Versioned(gw.gr, k)
      BY <1>1, <2>3 DEF IndInv, StoreOK, GenerateOK, GenerateWorkerType, GenerateStatus, Applied
    <3>3. gw.gr = grs[k]
      BY <3>1, <3>2 DEF Versioned
    <3>4. /\ new \in [state : {"", "Failed", "Completed"}, generated : {gw.made}, rv : Nat]
          /\ new.rv = gw.gr.rv
      BY <3>2 DEF GR
    <3> HIDE DEF new
    <3>5. k = g /\ grs'[g] = [new EXCEPT !.rv = @ + 1]
      BY <2>0, <3>1, <3>2
    <3>6. [new EXCEPT !.rv = @ + 1].rv = new.rv + 1
      BY <3>4
    <3> QED
      BY <3>3, <3>4, <3>5, <3>6
  <2>4. CASE UNCHANGED grs
    BY <2>4
  <2>5. CreateGR \/ DeleteGR \/ GenerateStatus \/ UNCHANGED grs
    BY <1>1 DEF Next, GenerateWorker, CleanupWorker, HandleGenerate, StoreTrigger, CreateGRFault,
        GenerateGet, GenerateSync, ApplyRule, ApplyRuleFault, GenerateFault, GenerateHandleErr,
        CleanupGet, CleanupSync, CleanupSyncFault, DeleteGenerated, DeleteFault, CleanupHandleErr,
        InformerSync, Resync, TimeOut, UpdateTrigger, PolicySync, DeleteTrigger, DeletePolicy,
        UpdatePolicy, Restart, ChangeTarget, informerFrame, userFrame
  <2> QED
    BY <2>1, <2>2, <2>3, <2>4, <2>5
<1>2. IndInv /\ [Next]_vars => [StatusNotBlind]_vars
  BY <1>1
<1> QED
  BY <1>2, Inductive, PTL DEF Spec
-----------------------------------------------------------------------------
(* Which requests the generate controller may lose sight of. *)

\* The keys the generate controller is going to process or is processing.
Held(q) == q.dirty \cup q.processing

\* A worker that reports success has left the request with a status, unless it was deleted.
OkRecorded ==
    gw.pc = "ok" => gw.key <= created /\ (grs[gw.key] = None \/ grs[gw.key].state # "")

(* Success is only reported after the write of the status. *)
LEMMA OkRecordedStep == ASSUME IndInv, OkRecorded, [Next]_vars PROVE OkRecorded'
<1>0. grs \in [GRs -> GR \cup {None}] /\ created \in Nat /\ gw \in GenerateWorkerType
  BY DEF IndInv, StoreOK, CountsOK, GenerateOK
<1>1. CASE GenerateStatus
  <2> DEFINE k == gw.key
             new == [gw.gr EXCEPT !.state = IF Applied THEN "Completed" ELSE "Failed",
                                  !.generated = gw.made]
  <2>1. gw.gr \in GR /\ gw.gr # None /\ k \in GRs /\ k <= created
    BY <1>1 DEF IndInv, StoreOK, GenerateOK, GenerateWorkerType, GenerateStatus, Applied
  <2>2. created' = created
    BY <1>1 DEF GenerateStatus, generateFrame
  <2>3. gw'.key = k
    BY <1>1 DEF GenerateStatus, GIdle
  <2>4. CASE grs[k] # None /\ grs[k].rv = gw.gr.rv
    <3>1. grs' = [grs EXCEPT ![k] = IF new = grs[k] THEN grs[k] ELSE [new EXCEPT !.rv = @ + 1]]
      BY <1>1, <2>4 DEF GenerateStatus
    <3>2. /\ new \in [state : {"Failed", "Completed"}, generated : {gw.made}, rv : Nat]
      BY <2>1 DEF GR
    <3> HIDE DEF new
    <3>3. new.state # "" /\ [new EXCEPT !.rv = @ + 1].state # ""
      BY <3>2
    <3>4. grs'[k].state # ""
      BY <1>0, <2>1, <3>1, <3>3
    <3> QED
      BY <2>1, <2>2, <2>3, <3>4 DEF OkRecorded
  <2>5. CASE ~(grs[k] # None /\ grs[k].rv = gw.gr.rv)
    <3>1. gw'.pc = "err"
      BY <1>1, <2>5 DEF GenerateStatus, GIdle
    <3> QED
      BY <3>1 DEF OkRecorded
  <2> QED
    BY <2>4, <2>5
<1>2. CASE CreateGR
  <2>1. /\ grs' = [grs EXCEPT ![created + 1] = [state |-> "", generated |-> <<>>, rv |-> 1]]
        /\ gw' = gw /\ created' = created + 1
    BY <1>2 DEF CreateGR, controllerVars
  <2>2. ASSUME gw.pc = "ok" PROVE gw.key \in Nat /\ grs'[gw.key] = grs[gw.key]
    <3>1. gw.key \in GRs /\ gw.key <= created
      BY <2>2 DEF IndInv, GenerateOK, QueueOK, OkRecorded
    <3>2. gw.key \in Nat /\ gw.key # created + 1
      BY <1>0, <3>1 DEF GRs
    <3> QED
      BY <1>0, <2>1, <3>1, <3>2
  <2>3. ASSUME gw.pc = "ok" PROVE gw.key <= created'
    <3>1. gw.key <= created
      BY <2>3 DEF OkRecorded
    <3>2. gw.key \in Nat /\ created \in Nat /\ created' = created + 1
      BY <1>0, <2>1, <2>2, <2>3
    <3> QED
      BY <3>1, <3>2
  <2> QED
    BY <2>1, <2>2, <2>3 DEF OkRecorded
<1>3. CASE DeleteGR
  <2>1. grs' = [grs EXCEPT ![cw.key] = None] /\ gw' = gw /\ created' = created
    BY <1>3 DEF DeleteGR, cleanupFrame
  <2>2. gw.pc = "ok" => grs'[gw.key] = None \/ grs'[gw.key] = grs[gw.key]
    BY <1>0, <2>1 DEF IndInv, GenerateOK, QueueOK
  <2> QED
    BY <2>1, <2>2 DEF OkRecorded
<1>4. CASE CreateGRFault
  <2>1. gw' = gw /\ grs' = grs /\ created' = created + 1
    BY <1>4 DEF CreateGRFault, controllerVars
  <2>2. gw.pc = "ok" => gw.key \in Nat
    BY DEF IndInv, GenerateOK, QueueOK, GRs
  <2>3. ASSUME gw.pc = "ok" PROVE gw.key <= created'
    <3>1. gw.key <= created
      BY <2>3 DEF OkRecorded
    <3>2. gw.key \in Nat /\ created \in Nat /\ created' = created + 1
      BY <1>0, <2>1, <2>2, <2>3
    <3> QED
      BY <3>1, <3>2
  <2> QED
    BY <2>1, <2>3 DEF OkRecorded
<1>5. CASE gw'.pc # "ok"
  BY <1>5 DEF OkRecorded
<1>6. CASE UNCHANGED <<gw, grs, created>>
  BY <1>6 DEF OkRecorded
<1>7. \/ GenerateStatus \/ CreateGR \/ DeleteGR \/ CreateGRFault
      \/ gw'.pc # "ok" \/ UNCHANGED <<gw, grs, created>>
  <2>1. ASSUME GenerateGet \/ GenerateSync \/ GenerateFault \/ GenerateHandleErr \/ Restart
        PROVE  gw'.pc # "ok"
    <3>1. /\ GenerateGet => gw'.pc = "sync"
          /\ GenerateFault => gw'.pc = "err"
          /\ GenerateHandleErr \/ Restart => gw'.pc = "idle"
      <4>1. GenerateGet => gw'.pc = "sync"
        BY DEF GenerateGet, GIdle
      <4>2. GenerateFault => gw'.pc = "err"
        BY DEF GenerateFault, GIdle
      <4>3. GenerateHandleErr \/ Restart => gw'.pc = "idle"
        BY IdleFacts DEF GenerateHandleErr, Restart
      <4> QED
        BY <4>1, <4>2, <4>3
    <3>2. GenerateSync => gw'.pc \in {"err", "apply"}
      BY <1>0 DEF GenerateSync, GenerateWorkerType
    <3> QED
      BY <2>1, <3>1, <3>2
  <2>2. ASSUME ApplyRule \/ ApplyRuleFault PROVE gw'.pc # "ok"
    BY <1>0, <2>2 DEF ApplyRule, ApplyRuleFault, RuleDone, RuleFails, GenerateWorkerType
  <2>3. CASE GenerateWorker
    BY <2>1, <2>2, <2>3 DEF GenerateWorker
  <2>4. CASE CleanupWorker
    BY <2>4 DEF CleanupWorker, CleanupGet, CleanupSync, CleanupSyncFault, DeleteGenerated,
        DeleteFault, CleanupHandleErr, cleanupFrame
  <2>5. CASE UNCHANGED vars
    BY <2>5 DEF vars, bounds
  <2>6. CASE \/ HandleGenerate \/ StoreTrigger \/ UpdateTrigger \/ PolicySync
             \/ \E g \in GRs : InformerSync(g) \/ Resync(g) \/ TimeOut(g)
             \/ DeleteTrigger \/ DeletePolicy \/ UpdatePolicy
             \/ \E r \in RuleNames : ChangeTarget(r, "none") \/ ChangeTarget(r, "foreign")
    BY <2>6 DEF HandleGenerate, StoreTrigger, UpdateTrigger, PolicySync, InformerSync, Resync,
        TimeOut, DeleteTrigger, DeletePolicy, UpdatePolicy, ChangeTarget, controllerVars,
        informerFrame, userFrame, bounds
  <2> QED
    BY <2>1, <2>3, <2>4, <2>5, <2>6 DEF Next
<1> QED
  BY <1>1, <1>2, <1>3, <1>4, <1>5, <1>6, <1>7

(* AddAll keeps what is held and adds the set. *)
LEMMA AddAllHeld ==
    ASSUME NEW q \in WorkQueueType, NEW S \in SUBSET GRs
    PROVE  Held(AddAll(q, S)) = Held(q) \cup S
<1> DEFINE D == S \ (q.dirty \cup q.processing)
<1>1. IsFiniteSet(D) /\ D \in SUBSET GRs
  <2>1. IsFiniteSet(GRs)
    BY GenerateAssumption, FS_Interval DEF GRs
  <2> QED
    BY <2>1, FS_Subset
<1>2. SetToSeq(D) \in Seq(D)
  BY <1>1, SetToSeqFacts
<1>3. SetToSeq(D) \in Seq(GRs)
  BY <1>1, <1>2
<1>4. AddAll(q, S).dirty = q.dirty \cup S /\ AddAll(q, S).processing = q.processing
  BY <1>3, AddAllFacts
<1> QED
  BY <1>4 DEF Held

(* handleErr holds on to a key whose processing failed until its retries are used up, and
   to every other key in any case. *)
LEMMA HandledHeld ==
    ASSUME NEW q \in WorkQueueType, NEW k \in GRs, NEW ok \in BOOLEAN
    PROVE  /\ Held(q) \ {k} \subseteq Held(Handled(q, k, ok))
           /\ ~ok /\ q.requeues[k] < MaxRetries => k \in Held(Handled(q, k, ok))
<1>0. q.requeues[k] \in Nat /\ MaxRetries \in Nat
  BY GenerateAssumption DEF WorkQueueType
<1>1. CASE ok \/ q.requeues[k] >= MaxRetries
  <2> DEFINE a == Forget(q, k)
             b == Done(a, k)
  <2>1. a \in WorkQueueType /\ a.dirty = q.dirty /\ a.processing = q.processing
    BY ForgetFacts
  <2> HIDE DEF a
  <2>2. b.dirty = a.dirty /\ b.processing = a.processing \ {k}
    BY <2>1, DoneFacts
  <2>3. Handled(q, k, ok) = b
    BY <1>1 DEF Handled, a
  <2> HIDE DEF b
  <2>4. ~(~ok /\ q.requeues[k] < MaxRetries)
    BY <1>0, <1>1
  <2> QED
    BY <2>1, <2>2, <2>3, <2>4 DEF Held
<1>2. CASE ~(ok \/ q.requeues[k] >= MaxRetries)
  <2> DEFINE a == AddRateLimited(q, k)
             b == BackOffEnds(a, k)
             c == Done(b, k)
  <2>1. a \in WorkQueueType /\ a.dirty = q.dirty /\ a.processing = q.processing
    BY AddRateLimitedFacts
  <2> HIDE DEF a
  <2>2. b \in WorkQueueType /\ b.dirty = a.dirty \cup {k} /\ b.processing = a.processing
    BY <2>1, BackOffEndsFacts
  <2> HIDE DEF b
  <2>3. c.dirty = b.dirty /\ c.processing = b.processing \ {k}
    BY <2>2, DoneFacts
  <2>4. Handled(q, k, ok) = c
    BY <1>2 DEF Handled, a, b
  <2> HIDE DEF c
  <2> QED
    BY <2>1, <2>2, <2>3, <2>4 DEF Held
<1> QED
  BY <1>1, <1>2

\* The generate controller holds every request from the moment its informer lists it, and
\* lets go of one that was never processed only when handleErr gives up after MaxRetries
\* failures in a row: no other step, a restart included, loses a stored request.
RequestsHeld ==
    \A g \in GRs :
        /\ (lister[g] = None /\ lister'[g] # None) => g \in Held(gq')
        /\ (g \in Held(gq) /\ g \notin Held(gq')) =>
               \/ grs'[g] = None \/ grs'[g].state # ""
               \/ gw.key = g /\ gw.pc = "err" /\ gq.requeues[g] = MaxRetries

(* What the informers and users do to the generate controller's queue only adds to it. *)
LEMMA QueueingHolds ==
    ASSUME IndInv, (\E g \in GRs : InformerSync(g)) \/ UpdateTrigger \/ UpdatePolicy
    PROVE  RequestsHeld
<1>0. gq \in WorkQueueType /\ Listed \in SUBSET GRs /\ lister \in [GRs -> GR \cup {None}]
  BY Queues DEF IndInv, StoreOK
<1>1. CASE \E g \in GRs : InformerSync(g)
  <2>1. PICK g \in GRs : InformerSync(g)
    BY <1>1
  <2>2. /\ lister' = [lister EXCEPT ![g] = grs[g]]
        /\ gq' = IF lister[g] # None /\ grs[g] # None /\ grs[g].state = "Failed"
                 THEN gq ELSE Add(gq, g)
    BY <2>1 DEF InformerSync
  <2>3. Held(Add(gq, g)) = Held(gq) \cup {g}
    BY <1>0, AddFacts DEF Held
  <2>4. Held(gq) \subseteq Held(gq') /\ (lister[g] = None => g \in Held(gq'))
    BY <2>2, <2>3
  <2>5. \A h \in GRs : h # g => lister'[h] = lister[h]
    BY <1>0, <2>2
  <2> QED
    BY <2>4, <2>5 DEF RequestsHeld
<1>2. CASE UpdateTrigger \/ UpdatePolicy
  <2>1. gq' = AddAll(gq, Listed) /\ lister' = lister
    BY <1>2 DEF UpdateTrigger, UpdatePolicy, userFrame
  <2>2. Held(gq') = Held(gq) \cup Listed
    BY <1>0, <2>1, AddAllHeld
  <2> QED
    BY <2>1, <2>2 DEF RequestsHeld
<1> QED
  BY <1>1, <1>2

(* A restart queues what is stored: a key that is gone belongs to no request. *)
LEMMA RestartHolds == ASSUME IndInv, Restart PROVE RequestsHeld
<1> DEFINE S == {g \in GRs : grs[g] # None}
<1>1. gq' = AddAll(EmptyQueue, S) /\ lister' = grs /\ grs' = grs
  BY DEF Restart
<1>2. S \in SUBSET GRs
  OBVIOUS
<1>3. Held(gq') = Held(EmptyQueue) \cup S
  <2> HIDE DEF S
  <2> QED
    BY <1>1, <1>2, AddAllHeld, EmptyQueueFacts
<1> QED
  BY <1>1, <1>3 DEF RequestsHeld

(* The worker: a key it takes is processed, a key it gives back has a status or has failed
   too often. *)
LEMMA WorkerHolds ==
    ASSUME IndInv, OkRecorded, GenerateGet \/ GenerateHandleErr
    PROVE  RequestsHeld
<1>0. gq \in WorkQueueType /\ QueueOK(gq, gw)
  BY Queues
<1>1. CASE GenerateGet
  <2>1. gq' = Get(gq) /\ gq.queue # <<>> /\ lister' = lister
    BY <1>1 DEF GenerateGet, generateFrame
  <2>2. /\ gq'.dirty = gq.dirty \ {Head(gq.queue)}
        /\ gq'.processing = gq.processing \cup {Head(gq.queue)}
    BY <1>0, <2>1, GetFacts
  <2>3. Held(gq) \subseteq Held(gq')
    BY <2>2 DEF Held
  <2> QED
    BY <2>1, <2>3 DEF RequestsHeld
<1>2. CASE GenerateHandleErr
  <2> DEFINE k == gw.key
             ok == gw.pc = "ok"
  <2>1. gw.pc \in {"ok", "err"} /\ gq' = Handled(gq, k, ok) /\ lister' = lister /\ grs' = grs
    BY <1>2 DEF GenerateHandleErr, generateFrame
  <2>2. k \in GRs /\ gq.requeues[k] \in Nat /\ gq.requeues[k] <= MaxRetries /\ MaxRetries \in Nat
    BY <1>0, <2>1, GenerateAssumption DEF QueueOK, WorkQueueType
  <2>3. /\ Held(gq) \ {k} \subseteq Held(gq')
        /\ (~ok /\ gq.requeues[k] < MaxRetries) => k \in Held(gq')
    <3>1. ok \in BOOLEAN
      OBVIOUS
    <3> HIDE DEF k, ok
    <3> QED
      BY <1>0, <2>1, <2>2, <3>1, HandledHeld
  <2>4. ok => grs[k] = None \/ grs[k].state # ""
    BY DEF OkRecorded
  <2>5. ASSUME NEW g \in GRs, g \in Held(gq), g \notin Held(gq')
        PROVE  \/ grs'[g] = None \/ grs'[g].state # ""
               \/ gw.key = g /\ gw.pc = "err" /\ gq.requeues[g] = MaxRetries
    <3>1. g = k
      BY <2>3, <2>5
    <3>2. CASE ok
      BY <2>1, <2>4, <3>1, <3>2
    <3>3. CASE ~ok
      <4>1. gq.requeues[k] = MaxRetries
        BY <2>2, <2>3, <2>5, <3>1, <3>3
      <4> QED
        BY <2>1, <3>1, <3>3, <4>1
    <3> QED
      BY <3>2, <3>3
  <2> QED
    BY <2>1, <2>5 DEF RequestsHeld
<1> QED
  BY <1>1, <1>2

(* Requests are lost to the generate controller only by handleErr's giving up, whatever the
   order of informer events, policy updates, failures, clean-ups and restarts. *)
THEOREM OnlyRetriesLoseRequests == Spec => [][RequestsHeld]_vars
<1>1. Init => OkRecorded
  BY IdleFacts DEF Init, OkRecorded
<1>2. IndInv /\ OkRecorded /\ [Next]_vars => OkRecorded'
  BY OkRecordedStep
<1>3. ASSUME IndInv, OkRecorded, Next PROVE RequestsHeld
  <2>1. CASE UNCHANGED <<gq, lister>>
    BY <2>1 DEF RequestsHeld
  <2>2. \/ UNCHANGED <<gq, lister>> \/ GenerateGet \/ GenerateHandleErr
        \/ (\E g \in GRs : InformerSync(g)) \/ UpdateTrigger \/ UpdatePolicy \/ Restart
    BY <1>3 DEF Next, GenerateWorker, CleanupWorker, HandleGenerate, StoreTrigger, CreateGR,
        CreateGRFault, GenerateSync, ApplyRule, ApplyRuleFault, GenerateStatus, GenerateFault,
        CleanupGet, CleanupSync, CleanupSyncFault, DeleteGenerated, DeleteGR, DeleteFault,
        CleanupHandleErr, Resync, TimeOut, PolicySync, DeleteTrigger, DeletePolicy,
        ChangeTarget, controllerVars, generateFrame, cleanupFrame, informerFrame, userFrame
  <2> QED
    BY <1>3, <2>1, <2>2, QueueingHolds, RestartHolds, WorkerHolds
<1>4. IndInv /\ OkRecorded /\ [Next]_vars => [RequestsHeld]_vars
  BY <1>3
<1> QED
  BY <1>1, <1>2, <1>4, Inductive, PTL DEF Spec
=============================================================================

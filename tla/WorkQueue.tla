----------------------------- MODULE WorkQueue -----------------------------
(***************************************************************************)
(* client-go's rate-limiting work queue as Kyverno's controllers use it    *)
(* (external code): a FIFO of keys in which a key that is being processed  *)
(* is never handed out again, but is remembered as dirty and queued anew   *)
(* when the worker calls Done.  A rate-limited key waits for its back-off  *)
(* before it is added.                                                     *)
(***************************************************************************)
EXTENDS Naturals, SequencesExt

CONSTANT Keys

\* queue: order in which dirty keys are handed out; dirty: keys to process;
\* processing: keys handed out; waiting: rate-limited keys in back-off;
\* requeues: rate-limited adds of a key since its last Forget.
WorkQueueType == [queue : Seq(Keys), dirty : SUBSET Keys, processing : SUBSET Keys,
                  waiting : SUBSET Keys, requeues : [Keys -> Nat]]

EmptyQueue == [queue |-> <<>>, dirty |-> {}, processing |-> {}, waiting |-> {},
               requeues |-> [k \in Keys |-> 0]]

Add(q, k) ==
    IF k \in q.dirty THEN q
    ELSE IF k \in q.processing THEN [q EXCEPT !.dirty = @ \cup {k}]
    ELSE [q EXCEPT !.dirty = @ \cup {k}, !.queue = Append(@, k)]

\* Add for every key of a set, in some order.
AddAll(q, S) ==
    [q EXCEPT !.dirty = @ \cup S, !.queue = @ \o SetToSeq(S \ (q.dirty \cup q.processing))]

Get(q) ==
    [q EXCEPT !.queue = Tail(@), !.dirty = @ \ {Head(q.queue)},
              !.processing = @ \cup {Head(q.queue)}]

Done(q, k) ==
    IF k \in q.dirty
    THEN [q EXCEPT !.processing = @ \ {k}, !.queue = Append(@, k)]
    ELSE [q EXCEPT !.processing = @ \ {k}]

AddRateLimited(q, k) ==
    [q EXCEPT !.waiting = @ \cup {k}, !.requeues[k] = @ + 1]

\* The back-off of a rate-limited key ends.
BackOffEnds(q, k) == Add([q EXCEPT !.waiting = @ \ {k}], k)

Forget(q, k) == [q EXCEPT !.requeues[k] = 0]

\* Keys that will be handed to a worker again.
Tracked(q) == q.dirty \cup q.waiting

Quiet(q) == q.dirty = {} /\ q.waiting = {} /\ q.processing = {}

-----------------------------------------------------------------------------
(* Lemmas: what each operation does to a queue, for the proofs of the controllers. *)

\* The keys in the FIFO are the dirty ones that no worker holds, each of them once.
Consistent(q) ==
    /\ {q.queue[i] : i \in DOMAIN q.queue} = q.dirty \ q.processing
    /\ \A i, j \in DOMAIN q.queue : q.queue[i] = q.queue[j] => i = j

(* The empty queue is a queue, and consistent. *)
LEMMA EmptyQueueFacts == EmptyQueue \in WorkQueueType /\ Consistent(EmptyQueue)
BY DEF EmptyQueue, WorkQueueType, Consistent

(* Appending a key to a FIFO: its elements, and that none occurs twice. *)
LEMMA AppendKey ==
    ASSUME NEW s \in Seq(Keys), NEW k \in Keys
    PROVE  /\ Append(s, k) \in Seq(Keys)
           /\ {Append(s, k)[i] : i \in DOMAIN Append(s, k)} = {s[i] : i \in DOMAIN s} \cup {k}
           /\ (/\ k \notin {s[i] : i \in DOMAIN s}
               /\ \A i, j \in DOMAIN s : s[i] = s[j] => i = j)
              => \A i, j \in DOMAIN Append(s, k) : Append(s, k)[i] = Append(s, k)[j] => i = j
<1>1. Append(s, k) \in Seq(Keys) /\ Len(Append(s, k)) = Len(s) + 1
  OBVIOUS
<1>2. DOMAIN s = 1..Len(s) /\ DOMAIN Append(s, k) = 1..(Len(s) + 1) /\ Len(s) \in Nat
  BY <1>1
<1>3. Append(s, k)[Len(s) + 1] = k /\ \A i \in 1..Len(s) : Append(s, k)[i] = s[i]
  OBVIOUS
<1> QED
  BY <1>1, <1>2, <1>3

(* Add makes a key dirty, whatever the state of the key, and does nothing else. *)
LEMMA AddFacts ==
    ASSUME NEW q \in WorkQueueType, NEW k \in Keys
    PROVE  /\ Add(q, k) \in WorkQueueType
           /\ Add(q, k).dirty = q.dirty \cup {k}
           /\ Add(q, k).waiting = q.waiting
           /\ Add(q, k).processing = q.processing
           /\ Add(q, k).requeues = q.requeues
           /\ Consistent(q) => Consistent(Add(q, k))
<1>1. CASE k \in q.dirty
  BY <1>1 DEF Add
<1>2. CASE k \notin q.dirty /\ k \in q.processing
  <2>1. Add(q, k) = [q EXCEPT !.dirty = @ \cup {k}]
    BY <1>2 DEF Add
  <2>2. q.dirty \cup {k} \in SUBSET Keys
    BY DEF WorkQueueType
  <2>3. Add(q, k) \in WorkQueueType
    BY <2>1, <2>2 DEF WorkQueueType
  <2>4. /\ Add(q, k).dirty = q.dirty \cup {k} /\ Add(q, k).queue = q.queue
        /\ Add(q, k).waiting = q.waiting /\ Add(q, k).processing = q.processing
        /\ Add(q, k).requeues = q.requeues
    BY <2>1 DEF WorkQueueType
  <2>5. (q.dirty \cup {k}) \ q.processing = q.dirty \ q.processing
    BY <1>2
  <2> QED
    BY <2>3, <2>4, <2>5 DEF Consistent
<1>3. CASE k \notin q.dirty /\ k \notin q.processing
  <2>1. Add(q, k) = [q EXCEPT !.dirty = @ \cup {k}, !.queue = Append(@, k)]
    BY <1>3 DEF Add
  <2>2. q.dirty \cup {k} \in SUBSET Keys /\ q.queue \in Seq(Keys)
    BY DEF WorkQueueType
  <2>3. Append(q.queue, k) \in Seq(Keys)
    BY <2>2
  <2>4. /\ Add(q, k) \in WorkQueueType
        /\ Add(q, k).dirty = q.dirty \cup {k} /\ Add(q, k).queue = Append(q.queue, k)
        /\ Add(q, k).waiting = q.waiting /\ Add(q, k).processing = q.processing
        /\ Add(q, k).requeues = q.requeues
    BY <2>1, <2>2, <2>3 DEF WorkQueueType
  <2>5. ASSUME Consistent(q) PROVE Consistent(Add(q, k))
    <3>1. k \notin {q.queue[i] : i \in DOMAIN q.queue}
      BY <1>3, <2>5 DEF Consistent
    <3>2. (q.dirty \cup {k}) \ q.processing = (q.dirty \ q.processing) \cup {k}
      BY <1>3
    <3> QED
      BY <2>2, <2>4, <2>5, <3>1, <3>2, AppendKey DEF Consistent
  <2> QED
    BY <2>4, <2>5
<1> QED
  BY <1>1, <1>2, <1>3

(* AddAll makes every key of the set dirty. *)
LEMMA AddAllFacts ==
    ASSUME NEW q \in WorkQueueType, NEW S \in SUBSET Keys,
           SetToSeq(S \ (q.dirty \cup q.processing)) \in Seq(Keys)
    PROVE  /\ AddAll(q, S) \in WorkQueueType
           /\ AddAll(q, S).dirty = q.dirty \cup S
           /\ AddAll(q, S).waiting = q.waiting
           /\ AddAll(q, S).processing = q.processing
           /\ AddAll(q, S).requeues = q.requeues
           /\ AddAll(q, S).queue = q.queue \o SetToSeq(S \ (q.dirty \cup q.processing))
<1> DEFINE s == SetToSeq(S \ (q.dirty \cup q.processing))
<1>1. AddAll(q, S) = [q EXCEPT !.dirty = @ \cup S, !.queue = @ \o s]
  BY DEF AddAll
<1> HIDE DEF s
<1>2. q.queue \o s \in Seq(Keys) /\ q.dirty \cup S \in SUBSET Keys
  BY DEF WorkQueueType, s
<1>3. /\ AddAll(q, S) \in WorkQueueType
      /\ AddAll(q, S).dirty = q.dirty \cup S /\ AddAll(q, S).waiting = q.waiting
      /\ AddAll(q, S).processing = q.processing /\ AddAll(q, S).requeues = q.requeues
      /\ AddAll(q, S).queue = q.queue \o s
  BY <1>1, <1>2 DEF WorkQueueType
<1> QED
  BY <1>3 DEF s

(* Concatenating two FIFOs that have no key in common. *)
LEMMA ConcatKeys ==
    ASSUME NEW t \in Seq(Keys), NEW s \in Seq(Keys),
           \A i, j \in DOMAIN t : t[i] = t[j] => i = j,
           \A i, j \in DOMAIN s : s[i] = s[j] => i = j,
           \A i \in DOMAIN t, j \in DOMAIN s : t[i] # s[j]
    PROVE  /\ {(t \o s)[i] : i \in DOMAIN (t \o s)}
                = {t[i] : i \in DOMAIN t} \cup {s[i] : i \in DOMAIN s}
           /\ \A i, j \in DOMAIN (t \o s) : (t \o s)[i] = (t \o s)[j] => i = j
<1> DEFINE u == t \o s
<1>1. /\ Len(t) \in Nat /\ Len(s) \in Nat /\ DOMAIN t = 1..Len(t) /\ DOMAIN s = 1..Len(s)
      /\ DOMAIN u = 1..(Len(t) + Len(s))
  OBVIOUS
<1>2. /\ \A i \in DOMAIN t : i \in DOMAIN u /\ u[i] = t[i]
      /\ \A i \in DOMAIN u : i > Len(t) => i - Len(t) \in DOMAIN s /\ u[i] = s[i - Len(t)]
      /\ \A i \in DOMAIN s : Len(t) + i \in DOMAIN u /\ u[Len(t) + i] = s[i]
      /\ \A i \in DOMAIN u : i \in Nat /\ (i <= Len(t) => i \in DOMAIN t)
  BY <1>1
<1> HIDE DEF u
<1>3. \A i \in DOMAIN u : u[i] \in {t[j] : j \in DOMAIN t} \cup {s[j] : j \in DOMAIN s}
  BY <1>1, <1>2
<1>4. \A i \in DOMAIN t : t[i] \in {u[j] : j \in DOMAIN u}
  BY <1>2
<1>5. \A i \in DOMAIN s : s[i] \in {u[j] : j \in DOMAIN u}
  BY <1>2
<1>6. {u[i] : i \in DOMAIN u} = {t[i] : i \in DOMAIN t} \cup {s[i] : i \in DOMAIN s}
  BY <1>3, <1>4, <1>5
<1>7. ASSUME NEW i \in DOMAIN u, NEW j \in DOMAIN u, u[i] = u[j] PROVE i = j
  <2>1. CASE i <= Len(t) /\ j <= Len(t)
    BY <1>2, <1>7, <2>1
  <2>2. CASE i > Len(t) /\ j > Len(t)
    BY <1>1, <1>2, <1>7, <2>2
  <2>3. CASE i <= Len(t) /\ j > Len(t)
    BY <1>2, <1>7, <2>3
  <2>4. CASE i > Len(t) /\ j <= Len(t)
    BY <1>2, <1>7, <2>4
  <2> QED
    BY <1>1, <1>2, <2>1, <2>2, <2>3, <2>4
<1> QED
  BY <1>6, <1>7 DEF u

(* The FIFO stays consistent, since the set is listed without repetition. *)
LEMMA AddAllConsistent ==
    ASSUME NEW q \in WorkQueueType, NEW S \in SUBSET Keys, Consistent(q),
           NEW D, D = S \ (q.dirty \cup q.processing), SetToSeq(D) \in Seq(Keys),
           {SetToSeq(D)[i] : i \in DOMAIN SetToSeq(D)} = D,
           \A i, j \in DOMAIN SetToSeq(D) : SetToSeq(D)[i] = SetToSeq(D)[j] => i = j
    PROVE  Consistent(AddAll(q, S))
<1> DEFINE t == q.queue
           s == SetToSeq(D)
<1>1. /\ AddAll(q, S).dirty = q.dirty \cup S /\ AddAll(q, S).processing = q.processing
      /\ AddAll(q, S).queue = t \o s
  BY AddAllFacts
<1>2. /\ t \in Seq(Keys) /\ {t[i] : i \in DOMAIN t} = q.dirty \ q.processing
      /\ \A i, j \in DOMAIN t : t[i] = t[j] => i = j
  BY DEF WorkQueueType, Consistent
<1>3. /\ s \in Seq(Keys) /\ {s[i] : i \in DOMAIN s} = D
      /\ \A i, j \in DOMAIN s : s[i] = s[j] => i = j
  OBVIOUS
<1> HIDE DEF t, s
<1>4. \A i \in DOMAIN t, j \in DOMAIN s : t[i] # s[j]
  <2>1. \A i \in DOMAIN t : t[i] \in q.dirty
    BY <1>2
  <2>2. \A j \in DOMAIN s : s[j] \in D
    BY <1>3
  <2> QED
    BY <2>1, <2>2
<1>5. /\ {(t \o s)[i] : i \in DOMAIN (t \o s)} = (q.dirty \ q.processing) \cup D
      /\ \A i, j \in DOMAIN (t \o s) : (t \o s)[i] = (t \o s)[j] => i = j
  <2>1. /\ {(t \o s)[i] : i \in DOMAIN (t \o s)}
             = {t[i] : i \in DOMAIN t} \cup {s[i] : i \in DOMAIN s}
        /\ \A i, j \in DOMAIN (t \o s) : (t \o s)[i] = (t \o s)[j] => i = j
    BY <1>2, <1>3, <1>4, ConcatKeys
  <2> QED
    BY <1>2, <1>3, <2>1
<1>6. (q.dirty \cup S) \ q.processing = (q.dirty \ q.processing) \cup D
  OBVIOUS
<1> QED
  BY <1>1, <1>5, <1>6 DEF Consistent

(* Get hands out the oldest key: it is no longer dirty but being processed. *)
LEMMA GetFacts ==
    ASSUME NEW q \in WorkQueueType, q.queue # <<>>
    PROVE  /\ Head(q.queue) \in Keys
           /\ Get(q) \in WorkQueueType
           /\ Get(q).dirty = q.dirty \ {Head(q.queue)}
           /\ Get(q).processing = q.processing \cup {Head(q.queue)}
           /\ Get(q).waiting = q.waiting
           /\ Get(q).requeues = q.requeues
           /\ Consistent(q) => /\ Consistent(Get(q))
                               /\ Head(q.queue) \in q.dirty \ q.processing
<1>1. q.queue \in Seq(Keys)
  BY DEF WorkQueueType
<1>2. Head(q.queue) \in Keys /\ Tail(q.queue) \in Seq(Keys) /\ Head(q.queue) = q.queue[1]
  BY <1>1
<1>3. Get(q) = [q EXCEPT !.queue = Tail(@), !.dirty = @ \ {Head(q.queue)},
                         !.processing = @ \cup {Head(q.queue)}]
  BY DEF Get
<1>4. /\ Get(q) \in WorkQueueType
      /\ Get(q).dirty = q.dirty \ {Head(q.queue)} /\ Get(q).queue = Tail(q.queue)
      /\ Get(q).processing = q.processing \cup {Head(q.queue)}
      /\ Get(q).waiting = q.waiting /\ Get(q).requeues = q.requeues
  <2>1. /\ q.dirty \ {Head(q.queue)} \in SUBSET Keys
        /\ q.processing \cup {Head(q.queue)} \in SUBSET Keys
    BY <1>2 DEF WorkQueueType
  <2>2. Get(q) \in WorkQueueType
    BY <1>2, <1>3, <2>1 DEF WorkQueueType
  <2> QED
    BY <1>3, <2>2 DEF WorkQueueType
<1>5. ASSUME Consistent(q)
      PROVE  Consistent(Get(q)) /\ Head(q.queue) \in q.dirty \ q.processing
  <2>1. Len(q.queue) \in Nat \ {0} /\ DOMAIN q.queue = 1..Len(q.queue)
    BY <1>1
  <2>2. /\ DOMAIN Tail(q.queue) = 1..(Len(q.queue) - 1)
        /\ \A i \in 1..(Len(q.queue) - 1) : Tail(q.queue)[i] = q.queue[i + 1]
    BY <1>1, <1>2, <2>1
  <2>3. {Tail(q.queue)[i] : i \in DOMAIN Tail(q.queue)}
            = {q.queue[i] : i \in DOMAIN q.queue} \ {q.queue[1]}
    <3>1. ASSUME NEW i \in DOMAIN q.queue, q.queue[i] # q.queue[1]
          PROVE  i - 1 \in DOMAIN Tail(q.queue) /\ Tail(q.queue)[i - 1] = q.queue[i]
      BY <2>1, <2>2, <3>1
    <3>2. ASSUME NEW i \in DOMAIN Tail(q.queue)
          PROVE  i + 1 \in DOMAIN q.queue /\ Tail(q.queue)[i] = q.queue[i + 1] /\ q.queue[i + 1] # q.queue[1]
      BY <1>5, <2>1, <2>2 DEF Consistent
    <3> QED
      BY <3>1, <3>2
  <2>4. \A i, j \in DOMAIN Tail(q.queue) : Tail(q.queue)[i] = Tail(q.queue)[j] => i = j
    BY <1>5, <2>1, <2>2 DEF Consistent
  <2>5. 1 \in DOMAIN q.queue
    BY <2>1
  <2>6. Head(q.queue) \in q.dirty \ q.processing
    BY <1>2, <1>5, <2>5 DEF Consistent
  <2>7. (q.dirty \ {Head(q.queue)}) \ (q.processing \cup {Head(q.queue)})
            = (q.dirty \ q.processing) \ {q.queue[1]}
    BY <1>2
  <2> QED
    BY <1>4, <1>5, <2>3, <2>4, <2>6, <2>7 DEF Consistent
<1> QED
  BY <1>2, <1>4, <1>5

(* Done gives a key back; one that has become dirty meanwhile is handed out again. *)
LEMMA DoneFacts ==
    ASSUME NEW q \in WorkQueueType, NEW k \in Keys
    PROVE  /\ Done(q, k) \in WorkQueueType
           /\ Done(q, k).dirty = q.dirty
           /\ Done(q, k).waiting = q.waiting
           /\ Done(q, k).processing = q.processing \ {k}
           /\ Done(q, k).requeues = q.requeues
           /\ Consistent(q) /\ k \in q.processing => Consistent(Done(q, k))
<1>1. CASE k \notin q.dirty
  <2>1. Done(q, k) = [q EXCEPT !.processing = @ \ {k}]
    BY <1>1 DEF Done
  <2>2. /\ Done(q, k) \in WorkQueueType
        /\ Done(q, k).dirty = q.dirty /\ Done(q, k).queue = q.queue
        /\ Done(q, k).waiting = q.waiting /\ Done(q, k).processing = q.processing \ {k}
        /\ Done(q, k).requeues = q.requeues
    BY <2>1 DEF WorkQueueType
  <2>3. q.dirty \ (q.processing \ {k}) = q.dirty \ q.processing
    BY <1>1
  <2> QED
    BY <2>2, <2>3 DEF Consistent
<1>2. CASE k \in q.dirty
  <2>1. Done(q, k) = [q EXCEPT !.processing = @ \ {k}, !.queue = Append(@, k)]
    BY <1>2 DEF Done
  <2>2. q.queue \in Seq(Keys) /\ Append(q.queue, k) \in Seq(Keys)
    BY DEF WorkQueueType
  <2>3. /\ Done(q, k) \in WorkQueueType
        /\ Done(q, k).dirty = q.dirty /\ Done(q, k).queue = Append(q.queue, k)
        /\ Done(q, k).waiting = q.waiting /\ Done(q, k).processing = q.processing \ {k}
        /\ Done(q, k).requeues = q.requeues
    BY <2>1, <2>2 DEF WorkQueueType
  <2>4. ASSUME Consistent(q), k \in q.processing PROVE Consistent(Done(q, k))
    <3>1. k \notin {q.queue[i] : i \in DOMAIN q.queue}
      BY <2>4 DEF Consistent
    <3>2. q.dirty \ (q.processing \ {k}) = (q.dirty \ q.processing) \cup {k}
      BY <1>2
    <3> DEFINE s == Append(q.queue, k)
    <3>3. /\ {s[i] : i \in DOMAIN s} = {q.queue[i] : i \in DOMAIN q.queue} \cup {k}
          /\ \A i, j \in DOMAIN s : s[i] = s[j] => i = j
      BY <2>2, <2>4, <3>1, AppendKey DEF Consistent
    <3> HIDE DEF s
    <3>4. {s[i] : i \in DOMAIN s} = q.dirty \ (q.processing \ {k})
      BY <2>4, <3>2, <3>3 DEF Consistent
    <3>5. Done(q, k).queue = s
      BY <2>3 DEF s
    <3> QED
      BY <2>3, <3>3, <3>4, <3>5 DEF Consistent
  <2> QED
    BY <2>3, <2>4
<1> QED
  BY <1>1, <1>2

(* AddRateLimited puts a key in back-off and counts it. *)
LEMMA AddRateLimitedFacts ==
    ASSUME NEW q \in WorkQueueType, NEW k \in Keys
    PROVE  /\ AddRateLimited(q, k) \in WorkQueueType
           /\ AddRateLimited(q, k).queue = q.queue
           /\ AddRateLimited(q, k).dirty = q.dirty
           /\ AddRateLimited(q, k).waiting = q.waiting \cup {k}
           /\ AddRateLimited(q, k).processing = q.processing
           /\ AddRateLimited(q, k).requeues = [q.requeues EXCEPT ![k] = @ + 1]
           /\ Consistent(q) => Consistent(AddRateLimited(q, k))
<1>1. q.requeues \in [Keys -> Nat] /\ q.waiting \cup {k} \in SUBSET Keys
  BY DEF WorkQueueType
<1>2. [q.requeues EXCEPT ![k] = @ + 1] \in [Keys -> Nat]
  BY <1>1
<1>3. AddRateLimited(q, k) = [q EXCEPT !.waiting = @ \cup {k}, !.requeues = [q.requeues EXCEPT ![k] = @ + 1]]
  BY DEF AddRateLimited
<1>4. /\ AddRateLimited(q, k) \in WorkQueueType
      /\ AddRateLimited(q, k).dirty = q.dirty /\ AddRateLimited(q, k).queue = q.queue
      /\ AddRateLimited(q, k).waiting = q.waiting \cup {k}
      /\ AddRateLimited(q, k).processing = q.processing
      /\ AddRateLimited(q, k).requeues = [q.requeues EXCEPT ![k] = @ + 1]
  BY <1>1, <1>2, <1>3 DEF WorkQueueType
<1> QED
  BY <1>4 DEF Consistent

(* The end of the back-off makes the key dirty. *)
LEMMA BackOffEndsFacts ==
    ASSUME NEW q \in WorkQueueType, NEW k \in Keys
    PROVE  /\ BackOffEnds(q, k) \in WorkQueueType
           /\ BackOffEnds(q, k).dirty = q.dirty \cup {k}
           /\ BackOffEnds(q, k).waiting = q.waiting \ {k}
           /\ BackOffEnds(q, k).processing = q.processing
           /\ BackOffEnds(q, k).requeues = q.requeues
           /\ Consistent(q) => Consistent(BackOffEnds(q, k))
<1> DEFINE p == [q EXCEPT !.waiting = @ \ {k}]
<1>1. p \in WorkQueueType /\ p.dirty = q.dirty /\ p.waiting = q.waiting \ {k}
      /\ p.processing = q.processing /\ p.queue = q.queue /\ p.requeues = q.requeues
  BY DEF WorkQueueType
<1>2. Consistent(q) => Consistent(p)
  BY <1>1 DEF Consistent
<1>3. BackOffEnds(q, k) = Add(p, k)
  BY DEF BackOffEnds
<1> HIDE DEF p
<1> QED
  BY <1>1, <1>2, <1>3, AddFacts

(* Forget resets the count of a key. *)
LEMMA ForgetFacts ==
    ASSUME NEW q \in WorkQueueType, NEW k \in Keys
    PROVE  /\ Forget(q, k) \in WorkQueueType
           /\ Forget(q, k).queue = q.queue
           /\ Forget(q, k).dirty = q.dirty
           /\ Forget(q, k).waiting = q.waiting
           /\ Forget(q, k).processing = q.processing
           /\ Forget(q, k).requeues = [q.requeues EXCEPT ![k] = 0]
           /\ Consistent(q) => Consistent(Forget(q, k))
<1>1. [q.requeues EXCEPT ![k] = 0] \in [Keys -> Nat]
  BY DEF WorkQueueType
<1> QED
  BY <1>1 DEF Forget, WorkQueueType, Consistent
=============================================================================

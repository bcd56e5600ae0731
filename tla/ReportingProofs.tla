-------------------------- MODULE ReportingProofs --------------------------
(***************************************************************************)
(* Proofs about Reporting: type correctness, that no application of a rule *)
(* is lost or counted twice between the goroutines that evaluate it and    *)
(* policyData, that the statistics of a deleted policy stay removed, and   *)
(* that the event generator loses events to its retry limit only.          *)
(***************************************************************************)
EXTENDS Reporting, FiniteSetTheorems, TLAPS

\* What a statistic says is coherent: without a rule nothing was applied.
Sound(stat) == stat.applied = 0 <=> stat.rules = {}

\* What a goroutine has between its steps: an idle one nothing, the others the policies
\* they have looked up, and statistics of these policies only.
SenderOK ==
    \A s \in Senders :
        /\ sender[s].pc = "idle" => sender[s] = Idle
        /\ sender[s].pc # "idle" => sender[s].finds \in Results
        /\ s = Worker /\ sender[s].pc # "idle" => sender[s].pols # <<>>
        /\ \A st \in ToSet(sender[s].out) \cup ToSet(sender[s].kept) :
               Sound(st) /\ st.policy \in ToSet(sender[s].pols)

\* The mutex is held for the statistic that was received.
AggregatorOK ==
    /\ mux = "aggregator" => agg.stat # None
    /\ agg.stat # None => Sound(agg.stat)

\* Nothing that could bring the statistics of a removed policy back is under way.
RemovedQuiet ==
    \A p \in Policies : p \notin listed \cup todo \cup late => policyData[p] = None /\ ~InFlight(p)

IndInv == TypeOK /\ SenderOK /\ AggregatorOK /\ Conservation /\ RemovedQuiet

-----------------------------------------------------------------------------
(* Sequences and counting. *)

(* A finite set is listed by a sequence over it. *)
LEMMA SetToSeqType == ASSUME NEW S, IsFiniteSet(S) PROVE SetToSeq(S) \in Seq(S)
<1>1. Cardinality(S) \in Nat /\ ExistsBijection(1..Cardinality(S), S)
  BY FS_CardinalityType
<1>2. \E f \in [1..Cardinality(S) -> S] : IsInjective(f)
  BY <1>1 DEF ExistsBijection, Bijection, Injection
<1>3. SetToSeq(S) \in [1..Cardinality(S) -> S]
  BY <1>2 DEF SetToSeq
<1> QED
  BY <1>1, <1>3

(* The elements of a sequence over a set are in the set. *)
LEMMA ToSetType == ASSUME NEW S, NEW s \in Seq(S) PROVE ToSet(s) \subseteq S
BY DEF ToSet

(* Sequences over a smaller set. *)
LEMMA SeqOfSubset == ASSUME NEW S, NEW T, S \subseteq T, NEW s \in Seq(S) PROVE s \in Seq(T)
OBVIOUS

(* The applications in a list of statistics can be counted. *)
LEMMA AppliedAtFinite ==
    ASSUME NEW g \in Seq(Stat), NEW p
    PROVE  /\ AppliedAt(g, p) \subseteq 1..Len(g)
           /\ IsFiniteSet(AppliedAt(g, p)) /\ Cardinality(AppliedAt(g, p)) \in Nat
<1>1. AppliedAt(g, p) \in SUBSET (1..Len(g)) /\ Len(g) \in Nat
  BY DEF AppliedAt
<1>2. IsFiniteSet(1..Len(g))
  BY <1>1, FS_Interval
<1> QED
  BY <1>1, <1>2, FS_Subset, FS_CardinalityType

(* Taking the first statistic of a list takes one application or none. *)
LEMMA AppliedTail ==
    ASSUME NEW g \in Seq(Stat), g # <<>>, NEW p
    PROVE  Cardinality(AppliedAt(g, p))
             = Cardinality(AppliedAt(Tail(g), p))
                 + IF Head(g).policy = p THEN Head(g).applied ELSE 0
<1> DEFINE A == AppliedAt(g, p)
           B == AppliedAt(Tail(g), p)
           f == [i \in B |-> i + 1]
<1>1. /\ Tail(g) \in Seq(Stat) /\ Head(g) = g[1] /\ Head(g) \in Stat
      /\ DOMAIN g = 1..Len(g) /\ DOMAIN Tail(g) = 1..(Len(g) - 1) /\ Len(g) \in Nat \ {0}
      /\ \A i \in 1..(Len(g) - 1) : Tail(g)[i] = g[i + 1]
  OBVIOUS
<1>2. IsFiniteSet(A) /\ IsFiniteSet(B) /\ Cardinality(A) \in Nat /\ Cardinality(B) \in Nat
  BY <1>1, AppliedAtFinite
<1>3. \A i \in B : i \in 1..(Len(g) - 1) /\ i + 1 \in A \ {1}
  BY <1>1 DEF AppliedAt
<1>4. \A j \in A \ {1} : j - 1 \in B /\ j \in Nat
  BY <1>1 DEF AppliedAt
<1>5. 1 \in A <=> (Head(g).policy = p /\ Head(g).applied = 1)
  BY <1>1 DEF AppliedAt
<1>6. Head(g).applied \in {0, 1}
  BY <1>1 DEF Stat
<1> HIDE DEF A, B
<1>7. f \in Bijection(B, A \ {1})
  <2>1. f \in [B -> A \ {1}]
    BY <1>3
  <2>2. \A i, j \in B : f[i] = f[j] => i = j
    BY <1>3
  <2>3. \A j \in A \ {1} : \E i \in B : f[i] = j
    <3> SUFFICES ASSUME NEW j \in A \ {1} PROVE \E i \in B : f[i] = j
      OBVIOUS
    <3>1. j - 1 \in B /\ f[j - 1] = j
      BY <1>4
    <3> QED
      BY <3>1
  <2> QED
    BY <2>1, <2>2, <2>3 DEF Bijection, Injection, Surjection, IsInjective
<1>8. Cardinality(A \ {1}) = Cardinality(B)
  BY <1>2, <1>7, FS_Bijection DEF ExistsBijection
<1>9. Cardinality(A \ {1}) = IF 1 \in A THEN Cardinality(A) - 1 ELSE Cardinality(A)
  BY <1>2, FS_RemoveElement
<1>10. Cardinality(A) = Cardinality(B) + IF Head(g).policy = p THEN Head(g).applied ELSE 0
  BY <1>2, <1>5, <1>6, <1>8, <1>9
<1> QED
  BY <1>10 DEF A, B

(* Counting a set of tagged elements beside others. *)
LEMMA TaggedCount ==
    ASSUME NEW R, IsFiniteSet(R), NEW A, IsFiniteSet(A), NEW s, R \cap ({s} \X A) = {}
    PROVE  /\ Cardinality(R \cup ({s} \X A)) \in Nat
           /\ Cardinality(R \cup ({s} \X A)) = Cardinality(R) + Cardinality(A)
<1>1. IsFiniteSet({s}) /\ Cardinality({s}) = 1
  BY FS_Singleton
<1>2. /\ IsFiniteSet({s} \X A)
      /\ Cardinality({s} \X A) = Cardinality({s}) * Cardinality(A)
  BY <1>1, FS_Product
<1>3. Cardinality(A) \in Nat /\ Cardinality(R) \in Nat
  BY FS_CardinalityType
<1>4. Cardinality({s} \X A) = Cardinality(A)
  BY <1>1, <1>2, <1>3
<1>5. Cardinality(R \cap ({s} \X A)) = 0
  BY FS_EmptySet
<1>6. Cardinality(R \cup ({s} \X A))
        = Cardinality(R) + Cardinality({s} \X A) - Cardinality(R \cap ({s} \X A))
  BY <1>2, FS_Union
<1> QED
  BY <1>3, <1>4, <1>5, <1>6

(* What a step of one goroutine does to the number of applications that are not sent. *)
LEMMA UnsentChanges ==
    ASSUME TypeOK, sender' \in [Senders -> SenderType], NEW s \in Senders, NEW p,
           \A t \in Senders \ {s} : sender'[t].out = sender[t].out
    PROVE  /\ Cardinality(Unsent(p)) \in Nat /\ Cardinality(Unsent(p)') \in Nat
           /\ Cardinality(Unsent(p)') + Cardinality(AppliedAt(sender[s].out, p))
                = Cardinality(Unsent(p)) + Cardinality(AppliedAt(sender'[s].out, p))
<1> DEFINE A == AppliedAt(sender[s].out, p)
           B == AppliedAt(sender'[s].out, p)
           F == [t \in Senders \ {s} |-> {t} \X AppliedAt(sender[t].out, p)]
           T == {F[t] : t \in Senders \ {s}}
           R == UNION T
<1>1. \A t \in Senders : sender[t].out \in Seq(Stat) /\ sender'[t].out \in Seq(Stat)
  BY DEF TypeOK, SenderType
<1>2. /\ IsFiniteSet(A) /\ IsFiniteSet(B) /\ Cardinality(A) \in Nat /\ Cardinality(B) \in Nat
      /\ \A t \in Senders : IsFiniteSet(AppliedAt(sender[t].out, p))
  BY <1>1, AppliedAtFinite
<1>3. IsFiniteSet(Senders \ {s})
  BY ReportingAssumption, FS_AddElement, FS_RemoveElement DEF Senders
<1>4. IsFiniteSet(T)
  <2>1. F \in Surjection(Senders \ {s}, T)
    BY DEF Surjection
  <2> QED
    BY <1>3, <2>1, FS_Surjection
<1>5. \A X \in T : IsFiniteSet(X)
  <2> SUFFICES ASSUME NEW t \in Senders \ {s} PROVE IsFiniteSet({t} \X AppliedAt(sender[t].out, p))
    OBVIOUS
  <2> QED
    BY <1>2, FS_Singleton, FS_Product
<1>6. IsFiniteSet(R) /\ Cardinality(R) \in Nat
  BY <1>4, <1>5, FS_UNION, FS_CardinalityType
<1>7. Unsent(p) = R \cup ({s} \X A) /\ Unsent(p)' = R \cup ({s} \X B)
  BY DEF Unsent
<1>8. R \cap ({s} \X A) = {} /\ R \cap ({s} \X B) = {}
  OBVIOUS
<1> HIDE DEF A, B, R
<1>9. /\ Cardinality(R \cup ({s} \X A)) = Cardinality(R) + Cardinality(A)
       /\ Cardinality(R \cup ({s} \X B)) = Cardinality(R) + Cardinality(B)
  BY <1>2, <1>6, <1>8, TaggedCount
<1>10. /\ Cardinality(Unsent(p)) = Cardinality(R) + Cardinality(A)
       /\ Cardinality(Unsent(p)') = Cardinality(R) + Cardinality(B)
  BY <1>7, <1>9
<1>11. /\ Cardinality(Unsent(p)) \in Nat /\ Cardinality(Unsent(p)') \in Nat
       /\ Cardinality(Unsent(p)') + Cardinality(A) = Cardinality(Unsent(p)) + Cardinality(B)
  BY <1>2, <1>6, <1>10
<1> QED
  BY <1>11 DEF A, B

-----------------------------------------------------------------------------
(* What is gathered, sent and queued. *)

(* What is gathered for a phase says of each policy only what the engine found. *)
LEMMA GatheredFacts ==
    ASSUME NEW phase \in RuleNames, NEW results \in [Policies -> Outcomes],
           NEW pols \in Seq(Policies)
    PROVE  /\ Gathered(phase, results, pols) \in Seq(Stat)
           /\ \A st \in ToSet(Gathered(phase, results, pols)) :
                  Sound(st) /\ st.policy \in ToSet(pols)
<1> DEFINE G == Gathered(phase, results, pols)
<1>1. DOMAIN pols = 1..Len(pols) /\ Len(pols) \in Nat /\ \A i \in DOMAIN pols : pols[i] \in Policies
  OBVIOUS
<1>2. ASSUME NEW p \in Policies
      PROVE  /\ gatherStat(phase, results, p) \in Stat /\ Sound(gatherStat(phase, results, p))
             /\ gatherStat(phase, results, p).policy = p
  BY DEF gatherStat, Stat, Sound
<1>3. G = [i \in 1..Len(pols) |-> gatherStat(phase, results, pols[i])]
  BY <1>1 DEF Gathered
<1> HIDE DEF G
<1>4. G \in [1..Len(pols) -> Stat]
  BY <1>1, <1>2, <1>3
<1>5. G \in Seq(Stat)
  BY <1>1, <1>4
<1>6. ASSUME NEW st \in ToSet(G) PROVE Sound(st) /\ st.policy \in ToSet(pols)
  <2>1. PICK i \in 1..Len(pols) : st = gatherStat(phase, results, pols[i])
    BY <1>3 DEF ToSet
  <2> QED
    BY <1>1, <1>2, <2>1 DEF ToSet
<1> QED
  BY <1>5, <1>6 DEF G

(* The flag that is set on the statistics when they are sent changes no count. *)
LEMMA SendStatFacts ==
    ASSUME NEW g \in Seq(Stat), NEW b \in BOOLEAN
    PROVE  /\ sendStat(g, b) \in Seq(Stat)
           /\ \A p : AppliedAt(sendStat(g, b), p) = AppliedAt(g, p)
           /\ \A st \in ToSet(sendStat(g, b)) : \E u \in ToSet(g) :
                  st.policy = u.policy /\ st.applied = u.applied /\ st.rules = u.rules
<1> DEFINE G == sendStat(g, b)
           n == IF b THEN 1 ELSE 0
<1>1. DOMAIN g = 1..Len(g) /\ Len(g) \in Nat /\ \A i \in DOMAIN g : g[i] \in Stat
  OBVIOUS
<1>2. n \in 0..1
  OBVIOUS
<1>3. G = [i \in 1..Len(g) |-> [g[i] EXCEPT !.blocked = n]]
  BY <1>1 DEF sendStat
<1> HIDE DEF G, n
<1>4. ASSUME NEW i \in 1..Len(g)
      PROVE  /\ G[i] \in Stat
             /\ G[i].policy = g[i].policy /\ G[i].applied = g[i].applied /\ G[i].rules = g[i].rules
  <2>1. G[i] = [g[i] EXCEPT !.blocked = n] /\ g[i] \in Stat
    BY <1>1, <1>3
  <2> QED
    BY <1>2, <2>1 DEF Stat
<1>5. G \in Seq(Stat) /\ DOMAIN G = DOMAIN g
  <2>1. G \in [1..Len(g) -> Stat]
    BY <1>3, <1>4
  <2> QED
    BY <1>1, <2>1
<1>6. \A p : AppliedAt(G, p) = AppliedAt(g, p)
  BY <1>1, <1>4, <1>5 DEF AppliedAt
<1>7. ASSUME NEW st \in ToSet(G)
      PROVE  \E u \in ToSet(g) :
                 st.policy = u.policy /\ st.applied = u.applied /\ st.rules = u.rules
  <2>1. PICK i \in 1..Len(g) : st = G[i]
    BY <1>1, <1>5 DEF ToSet
  <2>2. g[i] \in ToSet(g)
    BY <1>1 DEF ToSet
  <2> QED
    BY <1>4, <2>1, <2>2
<1> QED
  BY <1>5, <1>6, <1>7 DEF G

(* Events are queued as events. *)
LEMMA AddEventsType ==
    ASSUME events \in WorkQueueType, NEW infos \in SUBSET Events, NEW named, AddEvents(infos, named)
    PROVE  events' \in WorkQueueType
<1> DEFINE S == IF named THEN infos ELSE infos \ {Res}
           D == S \ (events.dirty \cup events.processing)
<1>1. IsFiniteSet(Events)
  BY ReportingAssumption, FS_AddElement DEF Events
<1>2. S \in SUBSET Events /\ D \in SUBSET Events
  OBVIOUS
<1>3. events' = AddAll(events, S)
  BY DEF AddEvents
<1>4. SetToSeq(D) \in Seq(Events)
  BY <1>1, <1>2, FS_Subset, SetToSeqType, SeqOfSubset
<1> QED
  BY <1>2, <1>3, <1>4, AddAllFacts

(* What is said about the evaluation of policies is about them or the resource. *)
LEMMA EventsType ==
    ASSUME NEW results, NEW pols \in Seq(Policies), NEW update
    PROVE  generateEvents(results, pols, update) \in SUBSET Events
BY ToSetType DEF generateEvents, Failed, Events

(* A goroutine that has nothing left to send goes on to report: the applications it is to *)
(* send are due, and it reports on the policies it has looked up. *)
LEMMA ReportStep ==
    ASSUME IndInv, agg' = agg,
           NEW s \in Senders, sender[s].out = <<>>,
           NEW rec \in SenderType, NEW g \in Seq(Stat), NEW b \in BOOLEAN, Report(s, rec, g, b),
           rec.pc # "idle", rec.finds \in Results, rec.pols # <<>> \/ s # Worker,
           \A st \in ToSet(g) \cup ToSet(rec.kept) : Sound(st) /\ st.policy \in ToSet(rec.pols)
    PROVE  /\ sender' \in [Senders -> SenderType] /\ due' \in [Policies -> Nat]
           /\ policyData' = policyData /\ late' = late
           /\ SenderOK' /\ Conservation'
           /\ \A p \in Policies : InFlight(p)' => InFlight(p) \/ p \in ToSet(rec.pols)
<1> DEFINE o == sendStat(g, b)
           r == [rec EXCEPT !.out = o]
<1>1. /\ sender' = [sender EXCEPT ![s] = r]
      /\ due' = [p \in Policies |-> due[p] + Applied(g, p)]
      /\ policyData' = policyData /\ late' = late
  BY DEF Report
<1>2. /\ o \in Seq(Stat) /\ \A p : AppliedAt(o, p) = AppliedAt(g, p)
      /\ \A st \in ToSet(o) : \E u \in ToSet(g) :
             st.policy = u.policy /\ st.applied = u.applied /\ st.rules = u.rules
  BY SendStatFacts
<1>3. \A st \in ToSet(o) : Sound(st) /\ st.policy \in ToSet(rec.pols)
  BY <1>2 DEF Sound
<1> HIDE DEF o
<1>4. /\ r \in SenderType /\ r.pc = rec.pc /\ r.finds = rec.finds /\ r.pols = rec.pols
      /\ r.kept = rec.kept /\ r.out = o
  BY <1>2 DEF SenderType
<1> HIDE DEF r
<1>5. sender \in [Senders -> SenderType]
  BY DEF IndInv, TypeOK
<1>6. sender' \in [Senders -> SenderType] /\ sender'[s] = r
      /\ \A t \in Senders \ {s} : sender'[t] = sender[t]
  BY <1>1, <1>4, <1>5
<1>7. \A p : Applied(g, p) \in Nat
  BY AppliedAtFinite DEF Applied
<1>8. due' \in [Policies -> Nat]
  BY <1>1, <1>7 DEF IndInv, TypeOK
<1>9. SenderOK'
  <2> SUFFICES ASSUME NEW t \in Senders
               PROVE  /\ sender'[t].pc = "idle" => sender'[t] = Idle
                      /\ sender'[t].pc # "idle" => sender'[t].finds \in Results
                      /\ t = Worker /\ sender'[t].pc # "idle" => sender'[t].pols # <<>>
                      /\ \A st \in ToSet(sender'[t].out) \cup ToSet(sender'[t].kept) :
                             Sound(st) /\ st.policy \in ToSet(sender'[t].pols)
    BY DEF SenderOK
  <2>1. CASE t = s
    BY <1>3, <1>4, <1>6, <2>1
  <2>2. CASE t # s
    BY <1>6, <2>2 DEF IndInv, SenderOK
  <2> QED
    BY <2>1, <2>2
<1>10. Conservation'
  <2> SUFFICES ASSUME NEW p \in Policies
               PROVE  GetPolicyStats(p)' + InChannel(p)' = due'[p]
    BY DEF Conservation
  <2> DEFINE c == IF agg.stat # None /\ agg.stat.policy = p THEN agg.stat.applied ELSE 0
  <2>1. AppliedAt(sender[s].out, p) = {} /\ Cardinality(AppliedAt(sender[s].out, p)) = 0
    BY FS_EmptySet DEF AppliedAt
  <2>2. /\ Cardinality(Unsent(p)) \in Nat /\ Cardinality(Unsent(p)') \in Nat
        /\ Cardinality(Unsent(p)') = Cardinality(Unsent(p)) + Applied(g, p)
    <3>1. AppliedAt(sender'[s].out, p) = AppliedAt(g, p)
      BY <1>2, <1>4, <1>6
    <3>2. /\ Cardinality(Unsent(p)) \in Nat /\ Cardinality(Unsent(p)') \in Nat
          /\ Cardinality(Unsent(p)') + Cardinality(AppliedAt(sender[s].out, p))
               = Cardinality(Unsent(p)) + Cardinality(AppliedAt(sender'[s].out, p))
      BY <1>6, UnsentChanges DEF IndInv
    <3> QED
      BY <1>7, <2>1, <3>1, <3>2 DEF Applied
  <2>3. /\ GetPolicyStats(p)' = GetPolicyStats(p) /\ GetPolicyStats(p) \in Nat /\ c \in Nat
        /\ InChannel(p) = c + Cardinality(Unsent(p))
        /\ InChannel(p)' = c + Cardinality(Unsent(p)')
    BY <1>1 DEF GetPolicyStats, InChannel, IndInv, TypeOK, StatusInfo, Stat
  <2>4. due'[p] = due[p] + Applied(g, p) /\ due[p] \in Nat
    BY <1>1 DEF IndInv, TypeOK
  <2>5. GetPolicyStats(p) + InChannel(p) = due[p]
    BY DEF IndInv, Conservation
  <2> HIDE DEF c
  <2> QED
    BY <1>7, <2>2, <2>3, <2>4, <2>5
<1>11. ASSUME NEW p \in Policies, InFlight(p)' PROVE InFlight(p) \/ p \in ToSet(rec.pols)
  BY <1>4, <1>6, <1>11 DEF InFlight
<1> QED
  BY <1>1, <1>6, <1>8, <1>9, <1>10, <1>11

-----------------------------------------------------------------------------
(* The steps. *)

(* The record of an idle goroutine has its type. *)
LEMMA IdleType == Idle \in SenderType
BY DEF Idle, SenderType

(* Once what is in flight is known, the removed policies are still quiet. *)
LEMMA QuietKept ==
    ASSUME RemovedQuiet, policyData' = policyData, late' = late, NEW P,
           \A p \in Policies : p \notin (listed \cup todo)' => p \notin listed \cup todo \cup P,
           \A p \in Policies : InFlight(p)' => InFlight(p) \/ p \in P
    PROVE  RemovedQuiet'
BY DEF RemovedQuiet

(* A request: the mutation of its resource. *)
LEMMA HandleMutationInv == ASSUME IndInv, NEW h \in Handlers, HandleMutation(h) PROVE IndInv'
<1>1. PICK finds \in Results :
        LET pols == SetToSeq(listed) IN
        /\ Report(h, [Idle EXCEPT !.pc = "mutation", !.pols = pols, !.update = exists,
                                  !.finds = finds],
                  Gathered("mutate", finds.mutate, pols), FALSE)
        /\ AddEvents(generateEvents(finds.mutate, pols, exists), finds.named)
  BY DEF HandleMutation
<1> DEFINE pols == SetToSeq(listed)
           rec == [Idle EXCEPT !.pc = "mutation", !.pols = pols, !.update = exists, !.finds = finds]
           g == Gathered("mutate", finds.mutate, pols)
<1>2. /\ sender[h].pc = "idle" /\ agg' = agg /\ mux' = mux /\ listed' = listed /\ todo' = todo
      /\ exists' = exists /\ h \in Senders
  BY DEF HandleMutation, objects, Senders
<1>3. Report(h, rec, g, FALSE) /\ AddEvents(generateEvents(finds.mutate, pols, exists), finds.named)
  BY <1>1
<1>4. pols \in Seq(listed) /\ pols \in Seq(Policies)
  BY ReportingAssumption, FS_Subset, SetToSeqType, SeqOfSubset DEF IndInv, TypeOK
<1> HIDE DEF pols
<1>5. finds.mutate \in [Policies -> Outcomes]
  BY ReportingAssumption
<1>6. g \in Seq(Stat) /\ \A st \in ToSet(g) : Sound(st) /\ st.policy \in ToSet(pols)
  BY <1>4, <1>5, GatheredFacts DEF RuleNames
<1> HIDE DEF g
<1>7. /\ rec \in SenderType /\ rec.pc = "mutation" /\ rec.finds = finds /\ rec.pols = pols
      /\ rec.kept = <<>>
  <2>1. Idle \in SenderType /\ Idle.kept = <<>> /\ exists \in BOOLEAN
    BY IdleType DEF Idle, IndInv, TypeOK
  <2>2. rec \in SenderType
    BY <1>4, <2>1 DEF SenderType
  <2> QED
    BY <2>1, <2>2 DEF SenderType
<1> HIDE DEF rec
<1>8. sender[h].out = <<>> /\ (pols # <<>> \/ h # Worker)
  BY <1>2, ReportingAssumption DEF IndInv, SenderOK, Idle
<1>9. \A st \in ToSet(g) \cup ToSet(rec.kept) : Sound(st) /\ st.policy \in ToSet(rec.pols)
  BY <1>6, <1>7 DEF ToSet
<1>10. /\ sender' \in [Senders -> SenderType] /\ due' \in [Policies -> Nat]
       /\ policyData' = policyData /\ late' = late
       /\ SenderOK' /\ Conservation'
       /\ \A p \in Policies : InFlight(p)' => InFlight(p) \/ p \in ToSet(pols)
  BY <1>2, <1>3, <1>6, <1>7, <1>8, <1>9, ReportStep
<1>11. events' \in WorkQueueType
  BY <1>3, <1>4, EventsType, AddEventsType DEF IndInv, TypeOK
<1>12. TypeOK'
  BY <1>2, <1>10, <1>11 DEF IndInv, TypeOK
<1>13. ToSet(pols) \subseteq listed
  BY <1>4, ToSetType
<1>14. RemovedQuiet'
  BY <1>2, <1>10, <1>13, QuietKept DEF IndInv
<1> QED
  BY <1>2, <1>10, <1>12, <1>14 DEF IndInv, AggregatorOK

(* A request: the validation of its resource. *)
LEMMA HandleValidationInv == ASSUME IndInv, NEW h \in Handlers, HandleValidation(h) PROVE IndInv'
<1> DEFINE r == sender[h]
           results == r.finds.validate
           blocked == Failed(results, r.pols) \cap Enforce # {}
           rec == [r EXCEPT !.pc = "validation", !.allowed = ~blocked]
           g == Gathered("validate", results, r.pols)
           infos == IF blocked THEN {} ELSE generateEvents(results, r.pols, r.update)
<1>1. /\ r.pc = "mutation" /\ r.out = <<>> /\ Report(h, rec, g, blocked)
      /\ AddEvents(infos, r.finds.named)
      /\ agg' = agg /\ mux' = mux /\ listed' = listed /\ todo' = todo /\ exists' = exists
      /\ h \in Senders
  BY DEF HandleValidation, objects, Senders
<1>2. blocked \in BOOLEAN /\ (~blocked) \in BOOLEAN
  OBVIOUS
<1>3. r \in SenderType /\ r.pols \in Seq(Policies) /\ r.finds \in Results
      /\ \A st \in ToSet(r.out) \cup ToSet(r.kept) : Sound(st) /\ st.policy \in ToSet(r.pols)
  BY <1>1 DEF IndInv, TypeOK, SenderOK, SenderType
<1>4. results \in [Policies -> Outcomes]
  BY <1>3, ReportingAssumption
<1>5. infos \in SUBSET Events
  BY <1>3, EventsType
<1> HIDE DEF results, blocked
<1>6. g \in Seq(Stat) /\ \A st \in ToSet(g) : Sound(st) /\ st.policy \in ToSet(r.pols)
  BY <1>3, <1>4, GatheredFacts DEF RuleNames
<1> HIDE DEF g, infos
<1>7. /\ rec \in SenderType /\ rec.pc = "validation" /\ rec.finds = r.finds
      /\ rec.pols = r.pols /\ rec.kept = r.kept
  BY <1>2, <1>3 DEF SenderType
<1> HIDE DEF rec, r
<1>8. \A st \in ToSet(g) \cup ToSet(rec.kept) : Sound(st) /\ st.policy \in ToSet(rec.pols)
  BY <1>3, <1>6, <1>7
<1>9. h # Worker /\ r = sender[h]
  BY ReportingAssumption DEF r
<1>10. /\ sender' \in [Senders -> SenderType] /\ due' \in [Policies -> Nat]
       /\ policyData' = policyData /\ late' = late
       /\ SenderOK' /\ Conservation'
       /\ \A p \in Policies : InFlight(p)' => InFlight(p) \/ p \in ToSet(r.pols)
  BY <1>1, <1>2, <1>3, <1>6, <1>7, <1>8, <1>9, ReportStep
<1>11. events' \in WorkQueueType
  BY <1>1, <1>5, AddEventsType DEF IndInv, TypeOK
<1>12. TypeOK'
  BY <1>1, <1>10, <1>11 DEF IndInv, TypeOK
<1>13. \A p \in Policies : p \in ToSet(r.pols) => InFlight(p)
  BY <1>1, <1>9 DEF InFlight
<1>14. RemovedQuiet'
  BY <1>1, <1>10, <1>13, QuietKept DEF IndInv
<1> QED
  BY <1>1, <1>10, <1>12, <1>14 DEF IndInv, AggregatorOK

(* The scan of a policy: the mutation of the resource. *)
LEMMA ScanMutationInv == ASSUME IndInv, ScanMutation PROVE IndInv'
<1>1. PICK p \in todo \cap listed, finds \in Results :
        LET gathered == Gathered("mutate", finds.mutate, <<p>>) IN
        /\ todo' = todo \ {p}
        /\ Report(Worker, [Idle EXCEPT !.pc = IF exists THEN "mutation" ELSE "status",
                                       !.pols = <<p>>, !.finds = finds, !.kept = gathered],
                  IF exists THEN gathered ELSE <<>>, FALSE)
  BY DEF ScanMutation
<1> DEFINE k == Gathered("mutate", finds.mutate, <<p>>)
           g == IF exists THEN k ELSE <<>>
           c == IF exists THEN "mutation" ELSE "status"
           rec == [Idle EXCEPT !.pc = c, !.pols = <<p>>, !.finds = finds, !.kept = k]
<1>2. /\ sender[Worker].pc = "idle" /\ agg' = agg /\ mux' = mux /\ listed' = listed
      /\ todo' = todo \ {p} /\ exists' = exists /\ events' = events /\ Worker \in Senders
  BY <1>1 DEF ScanMutation, Senders
<1>3. Report(Worker, rec, g, FALSE)
  BY <1>1
<1>4. p \in Policies /\ <<p>> \in Seq(Policies) /\ <<p>> # <<>> /\ ToSet(<<p>>) \subseteq {p}
  BY DEF IndInv, TypeOK, ToSet
<1>5. finds.mutate \in [Policies -> Outcomes]
  BY ReportingAssumption
<1>6. k \in Seq(Stat) /\ \A st \in ToSet(k) : Sound(st) /\ st.policy \in ToSet(<<p>>)
  BY <1>4, <1>5, GatheredFacts DEF RuleNames
<1> HIDE DEF k
<1>7. g \in Seq(Stat) /\ \A st \in ToSet(g) : Sound(st) /\ st.policy \in ToSet(<<p>>)
  BY <1>6 DEF ToSet
<1>8. c \in {"mutation", "status"}
  OBVIOUS
<1> HIDE DEF g, c
<1>9. /\ rec \in SenderType /\ rec.pc = c /\ rec.finds = finds /\ rec.pols = <<p>>
      /\ rec.kept = k
  <2>1. Idle \in SenderType
    BY IdleType
  <2>2. rec \in SenderType
    BY <1>4, <1>6, <1>8, <2>1 DEF SenderType
  <2> QED
    BY <2>1, <2>2 DEF SenderType
<1> HIDE DEF rec
<1>10. sender[Worker].out = <<>>
  BY <1>2 DEF IndInv, SenderOK, Idle
<1>11. \A st \in ToSet(g) \cup ToSet(rec.kept) : Sound(st) /\ st.policy \in ToSet(rec.pols)
  BY <1>6, <1>7, <1>9
<1>12. /\ sender' \in [Senders -> SenderType] /\ due' \in [Policies -> Nat]
       /\ policyData' = policyData /\ late' = late
       /\ SenderOK' /\ Conservation'
       /\ \A q \in Policies : InFlight(q)' => InFlight(q) \/ q \in ToSet(<<p>>)
  BY <1>2, <1>3, <1>4, <1>7, <1>8, <1>9, <1>10, <1>11, ReportStep
<1>13. TypeOK'
  BY <1>2, <1>12 DEF IndInv, TypeOK
<1>14. \A q \in Policies : q \notin (listed \cup todo)' => q \notin listed \cup todo \cup ToSet(<<p>>)
  BY <1>2, <1>4
<1>15. RemovedQuiet'
  BY <1>12, <1>14, QuietKept DEF IndInv
<1> QED
  BY <1>2, <1>12, <1>13, <1>15 DEF IndInv, AggregatorOK

(* The elements of a concatenation. *)
LEMMA ToSetConcat ==
    ASSUME NEW S, NEW s \in Seq(S), NEW t \in Seq(S)
    PROVE  s \o t \in Seq(S) /\ ToSet(s \o t) \subseteq ToSet(s) \cup ToSet(t)
<1>1. s \o t \in Seq(S)
  OBVIOUS
<1>2. ASSUME NEW i \in DOMAIN (s \o t) PROVE (s \o t)[i] \in ToSet(s) \cup ToSet(t)
  <2>1. Len(s) \in Nat /\ Len(t) \in Nat /\ i \in 1..(Len(s) + Len(t))
    OBVIOUS
  <2>2. DOMAIN s = 1..Len(s) /\ DOMAIN t = 1..Len(t)
    OBVIOUS
  <2>3. CASE i <= Len(s)
    <3>1. (s \o t)[i] = s[i] /\ i \in DOMAIN s
      BY <2>1, <2>2, <2>3
    <3> QED
      BY <3>1 DEF ToSet
  <2>4. CASE i > Len(s)
    <3>1. (s \o t)[i] = t[i - Len(s)] /\ i - Len(s) \in DOMAIN t
      BY <2>1, <2>2, <2>4
    <3> QED
      BY <3>1 DEF ToSet
  <2> QED
    BY <2>1, <2>3, <2>4
<1> QED
  BY <1>1, <1>2 DEF ToSet

(* The scan of a policy: the validation of the resource. *)
LEMMA ScanValidationInv == ASSUME IndInv, ScanValidation PROVE IndInv'
<1> DEFINE r == sender[Worker]
           rec == [r EXCEPT !.pc = "status", !.kept = <<>>]
           v == Gathered("validate", r.finds.validate, r.pols)
           g == r.kept \o v
           infos == generateEventsPerEr(r.finds.mutate, Head(r.pols))
                        \cup generateEventsPerEr(r.finds.validate, Head(r.pols))
<1>1. /\ r.pc = "mutation" /\ r.out = <<>> /\ Report(Worker, rec, g, FALSE)
      /\ AddEvents(infos, TRUE)
      /\ agg' = agg /\ mux' = mux /\ listed' = listed /\ todo' = todo /\ exists' = exists
      /\ Worker \in Senders
  BY DEF ScanValidation, objects, Senders
<1>2. /\ r \in SenderType /\ r.pols \in Seq(Policies) /\ r.finds \in Results /\ r.pols # <<>>
      /\ r.kept \in Seq(Stat)
      /\ \A st \in ToSet(r.out) \cup ToSet(r.kept) : Sound(st) /\ st.policy \in ToSet(r.pols)
  BY <1>1 DEF IndInv, TypeOK, SenderOK, SenderType
<1>3. r.finds.validate \in [Policies -> Outcomes]
  BY <1>2, ReportingAssumption
<1>4. infos \in SUBSET Events
  <2>1. Head(r.pols) \in Policies
    BY <1>2
  <2> QED
    BY <2>1 DEF generateEventsPerEr, Events
<1>5. v \in Seq(Stat) /\ \A st \in ToSet(v) : Sound(st) /\ st.policy \in ToSet(r.pols)
  BY <1>2, <1>3, GatheredFacts DEF RuleNames
<1> HIDE DEF v, infos
<1>6. g \in Seq(Stat) /\ \A st \in ToSet(g) : Sound(st) /\ st.policy \in ToSet(r.pols)
  <2>1. g \in Seq(Stat) /\ ToSet(g) \subseteq ToSet(r.kept) \cup ToSet(v)
    BY <1>2, <1>5, ToSetConcat
  <2> QED
    BY <1>2, <1>5, <2>1
<1> HIDE DEF g
<1>7. /\ rec \in SenderType /\ rec.pc = "status" /\ rec.finds = r.finds
      /\ rec.pols = r.pols /\ rec.kept = <<>>
  <2>1. <<>> \in Seq(Stat)
    OBVIOUS
  <2>2. rec \in SenderType
    BY <1>2, <2>1 DEF SenderType
  <2> QED
    BY <1>2, <2>2 DEF SenderType
<1> HIDE DEF rec, r
<1>8. \A st \in ToSet(g) \cup ToSet(rec.kept) : Sound(st) /\ st.policy \in ToSet(rec.pols)
  BY <1>6, <1>7 DEF ToSet
<1>9. r = sender[Worker]
  BY DEF r
<1>10. /\ sender' \in [Senders -> SenderType] /\ due' \in [Policies -> Nat]
       /\ policyData' = policyData /\ late' = late
       /\ SenderOK' /\ Conservation'
       /\ \A p \in Policies : InFlight(p)' => InFlight(p) \/ p \in ToSet(r.pols)
  BY <1>1, <1>2, <1>6, <1>7, <1>8, <1>9, ReportStep
<1>11. events' \in WorkQueueType
  BY <1>1, <1>4, AddEventsType DEF IndInv, TypeOK
<1>12. TypeOK'
  BY <1>1, <1>10, <1>11 DEF IndInv, TypeOK
<1>13. \A p \in Policies : p \in ToSet(r.pols) => InFlight(p)
  BY <1>1, <1>9 DEF InFlight
<1>14. RemovedQuiet'
  BY <1>1, <1>10, <1>13, QuietKept DEF IndInv
<1> QED
  BY <1>1, <1>10, <1>12, <1>14 DEF IndInv, AggregatorOK

(* A goroutine that has sent its statistics ends its request or its scan. *)
LEMMA GoIdle ==
    ASSUME IndInv, NEW s \in Senders, sender[s].out = <<>>,
           sender' = [sender EXCEPT ![s] = Idle],
           UNCHANGED <<agg, mux, stats, events, listed, todo>>, exists' \in BOOLEAN
    PROVE  IndInv'
<1>1. agg' = agg /\ mux' = mux /\ policyData' = policyData /\ due' = due /\ late' = late
      /\ events' = events /\ listed' = listed /\ todo' = todo
  BY DEF stats
<1>2. sender \in [Senders -> SenderType]
  BY DEF IndInv, TypeOK
<1>3. /\ sender' \in [Senders -> SenderType] /\ sender'[s] = Idle
      /\ \A t \in Senders \ {s} : sender'[t] = sender[t]
  BY <1>2, IdleType
<1>4. Idle.out = <<>> /\ Idle.kept = <<>> /\ Idle.pols = <<>> /\ Idle.pc = "idle"
  BY DEF Idle
<1>5. TypeOK'
  BY <1>1, <1>3 DEF IndInv, TypeOK
<1>6. SenderOK'
  BY <1>3, <1>4 DEF IndInv, SenderOK, ToSet
<1>7. Conservation'
  <2> SUFFICES ASSUME NEW p \in Policies PROVE GetPolicyStats(p)' + InChannel(p)' = due'[p]
    BY DEF Conservation
  <2>1. AppliedAt(sender'[s].out, p) = AppliedAt(sender[s].out, p)
        /\ AppliedAt(sender[s].out, p) \in {{}}
    BY <1>3, <1>4 DEF AppliedAt
  <2>2. Cardinality(Unsent(p)') = Cardinality(Unsent(p))
    <3>1. Cardinality(AppliedAt(sender[s].out, p)) = 0
      BY <2>1, FS_EmptySet
    <3>2. /\ Cardinality(Unsent(p)) \in Nat /\ Cardinality(Unsent(p)') \in Nat
          /\ Cardinality(Unsent(p)') + Cardinality(AppliedAt(sender[s].out, p))
               = Cardinality(Unsent(p)) + Cardinality(AppliedAt(sender'[s].out, p))
      BY <1>3, UnsentChanges DEF IndInv
    <3> QED
      BY <2>1, <3>1, <3>2
  <2>3. InChannel(p)' = InChannel(p) /\ GetPolicyStats(p)' = GetPolicyStats(p)
    BY <1>1, <2>2 DEF InChannel, GetPolicyStats
  <2> QED
    BY <1>1, <2>3 DEF IndInv, Conservation
<1>8. \A p \in Policies : InFlight(p)' => InFlight(p)
  BY <1>1, <1>3, <1>4 DEF InFlight, ToSet
<1>9. RemovedQuiet'
  BY <1>1, <1>8, QuietKept DEF IndInv
<1> QED
  BY <1>1, <1>5, <1>6, <1>7, <1>9 DEF IndInv, AggregatorOK

(* Steps that touch neither the goroutines nor the counts. *)
LEMMA CountsKept ==
    ASSUME Conservation, UNCHANGED <<sender, policyData, due>>, agg'.stat = agg.stat
    PROVE  Conservation'
BY DEF Conservation, GetPolicyStats, InChannel, Unsent

(* The statistics of a policy that is gone are removed. *)
LEMMA SyncDeletedInv == ASSUME IndInv, SyncDeleted PROVE IndInv'
<1>1. PICK p \in todo \ listed : RemovePolicyStats(p) /\ todo' = todo \ {p}
  BY DEF SyncDeleted
<1>2. sender' = sender /\ agg' = agg /\ mux' = mux /\ events' = events /\ listed' = listed
      /\ exists' = exists
  BY DEF SyncDeleted
<1>3. /\ p \in Policies /\ policyData' = [policyData EXCEPT ![p] = None]
      /\ due' = [due EXCEPT ![p] = due[p] - GetPolicyStats(p)]
      /\ late' = IF InFlight(p) THEN late \cup {p} ELSE late \ {p}
  BY <1>1 DEF RemovePolicyStats, IndInv, TypeOK
<1>4. \A q : Unsent(q)' = Unsent(q) /\ InChannel(q)' = InChannel(q)
  BY <1>2 DEF Unsent, InChannel
<1>5. GetPolicyStats(p) \in Nat /\ InChannel(p) \in Nat
  <2>1. Cardinality(Unsent(p)) \in Nat
    <3>1. Worker \in Senders /\ sender' \in [Senders -> SenderType]
      BY <1>2 DEF Senders, IndInv, TypeOK
    <3>2. \A t \in Senders \ {Worker} : sender'[t].out = sender[t].out
      BY <1>2
    <3> QED
      BY <3>1, <3>2, UnsentChanges DEF IndInv
  <2> QED
    BY <1>3, <2>1 DEF GetPolicyStats, InChannel, IndInv, TypeOK, StatusInfo, Stat
<1>6. due[p] = GetPolicyStats(p) + InChannel(p) /\ due[p] - GetPolicyStats(p) \in Nat
  BY <1>3, <1>5 DEF IndInv, Conservation
<1>7. TypeOK'
  <2>1. policyData' \in [Policies -> StatusInfo \cup {None}]
    BY <1>3 DEF IndInv, TypeOK
  <2>2. due' \in [Policies -> Nat]
    BY <1>3, <1>6 DEF IndInv, TypeOK
  <2> QED
    BY <1>1, <1>2, <1>3, <2>1, <2>2 DEF IndInv, TypeOK
<1>8. Conservation'
  <2> SUFFICES ASSUME NEW q \in Policies PROVE GetPolicyStats(q)' + InChannel(q)' = due'[q]
    BY DEF Conservation
  <2>1. policyData'[q] = (IF q = p THEN None ELSE policyData[q])
        /\ due'[q] = (IF q = p THEN due[p] - GetPolicyStats(p) ELSE due[q])
    BY <1>3 DEF IndInv, TypeOK
  <2>2. GetPolicyStats(q)' = IF q = p THEN 0 ELSE GetPolicyStats(q)
    BY <2>1 DEF GetPolicyStats
  <2> QED
    BY <1>4, <1>5, <1>6, <2>1, <2>2 DEF IndInv, Conservation
<1>9. RemovedQuiet'
  <2> SUFFICES ASSUME NEW q \in Policies, q \notin (listed \cup todo \cup late)'
               PROVE  policyData'[q] = None /\ ~InFlight(q)'
    BY DEF RemovedQuiet
  <2>1. InFlight(q)' = InFlight(q)
    BY <1>2 DEF InFlight
  <2>2. CASE q = p
    BY <1>3, <2>1, <2>2 DEF IndInv, TypeOK
  <2>3. CASE q # p
    BY <1>1, <1>2, <1>3, <2>1, <2>3 DEF IndInv, TypeOK, RemovedQuiet
  <2> QED
    BY <2>2, <2>3
<1> QED
  BY <1>2, <1>7, <1>8, <1>9 DEF IndInv, SenderOK, AggregatorOK

(* The aggregator takes the first statistic of a goroutine. *)
LEMMA ReceiveInv == ASSUME IndInv, NEW s \in Senders, Receive(s) PROVE IndInv'
<1> DEFINE o == sender[s].out
           r == [sender[s] EXCEPT !.out = Tail(o)]
<1>1. /\ agg.running /\ agg.stat = None /\ o # <<>>
      /\ agg' = [agg EXCEPT !.stat = Head(o)]
      /\ sender' = [sender EXCEPT ![s] = r]
      /\ mux' = mux /\ policyData' = policyData /\ due' = due /\ late' = late
      /\ events' = events /\ listed' = listed /\ todo' = todo /\ exists' = exists
  BY DEF Receive, stats, objects
<1>2. sender \in [Senders -> SenderType] /\ sender[s] \in SenderType /\ o \in Seq(Stat)
  BY DEF IndInv, TypeOK, SenderType
<1>3. /\ Tail(o) \in Seq(Stat) /\ Head(o) \in Stat /\ Head(o) \in ToSet(o)
      /\ ToSet(Tail(o)) \subseteq ToSet(o)
  <2>1. /\ Tail(o) \in Seq(Stat) /\ Head(o) \in Stat /\ Head(o) = o[1]
        /\ DOMAIN o = 1..Len(o) /\ DOMAIN Tail(o) = 1..(Len(o) - 1) /\ Len(o) \in Nat \ {0}
        /\ \A i \in 1..(Len(o) - 1) : Tail(o)[i] = o[i + 1]
    BY <1>1, <1>2
  <2>2. 1 \in DOMAIN o /\ \A i \in 1..(Len(o) - 1) : i + 1 \in DOMAIN o
    BY <2>1
  <2> HIDE DEF o
  <2> QED
    BY <2>1, <2>2 DEF ToSet
<1>4. r \in SenderType /\ r.out = Tail(o) /\ r.pc = sender[s].pc /\ r.finds = sender[s].finds
      /\ r.pols = sender[s].pols /\ r.kept = sender[s].kept
  BY <1>2, <1>3 DEF SenderType
<1>5. agg.stat = None /\ agg'.stat = Head(o) /\ agg'.running = agg.running /\ Head(o) # None
      /\ agg' \in [stat : Stat \cup {None}, running : BOOLEAN]
  BY <1>1, <1>3, ReportingAssumption DEF IndInv, TypeOK
<1> HIDE DEF r
<1>6. /\ sender' \in [Senders -> SenderType] /\ sender'[s] = r
      /\ \A t \in Senders \ {s} : sender'[t] = sender[t]
  BY <1>1, <1>2, <1>4
<1>7. Sound(Head(o)) /\ Head(o).policy \in ToSet(sender[s].pols)
  BY <1>3 DEF IndInv, SenderOK
<1>8. TypeOK'
  BY <1>1, <1>5, <1>6 DEF IndInv, TypeOK
<1>9. SenderOK'
  <2>1. r.pc # "idle"
    <3>1. sender[s].pc = "idle" => o = <<>>
      BY DEF IndInv, SenderOK, Idle
    <3> QED
      BY <1>1, <1>4, <3>1
  <2>2. \A st \in ToSet(r.out) \cup ToSet(r.kept) : Sound(st) /\ st.policy \in ToSet(r.pols)
    BY <1>3, <1>4 DEF IndInv, SenderOK
  <2>3. r.finds \in Results /\ (s = Worker => r.pols # <<>>)
    BY <1>4, <2>1 DEF IndInv, SenderOK
  <2> QED
    BY <1>6, <2>1, <2>2, <2>3 DEF IndInv, SenderOK
<1>10. Conservation'
  <2> SUFFICES ASSUME NEW p \in Policies PROVE GetPolicyStats(p)' + InChannel(p)' = due'[p]
    BY DEF Conservation
  <2> DEFINE c == IF Head(o).policy = p THEN Head(o).applied ELSE 0
             x == Cardinality(AppliedAt(o, p))
             y == Cardinality(AppliedAt(Tail(o), p))
  <2>1. x = y + c
    BY <1>1, <1>2, AppliedTail
  <2>2. x \in Nat /\ y \in Nat
    BY <1>2, <1>3, AppliedAtFinite
  <2>3. c \in Nat
    BY <1>3 DEF Stat
  <2>4. /\ Cardinality(Unsent(p)) \in Nat /\ Cardinality(Unsent(p)') \in Nat
        /\ Cardinality(Unsent(p)') + x = Cardinality(Unsent(p)) + y
    BY <1>4, <1>6, UnsentChanges DEF IndInv
  <2>5. InChannel(p) = 0 + Cardinality(Unsent(p)) /\ InChannel(p)' = c + Cardinality(Unsent(p)')
    BY <1>5 DEF InChannel
  <2>6. GetPolicyStats(p)' = GetPolicyStats(p) /\ due'[p] = due[p]
    BY <1>1 DEF GetPolicyStats
  <2> HIDE DEF c, x, y
  <2>7. InChannel(p)' = InChannel(p)
    BY <2>1, <2>2, <2>3, <2>4, <2>5
  <2> QED
    BY <2>6, <2>7 DEF IndInv, Conservation
<1>11. \A p \in Policies : InFlight(p)' => InFlight(p)
  BY <1>4, <1>5, <1>6, <1>7 DEF InFlight
<1>12. RemovedQuiet'
  BY <1>1, <1>11, QuietKept DEF IndInv
<1> QED
  BY <1>1, <1>5, <1>7, <1>8, <1>9, <1>10, <1>12 DEF IndInv, AggregatorOK

(* The aggregator counts the statistic it holds; one without a rule counts nothing. *)
LEMMA AggregateInv == ASSUME IndInv, Aggregate PROVE IndInv'
<1> DEFINE st == agg.stat
           n == aggregate(policyData[st.policy], st)
<1>1. /\ mux = "aggregator" /\ mux' = None /\ agg' = [agg EXCEPT !.stat = None]
      /\ policyData' = IF st.rules = {} THEN policyData ELSE [policyData EXCEPT ![st.policy] = n]
      /\ sender' = sender /\ due' = due /\ late' = late
      /\ events' = events /\ listed' = listed /\ todo' = todo /\ exists' = exists
  BY DEF Aggregate, objects
<1>2. st # None /\ st \in Stat /\ Sound(st)
  BY <1>1 DEF IndInv, AggregatorOK, TypeOK
<1>3. st.policy \in Policies /\ st.applied \in Nat /\ st.blocked \in Nat /\ st.rules \subseteq RuleNames
  BY <1>2 DEF Stat
<1>4. policyData \in [Policies -> StatusInfo \cup {None}]
  BY DEF IndInv, TypeOK
<1>5. n \in StatusInfo /\ n.applied = GetPolicyStats(st.policy) + st.applied /\ n # None
      /\ GetPolicyStats(st.policy) \in Nat
  <2>1. CASE policyData[st.policy] = None
    BY <1>3, <2>1, ReportingAssumption DEF aggregate, StatusInfo, GetPolicyStats
  <2>2. CASE policyData[st.policy] # None
    <3>1. policyData[st.policy] \in StatusInfo
      BY <1>3, <1>4, <2>2
    <3>2. aggregateRules(st) \subseteq RuleNames
      BY <1>3 DEF aggregateRules
    <3> QED
      BY <1>3, <2>2, <3>1, <3>2, ReportingAssumption DEF aggregate, StatusInfo, GetPolicyStats
  <2> QED
    BY <2>1, <2>2
<1>6. agg'.stat = None /\ agg' \in [stat : Stat \cup {None}, running : BOOLEAN]
  BY <1>1 DEF IndInv, TypeOK
<1> HIDE DEF n
<1>7. policyData' \in [Policies -> StatusInfo \cup {None}]
  BY <1>1, <1>3, <1>4, <1>5
<1>8. TypeOK'
  BY <1>1, <1>6, <1>7 DEF IndInv, TypeOK
<1>9. Conservation'
  <2> SUFFICES ASSUME NEW p \in Policies PROVE GetPolicyStats(p)' + InChannel(p)' = due'[p]
    BY DEF Conservation
  <2>1. Unsent(p)' = Unsent(p)
    BY <1>1 DEF Unsent
  <2>2. Cardinality(Unsent(p)) \in Nat
    <3>1. /\ Worker \in Senders /\ sender' \in [Senders -> SenderType]
          /\ \A t \in Senders \ {Worker} : sender'[t].out = sender[t].out
      BY <1>1 DEF Senders, IndInv, TypeOK
    <3> QED
      BY <3>1, UnsentChanges DEF IndInv
  <2>3. InChannel(p)' = 0 + Cardinality(Unsent(p))
    BY <1>6, <2>1 DEF InChannel
  <2>4. InChannel(p) = (IF st.policy = p THEN st.applied ELSE 0) + Cardinality(Unsent(p))
    BY <1>2 DEF InChannel
  <2>5. GetPolicyStats(p) \in Nat
    BY <1>4 DEF GetPolicyStats, StatusInfo
  <2>6. GetPolicyStats(p)' = GetPolicyStats(p) + IF st.policy = p THEN st.applied ELSE 0
    <3>1. CASE st.rules = {}
      <4>1. policyData' = policyData /\ st.applied = 0
        BY <1>1, <1>2, <3>1 DEF Sound
      <4>2. GetPolicyStats(p)' = GetPolicyStats(p)
        BY <4>1 DEF GetPolicyStats
      <4> QED
        BY <2>5, <4>1, <4>2
    <3>2. CASE st.rules # {} /\ st.policy = p
      <4>1. policyData'[p] = n
        BY <1>1, <1>3, <1>4, <3>2
      <4> QED
        BY <1>5, <3>2, <4>1 DEF GetPolicyStats
    <3>3. CASE st.rules # {} /\ st.policy # p
      <4>1. policyData'[p] = policyData[p]
        BY <1>1, <1>4, <3>3
      <4>2. GetPolicyStats(p)' = GetPolicyStats(p)
        BY <4>1 DEF GetPolicyStats
      <4> QED
        BY <2>5, <3>3, <4>2
    <3> QED
      BY <3>1, <3>2, <3>3
  <2>7. GetPolicyStats(p) + InChannel(p) = due'[p]
    BY <1>1 DEF IndInv, Conservation
  <2> QED
    BY <1>3, <2>2, <2>3, <2>4, <2>5, <2>6, <2>7
<1>10. RemovedQuiet'
  <2> SUFFICES ASSUME NEW p \in Policies, p \notin (listed \cup todo \cup late)'
               PROVE  policyData'[p] = None /\ ~InFlight(p)'
    BY DEF RemovedQuiet
  <2>1. policyData[p] = None /\ ~InFlight(p)
    BY <1>1 DEF IndInv, RemovedQuiet
  <2>2. st.policy # p
    BY <1>2, <2>1 DEF InFlight
  <2>3. policyData'[p] = policyData[p]
    BY <1>1, <1>4, <2>2
  <2>4. ~InFlight(p)'
    BY <1>1, <1>6, <2>1 DEF InFlight
  <2> QED
    BY <2>1, <2>3, <2>4
<1> QED
  BY <1>1, <1>6, <1>8, <1>9, <1>10, ReportingAssumption DEF IndInv, SenderOK, AggregatorOK

(* An event is recorded, retried or given up. *)
LEMMA EventSyncType ==
    ASSUME events \in WorkQueueType, events.queue # <<>>, NEW err,
           events' = Done(Get(handleErr(err, Head(events.queue))), Head(events.queue))
    PROVE  events' \in WorkQueueType
<1> DEFINE e == Head(events.queue)
           q == handleErr(err, e)
<1>1. e \in Events
  BY GetFacts
<1>2. q \in WorkQueueType /\ q.queue = events.queue
  BY <1>1, ForgetFacts, AddRateLimitedFacts DEF handleErr
<1> HIDE DEF q
<1>3. Get(q) \in WorkQueueType
  BY <1>2, GetFacts
<1> QED
  BY <1>1, <1>3, DoneFacts DEF q

-----------------------------------------------------------------------------
(* The invariant is inductive. *)

(* It holds at the start: nothing was evaluated, and every policy is listed. *)
LEMMA InitInv == ASSUME Init PROVE IndInv
<1>1. /\ sender = [s \in Senders |-> Idle] /\ agg = [stat |-> None, running |-> FALSE]
      /\ mux = None /\ policyData = [p \in Policies |-> None] /\ events = EmptyQueue
      /\ listed = Policies /\ todo = Policies /\ exists = FALSE
      /\ due = [p \in Policies |-> 0] /\ late = {}
  BY DEF Init
<1>2. Idle.out = <<>> /\ Idle.kept = <<>> /\ Idle.pc = "idle"
  BY DEF Idle
<1>3. TypeOK
  BY <1>1, IdleType, EmptyQueueFacts DEF TypeOK
<1>4. SenderOK
  BY <1>1, <1>2 DEF SenderOK, ToSet
<1>5. Conservation
  <2> SUFFICES ASSUME NEW p \in Policies PROVE GetPolicyStats(p) + InChannel(p) = due[p]
    BY DEF Conservation
  <2>1. \A s \in Senders : AppliedAt(sender[s].out, p) = {}
    BY <1>1, <1>2 DEF AppliedAt
  <2>2. Unsent(p) = {}
    BY <2>1 DEF Unsent
  <2>3. Cardinality(Unsent(p)) = 0
    BY <2>2, FS_EmptySet
  <2> QED
    BY <1>1, <2>3 DEF GetPolicyStats, InChannel
<1> QED
  BY <1>1, <1>3, <1>4, <1>5, ReportingAssumption DEF IndInv, AggregatorOK, RemovedQuiet

(* Every step keeps it. *)
LEMMA StepInv == ASSUME IndInv, [Next]_vars PROVE IndInv'
<1>1. ASSUME NEW h \in Handlers, HandleMutation(h) PROVE IndInv'
  BY <1>1, HandleMutationInv
<1>2. ASSUME NEW h \in Handlers, HandleValidation(h) PROVE IndInv'
  BY <1>2, HandleValidationInv
<1>3. ASSUME NEW h \in Handlers, Finish(h) PROVE IndInv'
  <2>1. /\ h \in Senders /\ sender[h].out = <<>> /\ sender' = [sender EXCEPT ![h] = Idle]
        /\ UNCHANGED <<agg, mux, stats, events, listed, todo>>
    BY <1>3 DEF Finish, Senders
  <2>2. exists' \in BOOLEAN
    BY <1>3 DEF Finish
  <2> QED
    BY <2>1, <2>2, GoIdle
<1>4. ASSUME NEW s \in Senders, Receive(s) PROVE IndInv'
  BY <1>4, ReceiveInv
<1>5. CASE ScanMutation
  BY <1>5, ScanMutationInv
<1>6. CASE ScanValidation
  BY <1>6, ScanValidationInv
<1>7. CASE SyncStatusOnly
  <2>1. /\ Worker \in Senders /\ sender[Worker].out = <<>>
        /\ sender' = [sender EXCEPT ![Worker] = Idle]
        /\ UNCHANGED <<agg, mux, stats, events, listed, todo>>
    BY <1>7 DEF SyncStatusOnly, Senders, objects
  <2>2. exists' \in BOOLEAN
    BY <1>7 DEF SyncStatusOnly, objects, IndInv, TypeOK
  <2> QED
    BY <2>1, <2>2, GoIdle
<1>8. CASE SyncDeleted
  BY <1>8, SyncDeletedInv
<1>9. CASE RunAggregator
  <2>1. /\ agg' = [agg EXCEPT !.running = TRUE]
        /\ UNCHANGED <<sender, mux, policyData, due, late, events, listed, todo, exists>>
    BY <1>9 DEF RunAggregator, stats, objects
  <2>2. agg'.stat = agg.stat /\ agg' \in [stat : Stat \cup {None}, running : BOOLEAN]
    BY <2>1 DEF IndInv, TypeOK
  <2>3. Conservation'
    BY <2>1, <2>2, CountsKept DEF IndInv
  <2>4. RemovedQuiet'
    BY <2>1, <2>2 DEF IndInv, RemovedQuiet, InFlight
  <2> QED
    BY <2>1, <2>2, <2>3, <2>4 DEF IndInv, TypeOK, SenderOK, AggregatorOK
<1>10. CASE Lock
  <2>1. /\ agg.stat # None /\ mux' = "aggregator"
        /\ UNCHANGED <<sender, agg, policyData, due, late, events, listed, todo, exists>>
    BY <1>10 DEF Lock, stats, objects
  <2>2. Conservation'
    BY <2>1, CountsKept DEF IndInv
  <2>3. RemovedQuiet'
    BY <2>1 DEF IndInv, RemovedQuiet, InFlight
  <2> QED
    BY <2>1, <2>2, <2>3 DEF IndInv, TypeOK, SenderOK, AggregatorOK
<1>11. CASE Aggregate
  BY <1>11, AggregateInv
<1>12. CASE EventGenerator
  <2>1. UNCHANGED <<sender, agg, mux, policyData, due, late, listed, todo, exists>>
    BY <1>12 DEF EventGenerator, EventSync, EventBackOff, stats, objects
  <2>2. events' \in WorkQueueType
    <3>1. CASE EventSync
      BY <3>1, EventSyncType DEF EventSync, IndInv, TypeOK
    <3>2. CASE EventBackOff
      <4>1. PICK e \in events.waiting : events' = BackOffEnds(events, e)
        BY <3>2 DEF EventBackOff
      <4>2. events \in WorkQueueType /\ e \in Events
        BY DEF IndInv, TypeOK, WorkQueueType
      <4> QED
        BY <4>1, <4>2, BackOffEndsFacts
    <3> QED
      BY <1>12, <3>1, <3>2 DEF EventGenerator
  <2>3. Conservation'
    BY <2>1, CountsKept DEF IndInv
  <2>4. RemovedQuiet'
    BY <2>1 DEF IndInv, RemovedQuiet, InFlight
  <2> QED
    BY <2>1, <2>2, <2>3, <2>4 DEF IndInv, TypeOK, SenderOK, AggregatorOK
<1>13. CASE EditPolicy
  <2>1. PICK p \in Policies : /\ listed' = (listed \ {p}) \cup ({p} \ listed)
                             /\ todo' = todo \cup {p} /\ late' = late \ {p}
    BY <1>13 DEF EditPolicy
  <2>2. UNCHANGED <<sender, agg, mux, policyData, due, events, exists>>
    BY <1>13 DEF EditPolicy
  <2>3. TypeOK'
    BY <2>1, <2>2 DEF IndInv, TypeOK
  <2>4. Conservation'
    BY <2>2, CountsKept DEF IndInv
  <2>5. RemovedQuiet'
    BY <2>1, <2>2 DEF IndInv, RemovedQuiet, InFlight
  <2> QED
    BY <2>2, <2>3, <2>4, <2>5 DEF IndInv, SenderOK, AggregatorOK
<1>14. CASE DeleteResource
  <2>1. /\ exists' = FALSE
        /\ UNCHANGED <<sender, agg, mux, policyData, due, late, events, listed, todo>>
    BY <1>14 DEF DeleteResource, stats
  <2>2. Conservation'
    BY <2>1, CountsKept DEF IndInv
  <2>3. RemovedQuiet'
    BY <2>1 DEF IndInv, RemovedQuiet, InFlight
  <2> QED
    BY <2>1, <2>2, <2>3 DEF IndInv, TypeOK, SenderOK, AggregatorOK
<1>15. CASE UNCHANGED vars
  <2>1. UNCHANGED <<sender, agg, mux, policyData, due, late, events, listed, todo, exists>>
    BY <1>15 DEF vars, stats, objects
  <2>2. Conservation'
    BY <2>1, CountsKept DEF IndInv
  <2>3. RemovedQuiet'
    BY <2>1 DEF IndInv, RemovedQuiet, InFlight
  <2> QED
    BY <2>1, <2>2, <2>3 DEF IndInv, TypeOK, SenderOK, AggregatorOK
<1> QED
  BY <1>1, <1>2, <1>3, <1>4, <1>5, <1>6, <1>7, <1>8, <1>9, <1>10, <1>11, <1>12, <1>13,
     <1>14, <1>15 DEF Next, Handler, Work, Aggregator

(* The specification keeps the invariant. *)
THEOREM Inductive == Spec => []IndInv
<1>1. Init => IndInv
  BY InitInv
<1>2. IndInv /\ [Next]_vars => IndInv'
  BY StepInv
<1> QED
  BY <1>1, <1>2, PTL DEF Spec

(* The goroutines, the aggregator and the event queue hold what they are meant to hold. *)
THEOREM TypeCorrect == Spec => []TypeOK
<1>1. IndInv => TypeOK
  BY DEF IndInv
<1> QED
  BY <1>1, Inductive, PTL

(* Whatever the order in which the goroutines meet the aggregator, SendStat and aggregate *)
(* lose no application of a rule and count none twice. *)
THEOREM ApplicationsConserved == Spec => []Conservation
<1>1. IndInv => Conservation
  BY DEF IndInv
<1> QED
  BY <1>1, Inductive, PTL

(* RemovePolicyStats of a deleted policy is final unless somebody was still reporting on it. *)
THEOREM RemovalIsFinal == Spec => []RemovedForGood
<1>1. IndInv => RemovedForGood
  BY DEF IndInv, RemovedQuiet, RemovedForGood
<1> QED
  BY <1>1, Inductive, PTL
-----------------------------------------------------------------------------
(* The event queue. *)

\* Between two steps of the generator every event that waits to be recorded is in the queue,
\* once, and none has failed more often in a row than workQueueRetryLimit allows.
EventsQueued ==
    /\ Consistent(events) /\ events.processing = {}
    /\ \A e \in Events : events.requeues[e] <= RetryLimit

\* An event leaves the generator only when it was looked up: its object was found and the
\* event recorded, or it was not found for the last time that is allowed.
EventsKept ==
    \A e \in Tracked(events) \ Tracked(events)' :
        e = Head(events.queue) /\ (Found(e) \/ events.requeues[e] = RetryLimit)

(* A finite set is listed without repetition. *)
LEMMA SetToSeqOnce ==
    ASSUME NEW S, IsFiniteSet(S)
    PROVE  /\ {SetToSeq(S)[i] : i \in DOMAIN SetToSeq(S)} = S
           /\ \A i, j \in DOMAIN SetToSeq(S) : SetToSeq(S)[i] = SetToSeq(S)[j] => i = j
<1> DEFINE n == Cardinality(S)
           f == SetToSeq(S)
<1>1. n \in Nat /\ ExistsBijection(1..n, S)
  BY FS_CardinalityType
<1>2. \E g \in [1..n -> S] : IsInjective(g)
  BY <1>1 DEF ExistsBijection, Bijection, Injection
<1>3. f \in [1..n -> S] /\ IsInjective(f)
  BY <1>2 DEF SetToSeq
<1> HIDE DEF f
<1>4. f \in Injection(1..n, S) /\ Cardinality(1..n) = n
  BY <1>1, <1>3, FS_Interval DEF Injection
<1>5. f \in Surjection(1..n, S)
  BY <1>1, <1>4, FS_Injection, FS_Interval
<1>6. {f[i] : i \in DOMAIN f} = S
  BY <1>3, <1>5 DEF Surjection
<1>7. \A i, j \in DOMAIN f : f[i] = f[j] => i = j
  BY <1>3 DEF IsInjective
<1> QED
  BY <1>6, <1>7 DEF f

(* AddAll on a queue of events. *)
LEMMA QueueAll ==
    ASSUME NEW q \in WorkQueueType, Consistent(q), NEW S \in SUBSET Events
    PROVE  /\ Consistent(AddAll(q, S))
           /\ AddAll(q, S).dirty = q.dirty \cup S /\ AddAll(q, S).waiting = q.waiting
           /\ AddAll(q, S).processing = q.processing /\ AddAll(q, S).requeues = q.requeues
<1> DEFINE D == S \ (q.dirty \cup q.processing)
<1>1. IsFiniteSet(D) /\ D \in SUBSET Events
  <2>1. IsFiniteSet(Events)
    BY ReportingAssumption, FS_AddElement DEF Events
  <2> QED
    BY <2>1, FS_Subset
<1>2. SetToSeq(D) \in Seq(Events)
  BY <1>1, SetToSeqType, SeqOfSubset
<1>3. /\ {SetToSeq(D)[i] : i \in DOMAIN SetToSeq(D)} = D
      /\ \A i, j \in DOMAIN SetToSeq(D) : SetToSeq(D)[i] = SetToSeq(D)[j] => i = j
  BY <1>1, SetToSeqOnce
<1>4. Consistent(AddAll(q, S))
  BY <1>2, <1>3, AddAllConsistent
<1> QED
  BY <1>2, <1>4, AddAllFacts

(* Add of the event generator only adds. *)
LEMMA AddEventsQueued ==
    ASSUME events \in WorkQueueType, EventsQueued,
           NEW infos \in SUBSET Events, NEW named, AddEvents(infos, named)
    PROVE  EventsQueued' /\ EventsKept
<1> DEFINE S == IF named THEN infos ELSE infos \ {Res}
<1>1. S \in SUBSET Events
  OBVIOUS
<1>2. events' = AddAll(events, S)
  BY DEF AddEvents
<1> HIDE DEF S
<1>3. /\ Consistent(events') /\ events'.dirty = events.dirty \cup S
      /\ events'.waiting = events.waiting /\ events'.processing = events.processing
      /\ events'.requeues = events.requeues
  BY <1>1, <1>2, QueueAll DEF EventsQueued
<1>4. EventsQueued'
  BY <1>3 DEF EventsQueued
<1>5. Tracked(events) \subseteq Tracked(events)'
  BY <1>3 DEF Tracked
<1> QED
  BY <1>4, <1>5 DEF EventsKept

(* processNextWorkItem gives an event up only when its retries are used up. *)
LEMMA EventSyncQueued ==
    ASSUME events \in WorkQueueType, EventsQueued, EventSync
    PROVE  EventsQueued' /\ EventsKept
<1> DEFINE e == Head(events.queue)
           q == handleErr(~Found(e), e)
           g == Get(q)
<1>1. events.queue # <<>> /\ events' = Done(Get(handleErr(~Found(e), e)), e)
  BY DEF EventSync
<1>2. e \in Events
  BY <1>1, GetFacts
<1>3. /\ Consistent(events) /\ events.processing = {} /\ RetryLimit \in Nat
      /\ events.requeues \in [Events -> Nat]
      /\ \A x \in Events : events.requeues[x] <= RetryLimit
  BY ReportingAssumption DEF EventsQueued, WorkQueueType
<1> HIDE DEF e
<1>4. /\ q \in WorkQueueType /\ Consistent(q) /\ q.queue = events.queue
      /\ q.dirty = events.dirty /\ q.processing = {}
      /\ events.waiting \subseteq q.waiting
      /\ \A x \in Events : q.requeues[x] <= RetryLimit
      /\ e \in q.waiting \/ Found(e) \/ events.requeues[e] = RetryLimit
  <2>1. CASE ~Found(e) /\ events.requeues[e] < RetryLimit
    <3>1. q = AddRateLimited(events, e)
      BY <2>1 DEF handleErr
    <3> HIDE DEF q
    <3>2. /\ q \in WorkQueueType /\ Consistent(q) /\ q.queue = events.queue
          /\ q.dirty = events.dirty /\ q.processing = {}
          /\ q.waiting = events.waiting \cup {e}
          /\ q.requeues = [events.requeues EXCEPT ![e] = @ + 1]
      BY <1>2, <1>3, <3>1, AddRateLimitedFacts
    <3>3. \A x \in Events : q.requeues[x] <= RetryLimit
      BY <1>2, <1>3, <2>1, <3>2
    <3> QED
      BY <3>2, <3>3
  <2>2. CASE Found(e) \/ ~(events.requeues[e] < RetryLimit)
    <3>1. q = Forget(events, e)
      BY <2>2 DEF handleErr
    <3> HIDE DEF q
    <3>2. /\ q \in WorkQueueType /\ Consistent(q) /\ q.queue = events.queue
          /\ q.dirty = events.dirty /\ q.processing = {}
          /\ q.waiting = events.waiting
          /\ q.requeues = [events.requeues EXCEPT ![e] = 0]
      BY <1>2, <1>3, <3>1, ForgetFacts
    <3>3. \A x \in Events : q.requeues[x] <= RetryLimit
      BY <1>2, <1>3, <3>2
    <3>4. Found(e) \/ events.requeues[e] = RetryLimit
      BY <1>2, <1>3, <2>2
    <3> QED
      BY <3>2, <3>3, <3>4
  <2> QED
    BY <2>1, <2>2
<1>5. events' = Done(g, e)
  BY <1>1
<1> HIDE DEF q
<1>6. /\ g \in WorkQueueType /\ Consistent(g) /\ g.dirty = events.dirty \ {e}
      /\ g.processing = {e} /\ g.waiting = q.waiting /\ g.requeues = q.requeues
  <2>1. q.queue # <<>> /\ Head(q.queue) = e
    BY <1>1, <1>4 DEF e
  <2> QED
    BY <1>4, <2>1, GetFacts
<1> HIDE DEF g
<1>7. /\ Consistent(events') /\ events'.dirty = events.dirty \ {e}
      /\ events'.processing = {} /\ events'.waiting = q.waiting /\ events'.requeues = q.requeues
  <2>1. e \in g.processing
    BY <1>6
  <2>2. /\ events'.dirty = g.dirty /\ events'.waiting = g.waiting
        /\ events'.processing = g.processing \ {e} /\ events'.requeues = g.requeues
        /\ (Consistent(g) /\ e \in g.processing => Consistent(events'))
    BY <1>2, <1>5, <1>6, DoneFacts
  <2> QED
    BY <1>6, <2>1, <2>2
<1>8. EventsQueued'
  BY <1>4, <1>7 DEF EventsQueued
<1>9. EventsKept
  <2> SUFFICES ASSUME NEW x \in Tracked(events) \ Tracked(events)'
               PROVE  x = Head(events.queue) /\ (Found(x) \/ events.requeues[x] = RetryLimit)
    BY DEF EventsKept
  <2>1. x = e /\ e \notin q.waiting
    BY <1>4, <1>7 DEF Tracked
  <2> QED
    BY <1>4, <2>1 DEF e
<1> QED
  BY <1>8, <1>9

(* The end of a back-off puts the event back. *)
LEMMA EventBackOffQueued ==
    ASSUME events \in WorkQueueType, EventsQueued, EventBackOff
    PROVE  EventsQueued' /\ EventsKept
<1>1. PICK e \in events.waiting : events' = BackOffEnds(events, e)
  BY DEF EventBackOff
<1>2. e \in Events
  BY DEF WorkQueueType
<1>3. /\ Consistent(events') /\ events'.dirty = events.dirty \cup {e}
      /\ events'.waiting = events.waiting \ {e} /\ events'.processing = events.processing
      /\ events'.requeues = events.requeues
  BY <1>1, <1>2, BackOffEndsFacts DEF EventsQueued
<1>4. EventsQueued'
  BY <1>3 DEF EventsQueued
<1>5. Tracked(events) \subseteq Tracked(events)'
  BY <1>3 DEF Tracked
<1> QED
  BY <1>4, <1>5 DEF EventsKept

(* Who reports only adds events of policies and of the resource. *)
LEMMA ReportersQueued ==
    ASSUME IndInv, EventsQueued,
           (\E h \in Handlers : HandleMutation(h) \/ HandleValidation(h)) \/ ScanValidation
    PROVE  EventsQueued' /\ EventsKept
<1>0. events \in WorkQueueType
  BY DEF IndInv, TypeOK
<1>1. ASSUME NEW h \in Handlers, HandleMutation(h)
      PROVE  \E infos \in SUBSET Events, named \in BOOLEAN : AddEvents(infos, named)
  <2> DEFINE pols == SetToSeq(listed)
  <2>1. PICK finds \in Results : AddEvents(generateEvents(finds.mutate, pols, exists), finds.named)
    BY <1>1 DEF HandleMutation
  <2>2. pols \in Seq(Policies)
    BY ReportingAssumption, FS_Subset, SetToSeqType, SeqOfSubset DEF IndInv, TypeOK
  <2>3. finds.named \in BOOLEAN
    BY ReportingAssumption
  <2> HIDE DEF pols
  <2>4. generateEvents(finds.mutate, pols, exists) \in SUBSET Events
    BY <2>2, EventsType
  <2> QED
    BY <2>1, <2>3, <2>4
<1>2. ASSUME NEW h \in Handlers, HandleValidation(h)
      PROVE  \E infos \in SUBSET Events, named \in BOOLEAN : AddEvents(infos, named)
  <2> DEFINE r == sender[h]
             blocked == Failed(r.finds.validate, r.pols) \cap Enforce # {}
             all == generateEvents(r.finds.validate, r.pols, r.update)
             infos == IF blocked THEN {} ELSE all
  <2>1. AddEvents(infos, r.finds.named) /\ r.pc = "mutation" /\ h \in Senders
    BY <1>2 DEF HandleValidation, Senders
  <2>2. r \in SenderType /\ r.pols \in Seq(Policies) /\ r.finds \in Results
    BY <2>1 DEF IndInv, TypeOK, SenderOK, SenderType
  <2>3. r.finds.named \in BOOLEAN
    BY <2>2, ReportingAssumption
  <2>4. all \in SUBSET Events
    BY <2>2, EventsType
  <2> HIDE DEF all, blocked
  <2>5. infos \in SUBSET Events
    BY <2>4
  <2> HIDE DEF infos
  <2> QED
    BY <2>1, <2>3, <2>5
<1>3. ASSUME ScanValidation
      PROVE  \E infos \in SUBSET Events, named \in BOOLEAN : AddEvents(infos, named)
  <2> DEFINE r == sender[Worker]
             infos == generateEventsPerEr(r.finds.mutate, Head(r.pols))
                          \cup generateEventsPerEr(r.finds.validate, Head(r.pols))
  <2>1. AddEvents(infos, TRUE) /\ r.pc = "mutation" /\ Worker \in Senders
    BY <1>3 DEF ScanValidation, Senders
  <2>2. r.pols \in Seq(Policies) /\ r.pols # <<>>
    BY <2>1 DEF IndInv, TypeOK, SenderOK, SenderType
  <2>3. Head(r.pols) \in Policies
    BY <2>2
  <2>4. infos \in SUBSET Events
    BY <2>3 DEF generateEventsPerEr, Events
  <2> HIDE DEF infos
  <2> QED
    BY <2>1, <2>4
<1>4. PICK infos \in SUBSET Events, named \in BOOLEAN : AddEvents(infos, named)
  BY <1>1, <1>2, <1>3
<1> QED
  BY <1>0, <1>4, AddEventsQueued

(* Every step keeps the event queue in order and the events in it. *)
LEMMA EventsStep == ASSUME IndInv, EventsQueued, [Next]_vars PROVE EventsQueued' /\ EventsKept
<1>0. events \in WorkQueueType
  BY DEF IndInv, TypeOK
<1>1. CASE UNCHANGED events
  BY <1>1 DEF EventsQueued, EventsKept, Tracked
<1>2. \/ UNCHANGED events \/ EventSync \/ EventBackOff \/ ScanValidation
      \/ \E h \in Handlers : HandleMutation(h) \/ HandleValidation(h)
  BY DEF Next, Handler, Finish, Receive, Work, ScanMutation, SyncStatusOnly, SyncDeleted,
      Aggregator, RunAggregator, Lock, Aggregate, EventGenerator, EditPolicy, DeleteResource, vars
<1> QED
  BY <1>0, <1>1, <1>2, EventSyncQueued, EventBackOffQueued, ReportersQueued

(* The queue of the event generator. *)
THEOREM EventQueueServed == Spec => []EventsQueued
<1>1. Init => EventsQueued
  <2>1. EmptyQueue.processing = {} /\ \A e \in Events : EmptyQueue.requeues[e] = 0
    BY DEF EmptyQueue
  <2> QED
    BY <2>1, EmptyQueueFacts, ReportingAssumption DEF Init, EventsQueued
<1>2. IndInv /\ EventsQueued /\ [Next]_vars => EventsQueued'
  BY EventsStep
<1> QED
  BY <1>1, <1>2, Inductive, PTL DEF Spec

(* No event is lost between Add and the record of the event, for any number of goroutines
   that add events and any order of failures and back-offs, except by the retry limit. *)
THEOREM OnlyRetriesLoseEvents == Spec => [][EventsKept]_vars
<1>1. IndInv /\ EventsQueued /\ [Next]_vars => [EventsKept]_vars
  BY EventsStep
<1> QED
  BY <1>1, Inductive, EventQueueServed, PTL DEF Spec
=============================================================================

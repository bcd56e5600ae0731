------------------------- MODULE PolicyStoreProofs -------------------------
(***************************************************************************)
(* Proofs about the policy meta-store, for every set of policies, kinds,   *)
(* namespaces, policy contents and requests.                               *)
(***************************************************************************)
EXTENDS PolicyStore, SequenceTheorems, TLAPS

-----------------------------------------------------------------------------
(* Typing. *)

\* The keys Register adds for a version are kinds and namespaces of the model.
LEMMA KeyTypes ==
    ASSUME NEW v \in Versions
    PROVE  /\ RegisteredKeys(v) \subseteq Kinds \X Namespaces
           /\ KindsOf(v) \subseteq Kinds
  <1>1. v \in Content
    BY StoreAssumption
  <1>2. \A i \in DOMAIN v.rules : v.rules[i] \in Rule
    BY <1>1 DEF Content
  <1>3. ASSUME NEW i \in DOMAIN v.rules, NEW j \in DOMAIN v.rules[i].kinds
        PROVE  v.rules[i].kinds[j] \in Kinds /\ RegisteredNamespace(v.rules[i]) \in Namespaces
    <2>1. v.rules[i] \in Rule
      BY <1>2
    <2>2. v.rules[i].kinds[j] \in Kinds
      BY <2>1 DEF Rule
    <2>3. v.rules[i].namespaces \in Seq(Namespaces)
      BY <2>1 DEF Rule
    <2>4. RegisteredNamespace(v.rules[i]) \in Namespaces
      BY <2>3, StoreAssumption DEF RegisteredNamespace
    <2> QED BY <2>2, <2>4
  <1> QED BY <1>3 DEF RegisteredKeys, KindsOf

\* Entries of a version of a policy are well-typed, and all belong to the policy.
LEMMA EntryTypes ==
    ASSUME NEW p \in Policies, NEW v \in MaybeVersion
    PROVE  /\ Entries(p, v) \subseteq Kinds \X Namespaces \X Policies
           /\ \A e \in Entries(p, v) : e[3] = p
  BY KeyTypes DEF Entries, MaybeVersion

-----------------------------------------------------------------------------
(* The store's two operations. *)

\* Register of a version of a policy that has no entry leaves exactly the entries
\* of that version, and no other policy's entries change.
LEMMA RegisterAdds ==
    ASSUME NEW p \in Policies, NEW v \in Versions, TypeOK, Register(p, v), DataOf(p) = {}
    PROVE  /\ DataOf(p)' = Entries(p, v)
           /\ \A q \in Policies \ {p} : DataOf(q)' = DataOf(q)
           /\ KindsOf(v) \subseteq kinds' /\ kinds \subseteq kinds'
           /\ data' \in SUBSET (Kinds \X Namespaces \X Policies) /\ kinds' \in SUBSET Kinds
  <1>1. v \in MaybeVersion
    BY DEF MaybeVersion
  <1>2. /\ Entries(p, v) \subseteq Kinds \X Namespaces \X Policies
        /\ \A e \in Entries(p, v) : e[3] = p
    BY <1>1, EntryTypes
  <1>3. data' = data \cup Entries(p, v) /\ kinds' = kinds \cup KindsOf(v)
    BY DEF Register
  <1>4. data' \in SUBSET (Kinds \X Namespaces \X Policies) /\ kinds' \in SUBSET Kinds
    BY <1>2, <1>3, KeyTypes DEF TypeOK
  <1> QED BY <1>2, <1>3, <1>4 DEF DataOf

\* With all kinds of the version known, the keys UnRegister removes include the
\* ones Register added.
LEMMA RemovedCoversRegistered ==
    ASSUME NEW v \in Versions, KindsOf(v) \subseteq kinds
    PROVE  RegisteredKeys(v) \subseteq RemovedKeys(v)
  <1>1. v.rules \in Seq(Rule)
    BY StoreAssumption DEF Content
  <1>2. SUFFICES ASSUME NEW i \in DOMAIN v.rules, NEW j \in DOMAIN v.rules[i].kinds
                 PROVE  <<v.rules[i].kinds[j], RegisteredNamespace(v.rules[i])>> \in RemovedKeys(v)
    BY DEF RegisteredKeys
  <1>3. v.rules[i] \in Rule
    BY <1>1
  <1>3a. v.rules[i].namespaces \in Seq(Namespaces)
    BY <1>3 DEF Rule
  <1>4. RegisteredNamespace(v.rules[i]) \in RuleNamespaces(v.rules[i])
    BY <1>3a DEF RegisteredNamespace, RuleNamespaces
  <1>5. \A i2 \in 1..i : i2 \in DOMAIN v.rules
    BY <1>1
  <1>6. Reached(v, i, j)
    BY <1>5 DEF Reached, KindsOf
  <1> QED BY <1>4, <1>6 DEF RemovedKeys

\* UnRegister of the version a policy is registered under removes the policy from
\* the store and nothing else, provided the kinds of that version are known.
LEMMA UnRegisterRemoves ==
    ASSUME NEW p \in Policies, NEW v \in Versions, TypeOK, UnRegister(p, v),
           KindsOf(v) \subseteq kinds, DataOf(p) = Entries(p, v)
    PROVE  /\ DataOf(p)' = {}
           /\ \A q \in Policies \ {p} : DataOf(q)' = DataOf(q)
           /\ data' = data \ DataOf(p) /\ kinds' = kinds
           /\ data' \in SUBSET (Kinds \X Namespaces \X Policies)
  <1> DEFINE removed == {<<k[1], k[2], p>> : k \in RemovedKeys(v)}
  <1>1. data' = data \ removed /\ kinds' = kinds
    BY DEF UnRegister
  <1>2. \A e \in removed : e[3] = p
    OBVIOUS
  <1>3. Entries(p, v) \subseteq removed
    BY RemovedCoversRegistered, StoreAssumption DEF Entries
  <1> HIDE DEF removed
  <1> QED BY <1>1, <1>2, <1>3 DEF DataOf, TypeOK

-----------------------------------------------------------------------------
(* The inductive invariant. *)

\* A notification for p is appended and the indexer moves to its new content.
LEMMA AppendStep ==
    ASSUME IndInv, NEW p \in Policies, NEW new \in MaybeVersion,
           lister[p] # None \/ new # None,
           events' = Append(events, [policy |-> p, old |-> lister[p], new |-> new]),
           lister' = [lister EXCEPT ![p] = new],
           UNCHANGED <<updating, data, kinds>>
    PROVE  EventsWellFormed' /\ EventsChained' /\ KindsKnown' /\ IndexMatchesHandled'
  <1>a. events \in Seq(Event) /\ lister[p] \in MaybeVersion
    BY DEF IndInv, TypeOK
  <1>b. PICK n \in Nat : n = Len(events)
    BY <1>a
  <1>c. PICK e \in Event : e = [policy |-> p, old |-> lister[p], new |-> new]
    BY <1>a DEF Event
  <1>1. events \in Seq(Event) /\ e \in Event /\ n \in Nat
    BY <1>a
  <1>2. /\ events' \in Seq(Event) /\ Len(events') = n + 1 /\ DOMAIN events' = 1..(n + 1)
        /\ \A i \in 1..n : events'[i] = events[i]
        /\ events'[n + 1] = e
    BY <1>1, <1>b, <1>c, AppendProperties
  <1>3. DOMAIN events = 1..n /\ Len(events) = n
    BY <1>1, <1>b
  <1>4. \A q \in Policies : lister'[q] = IF q = p THEN new ELSE lister[q]
    BY DEF IndInv, TypeOK
  <1>5. e.policy = p /\ e.old = lister[p] /\ e.new = new
    BY <1>c
  <1>6a. \A i \in 1..n : events[i] \in Event
    BY <1>1, <1>3
  <1>6. \A i \in 1..n : events[i].policy \in Policies
    BY <1>6a DEF Event
  <1>7. EventsWellFormed'
    BY <1>1, <1>2, <1>3, <1>5 DEF IndInv, EventsWellFormed
  <1>8. EventsChained'
    <2>1. ASSUME NEW i \in DOMAIN events', NEW j \in DOMAIN events', i < j,
                 events'[i].policy = events'[j].policy,
                 \A k \in (i + 1)..(j - 1) : events'[k].policy # events'[i].policy
          PROVE  events'[j].old = events'[i].new
      <3>1. i \in 1..n /\ j \in 1..(n + 1)
        BY <1>1, <1>2, <2>1
      <3>2. CASE j \in 1..n
        <4>1. \A k \in (i + 1)..(j - 1) : k \in 1..n
          BY <3>1, <3>2, <1>1
        <4>2. /\ events[i].policy = events[j].policy
              /\ \A k \in (i + 1)..(j - 1) : events[k].policy # events[i].policy
          BY <1>2, <2>1, <3>1, <3>2, <4>1
        <4>3. events[j].old = events[i].new
          BY <1>3, <2>1, <3>1, <3>2, <4>2 DEF IndInv, EventsChained
        <4> QED BY <1>2, <3>1, <3>2, <4>3
      <3>3. CASE j = n + 1
        <4>1. \A k \in (i + 1)..n : k \in 1..n /\ k \in (i + 1)..(j - 1)
          BY <3>1, <3>3, <1>1
        <4>2. events[i].policy = p /\ \A k \in (i + 1)..n : events[k].policy # events[i].policy
          BY <1>2, <1>5, <2>1, <3>1, <3>3, <4>1
        <4> QED BY <1>2, <1>3, <1>5, <3>1, <3>3, <4>2 DEF IndInv, EventsChained
      <3> QED BY <3>1, <3>2, <3>3, <1>1
    <2>2. ASSUME NEW i \in DOMAIN events',
                 \A k \in (i + 1)..Len(events') : events'[k].policy # events'[i].policy
          PROVE  events'[i].new = lister'[events'[i].policy]
      <3>1. CASE i = n + 1
        BY <1>2, <1>4, <1>5, <3>1
      <3>2. CASE i \in 1..n
        <4>1. \A k \in (i + 1)..(n + 1) : events'[k].policy # events[i].policy
          BY <1>2, <2>2, <3>2
        <4>2. n + 1 \in (i + 1)..(n + 1) /\ \A k \in (i + 1)..n : k \in 1..n /\ k \in (i + 1)..(n + 1)
          BY <1>1, <3>2
        <4>3. events[i].policy # p /\ \A k \in (i + 1)..n : events[k].policy # events[i].policy
          BY <1>2, <1>5, <4>1, <4>2
        <4> QED BY <1>2, <1>3, <1>4, <1>6, <3>2, <4>3 DEF IndInv, EventsChained
      <3> QED BY <3>1, <3>2, <1>1, <1>2
    <2> QED BY <2>1, <2>2 DEF EventsChained
  <1>9. \A i \in 1..n : FirstPending(i)' <=> FirstPending(i)
    BY <1>1, <1>2 DEF FirstPending
  <1>10. FirstPending(n + 1)' <=> ~Pending(p)
    BY <1>1, <1>2, <1>3, <1>5 DEF FirstPending, Pending
  <1>11. \A q \in Policies : Pending(q)' <=> (Pending(q) \/ q = p)
    BY <1>1, <1>2, <1>3, <1>5 DEF Pending
  <1>12. \A q : DataOf(q)' = DataOf(q)
    BY DEF DataOf
  <1>13. \A i \in 1..n : Handled(i)' = Handled(i)
    BY <1>1, <1>2 DEF Handled
  <1>14. ~Pending(p) => Handled(n + 1)' = lister[p]
    BY <1>1, <1>2, <1>3, <1>5 DEF IndInv, EventsWellFormed, Handled
  <1>15. KindsKnown'
    BY <1>1, <1>2, <1>3, <1>4, <1>5, <1>9, <1>10, <1>11 DEF IndInv, KindsKnown
  <1>16. IndexMatchesHandled'
    BY <1>1, <1>2, <1>3, <1>4, <1>5, <1>9, <1>10, <1>11, <1>12, <1>13, <1>14
       DEF IndInv, IndexMatchesHandled
  <1> QED BY <1>7, <1>8, <1>15, <1>16

\* The oldest notification is handled: the store then holds the entries of its new
\* content and knows the kinds of that content.
LEMMA PopStep ==
    ASSUME IndInv, events # <<>>, NEW p \in Policies, NEW new \in MaybeVersion,
           events[1].policy = p, events[1].new = new,
           events' = Tail(events), updating' = FALSE, lister' = lister,
           DataOf(p)' = Entries(p, new),
           \A q \in Policies \ {p} : DataOf(q)' = DataOf(q),
           kinds \subseteq kinds', new # None => KindsOf(new) \subseteq kinds'
    PROVE  EventsWellFormed' /\ EventsChained' /\ KindsKnown' /\ IndexMatchesHandled'
  <1>a. events \in Seq(Event)
    BY DEF IndInv, TypeOK
  <1>b. PICK n \in Nat : n = Len(events) - 1
    BY <1>a, EmptySeq, LenProperties
  <1>1. DOMAIN events = 1..(n + 1) /\ Len(events) = n + 1
    BY <1>a, <1>b
  <1>2. /\ events' \in Seq(Event) /\ Len(events') = n /\ DOMAIN events' = 1..n
        /\ \A i \in 1..n : events'[i] = events[i + 1]
    BY <1>a, <1>b, HeadTailProperties
  <1>3. \A i \in 1..n : i + 1 \in 1..(n + 1)
    BY <1>b
  <1>4. \A i \in 1..(n + 1) : events[i] \in Event
    BY <1>1, <1>a
  <1>5. \A i \in 1..(n + 1) : events[i].policy \in Policies
    BY <1>4 DEF Event
  <1>6. EventsWellFormed'
    BY <1>1, <1>2, <1>3 DEF IndInv, EventsWellFormed
  <1>7. EventsChained'
    <2>1. ASSUME NEW i \in DOMAIN events', NEW j \in DOMAIN events', i < j,
                 events'[i].policy = events'[j].policy,
                 \A k \in (i + 1)..(j - 1) : events'[k].policy # events'[i].policy
          PROVE  events'[j].old = events'[i].new
      <3>1. i \in 1..n /\ j \in 1..n /\ i + 1 < j + 1
        BY <1>b, <1>2, <2>1
      <3>2. \A k \in (i + 2)..j : k - 1 \in 1..n /\ k - 1 \in (i + 1)..(j - 1) /\ (k - 1) + 1 = k
        BY <3>1, <1>b
      <3>3. \A k \in (i + 2)..j : events[k].policy # events[i + 1].policy
        BY <1>2, <2>1, <3>1, <3>2
      <3>4. /\ (i + 1) + 1 = i + 2 /\ (j + 1) - 1 = j
            /\ i + 1 \in 1..(n + 1) /\ j + 1 \in 1..(n + 1)
        BY <3>1, <1>b
      <3>5. events[i + 1].policy = events[j + 1].policy
        BY <1>2, <2>1, <3>1
      <3>6. events[j + 1].old = events[i + 1].new
        BY <1>1, <3>1, <3>3, <3>4, <3>5 DEF IndInv, EventsChained
      <3> QED BY <1>2, <3>1, <3>6
    <2>2. ASSUME NEW i \in DOMAIN events',
                 \A k \in (i + 1)..Len(events') : events'[k].policy # events'[i].policy
          PROVE  events'[i].new = lister'[events'[i].policy]
      <3>1. i \in 1..n
        BY <1>2
      <3>2. \A k \in (i + 2)..(n + 1) : k - 1 \in 1..n /\ k - 1 \in (i + 1)..n /\ (k - 1) + 1 = k
        BY <3>1, <1>b
      <3>3. \A k \in (i + 2)..(n + 1) : events[k].policy # events[i + 1].policy
        BY <1>2, <2>2, <3>1, <3>2
      <3>4. (i + 1) + 1 = i + 2 /\ i + 1 \in 1..(n + 1)
        BY <3>1, <1>b
      <3>5. events[i + 1].new = lister[events[i + 1].policy]
        BY <1>1, <3>3, <3>4 DEF IndInv, EventsChained
      <3> QED BY <1>2, <3>1, <3>5
    <2> QED BY <2>1, <2>2 DEF EventsChained
  <1>8. ASSUME NEW i \in 1..n, events'[i].policy # p
        PROVE  FirstPending(i)' <=> FirstPending(i + 1)
    <2>1. /\ \A j \in 1..i : j = 1 \/ (j - 1 \in 1..(i - 1) /\ j - 1 \in 1..n /\ (j - 1) + 1 = j)
          /\ \A j \in 1..(i - 1) : j \in 1..n /\ j + 1 \in 1..i
          /\ (i + 1) - 1 = i
      BY <1>b
    <2>2. (\A j \in 1..(i - 1) : events[j + 1].policy # events[i + 1].policy)
            <=> (\A j \in 1..i : events[j].policy # events[i + 1].policy)
      BY <1>2, <1>8, <2>1
    <2> QED BY <1>2, <2>1, <2>2 DEF FirstPending
  <1>9. ASSUME NEW i \in 1..n, events'[i].policy = p, FirstPending(i)'
        PROVE  events'[i].old = new
    <2>1. \A k \in 2..i : k - 1 \in 1..(i - 1) /\ k - 1 \in 1..n /\ (k - 1) + 1 = k
      BY <1>b
    <2>2. \A k \in 2..i : events[k].policy # events[1].policy
      <3> TAKE k \in 2..i
      <3>1. events'[k - 1] = events[k]
        BY <1>2, <2>1
      <3>2. events'[k - 1].policy # events'[i].policy
        BY <1>9, <2>1 DEF FirstPending
      <3> QED BY <1>9, <3>1, <3>2
    <2>3. 1 < i + 1 /\ (i + 1) - 1 = i /\ 1 + 1 = 2 /\ 1 \in 1..(n + 1) /\ i + 1 \in 1..(n + 1)
      BY <1>b
    <2>4. events[i + 1].policy = events[1].policy
      BY <1>2, <1>9
    <2>5. events[i + 1].old = events[1].new
      BY <1>1, <2>2, <2>3, <2>4 DEF IndInv, EventsChained
    <2> QED BY <1>2, <2>5
  <1>10. ASSUME NEW q \in Policies \ {p}
         PROVE  Pending(q)' <=> Pending(q)
    <2>1. \A i \in 1..(n + 1) : i = 1 \/ (i - 1 \in 1..n /\ (i - 1) + 1 = i)
      BY <1>b
    <2>2. ASSUME Pending(q)' PROVE Pending(q)
      <3>1. PICK i \in 1..n : events'[i].policy = q
        BY <1>2, <2>2 DEF Pending
      <3> QED BY <1>1, <1>2, <1>3, <3>1 DEF Pending
    <2>3. ASSUME Pending(q) PROVE Pending(q)'
      <3>1. PICK i \in 1..(n + 1) : events[i].policy = q
        BY <1>1, <2>3 DEF Pending
      <3>2. i - 1 \in 1..n /\ events'[i - 1] = events[i]
        BY <1>2, <2>1, <3>1
      <3> QED BY <1>2, <3>1, <3>2 DEF Pending
    <2> QED BY <2>2, <2>3
  <1>11. ASSUME ~Pending(p)' PROVE lister[p] = new
    <2>1. \A k \in 2..(n + 1) : k - 1 \in 1..n /\ (k - 1) + 1 = k
      BY <1>b
    <2>2. \A k \in 2..(n + 1) : events[k].policy # events[1].policy
      <3> TAKE k \in 2..(n + 1)
      <3>1. events'[k - 1] = events[k]
        BY <1>2, <2>1
      <3>2. events'[k - 1].policy # p
        BY <1>2, <1>11, <2>1 DEF Pending
      <3> QED BY <3>1, <3>2
    <2>3. 1 + 1 = 2 /\ 1 \in 1..(n + 1)
      BY <1>b
    <2> QED BY <1>1, <2>2, <2>3 DEF IndInv, EventsChained
  <1>12. \A i \in 1..n : Handled(i)' = events'[i].old /\ Handled(i + 1) = events'[i].old
    BY <1>b, <1>2 DEF Handled
  <1>13. KindsKnown'
    BY <1>1, <1>2, <1>3, <1>5, <1>8, <1>9, <1>10, <1>11 DEF IndInv, KindsKnown
  <1>14. IndexMatchesHandled'
    BY <1>1, <1>2, <1>3, <1>5, <1>8, <1>9, <1>10, <1>11, <1>12 DEF IndInv, IndexMatchesHandled
  <1> QED BY <1>6, <1>7, <1>13, <1>14

\* A step that leaves notifications, indexer and store alone keeps the invariant.
LEMMA FrameStep ==
    ASSUME IndInv, UNCHANGED <<events, updating, lister, data, kinds>>
    PROVE  EventsWellFormed' /\ EventsChained' /\ KindsKnown' /\ IndexMatchesHandled'
  <1> USE DEF IndInv
  <1>1. EventsWellFormed'
    BY DEF EventsWellFormed
  <1>2. EventsChained'
    BY DEF EventsChained
  <1>3. KindsKnown'
    BY DEF KindsKnown, FirstPending, Pending, KindsOf
  <1>4. IndexMatchesHandled'
    BY DEF IndexMatchesHandled, FirstPending, Pending, DataOf, Entries, Handled, RegisteredKeys
  <1> QED BY <1>1, <1>2, <1>3, <1>4

\* Facts about the notification a handler is called with.
LEMMA HeadFacts ==
    ASSUME IndInv, events # <<>>
    PROVE  /\ Head(events) = events[1] /\ 1 \in DOMAIN events /\ FirstPending(1)
           /\ Head(events) \in Event /\ Tail(events) \in Seq(Event)
           /\ events[1].policy \in Policies
           /\ events[1].old \in MaybeVersion /\ events[1].new \in MaybeVersion
           /\ events[1].old # None \/ events[1].new # None
           /\ DataOf(events[1].policy) = Entries(events[1].policy, Handled(1))
           /\ events[1].old # None => KindsOf(events[1].old) \subseteq kinds
  <1>1. events \in Seq(Event)
    BY DEF IndInv, TypeOK
  <1>2. /\ Head(events) = events[1] /\ 1 \in DOMAIN events
        /\ Head(events) \in Event /\ Tail(events) \in Seq(Event)
    BY <1>1, EmptySeq, HeadTailProperties
  <1>3. FirstPending(1)
    BY DEF FirstPending
  <1>4. /\ events[1].policy \in Policies
        /\ events[1].old \in MaybeVersion /\ events[1].new \in MaybeVersion
    BY <1>2 DEF Event
  <1>5. events[1].old # None \/ events[1].new # None
    BY <1>2 DEF IndInv, EventsWellFormed
  <1>6. DataOf(events[1].policy) = Entries(events[1].policy, Handled(1))
    BY <1>2, <1>3 DEF IndInv, IndexMatchesHandled
  <1>7. events[1].old # None => KindsOf(events[1].old) \subseteq kinds
    BY <1>2, <1>3 DEF IndInv, KindsKnown
  <1> QED BY <1>2, <1>3, <1>4, <1>5, <1>6, <1>7

\* The store, its informer and its requests keep their types.
LEMMA TypeStep == IndInv /\ [Next]_vars => TypeOK'
  <1> SUFFICES ASSUME IndInv, [Next]_vars PROVE TypeOK'
    OBVIOUS
  <1> USE DEF TypeOK, informerVars, storeVars
  <1> TypeOK
    BY DEF IndInv
  <1>1. ASSUME NEW p \in Policies, NEW v \in MaybeVersion, EditPolicy(p, v) PROVE TypeOK'
    BY <1>1, StoreAssumption DEF EditPolicy
  <1>2. ASSUME NEW p \in Policies, InformerSync(p) PROVE TypeOK'
    <2>1. [policy |-> p, old |-> lister[p], new |-> api[p]] \in Event
      BY DEF Event
    <2> QED BY <1>2, <2>1, AppendProperties DEF InformerSync
  <1>3. ASSUME NEW p \in Policies, Resync(p) PROVE TypeOK'
    <2>1. [policy |-> p, old |-> lister[p], new |-> lister[p]] \in Event
      BY DEF Event
    <2> QED BY <1>3, <2>1, AppendProperties DEF Resync
  <1>4. ASSUME NEW p \in Policies, TakeKey(p) PROVE TypeOK'
    BY <1>4 DEF TakeKey
  <1>5. CASE Handle
    <2> USE DEF Handle, AddPolicy, UpdatePolicyUnRegister, UpdatePolicyRegister, DeletePolicy
    <2>1. events # <<>>
      BY <1>5
    <2>2. /\ Head(events) = events[1] /\ Tail(events) \in Seq(Event)
          /\ events[1].policy \in Policies
          /\ events[1].new = None \/ events[1].new \in Versions
          /\ events[1].old # None \/ events[1].new # None
      BY <2>1, HeadFacts DEF MaybeVersion
    <2>3. updating => events[1].new # None
      BY DEF IndInv, EventsWellFormed
    <2>4. \/ \E v \in Versions : Register(events[1].policy, v)
          \/ \E v : UnRegister(events[1].policy, v)
      BY <1>5, <2>2, <2>3
    <2>5. data' \in SUBSET (Kinds \X Namespaces \X Policies) /\ kinds' \in SUBSET Kinds
      BY <2>2, <2>4, KeyTypes, EntryTypes DEF Register, UnRegister, MaybeVersion
    <2>6. /\ UNCHANGED <<api, edits, lister, req>>
          /\ events' = events \/ events' = Tail(events)
          /\ updating' \in BOOLEAN
          /\ queue' \in SUBSET Policies
      BY <1>5, <2>2 DEF Enqueue
    <2> QED BY <2>2, <2>5, <2>6
  <1>6. ASSUME NEW r \in Requests, LookUp(r) PROVE TypeOK'
    <2>1. ASSUME NEW k \in Kinds, NEW ns \in Namespaces, LookUpNames(r, k, ns) PROVE TypeOK'
      <3>1. [st |-> "reading", kind |-> k, ns |-> ns, todo |-> Found(k, ns), got |-> {}] \in Reading
        BY DEF Reading, Found
      <3> QED BY <2>1, <3>1 DEF LookUpNames
    <2>2. ASSUME NEW p \in Policies, LookUpGet(r, p) PROVE TypeOK'
      <3>1. req[r] \in Reading
        BY <2>2 DEF LookUpGet, Idle, Ended
      <3>2. [st |-> "failed", kind |-> req[r].kind, ns |-> req[r].ns, got |-> {}] \in Ended
        BY <3>1 DEF Reading, Ended
      <3>3. [req[r] EXCEPT !.todo = @ \ {p}, !.got = @ \cup {p}] \in Reading
        BY <3>1 DEF Reading
      <3>4. req' \in [Requests -> {Idle} \cup Reading \cup Ended]
        <4>1. CASE lister[p] = None
          BY <2>2, <3>2, <4>1 DEF LookUpGet
        <4>2. CASE lister[p] # None
          BY <2>2, <3>3, <4>2 DEF LookUpGet
        <4> QED BY <4>1, <4>2
      <3> QED BY <2>2, <3>4 DEF LookUpGet
    <2>3. CASE LookUpReturn(r)
      <3>1. req[r] \in Reading
        BY <2>3 DEF LookUpReturn, Idle, Ended
      <3>2. [st |-> "done", kind |-> req[r].kind, ns |-> req[r].ns, got |-> req[r].got] \in Ended
        BY <3>1 DEF Reading, Ended
      <3> QED BY <2>3, <3>2 DEF LookUpReturn
    <2> QED BY <1>6, <2>1, <2>2, <2>3 DEF LookUp
  <1>7. CASE UNCHANGED vars
    BY <1>7 DEF vars
  <1> QED BY <1>1, <1>2, <1>3, <1>4, <1>5, <1>6, <1>7 DEF Next

\* The handlers and the informer preserve the invariant, action by action.
LEMMA IndInvStep == IndInv /\ [Next]_vars => IndInv'
  <1> SUFFICES ASSUME IndInv, [Next]_vars
               PROVE  EventsWellFormed' /\ EventsChained' /\ KindsKnown' /\ IndexMatchesHandled'
    BY TypeStep DEF IndInv
  <1> USE DEF informerVars, storeVars
  <1>1. ASSUME NEW p \in Policies, NEW v \in MaybeVersion, EditPolicy(p, v)
        PROVE  EventsWellFormed' /\ EventsChained' /\ KindsKnown' /\ IndexMatchesHandled'
    BY <1>1, FrameStep DEF EditPolicy
  <1>2. ASSUME NEW p \in Policies, InformerSync(p)
        PROVE  EventsWellFormed' /\ EventsChained' /\ KindsKnown' /\ IndexMatchesHandled'
    <2>1. api[p] \in MaybeVersion
      BY DEF IndInv, TypeOK
    <2> QED BY <1>2, <2>1, AppendStep DEF InformerSync
  <1>3. ASSUME NEW p \in Policies, Resync(p)
        PROVE  EventsWellFormed' /\ EventsChained' /\ KindsKnown' /\ IndexMatchesHandled'
    <2>1. lister[p] \in MaybeVersion /\ lister = [lister EXCEPT ![p] = lister[p]]
      BY DEF IndInv, TypeOK
    <2> QED BY <1>3, <2>1, AppendStep DEF Resync
  <1>4. ASSUME NEW p \in Policies, TakeKey(p)
        PROVE  EventsWellFormed' /\ EventsChained' /\ KindsKnown' /\ IndexMatchesHandled'
    BY <1>4, FrameStep DEF TakeKey
  <1>5. CASE AddPolicy
    <2>1. events # <<>> /\ Head(events) = events[1]
      BY <1>5, HeadFacts DEF AddPolicy
    <2>2. events[1].old = None /\ events[1].new \in Versions /\ ~updating
      BY <1>5, <2>1, HeadFacts DEF AddPolicy, MaybeVersion, IndInv, EventsWellFormed
    <2>3. PICK p \in Policies, v \in Versions : p = events[1].policy /\ v = events[1].new
      BY <2>1, <2>2, HeadFacts
    <2>4. DataOf(p) = {}
      BY <2>1, <2>2, <2>3, HeadFacts DEF Handled, Entries
    <2>5. Register(p, v) /\ TypeOK /\ v \in MaybeVersion
      BY <1>5, <2>1, <2>3 DEF AddPolicy, IndInv, MaybeVersion
    <2>6. updating' = FALSE /\ lister' = lister /\ events' = Tail(events)
      BY <1>5, <2>2 DEF AddPolicy, IndInv, TypeOK
    <2>7. /\ DataOf(p)' = Entries(p, v)
          /\ \A q \in Policies \ {p} : DataOf(q)' = DataOf(q)
          /\ KindsOf(v) \subseteq kinds' /\ kinds \subseteq kinds'
      BY <2>4, <2>5, RegisterAdds
    <2> QED BY <2>1, <2>3, <2>5, <2>6, <2>7, PopStep
  <1>6. CASE UpdatePolicyUnRegister
    <2>1. events # <<>> /\ Head(events) = events[1] /\ ~updating
      BY <1>6, HeadFacts DEF UpdatePolicyUnRegister
    <2>2. events[1].old \in Versions /\ events[1].new # None
      BY <1>6, <2>1, HeadFacts DEF UpdatePolicyUnRegister, MaybeVersion
    <2>3. PICK p \in Policies, v \in Versions : p = events[1].policy /\ v = events[1].old
      BY <2>1, <2>2, HeadFacts
    <2>4. DataOf(p) = Entries(p, v) /\ KindsOf(v) \subseteq kinds
      BY <2>1, <2>2, <2>3, HeadFacts, StoreAssumption DEF Handled
    <2>5. UnRegister(p, v) /\ TypeOK
      BY <1>6, <2>1, <2>3 DEF UpdatePolicyUnRegister, IndInv
    <2>6. updating' = TRUE /\ lister' = lister /\ events' = events
      BY <1>6 DEF UpdatePolicyUnRegister
    <2>7. /\ DataOf(p)' = {} /\ kinds' = kinds
          /\ \A q \in Policies \ {p} : DataOf(q)' = DataOf(q)
      BY <2>4, <2>5, UnRegisterRemoves
    <2>8. EventsWellFormed'
      BY <2>1, <2>2, <2>6, StoreAssumption DEF IndInv, EventsWellFormed
    <2>9. EventsChained'
      BY <2>6 DEF IndInv, EventsChained
    <2>10. \A i \in DOMAIN events : FirstPending(i)' <=> FirstPending(i)
      BY <2>6 DEF FirstPending
    <2>11. \A q \in Policies : Pending(q)' <=> Pending(q)
      BY <2>6 DEF Pending
    <2>12. KindsKnown'
      BY <2>6, <2>7, <2>10, <2>11 DEF IndInv, KindsKnown
    <2>13. 1 \in DOMAIN events /\ Pending(p)
      BY <2>1, <2>3, HeadFacts DEF Pending
    <2>14. ASSUME NEW i \in DOMAIN events, FirstPending(i)
           PROVE  DataOf(events[i].policy)' = Entries(events[i].policy', Handled(i)')
      <3>1. events \in Seq(Event)
        BY DEF IndInv, TypeOK
      <3>2. events[i] \in Event
        BY <3>1
      <3>3. PICK q \in Policies : q = events[i].policy
        BY <3>2 DEF Event
      <3>4. CASE i = 1
        <4>1. q = p /\ Handled(i)' = None
          BY <2>3, <2>6, <3>3, <3>4 DEF Handled
        <4>2. Entries(q, None) = {}
          BY DEF Entries
        <4>3. DataOf(q)' = Entries(q, Handled(i)')
          BY <2>7, <4>1, <4>2
        <4> QED BY <2>6, <3>3, <4>3 DEF DataOf
      <3>5. CASE i # 1
        <4>1. i \in Nat /\ 1 \in 1..(i - 1)
          BY <3>1, <3>5
        <4>2. q # p
          BY <2>3, <2>14, <3>3, <4>1 DEF FirstPending
        <4>3. Handled(i)' = Handled(i)
          BY <2>6, <3>5 DEF Handled
        <4>4. DataOf(q) = Entries(q, Handled(i))
          BY <2>14, <3>3 DEF IndInv, IndexMatchesHandled
        <4>5. DataOf(q)' = Entries(q, Handled(i)')
          BY <2>7, <4>2, <4>3, <4>4
        <4> QED BY <2>6, <3>3, <4>5 DEF DataOf
      <3> QED BY <3>4, <3>5
    <2>15. ASSUME NEW q \in Policies, ~Pending(q)
           PROVE  DataOf(q)' = Entries(q, lister[q])
      BY <2>7, <2>13, <2>15 DEF IndInv, IndexMatchesHandled
    <2>16. IndexMatchesHandled'
      BY <2>6, <2>10, <2>11, <2>14, <2>15 DEF IndexMatchesHandled
    <2> QED BY <2>8, <2>9, <2>12, <2>16
  <1>7. CASE UpdatePolicyRegister
    <2>1. events # <<>> /\ Head(events) = events[1] /\ updating
      BY <1>7, HeadFacts DEF UpdatePolicyRegister
    <2>2. events[1].new \in Versions
      BY <2>1, HeadFacts DEF MaybeVersion, IndInv, EventsWellFormed
    <2>3. PICK p \in Policies, v \in Versions : p = events[1].policy /\ v = events[1].new
      BY <2>1, <2>2, HeadFacts
    <2>4. DataOf(p) = {}
      BY <2>1, <2>3, HeadFacts DEF Handled, Entries
    <2>5. Register(p, v) /\ TypeOK /\ v \in MaybeVersion
      BY <1>7, <2>1, <2>3 DEF UpdatePolicyRegister, IndInv, MaybeVersion
    <2>6. updating' = FALSE /\ lister' = lister /\ events' = Tail(events)
      BY <1>7 DEF UpdatePolicyRegister
    <2>7. /\ DataOf(p)' = Entries(p, v)
          /\ \A q \in Policies \ {p} : DataOf(q)' = DataOf(q)
          /\ KindsOf(v) \subseteq kinds' /\ kinds \subseteq kinds'
      BY <2>4, <2>5, RegisterAdds
    <2> QED BY <2>1, <2>3, <2>5, <2>6, <2>7, PopStep
  <1>8. CASE DeletePolicy
    <2>1. events # <<>> /\ Head(events) = events[1] /\ events[1].new = None
      BY <1>8, HeadFacts DEF DeletePolicy
    <2>2. events[1].old \in Versions /\ ~updating
      BY <2>1, HeadFacts DEF MaybeVersion, IndInv, EventsWellFormed
    <2>3. PICK p \in Policies, v \in Versions : p = events[1].policy /\ v = events[1].old
      BY <2>1, <2>2, HeadFacts
    <2>4. DataOf(p) = Entries(p, v) /\ KindsOf(v) \subseteq kinds
      BY <2>1, <2>2, <2>3, HeadFacts, StoreAssumption DEF Handled
    <2>5. UnRegister(p, v) /\ TypeOK
      BY <1>8, <2>1, <2>3 DEF DeletePolicy, IndInv
    <2>6. updating' = FALSE /\ lister' = lister /\ events' = Tail(events)
      BY <1>8, <2>2 DEF DeletePolicy, IndInv, TypeOK
    <2>7. /\ DataOf(p)' = Entries(p, None) /\ kinds' = kinds
          /\ \A q \in Policies \ {p} : DataOf(q)' = DataOf(q)
      BY <2>4, <2>5, UnRegisterRemoves DEF Entries
    <2>8. None \in MaybeVersion
      BY DEF MaybeVersion
    <2> QED BY <2>1, <2>3, <2>6, <2>7, <2>8, PopStep
  <1>9. ASSUME NEW r \in Requests, LookUp(r)
        PROVE  EventsWellFormed' /\ EventsChained' /\ KindsKnown' /\ IndexMatchesHandled'
    BY <1>9, FrameStep DEF LookUp, LookUpNames, LookUpGet, LookUpReturn
  <1>10. CASE UNCHANGED vars
    BY <1>10, FrameStep DEF vars
  <1> QED BY <1>1, <1>2, <1>3, <1>4, <1>5, <1>6, <1>7, <1>8, <1>9, <1>10 DEF Next, Handle

LEMMA IndInvInit == Init => IndInv
  <1> SUFFICES ASSUME Init PROVE IndInv
    OBVIOUS
  <1>1. TypeOK
    <2>1. lister \in [Policies -> MaybeVersion]
      BY DEF Init, MaybeVersion
    <2>2. req \in [Requests -> {Idle} \cup Reading \cup Ended]
      BY DEF Init
    <2>3. edits \in 0..MaxEdits
      BY StoreAssumption DEF Init
    <2>4. events \in Seq(Event)
      BY DEF Init
    <2> QED BY <2>1, <2>2, <2>3, <2>4 DEF Init, TypeOK
  <1>2. DOMAIN events = {} /\ events = <<>>
    BY DEF Init
  <1>3. EventsWellFormed /\ EventsChained
    BY <1>2 DEF Init, EventsWellFormed, EventsChained
  <1>4. \A p \in Policies : lister[p] = None /\ DataOf(p) = {}
    BY DEF Init, DataOf
  <1>5. KindsKnown /\ IndexMatchesHandled
    BY <1>2, <1>4 DEF KindsKnown, IndexMatchesHandled, Entries
  <1> QED BY <1>1, <1>3, <1>5 DEF IndInv

LEMMA IndInvInvariant == Spec => []IndInv
  BY IndInvInit, IndInvStep, PTL DEF Spec

-----------------------------------------------------------------------------
(* Results. *)

\* Every reachable state of the store, its informer and its lookups is well-typed:
\* the maps of policystore.go, client-go's notifications, LookUp in progress.
THEOREM TypeCorrect == Spec => []TypeOK
  <1>1. IndInv => TypeOK
    BY DEF IndInv
  <1> QED BY <1>1, IndInvInvariant, PTL

\* The index never keeps an entry of an outdated version and never misses one of the
\* version last handled: Register and UnRegister of policystore.go, called by the
\* informer's handlers in notification order, stay inverse to each other.
THEOREM IndexCorrect == Spec => []IndexMatchesHandled
  <1>1. IndInv => IndexMatchesHandled
    BY DEF IndInv
  <1> QED BY <1>1, IndInvInvariant, PTL

-----------------------------------------------------------------------------
(* Lookups. *)

\* What the refinement reads of the lookups changes only at the lookup that steps.
LEMMA BoundStep ==
    ASSUME TypeOK, NEW r \in Requests, NEW q, req' = [req EXCEPT ![r] = q]
    PROVE  [s \in Requests |-> Bound(req'[s])]
              = [[s \in Requests |-> Bound(req[s])] EXCEPT ![r] = Bound(q)]
  <1>1. req \in [Requests -> {Idle} \cup Reading \cup Ended]
    BY DEF TypeOK
  <1>2. \A s \in Requests : req'[s] = IF s = r THEN q ELSE req[s]
    BY <1>1
  <1> DEFINE new == [s \in Requests |-> Bound(req'[s])]
             old == [s \in Requests |-> Bound(req[s])]
             mid == [old EXCEPT ![r] = Bound(q)]
  <1>3. \A s \in Requests : new[s] = IF s = r THEN Bound(q) ELSE old[s]
    <2> TAKE s \in Requests
    <2>1. new[s] = Bound(req'[s]) /\ old[s] = Bound(req[s])
      OBVIOUS
    <2>2. CASE s = r
      BY <1>2, <2>1, <2>2
    <2>3. CASE s # r
      <3>1. req'[s] = req[s]
        BY <1>2, <2>3
      <3> QED BY <2>1, <2>3, <3>1
    <2> QED BY <2>2, <2>3
  <1>4. \A s \in Requests : mid[s] = IF s = r THEN Bound(q) ELSE old[s]
    OBVIOUS
  <1>5. new = [s \in Requests |-> new[s]]
    OBVIOUS
  <1>5a. old = [s \in Requests |-> old[s]]
    OBVIOUS
  <1>5b. mid = [s \in Requests |-> mid[s]]
    <2> HIDE DEF old
    <2> QED BY <1>5a
  <1> HIDE DEF new, old, mid
  <1>6. new = mid
    BY <1>3, <1>4, <1>5, <1>5b
  <1> QED BY <1>6 DEF new, old, mid

\* Reading the names settles what the lookup returns: the policies indexed at that
\* moment (lookUp of policystore.go, under the read lock).
LEMMA NamesAreAsked ==
    ASSUME TypeOK, NEW r \in Requests, NEW kind \in Kinds, NEW ns \in Namespaces,
           LookUpNames(r, kind, ns)
    PROVE  Index!Ask(r, kind, ns)
  <1> DEFINE q == [st |-> "reading", kind |-> kind, ns |-> ns, todo |-> Found(kind, ns), got |-> {}]
  <1>1. req' = [req EXCEPT ![r] = q] /\ req[r].st # "reading" /\ data' = data /\ lister' = lister
    BY DEF LookUpNames, informerVars, storeVars
  <1>2. Bound(q) = [st |-> "reading", names |-> Index!Serving(kind, ns)]
    BY DEF Bound, Found, Index!Serving
  <1>3. Bound(req[r]).st = req[r].st
    BY DEF Bound
  <1> HIDE DEF q
  <1>4. [s \in Requests |-> Bound(req'[s])]
           = [[s \in Requests |-> Bound(req[s])] EXCEPT ![r] = Bound(q)]
    BY <1>1, BoundStep
  <1> QED BY <1>1, <1>2, <1>3, <1>4 DEF Index!Ask

\* Fetching a policy is no step of the abstract index, unless it is gone: then the
\* whole lookup fails.
LEMMA GetIsServed ==
    ASSUME TypeOK, NEW r \in Requests, NEW p \in Policies, LookUpGet(r, p)
    PROVE  /\ Index!Fail(r) \/ [s \in Requests |-> Bound(req'[s])] = [s \in Requests |-> Bound(req[s])]
           /\ data' = data /\ lister' = lister
  <1>1. req[r].st = "reading" /\ p \in req[r].todo /\ data' = data /\ lister' = lister
    BY DEF LookUpGet, informerVars, storeVars
  <1>2. req \in [Requests -> {Idle} \cup Reading \cup Ended]
    BY DEF TypeOK
  <1>3. req[r] \in Reading
    BY <1>1, <1>2 DEF Idle, Ended
  <1>4. Bound(req[r]) = [st |-> "reading", names |-> req[r].got \cup req[r].todo]
    BY <1>1 DEF Bound
  <1>5. CASE lister[p] = None
    <2> DEFINE q == [st |-> "failed", kind |-> req[r].kind, ns |-> req[r].ns, got |-> {}]
    <2>1. req' = [req EXCEPT ![r] = q]
      BY <1>5 DEF LookUpGet
    <2>2. Bound(q) = [st |-> "failed", names |-> {}]
      BY DEF Bound
    <2> HIDE DEF q
    <2>3. [s \in Requests |-> Bound(req'[s])]
             = [[s \in Requests |-> Bound(req[s])] EXCEPT ![r] = Bound(q)]
      BY <2>1, BoundStep
    <2>4. ~(Bound(req[r]).names \subseteq {x \in Policies : lister[x] # None})
      BY <1>1, <1>4, <1>5
    <2>5. Index!Fail(r)
      BY <1>1, <1>4, <2>2, <2>3, <2>4 DEF Index!Fail
    <2> QED BY <1>1, <2>5
  <1>6. CASE lister[p] # None
    <2> DEFINE q == [req[r] EXCEPT !.todo = @ \ {p}, !.got = @ \cup {p}]
    <2>1. req' = [req EXCEPT ![r] = q]
      BY <1>6 DEF LookUpGet
    <2>2. q.st = "reading" /\ q.todo = req[r].todo \ {p} /\ q.got = req[r].got \cup {p}
      BY <1>1, <1>3 DEF Reading
    <2> HIDE DEF q
    <2>3. q.got \cup q.todo = req[r].got \cup req[r].todo
      BY <1>1, <2>2
    <2>4. Bound(q) = Bound(req[r])
      BY <1>4, <2>2, <2>3 DEF Bound
    <2>5. [s \in Requests |-> Bound(req'[s])]
             = [[s \in Requests |-> Bound(req[s])] EXCEPT ![r] = Bound(q)]
      BY <2>1, BoundStep
    <2> QED BY <1>1, <2>4, <2>5
  <1> QED BY <1>5, <1>6

\* A lookup that has fetched everything returns what was settled at its start.
LEMMA ReturnIsServed ==
    ASSUME TypeOK, NEW r \in Requests, LookUpReturn(r)
    PROVE  Index!Return(r)
  <1> DEFINE q == [st |-> "done", kind |-> req[r].kind, ns |-> req[r].ns, got |-> req[r].got]
  <1>1. /\ req' = [req EXCEPT ![r] = q] /\ req[r].st = "reading" /\ req[r].todo = {}
        /\ data' = data /\ lister' = lister
    BY DEF LookUpReturn, informerVars, storeVars
  <1>2. Bound(req[r]) = [st |-> "reading", names |-> req[r].got]
    BY <1>1 DEF Bound
  <1>3. Bound(q) = [st |-> "done", names |-> req[r].got]
    BY DEF Bound
  <1>3a. Bound(q) = [Bound(req[r]) EXCEPT !.st = "done"]
    BY <1>2, <1>3
  <1> HIDE DEF q
  <1>4. [s \in Requests |-> Bound(req'[s])]
           = [[s \in Requests |-> Bound(req[s])] EXCEPT ![r] = Bound(q)]
    BY <1>1, BoundStep
  <1> DEFINE old == [s \in Requests |-> Bound(req[s])]
  <1>5. old[r] = Bound(req[r])
    OBVIOUS
  <1>6. [old EXCEPT ![r] = Bound(q)] = [old EXCEPT ![r].st = "done"]
    <2> HIDE DEF old
    <2> QED BY <1>3a, <1>5
  <1> QED BY <1>1, <1>2, <1>4, <1>6 DEF Index!Return

-----------------------------------------------------------------------------
(* Refinement. *)

\* The store implements the abstract index (PolicyIndex): whatever UnRegister of the
\* old object computes is a withdrawal of the whole policy, and Register publishes
\* only where nothing of the policy is left; LookUp, which fetches the policies one by
\* one without the lock, returns exactly what was indexed when it read the names, or
\* fails because the lister no longer has one of them.
THEOREM StoreImplementsIndex == Spec => ImplementsIndex
  <1>1. Init => Index!Init
    <2> SUFFICES ASSUME Init PROVE Index!Init
      OBVIOUS
    <2>1. {p \in Policies : lister[p] # None} = {}
      BY DEF Init
    <2>2. [r \in Requests |-> Bound(req[r])] = [r \in Requests |-> [st |-> "idle", names |-> {}]]
      BY DEF Init, Bound, Idle
    <2> QED BY <2>1, <2>2 DEF Init, Index!Init
  <1>2. IndInv /\ IndInv' /\ [Next]_vars => [Index!Next]_(Index!vars)
    <2> SUFFICES ASSUME IndInv, [Next]_vars PROVE Index!Next \/ UNCHANGED Index!vars
      OBVIOUS
    <2> USE DEF informerVars, storeVars
    <2>0. TypeOK
      BY DEF IndInv
    <2>1. ASSUME NEW p \in Policies, NEW v \in Versions, Register(p, v), DataOf(p) = {},
                 lister' = lister, req' = req
          PROVE  Index!Next
      <3>1. Index!Publish(p, v)
        BY <2>1, StoreAssumption DEF Index!Publish, Index!EntriesOf, DataOf, Register, Entries
      <3> QED BY <3>1 DEF Index!Next
    <2>2. ASSUME NEW p \in Policies, NEW v \in Versions, UnRegister(p, v),
                 DataOf(p) = Entries(p, v), KindsOf(v) \subseteq kinds,
                 lister' = lister, req' = req
          PROVE  Index!Next
      <3>1. data' = data \ DataOf(p)
        BY <2>2, UnRegisterRemoves DEF IndInv
      <3>2. Index!Withdraw(p)
        BY <2>2, <3>1 DEF Index!Withdraw, Index!EntriesOf, DataOf
      <3> QED BY <3>2 DEF Index!Next
    <2>3. CASE Handle
      <3>1. events # <<>>
        BY <2>3 DEF Handle, AddPolicy, UpdatePolicyUnRegister, UpdatePolicyRegister, DeletePolicy
      <3>2. PICK p \in Policies, old \in MaybeVersion, new \in MaybeVersion :
                p = events[1].policy /\ old = events[1].old /\ new = events[1].new
        BY <3>1, HeadFacts
      <3>3. Head(events) = events[1] /\ (old # None \/ new # None)
        BY <3>1, <3>2, HeadFacts
      <3>4. DataOf(p) = Entries(p, Handled(1)) /\ (old # None => KindsOf(old) \subseteq kinds)
        BY <3>1, <3>2, HeadFacts
      <3>5. updating => old # None /\ new # None
        BY <3>2 DEF IndInv, EventsWellFormed
      <3>5a. lister' = lister /\ req' = req
        BY <2>3 DEF Handle, AddPolicy, UpdatePolicyUnRegister, UpdatePolicyRegister, DeletePolicy
      <3>6. CASE AddPolicy
        <4>1. old = None /\ new \in Versions /\ Register(p, new)
          BY <3>2, <3>3, <3>6 DEF AddPolicy, MaybeVersion
        <4>2. DataOf(p) = {}
          BY <3>2, <3>4, <4>1 DEF Handled, Entries
        <4> QED BY <3>5a, <2>1, <4>1, <4>2
      <3>7. CASE UpdatePolicyUnRegister
        <4>1. old # None /\ old \in Versions /\ UnRegister(p, old) /\ ~updating
          BY <3>2, <3>3, <3>7 DEF UpdatePolicyUnRegister, MaybeVersion
        <4>2. DataOf(p) = Entries(p, old)
          BY <3>2, <3>4, <4>1 DEF Handled
        <4> QED BY <3>5a, <2>2, <3>4, <4>1, <4>2
      <3>8. CASE UpdatePolicyRegister
        <4>1. updating /\ Register(p, new)
          BY <3>2, <3>3, <3>8 DEF UpdatePolicyRegister
        <4>2. new \in Versions
          BY <3>5, <4>1 DEF MaybeVersion
        <4>3. DataOf(p) = {}
          BY <3>4, <4>1 DEF Handled, Entries
        <4> QED BY <3>5a, <2>1, <4>1, <4>2, <4>3
      <3>9. CASE DeletePolicy
        <4>1. new = None /\ UnRegister(p, old)
          BY <3>2, <3>3, <3>9 DEF DeletePolicy
        <4>2. old # None /\ old \in Versions /\ ~updating
          BY <3>3, <3>5, <4>1 DEF MaybeVersion
        <4>3. DataOf(p) = Entries(p, old)
          BY <3>2, <3>4, <4>2 DEF Handled
        <4> QED BY <3>5a, <2>2, <3>4, <4>1, <4>2, <4>3
      <3> QED BY <2>3, <3>6, <3>7, <3>8, <3>9 DEF Handle
    <2>4. ASSUME NEW p \in Policies, InformerSync(p)
          PROVE  Index!Next
      <3>1. lister' = [lister EXCEPT ![p] = api[p]] /\ data' = data /\ req' = req
        BY <2>4 DEF InformerSync
      <3>2. \A x \in Policies : lister'[x] = IF x = p THEN api[p] ELSE lister[x]
        BY <2>0, <3>1 DEF TypeOK
      <3>3. CASE api[p] = None
        <4>1. {x \in Policies : lister'[x] # None} = {x \in Policies : lister[x] # None} \ {p}
          BY <3>2, <3>3
        <4>2. Index!Learn(p)
          BY <3>1, <4>1 DEF Index!Learn
        <4> QED BY <4>2 DEF Index!Next
      <3>4. CASE api[p] # None
        <4>1. {x \in Policies : lister'[x] # None} = {x \in Policies : lister[x] # None} \cup {p}
          BY <3>2, <3>4
        <4>2. Index!Learn(p)
          BY <3>1, <4>1 DEF Index!Learn
        <4> QED BY <4>2 DEF Index!Next
      <3> QED BY <3>3, <3>4
    <2>5. ASSUME NEW r \in Requests, LookUp(r)
          PROVE  Index!Next \/ UNCHANGED Index!vars
      <3>1. ASSUME NEW kind \in Kinds, NEW ns \in Namespaces, LookUpNames(r, kind, ns)
            PROVE  Index!Next
        BY <2>0, <3>1, NamesAreAsked DEF Index!Next
      <3>2. ASSUME NEW p \in Policies, LookUpGet(r, p)
            PROVE  Index!Next \/ UNCHANGED Index!vars
        BY <2>0, <3>2, GetIsServed DEF Index!Next, Index!vars
      <3>3. CASE LookUpReturn(r)
        BY <2>0, <3>3, ReturnIsServed DEF Index!Next
      <3> QED BY <2>5, <3>1, <3>2, <3>3 DEF LookUp
    <2>6. ASSUME data' = data, lister' = lister, req' = req
          PROVE  UNCHANGED Index!vars
      BY <2>6 DEF Index!vars
    <2>7. ASSUME NEW p \in Policies, Resync(p) \/ TakeKey(p) \/ \E v \in MaybeVersion : EditPolicy(p, v)
          PROVE  UNCHANGED Index!vars
      BY <2>6, <2>7 DEF Resync, TakeKey, EditPolicy
    <2>8. CASE UNCHANGED vars
      BY <2>6, <2>8 DEF vars
    <2> QED BY <2>3, <2>4, <2>5, <2>7, <2>8 DEF Next
  <1> QED BY <1>1, <1>2, IndInvInvariant, PTL DEF Spec, ImplementsIndex, Index!Spec
=============================================================================

---------------------------- MODULE PolicyStore ----------------------------
(***************************************************************************)
(* The policy meta-store (pkg/policystore) with the callers that share it: *)
(* the policy informer's handlers (pkg/policy/controller.go), which run    *)
(* one after another on the informer's listener goroutine and change the   *)
(* store, and admission requests, which look policies up concurrently.     *)
(*                                                                         *)
(* Three copies of the policies exist: the API server's (api), the         *)
(* informer's indexer (lister), and the store's index (data), each lagging *)
(* behind the one before it.  LookUp reads two of them without a common    *)
(* lock: names from data, then each policy from lister.                    *)
(***************************************************************************)
EXTENDS Naturals, Sequences, FiniteSets

CONSTANTS Policies,     \* policy names
          Kinds,        \* resource kinds
          Namespaces,   \* strings that occur as namespace names or patterns
          AllNs,        \* the key "*"
          Versions,     \* contents (spec) a policy can be given
          None,         \* "no such policy"
          Requests,     \* concurrent admission requests
          MaxEdits,     \* bound: edits of policies by users
          MaxEvents     \* bound: notifications queued by the periodic resync

Rule    == [kinds : Seq(Kinds), namespaces : Seq(Namespaces)]
Content == [rules : Seq(Rule), background : {"unset", "true", "false"}, userInfo : BOOLEAN]
MaybeVersion == Versions \cup {None}

ASSUME StoreAssumption ==
    /\ Versions \subseteq Content
    /\ None \notin Versions
    /\ AllNs \in Namespaces
    /\ MaxEdits \in Nat /\ MaxEvents \in Nat

Event == [policy : Policies, old : MaybeVersion, new : MaybeVersion]

VARIABLES api,      \* policy -> content at the API server
          edits,    \* edits made so far
          lister,   \* policy -> content in the informer's indexer
          events,   \* notifications not yet handled, oldest first
          updating, \* updatePolicy is between UnRegister(old) and Register(cur)
          data,     \* the index: <<kind, namespace, policy>> entries
          kinds,    \* kinds the top-level map has a namespace map for
          queue,    \* policy keys in the controller's work queue
          req       \* request -> its lookup

informerVars == <<api, edits, lister>>
storeVars    == <<data, kinds>>
vars         == <<api, edits, lister, events, updating, data, kinds, queue, req>>

Idle    == [st |-> "idle"]
Reading == [st : {"reading"}, kind : Kinds, ns : Namespaces, todo : SUBSET Policies, got : SUBSET Policies]
Ended   == [st : {"done", "failed"}, kind : Kinds, ns : Namespaces, got : SUBSET Policies]

TypeOK ==
    /\ api \in [Policies -> MaybeVersion]
    /\ lister \in [Policies -> MaybeVersion]
    /\ edits \in 0..MaxEdits
    /\ events \in Seq(Event)
    /\ updating \in BOOLEAN
    /\ data \in SUBSET (Kinds \X Namespaces \X Policies)
    /\ kinds \in SUBSET Kinds
    /\ queue \in SUBSET Policies
    /\ req \in [Requests -> {Idle} \cup Reading \cup Ended]

\* Kyverno starts with empty maps; the policies may exist already.
Init ==
    /\ api \in [Policies -> MaybeVersion]
    /\ lister = [p \in Policies |-> None]
    /\ edits = 0
    /\ events = <<>>
    /\ updating = FALSE
    /\ data = {}
    /\ kinds = {}
    /\ queue = {}
    /\ req = [r \in Requests |-> Idle]

-----------------------------------------------------------------------------
(* The index. *)

\* Namespace keys of a rule: "*" stands for a rule that names none.
RuleNamespaces(rule) ==
    IF rule.namespaces = <<>> THEN {AllNs}
    ELSE {rule.namespaces[i] : i \in DOMAIN rule.namespaces}

\* The one namespace key Register adds the policy under: its loop over the
\* namespaces leaves pmap at the last one, and only then adds the policy.
RegisteredNamespace(rule) ==
    IF rule.namespaces = <<>> THEN AllNs ELSE rule.namespaces[Len(rule.namespaces)]

KindsOf(v) == UNION {{rule.kinds[j] : j \in DOMAIN rule.kinds} :
                        rule \in {v.rules[i] : i \in DOMAIN v.rules}}

RegisteredKeys(v) ==
    UNION {{<<v.rules[i].kinds[j], RegisteredNamespace(v.rules[i])>> :
               j \in DOMAIN v.rules[i].kinds} : i \in DOMAIN v.rules}

Entries(p, v) == IF v = None THEN {} ELSE {<<k[1], k[2], p>> : k \in RegisteredKeys(v)}

\* UnRegister walks rules and kinds in order and returns at the first kind
\* the top-level map does not hold.
Reached(v, i, j) ==
    \A i2 \in 1..i : \A j2 \in DOMAIN v.rules[i2].kinds :
        (i2 < i \/ j2 <= j) => v.rules[i2].kinds[j2] \in kinds

RemovedKeys(v) ==
    UNION {{<<v.rules[i].kinds[j], ns>> :
               j \in {j \in DOMAIN v.rules[i].kinds : Reached(v, i, j)},
               ns \in RuleNamespaces(v.rules[i])} : i \in DOMAIN v.rules}

(* Mutated forms of Register and UnRegister. *)
RegisterSwapped(p, v) ==
    /\ data' = data \cup {<<k[1], p, k[2]>> : k \in RegisteredKeys(v)}
    /\ kinds' = kinds \cup KindsOf(v)
UnRegisterAllNsOnly(p, v) ==
    /\ data' = data \ {<<k, AllNs, p>> : k \in KindsOf(v)}
    /\ UNCHANGED kinds

Register(p, v) ==
    /\ data' = data \cup Entries(p, v)
    /\ kinds' = kinds \cup KindsOf(v)

UnRegister(p, v) ==
    /\ data' = data \ {<<k[1], k[2], p>> : k \in RemovedKeys(v)}
    /\ UNCHANGED kinds

\* Names found for a resource: entries of its namespace and of "*".
Found(kind, ns) == {p \in Policies : <<kind, ns, p>> \in data \/ <<kind, AllNs, p>> \in data}

-----------------------------------------------------------------------------
(* Users, the API server and the informer (client-go). *)

\* A user creates, updates or deletes a policy.
EditPolicy(p, v) ==
    /\ edits < MaxEdits
    /\ api[p] # v
    /\ api' = [api EXCEPT ![p] = v]
    /\ edits' = edits + 1
    /\ UNCHANGED <<lister, events, updating, storeVars, queue, req>>

\* The informer learns the current content of p: from a watch event or, when
\* the watch was broken and versions were missed, from a new list.  The
\* indexer changes first; the handlers are notified through a buffer.
InformerSync(p) ==
    /\ lister[p] # api[p]
    /\ lister' = [lister EXCEPT ![p] = api[p]]
    /\ events' = Append(events, [policy |-> p, old |-> lister[p], new |-> api[p]])
    /\ UNCHANGED <<api, edits, updating, storeVars, queue, req>>

\* Every resync period an update without a change is delivered for every policy.
Resync(p) ==
    /\ lister[p] # None
    /\ Len(events) < MaxEvents
    /\ events' = Append(events, [policy |-> p, old |-> lister[p], new |-> lister[p]])
    /\ UNCHANGED <<informerVars, updating, storeVars, queue, req>>

-----------------------------------------------------------------------------
(* Handlers of the policy informer. *)

\* Background processing is wanted unless switched off or in need of user info.
Background(v) == v.background # "false" /\ ~v.userInfo

Enqueue(p, wanted) == queue' = IF wanted THEN queue \cup {p} ELSE queue

(* Mutated form: the current version is not registered. *)
UpdatePolicyNoRegister ==
    LET e == Head(events) IN
    /\ events # <<>> /\ updating
    /\ updating' = FALSE
    /\ Enqueue(e.policy, Background(e.new))
    /\ events' = Tail(events)
    /\ UNCHANGED <<informerVars, storeVars, req>>

AddPolicy ==
    LET e == Head(events) IN
    /\ events # <<>> /\ e.old = None
    /\ Register(e.policy, e.new)
    /\ Enqueue(e.policy, Background(e.new))
    /\ events' = Tail(events)
    /\ UNCHANGED <<informerVars, updating, req>>

\* updatePolicy takes the store's lock twice: first to remove the old version...
UpdatePolicyUnRegister ==
    /\ events # <<>> /\ ~updating
    /\ Head(events).old # None /\ Head(events).new # None
    /\ UnRegister(Head(events).policy, Head(events).old)
    /\ updating' = TRUE
    /\ UNCHANGED <<informerVars, events, queue, req>>

\* ... then to add the current one; the key is queued after that.
UpdatePolicyRegister ==
    LET e == Head(events) IN
    /\ events # <<>> /\ updating
    /\ Register(e.policy, e.new)
    /\ updating' = FALSE
    /\ Enqueue(e.policy, Background(e.new))
    /\ events' = Tail(events)
    /\ UNCHANGED <<informerVars, req>>

DeletePolicy ==
    LET e == Head(events) IN
    /\ events # <<>> /\ e.new = None
    /\ UnRegister(e.policy, e.old)
    /\ Enqueue(e.policy, TRUE)
    /\ events' = Tail(events)
    /\ UNCHANGED <<informerVars, updating, req>>

Handle == AddPolicy \/ UpdatePolicyUnRegister \/ UpdatePolicyRegister \/ DeletePolicy

\* The controller's worker takes a key (its reconciliation does not touch the store).
TakeKey(p) ==
    /\ p \in queue
    /\ queue' = queue \ {p}
    /\ UNCHANGED <<informerVars, events, updating, storeVars, req>>

-----------------------------------------------------------------------------
(* LookUp, called by an admission request. *)

\* lookUp: the names, under the read lock.
LookUpNames(r, kind, ns) ==
    /\ req[r].st # "reading"
    /\ req' = [req EXCEPT ![r] =
                  [st |-> "reading", kind |-> kind, ns |-> ns, todo |-> Found(kind, ns), got |-> {}]]
    /\ UNCHANGED <<informerVars, events, updating, storeVars, queue>>

(* Mutated form: a policy that is gone is left out of the result. *)
LookUpGetSkips(r, p) ==
    /\ req[r].st = "reading" /\ p \in req[r].todo
    /\ req' = [req EXCEPT ![r].todo = @ \ {p},
                          ![r].got = IF lister[p] = None THEN @ ELSE @ \cup {p}]
    /\ UNCHANGED <<informerVars, events, updating, storeVars, queue>>

\* One name is fetched from the lister; one that is gone fails the whole lookup.
LookUpGet(r, p) ==
    /\ req[r].st = "reading" /\ p \in req[r].todo
    /\ req' = [req EXCEPT ![r] =
                  IF lister[p] = None
                  THEN [st |-> "failed", kind |-> @.kind, ns |-> @.ns, got |-> {}]
                  ELSE [req[r] EXCEPT !.todo = @ \ {p}, !.got = @ \cup {p}]]
    /\ UNCHANGED <<informerVars, events, updating, storeVars, queue>>

LookUpReturn(r) ==
    /\ req[r].st = "reading" /\ req[r].todo = {}
    /\ req' = [req EXCEPT ![r] = [st |-> "done", kind |-> @.kind, ns |-> @.ns, got |-> @.got]]
    /\ UNCHANGED <<informerVars, events, updating, storeVars, queue>>

LookUp(r) ==
    \/ \E kind \in Kinds, ns \in Namespaces \ {AllNs} : LookUpNames(r, kind, ns)
    \/ \E p \in Policies : LookUpGet(r, p)
    \/ LookUpReturn(r)

Next ==
    \/ \E p \in Policies : \E v \in MaybeVersion : EditPolicy(p, v)
    \/ \E p \in Policies : InformerSync(p) \/ Resync(p) \/ TakeKey(p)
    \/ Handle
    \/ \E r \in Requests : LookUp(r)

Spec == Init /\ [][Next]_vars

\* The informer's goroutines keep running: a watch or a re-list delivers every
\* change in the end and the listener calls the handlers.  Users, admission
\* requests, the resync timer and the controller's worker owe nothing.
Fairness == WF_vars(Handle) /\ \A p \in Policies : WF_vars(InformerSync(p))

FairSpec == Spec /\ Fairness

-----------------------------------------------------------------------------
(* Properties. *)

\* Event i is the oldest pending one of its policy.
FirstPending(i) == \A j \in 1..(i - 1) : events[j].policy # events[i].policy

Pending(p) == \E i \in DOMAIN events : events[i].policy = p

\* The version whose entries the store holds while event i is the next of its policy.
Handled(i) == IF i = 1 /\ updating THEN None ELSE events[i].old

DataOf(p) == {e \in data : e[3] = p}

\* Auxiliary: what the handlers rely on in the notifications.  Each is an add, an
\* update or a delete, and updatePolicy is under way only for an update.
EventsWellFormed ==
    /\ \A i \in DOMAIN events : events[i].old # None \/ events[i].new # None
    /\ updating => events # <<>> /\ events[1].old # None /\ events[1].new # None

\* Auxiliary: the notifications of one policy form a chain that ends at the
\* indexer's content.
EventsChained ==
    /\ \A i, j \in DOMAIN events :
          (/\ i < j /\ events[i].policy = events[j].policy
           /\ \A k \in (i + 1)..(j - 1) : events[k].policy # events[i].policy)
              => events[j].old = events[i].new
    /\ \A i \in DOMAIN events :
          (\A k \in (i + 1)..Len(events) : events[k].policy # events[i].policy)
              => events[i].new = lister[events[i].policy]

\* Auxiliary: the top-level map holds every kind of a version that is or was just
\* registered, so UnRegister never returns early.
KindsKnown ==
    /\ \A i \in DOMAIN events :
          FirstPending(i) /\ events[i].old # None => KindsOf(events[i].old) \subseteq kinds
    /\ \A p \in Policies : ~Pending(p) /\ lister[p] # None => KindsOf(lister[p]) \subseteq kinds

\* The index holds, for every policy, exactly the entries of the version the
\* handlers have finished with: nothing of an older version survives an update
\* or a deletion, although UnRegister removes only the keys it computes from the
\* old object and stops at the first unknown kind.
IndexMatchesHandled ==
    /\ \A i \in DOMAIN events :
          FirstPending(i) => DataOf(events[i].policy) = Entries(events[i].policy, Handled(i))
    /\ \A p \in Policies : ~Pending(p) => DataOf(p) = Entries(p, lister[p])

\* The inductive invariant behind IndexMatchesHandled.
IndInv == TypeOK /\ EventsWellFormed /\ EventsChained /\ KindsKnown /\ IndexMatchesHandled

\* What a lookup is bound to return, from the moment it has read the names.
Bound(q) == [st |-> q.st,
             names |-> CASE q.st = "idle" -> {}
                         [] q.st = "reading" -> q.got \cup q.todo
                         [] OTHER -> q.got]

Index == INSTANCE PolicyIndex WITH
            index <- data,
            known <- {p \in Policies : lister[p] # None},
            answer <- [r \in Requests |-> Bound(req[r])],
            Readers <- Requests,
            KeysOf <- [v \in Versions |-> RegisteredKeys(v)]

\* The store implements the abstract index: UnRegister of the old object is a
\* withdrawal of everything the store has of the policy, Register publishes
\* where nothing is left, and LookUp, which reads the names under the lock and the
\* policies without it, returns exactly the policies indexed when it read the
\* names or fails because the lister no longer has one of them.
ImplementsIndex == Index!Spec

\* Once users stop editing, the index keeps coming back to the API server's
\* policies, however informer deliveries and resyncs interleave.
EventuallyServed ==
    []<>(lister = api /\ \A p \in Policies : DataOf(p) = Entries(p, api[p]))

\* Expected by documentation/writing-policies-validate.md:191, "resource creation
\* or updates are blocked when the resource does not comply": a policy that exists,
\* that the handlers have registered and that nobody changes stays in the index.
UnchangedPolicyStaysIndexed ==
    \A p \in Policies :
        (\E i \in DOMAIN events : FirstPending(i) /\ events[i].policy = p /\ events[i].old # None)
        /\ (\A i \in DOMAIN events : events[i].policy = p => events[i].new = events[i].old)
            => Entries(p, lister[p]) \subseteq data
=============================================================================

----------------------------- MODULE Reporting -----------------------------
(***************************************************************************)
(* What the webhook and the background scan report besides violations:     *)
(* statistics, which PolicyStatusAggregator takes from an unbuffered       *)
(* channel (pkg/policy/status.go), and events, which the event generator   *)
(* records from a work queue (pkg/event).  The handler of a request and    *)
(* the worker of the policy controller block until the aggregator has      *)
(* taken their statistics; the worker also removes the statistics of       *)
(* deleted policies and reads those of the others into their status.       *)
(***************************************************************************)
EXTENDS Naturals, Sequences, FiniteSets, SequencesExt

CONSTANTS Handlers,     \* goroutines that serve requests
          Worker,       \* the worker of the policy controller
          Policies,
          Enforce,      \* policies whose failure action is "enforce"
          Results,      \* what the engine may find: for the mutate and the validate rules
                        \* of each policy "none", "quick" (in no time), "pass" or "fail",
                        \* and whether the resource has a name
          None,
          RetryLimit,   \* workQueueRetryLimit
          MaxRequests, MaxScans, MaxEdits    \* bounds of the model

Senders == Handlers \cup {Worker}
Res == "resource"      \* the object of events that is not a policy

\* event.Info, by the object it is about; reason and message do not matter.
Events == Policies \cup {Res}

INSTANCE WorkQueue WITH Keys <- Events

\* PolicyStat: the rules of a phase that were applied, and how they ended.
RuleNames == {"mutate", "validate"}
Stat == [policy : Policies, applied : 0..1, blocked : 0..1, rules : SUBSET RuleNames,
         timed : BOOLEAN]
\* statusInfo: what the aggregator keeps of a policy.
StatusInfo == [applied : Nat, blocked : Nat, rules : SUBSET RuleNames]

Outcomes == {"none", "quick", "pass", "fail"}

ASSUME ReportingAssumption ==
    /\ IsFiniteSet(Handlers) /\ IsFiniteSet(Policies)
    /\ Results \subseteq [mutate : [Policies -> Outcomes], validate : [Policies -> Outcomes],
                          named : BOOLEAN]
    /\ None \notin Stat /\ None \notin StatusInfo /\ None \notin Results
    /\ None # "aggregator" /\ Worker \notin Handlers /\ RetryLimit \in Nat

VARIABLES
    sender,      \* what the goroutines that report are doing
    agg,         \* the aggregator: its statistic, or None, and whether it runs
    mux,         \* holder of the mutex
    policyData,  \* aggregated statistics
    events,      \* the event queue
    listed,      \* policies of the lister
    todo,        \* policies in the queue of the worker
    exists,      \* whether the resource exists
    due,         \* history: applications reported for a policy since it was removed
    late,        \* history: policies removed while they were still being reported on
    requests, scans, edits        \* counters of the bounds

stats == <<policyData, due, late>>
objects == <<listed, todo, exists>>
bounds == <<requests, scans, edits>>
vars == <<sender, agg, mux, stats, events, objects, bounds>>

\* out: statistics that are yet to be sent; kept: the statistics gathered so far.
Idle == [pc |-> "idle", pols |-> <<>>, update |-> FALSE, allowed |-> TRUE,
         finds |-> None, out |-> <<>>, kept |-> <<>>]

SenderType ==
    [pc : {"idle", "mutation", "validation", "status"}, pols : Seq(Policies),
     update : BOOLEAN, allowed : BOOLEAN, finds : Results \cup {None},
     out : Seq(Stat), kept : Seq(Stat)]

TypeOK ==
    /\ sender \in [Senders -> SenderType]
    /\ agg \in [stat : Stat \cup {None}, running : BOOLEAN]
    /\ mux \in {None, "aggregator"}
    /\ policyData \in [Policies -> StatusInfo \cup {None}]
    /\ events \in WorkQueueType
    /\ listed \subseteq Policies /\ todo \subseteq Policies /\ exists \in BOOLEAN
    /\ due \in [Policies -> Nat] /\ late \subseteq Policies

Init ==
    /\ sender = [s \in Senders |-> Idle]
    /\ agg = [stat |-> None, running |-> FALSE] /\ mux = None
    /\ policyData = [p \in Policies |-> None]
    /\ events = EmptyQueue
    /\ listed = Policies /\ todo = Policies /\ exists = FALSE
    /\ due = [p \in Policies |-> 0] /\ late = {}
    /\ requests = 0 /\ scans = 0 /\ edits = 0

-----------------------------------------------------------------------------
(* What is reported. *)

\* A statistic without a rule is sent, too.
gatherStat(phase, results, p) ==
    [policy |-> p, timed |-> results[p] # "quick", blocked |-> 0,
     applied |-> IF results[p] = "none" THEN 0 ELSE 1,
     rules |-> IF results[p] = "none" THEN {} ELSE {phase}]

Gathered(phase, results, pols) ==
    [i \in DOMAIN pols |-> gatherStat(phase, results, pols[i])]

(* Mutated form: the number of rules is taken for the flag. *)
sendStatCount(gathered, blocked) ==
    [i \in DOMAIN gathered |-> [gathered[i] EXCEPT !.blocked = IF blocked THEN 2 ELSE 0]]

sendStat(gathered, blocked) ==
    [i \in DOMAIN gathered |-> [gathered[i] EXCEPT !.blocked = IF blocked THEN 1 ELSE 0]]

\* The statistics of a list that say a rule of the policy was applied, and their number.
AppliedAt(gathered, p) ==
    {i \in DOMAIN gathered : gathered[i].policy = p /\ gathered[i].applied = 1}
Applied(gathered, p) == Cardinality(AppliedAt(gathered, p))

Failed(results, pols) == {p \in ToSet(pols) : results[p] = "fail"}

\* generateEvents of the webhook: a failed creation has no resource to report on.
generateEvents(results, pols, update) ==
    LET failed == Failed(results, pols)
        about == failed \cup IF update THEN {Res} ELSE {}
    IN  IF failed # {} THEN about ELSE IF update \/ pols = <<>> THEN {} ELSE {Res}

\* generateEvents of the policy controller: on the resource and the policy that failed.
generateEventsPerEr(results, p) ==
    IF results[p] = "fail" THEN {p, Res} ELSE {}

\* Add of the event generator; an object that has yet to get its name has no event.
AddEvents(infos, named) ==
    events' = AddAll(events, IF named THEN infos ELSE infos \ {Res})

-----------------------------------------------------------------------------
(* The handler of a request. *)

\* The goroutine goes on to send the statistics.
Report(s, record, gathered, blocked) ==
    /\ sender' = [sender EXCEPT ![s] = [record EXCEPT !.out = sendStat(gathered, blocked)]]
    /\ due' = [p \in Policies |-> due[p] + Applied(gathered, p)]
    /\ UNCHANGED <<policyData, late>>

HandleMutation(h) ==
    /\ sender[h].pc = "idle" /\ requests < MaxRequests
    /\ requests' = requests + 1
    /\ \E finds \in Results :
        LET pols == SetToSeq(listed) IN
        /\ Report(h, [Idle EXCEPT !.pc = "mutation", !.pols = pols, !.update = exists,
                                  !.finds = finds],
                  Gathered("mutate", finds.mutate, pols), FALSE)
        /\ AddEvents(generateEvents(finds.mutate, pols, exists), finds.named)
    /\ UNCHANGED <<agg, mux, objects, scans, edits>>

HandleValidation(h) ==
    LET r == sender[h]
        results == r.finds.validate
        blocked == Failed(results, r.pols) \cap Enforce # {}
    IN
    /\ r.pc = "mutation" /\ r.out = <<>>
    /\ Report(h, [r EXCEPT !.pc = "validation", !.allowed = ~blocked],
              Gathered("validate", results, r.pols), blocked)
    /\ AddEvents(IF blocked THEN {} ELSE generateEvents(results, r.pols, r.update),
                 r.finds.named)
    /\ UNCHANGED <<agg, mux, objects, bounds>>

\* The answer reaches the API server, which stores what is allowed.
Finish(h) ==
    /\ sender[h].pc = "validation" /\ sender[h].out = <<>>
    /\ sender' = [sender EXCEPT ![h] = Idle]
    /\ exists' = (exists \/ sender[h].allowed)
    /\ UNCHANGED <<agg, mux, stats, events, listed, todo, bounds>>

-----------------------------------------------------------------------------
(* The worker: applyPolicy for the resource, then the status of the policy.  The       *)
(* statistics of the mutation are kept and sent once more with those of the validation. *)

ScanMutation ==
    /\ sender[Worker].pc = "idle" /\ scans < MaxScans
    /\ \E p \in todo \cap listed, finds \in Results :
        LET gathered == Gathered("mutate", finds.mutate, <<p>>) IN
        /\ todo' = todo \ {p}
        /\ Report(Worker, [Idle EXCEPT !.pc = IF exists THEN "mutation" ELSE "status",
                                       !.pols = <<p>>, !.finds = finds, !.kept = gathered],
                  IF exists THEN gathered ELSE <<>>, FALSE)
    /\ scans' = scans + 1
    /\ UNCHANGED <<agg, mux, events, listed, exists, requests, edits>>

ScanValidation ==
    LET r == sender[Worker] IN
    /\ r.pc = "mutation" /\ r.out = <<>>
    /\ Report(Worker, [r EXCEPT !.pc = "status", !.kept = <<>>],
              r.kept \o Gathered("validate", r.finds.validate, r.pols), FALSE)
    /\ AddEvents(generateEventsPerEr(r.finds.mutate, Head(r.pols))
                     \cup generateEventsPerEr(r.finds.validate, Head(r.pols)), TRUE)
    /\ UNCHANGED <<agg, mux, objects, bounds>>

GetPolicyStats(p) == IF policyData[p] = None THEN 0 ELSE policyData[p].applied

\* The statistics are read under the mutex; PolicyController has what becomes of them.
SyncStatusOnly ==
    /\ sender[Worker].pc = "status" /\ sender[Worker].out = <<>> /\ mux = None
    /\ sender' = [sender EXCEPT ![Worker] = Idle]
    /\ UNCHANGED <<agg, mux, stats, events, objects, bounds>>

\* Whoever has looked the policy up, or is to have its statistic aggregated.
InFlight(p) ==
    \/ \E s \in Senders : p \in ToSet(sender[s].pols)
    \/ agg.stat # None /\ agg.stat.policy = p

(* Mutated form: the counters are reset, the entry stays. *)
ResetPolicyStats(p) ==
    /\ policyData' = [policyData EXCEPT ![p] = IF @ = None THEN @ ELSE [@ EXCEPT !.applied = 0]]
    /\ due' = [due EXCEPT ![p] = @ - GetPolicyStats(p)]
    /\ late' = IF InFlight(p) THEN late \cup {p} ELSE late \ {p}

RemovePolicyStats(p) ==
    /\ policyData' = [policyData EXCEPT ![p] = None]
    /\ due' = [due EXCEPT ![p] = @ - GetPolicyStats(p)]
    /\ late' = IF InFlight(p) THEN late \cup {p} ELSE late \ {p}

\* syncPolicy of a policy that is no longer there.
SyncDeleted ==
    /\ sender[Worker].pc = "idle" /\ mux = None
    /\ \E p \in todo \ listed : RemovePolicyStats(p) /\ todo' = todo \ {p}
    /\ UNCHANGED <<sender, agg, mux, events, listed, exists, bounds>>

-----------------------------------------------------------------------------
(* The channel and the aggregator. *)

\* The aggregator is started by the policy controller once its caches are synced.
RunAggregator ==
    /\ ~agg.running /\ agg' = [agg EXCEPT !.running = TRUE]
    /\ UNCHANGED <<sender, mux, stats, events, objects, bounds>>

\* SendStat of a goroutine meets the aggregator.
Receive(s) ==
    /\ agg.running /\ agg.stat = None /\ sender[s].out # <<>>
    /\ agg' = [agg EXCEPT !.stat = Head(sender[s].out)]
    /\ sender' = [sender EXCEPT ![s].out = Tail(@)]
    /\ UNCHANGED <<mux, stats, events, objects, bounds>>

Lock ==
    /\ agg.stat # None /\ mux = None /\ mux' = "aggregator"
    /\ UNCHANGED <<sender, agg, stats, events, objects, bounds>>

\* Rules that the statistic lacks are dropped, and so are those that took no time.
aggregateRules(ps) == IF ps.timed THEN ps.rules ELSE {}

(* Mutated form: the last statistic replaces the others. *)
aggregateLast(info, ps) ==
    [applied |-> ps.applied, blocked |-> ps.blocked, rules |-> aggregateRules(ps)]

aggregate(info, ps) ==
    IF info = None
    THEN [applied |-> ps.applied, blocked |-> ps.blocked, rules |-> ps.rules]
    ELSE [applied |-> info.applied + ps.applied, blocked |-> info.blocked + ps.blocked,
          rules |-> aggregateRules(ps)]

(* Mutated form: the mutex is not released when no rule was applied. *)
AggregateUnreleased ==
    /\ mux = "aggregator" /\ agg.stat # None
    /\ mux' = IF agg.stat.rules = {} THEN mux ELSE None
    /\ agg' = [agg EXCEPT !.stat = None]
    /\ policyData' = IF agg.stat.rules = {} THEN policyData
                     ELSE [policyData EXCEPT ![agg.stat.policy] = aggregate(@, agg.stat)]
    /\ UNCHANGED <<sender, due, late, events, objects, bounds>>

Aggregate ==
    /\ mux = "aggregator" /\ mux' = None
    /\ agg' = [agg EXCEPT !.stat = None]
    /\ policyData' = IF agg.stat.rules = {} THEN policyData
                     ELSE [policyData EXCEPT ![agg.stat.policy] = aggregate(@, agg.stat)]
    /\ UNCHANGED <<sender, due, late, events, objects, bounds>>

-----------------------------------------------------------------------------
(* The event generator. *)

Found(e) == IF e = Res THEN exists ELSE e \in listed

(* Mutated form: the failures of an event are forgotten before they are counted. *)
handleErrForgetful(err, e) ==
    IF ~err THEN Forget(events, e)
    ELSE IF Forget(events, e).requeues[e] < RetryLimit
    THEN AddRateLimited(Forget(events, e), e) ELSE Forget(events, e)

handleErr(err, e) ==
    IF ~err THEN Forget(events, e)
    ELSE IF events.requeues[e] < RetryLimit THEN AddRateLimited(events, e)
    ELSE Forget(events, e)

\* processNextWorkItem: the object is looked up in the lister or at the API server.  The
\* step is one: an event that is added meanwhile is queued anew by Done.
EventSync ==
    LET e == Head(events.queue)
    IN  /\ events.queue # <<>>
        /\ events' = Done(Get(handleErr(~Found(e), e)), e)
        /\ UNCHANGED <<sender, agg, mux, stats, objects, bounds>>

EventBackOff ==
    /\ \E e \in events.waiting : events' = BackOffEnds(events, e)
    /\ UNCHANGED <<sender, agg, mux, stats, objects, bounds>>

-----------------------------------------------------------------------------
\* A policy is deleted or created and its handler queues it; or the resource is deleted.
EditPolicy ==
    /\ edits < MaxEdits /\ edits' = edits + 1
    /\ \E p \in Policies : /\ listed' = (listed \ {p}) \cup ({p} \ listed)
                           /\ todo' = todo \cup {p} /\ late' = late \ {p}
    /\ UNCHANGED <<sender, agg, mux, policyData, due, events, exists, requests, scans>>

DeleteResource ==
    /\ exists /\ edits < MaxEdits /\ edits' = edits + 1
    /\ exists' = FALSE
    /\ UNCHANGED <<sender, agg, mux, stats, events, listed, todo, requests, scans>>

Aggregator == RunAggregator \/ Lock \/ Aggregate
Handler(h) == HandleValidation(h) \/ Finish(h)
Work == ScanMutation \/ ScanValidation \/ SyncStatusOnly \/ SyncDeleted
EventGenerator == EventSync \/ EventBackOff

Next ==
    \/ \E h \in Handlers : HandleMutation(h) \/ Handler(h)
    \/ \E s \in Senders : Receive(s)
    \/ Work \/ Aggregator \/ EventGenerator \/ EditPolicy \/ DeleteResource

Spec == Init /\ [][Next]_vars

\* Every goroutine that can go on does, and the channel serves those that wait for it in
\* the order of their arrival; nothing makes requests or edits happen.
Fairness ==
    /\ WF_vars(Aggregator) /\ WF_vars(Work)
    /\ \A h \in Handlers : WF_vars(Handler(h))
    /\ \A s \in Senders : SF_vars(Receive(s))
    /\ WF_vars(EventSync) /\ WF_vars(EventBackOff)

FairSpec == Spec /\ Fairness

-----------------------------------------------------------------------------
(* Properties. *)

\* The statistics of applications that the goroutines are yet to send.
Unsent(p) == UNION {{s} \X AppliedAt(sender[s].out, p) : s \in Senders}

InChannel(p) ==
    (IF agg.stat # None /\ agg.stat.policy = p THEN agg.stat.applied ELSE 0)
      + Cardinality(Unsent(p))

\* No application of a rule is lost or counted twice on its way from the handlers and
\* the worker to policyData, however their statistics interleave: what was evaluated has
\* been aggregated, was removed with the policy, or is still to be received.  (The worker
\* itself hands over the statistics of a mutation twice.)
Conservation ==
    \A p \in Policies : GetPolicyStats(p) + InChannel(p) = due[p]

\* The statistics of a deleted policy stay removed, unless a request that had looked the
\* policy up before was still being served when they were removed.
RemovedForGood ==
    \A p \in Policies : p \notin listed \cup todo \cup late => policyData[p] = None

\* Again and again every handler and the worker are rid of their statistics: a request is never held up
\* for ever by the aggregator, by the mutex, or by the others that report.
Served == []<>(\A s \in Senders : sender[s].pc = "idle")

\* Every event is recorded or given up, whether or not its object ever exists.
EventsSettle == []<>(Tracked(events) = {})
=============================================================================

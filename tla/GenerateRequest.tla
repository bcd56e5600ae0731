-------------------------- MODULE GenerateRequest --------------------------
(***************************************************************************)
(* Generation of resources (pkg/webhooks/generate, pkg/generate and        *)
(* pkg/generate/cleanup) for one policy and one triggering resource.  The  *)
(* admission of the trigger puts a request into a channel; a goroutine     *)
(* stores it as a GenerateRequest object; the generate controller creates  *)
(* the resources the policy's rules name and records them in the object's  *)
(* status; the clean-up controller deletes requests and, when the trigger  *)
(* is gone, the resources.  The two controllers share the informer of the  *)
(* requests but neither a queue nor a lock.                                *)
(***************************************************************************)
EXTENDS Naturals, SequencesExt

CONSTANTS Rules,         \* the generate rules of the policy, in their order
          Clones,        \* those that clone a resource; the others carry the data
          Unparsable,    \* those whose data is no object
          IsNamespace,   \* the trigger is a Namespace (the only kind that is watched)
          None,
          MaxRetries, ChannelSize,
          MaxAdmissions, MaxEdits, MaxFaults   \* bounds of the model

RuleNames == {Rules[i] : i \in DOMAIN Rules}

ASSUME GenerateAssumption ==
    /\ Rules \in Seq(RuleNames) /\ Clones \subseteq RuleNames
    /\ Unparsable \subseteq RuleNames \ Clones
    /\ IsNamespace \in BOOLEAN
    /\ {MaxRetries, ChannelSize, MaxAdmissions, MaxEdits, MaxFaults} \subseteq Nat

GRs == 1..MaxAdmissions
INSTANCE WorkQueue WITH Keys <- GRs

\* A recorded resource is named by its rule; None is the empty ResourceSpec.
Recorded == Seq(RuleNames \cup {None})
GR       == [state : {"", "Failed", "Completed"}, generated : Recorded, rv : Nat]

VARIABLES trigger,    \* the triggering resource exists
          asked,      \* its creation has passed the webhook and is not stored yet
          policy, plister,   \* the policy exists; the informer's copy
          newer,      \* the policy was created after the trigger
          source,     \* clone rules whose source exists
          target,     \* rule -> what is there under the name of its resource
          channel,    \* requests in the generator's channel
          grs, lister,    \* GenerateRequest objects; the informer's copy
          late,       \* requests older than the clean-up timeout
          gq, gw,     \* the generate controller's queue and worker
          cq, cw,     \* the clean-up controller's queue and worker
          admissions, created, edits, faults   \* counters of the bounds

clusterVars == <<trigger, asked, policy, plister, newer, source>>
bounds      == <<admissions, created, edits, faults>>
vars == <<clusterVars, target, channel, grs, lister, late, gq, gw, cq, cw, bounds>>

GIdle == [pc |-> "idle", key |-> None, gr |-> None, rule |-> 1, made |-> <<>>]
CIdle == [pc |-> "idle", key |-> None, todo |-> <<>>]

GenerateWorkerType ==
    [pc : {"idle", "sync", "apply", "failed", "ok", "err"}, key : GRs \cup {None},
     gr : GR \cup {None}, rule : 1..(Len(Rules) + 1), made : Recorded]
CleanupWorkerType ==
    [pc : {"idle", "sync", "delete", "ok", "err"}, key : GRs \cup {None}, todo : Recorded]

TypeOK ==
    /\ trigger \in BOOLEAN /\ asked \in BOOLEAN /\ newer \in BOOLEAN
    /\ policy \in BOOLEAN /\ plister \in BOOLEAN
    /\ source \subseteq Clones
    /\ target \in [RuleNames -> {"none", "ours", "foreign"}]
    /\ channel \in 0..ChannelSize
    /\ grs \in [GRs -> GR \cup {None}] /\ lister \in [GRs -> GR \cup {None}]
    /\ late \subseteq GRs
    /\ gq \in WorkQueueType /\ cq \in WorkQueueType
    /\ gw \in GenerateWorkerType
    /\ gw.pc \in {"apply", "failed"} => gw.gr # None
    /\ cw \in CleanupWorkerType
    /\ admissions \in 0..MaxAdmissions /\ created \in 0..MaxAdmissions
    /\ edits \in 0..MaxEdits /\ faults \in 0..MaxFaults

Init ==
    /\ trigger = FALSE /\ asked = FALSE
    /\ policy = TRUE /\ plister = TRUE /\ newer = FALSE
    /\ source \in SUBSET Clones
    /\ target = [r \in RuleNames |-> "none"]
    /\ channel = 0
    /\ grs = [g \in GRs |-> None] /\ lister = grs /\ late = {}
    /\ gq = EmptyQueue /\ gw = GIdle
    /\ cq = EmptyQueue /\ cw = CIdle
    /\ admissions = 0 /\ created = 0 /\ edits = 0 /\ faults = 0

Listed == {g \in GRs : lister[g] # None}

-----------------------------------------------------------------------------
(* Admission of the trigger, and the goroutine that stores requests. *)

controllerVars == <<gq, gw, cq, cw>>

\* HandleGenerate blocks while the channel is full.
HandleGenerate ==
    /\ ~trigger /\ ~asked /\ plister /\ admissions < MaxAdmissions
    /\ channel < ChannelSize
    /\ channel' = channel + 1
    /\ asked' = TRUE
    /\ admissions' = admissions + 1
    /\ UNCHANGED <<trigger, policy, plister, newer, source, target, grs, lister, late, controllerVars,
                   created, edits, faults>>

\* The API server stores the trigger, or another webhook refuses it.
StoreTrigger ==
    /\ asked
    /\ asked' = FALSE
    /\ \/ trigger' = TRUE /\ newer' = FALSE
       \/ UNCHANGED <<trigger, newer>>
    /\ UNCHANGED <<policy, plister, source, target, channel, grs, lister, late, controllerVars, bounds>>

\* process: the request becomes an object ...
CreateGR ==
    /\ channel > 0
    /\ channel' = channel - 1
    /\ created' = created + 1
    /\ grs' = [grs EXCEPT ![created + 1] = [state |-> "", generated |-> <<>>, rv |-> 1]]
    /\ UNCHANGED <<clusterVars, target, lister, late, controllerVars, admissions, edits, faults>>

\* ... or is lost when the API server fails for longer than the retries.
CreateGRFault ==
    /\ channel > 0 /\ faults < MaxFaults
    /\ channel' = channel - 1
    /\ created' = created + 1
    /\ faults' = faults + 1
    /\ UNCHANGED <<clusterVars, target, grs, lister, late, controllerVars, admissions, edits>>

-----------------------------------------------------------------------------
(* The generate controller's worker. *)

generateFrame == <<clusterVars, channel, lister, late, cq, cw, admissions, created, edits>>

GenerateGet ==
    /\ gw.pc = "idle" /\ gq.queue # <<>>
    /\ gw' = [GIdle EXCEPT !.pc = "sync", !.key = Head(gq.queue)]
    /\ gq' = Get(gq)
    /\ UNCHANGED <<generateFrame, target, grs, faults>>

(* Mutated form: the error of the lister's Get is not checked. *)
GenerateSyncUnchecked ==
    /\ gw.pc = "sync"
    /\ gw' = IF ~trigger THEN [gw EXCEPT !.pc = "err"]
             ELSE [gw EXCEPT !.pc = "apply", !.gr = lister[gw.key],
                             !.rule = IF plister THEN 1 ELSE Len(Rules) + 1]
    /\ UNCHANGED <<generateFrame, gq, target, grs, faults>>

\* syncGenerateRequest and processGR: the request must be in the lister and the trigger
\* must exist, else the key is tried again; a policy that is gone counts as success.
GenerateSync ==
    /\ gw.pc = "sync"
    /\ gw' = IF lister[gw.key] = None \/ ~trigger THEN [gw EXCEPT !.pc = "err"]
             ELSE [gw EXCEPT !.pc = "apply", !.gr = lister[gw.key],
                             !.rule = IF plister THEN 1 ELSE Len(Rules) + 1]
    /\ UNCHANGED <<generateFrame, gq, target, grs, faults>>

Rule == Rules[gw.rule]

RuleDone(entry) == gw' = [gw EXCEPT !.rule = @ + 1, !.made = Append(@, entry)]
RuleFails       == gw' = [gw EXCEPT !.pc = "failed", !.made = <<>>] /\ UNCHANGED target

\* A rule with data creates its resource only for a request that was never processed, a
\* clone rule whenever its source exists.
RuleMisses ==
    /\ target[Rule] = "none"
    /\ IF Rule \in Clones THEN Rule \in source ELSE gw.gr.state = ""

RuleCreates == RuleMisses /\ Rule \notin Unparsable

\* What is there is taken for the resource: a rule with data compares the content.  Data
\* that cannot be converted (ParseFailed) is a handled error: like a resource that is there,
\* it leaves nothing to create, and the rule succeeds.
RuleSatisfied ==
    \/ IF Rule \in Clones THEN target[Rule] # "none" ELSE target[Rule] = "ours"
    \/ RuleMisses /\ Rule \in Unparsable

\* applyRule.  For a trigger that is older than the policy nothing is created, and an
\* empty ResourceSpec is appended to the list all the same.
ApplyRule ==
    /\ gw.pc = "apply" /\ gw.rule <= Len(Rules)
    /\ \/ RuleSatisfied /\ RuleDone(Rule) /\ UNCHANGED target
       \/ RuleCreates /\ newer /\ RuleDone(None) /\ UNCHANGED target
       \/ RuleCreates /\ ~newer /\ RuleDone(Rule) /\ target' = [target EXCEPT ![Rule] = "ours"]
       \/ ~RuleSatisfied /\ ~RuleCreates /\ RuleFails
    /\ UNCHANGED <<generateFrame, gq, grs, faults>>

\* A variable without a value, a policy that no longer applies, or a failing API server.
ApplyRuleFault ==
    /\ gw.pc = "apply" /\ gw.rule <= Len(Rules) /\ faults < MaxFaults
    /\ faults' = faults + 1
    /\ RuleFails
    /\ UNCHANGED <<generateFrame, gq, grs>>

Applied == gw.pc = "apply" /\ gw.rule > Len(Rules)

\* updateStatus with the resource version of the lister's copy.  A write that changes
\* nothing keeps the version.
GenerateStatus ==
    LET new == [gw.gr EXCEPT !.state = IF Applied THEN "Completed" ELSE "Failed",
                             !.generated = gw.made] IN
    /\ Applied \/ gw.pc = "failed"
    /\ IF grs[gw.key] # None /\ grs[gw.key].rv = gw.gr.rv
       THEN /\ grs' = [grs EXCEPT ![gw.key] = IF new = @ THEN @ ELSE [new EXCEPT !.rv = @ + 1]]
            /\ gw' = [GIdle EXCEPT !.pc = "ok", !.key = gw.key]
       ELSE /\ gw' = [GIdle EXCEPT !.pc = "err", !.key = gw.key]
            /\ UNCHANGED grs
    /\ UNCHANGED <<generateFrame, gq, target, faults>>

\* The API server fails: at the look-up of the trigger, or at the write of the status.
GenerateFault ==
    /\ gw.pc \in {"sync", "failed"} \/ Applied
    /\ faults < MaxFaults
    /\ faults' = faults + 1
    /\ gw' = [GIdle EXCEPT !.pc = "err", !.key = gw.key]
    /\ UNCHANGED <<generateFrame, gq, target, grs>>

\* handleErr and the deferred Done.  The limiter's delays are nanoseconds, 1 to 30: a
\* failed key is back in the queue at once.
Handled(q, k, ok) ==
    IF ok \/ q.requeues[k] >= MaxRetries THEN Done(Forget(q, k), k)
    ELSE Done(BackOffEnds(AddRateLimited(q, k), k), k)

GenerateHandleErr ==
    /\ gw.pc \in {"ok", "err"}
    /\ gq' = Handled(gq, gw.key, gw.pc = "ok")
    /\ gw' = GIdle
    /\ UNCHANGED <<generateFrame, target, grs, faults>>

GenerateWorker ==
    \/ GenerateGet \/ GenerateSync \/ ApplyRule \/ ApplyRuleFault
    \/ GenerateStatus \/ GenerateFault \/ GenerateHandleErr

-----------------------------------------------------------------------------
(* The clean-up controller's worker. *)

cleanupFrame == <<clusterVars, channel, lister, late, gq, gw, admissions, created, edits>>

CleanupGet ==
    /\ cw.pc = "idle" /\ cq.queue # <<>>
    /\ cw' = [CIdle EXCEPT !.pc = "sync", !.key = Head(cq.queue)]
    /\ cq' = Get(cq)
    /\ UNCHANGED <<cleanupFrame, target, grs, faults>>

(* Mutated form: a completed request is kept without a look at its trigger. *)
CleanupDecisionKeeps(found) ==
    LET gr == lister[cw.key] IN
    IF gr = None THEN [cw EXCEPT !.pc = "err"]
    ELSE IF ~plister \/ (gr.state # "Completed" /\ cw.key \in late)
         THEN [cw EXCEPT !.pc = "delete"]
    ELSE [cw EXCEPT !.pc = "ok"]

\* syncGenerateRequest and processGR: what to do with the request, given whether its
\* trigger was found.  Only a completed request takes its resources with it.
CleanupDecision(found) ==
    LET gr == lister[cw.key] IN
    IF gr = None THEN [cw EXCEPT !.pc = "err"]
    ELSE IF ~plister \/ (gr.state # "Completed" /\ cw.key \in late)
         THEN [cw EXCEPT !.pc = "delete"]
    ELSE IF gr.state = "Completed" /\ ~found
         THEN [cw EXCEPT !.pc = "delete", !.todo = gr.generated]
    ELSE [cw EXCEPT !.pc = "ok"]

CleanupSync ==
    /\ cw.pc = "sync"
    /\ cw' = CleanupDecision(trigger)
    /\ UNCHANGED <<cleanupFrame, cq, target, grs, faults>>

\* Any error of the look-up of the trigger counts as "does not exist".
CleanupSyncFault ==
    /\ cw.pc = "sync" /\ faults < MaxFaults
    /\ faults' = faults + 1
    /\ cw' = CleanupDecision(FALSE)
    /\ UNCHANGED <<cleanupFrame, cq, target, grs>>

CleanupFails == cw' = [CIdle EXCEPT !.pc = "err", !.key = cw.key]

\* deleteGeneratedResources: one that is gone is skipped, one without a name is an error.
DeleteGenerated ==
    /\ cw.pc = "delete" /\ cw.todo # <<>>
    /\ IF Head(cw.todo) = None THEN CleanupFails /\ UNCHANGED target
       ELSE /\ cw' = [cw EXCEPT !.todo = Tail(@)]
            /\ target' = [target EXCEPT ![Head(cw.todo)] = "none"]
    /\ UNCHANGED <<cleanupFrame, cq, grs, faults>>

\* Deleting a request that is gone is an error.
DeleteGR ==
    /\ cw.pc = "delete" /\ cw.todo = <<>>
    /\ cw' = [cw EXCEPT !.pc = IF grs[cw.key] = None THEN "err" ELSE "ok"]
    /\ grs' = [grs EXCEPT ![cw.key] = None]
    /\ UNCHANGED <<cleanupFrame, cq, target, faults>>

\* The API server fails to delete a resource or the request.
DeleteFault ==
    /\ cw.pc = "delete" /\ faults < MaxFaults
    /\ faults' = faults + 1
    /\ CleanupFails
    /\ UNCHANGED <<cleanupFrame, cq, target, grs>>

CleanupHandleErr ==
    /\ cw.pc \in {"ok", "err"}
    /\ cq' = Handled(cq, cw.key, cw.pc = "ok")
    /\ cw' = CIdle
    /\ UNCHANGED <<cleanupFrame, target, grs, faults>>

CleanupWorker ==
    \/ CleanupGet \/ CleanupSync \/ CleanupSyncFault
    \/ DeleteGenerated \/ DeleteGR \/ DeleteFault \/ CleanupHandleErr

-----------------------------------------------------------------------------
(* Informers and their handlers. *)

informerFrame == <<trigger, asked, policy, newer, source, target, channel, grs, late, gw, cw, bounds>>

\* addGR, updateGR and deleteGR of both controllers; generate ignores failed requests.
InformerSync(g) ==
    /\ lister[g] # grs[g]
    /\ lister' = [lister EXCEPT ![g] = grs[g]]
    /\ gq' = IF lister[g] # None /\ grs[g] # None /\ grs[g].state = "Failed" THEN gq ELSE Add(gq, g)
    /\ cq' = Add(cq, g)
    /\ UNCHANGED <<informerFrame, plister>>

(* Mutated form: the clean-up controller ignores updates without a change, too. *)
ResyncIgnored(g) ==
    /\ g \in Listed /\ g \notin cq.dirty
    /\ FALSE
    /\ UNCHANGED vars

\* The resync of requests: an update without a change, which only clean-up acts on.
Resync(g) ==
    /\ g \in Listed /\ g \notin cq.dirty
    /\ cq' = Add(cq, g)
    /\ UNCHANGED <<informerFrame, plister, lister, gq>>

\* A Namespace is updated or resynced: generate looks at its requests again.
UpdateTrigger ==
    /\ IsNamespace /\ trigger /\ ~(Listed \subseteq gq.dirty)
    /\ gq' = AddAll(gq, Listed)
    /\ UNCHANGED <<informerFrame, plister, lister, cq>>

\* deletePolicy of the clean-up controller.
PolicySync ==
    /\ plister # policy
    /\ plister' = policy
    /\ cq' = AddAll(cq, Listed)
    /\ UNCHANGED <<informerFrame, lister, gq>>

-----------------------------------------------------------------------------
(* Users, time and crashes. *)

userFrame == <<asked, plister, channel, grs, lister, gw, cw, admissions, created, faults>>

\* A Namespace is watched: deleteGenericResource of the clean-up controller.
DeleteTrigger ==
    /\ trigger /\ edits < MaxEdits
    /\ trigger' = FALSE /\ edits' = edits + 1
    /\ cq' = IF IsNamespace THEN AddAll(cq, Listed) ELSE cq
    /\ UNCHANGED <<userFrame, policy, newer, source, target, late, gq>>

DeletePolicy ==
    /\ policy /\ edits < MaxEdits
    /\ policy' = FALSE /\ edits' = edits + 1
    /\ UNCHANGED <<userFrame, trigger, newer, source, target, late, gq, cq>>

\* updatePolicy of the generate controller: the policy is changed, or replaced by one that
\* is younger than the trigger.
UpdatePolicy ==
    /\ policy /\ plister /\ edits < MaxEdits
    /\ edits' = edits + 1
    /\ newer' \in {newer, trigger}
    /\ gq' = AddAll(gq, Listed)
    /\ UNCHANGED <<userFrame, trigger, policy, source, target, late, cq>>

\* Somebody else creates, changes or deletes the object of the rule's name.
ChangeTarget(r, t) ==
    /\ t \in {"none", "foreign"} \ {target[r]} /\ edits < MaxEdits
    /\ target' = [target EXCEPT ![r] = t] /\ edits' = edits + 1
    /\ UNCHANGED <<userFrame, trigger, policy, newer, source, late, gq, cq>>

TimeOut(g) ==
    /\ grs[g] # None /\ g \notin late
    /\ late' = late \cup {g}
    /\ UNCHANGED <<userFrame, trigger, policy, newer, source, target, gq, cq, edits>>

\* The process dies and is started again: the channel, the queues and the work under way
\* are lost; the informers list the objects and addGR queues every one of them.
Restart ==
    /\ faults < MaxFaults
    /\ faults' = faults + 1
    /\ channel' = 0
    /\ plister' = policy /\ lister' = grs
    /\ gw' = GIdle /\ cw' = CIdle
    /\ gq' = AddAll(EmptyQueue, {g \in GRs : grs[g] # None}) /\ cq' = gq'
    /\ UNCHANGED <<trigger, asked, policy, newer, source, target, grs, late, admissions, created, edits>>

Next ==
    \/ HandleGenerate \/ StoreTrigger \/ CreateGR \/ CreateGRFault
    \/ GenerateWorker \/ CleanupWorker
    \/ \E g \in GRs : InformerSync(g) \/ Resync(g) \/ TimeOut(g)
    \/ UpdateTrigger \/ PolicySync
    \/ DeleteTrigger \/ DeletePolicy \/ UpdatePolicy \/ Restart
    \/ \E r \in RuleNames : ChangeTarget(r, "none") \/ ChangeTarget(r, "foreign")

Spec == Init /\ [][Next]_vars

\* Goroutines, informers, resyncs and clocks go on; users and faults are free.
Fairness ==
    /\ WF_vars(StoreTrigger) /\ WF_vars(CreateGR)
    /\ WF_vars(GenerateWorker) /\ WF_vars(CleanupWorker) /\ WF_vars(PolicySync)
    /\ \A g \in GRs : WF_vars(InformerSync(g)) /\ WF_vars(Resync(g)) /\ WF_vars(TimeOut(g))

FairSpec == Spec /\ Fairness

-----------------------------------------------------------------------------
(* Properties. *)

Exists(g) == grs[g] # None

\* No request lingers: it is completed, or the clean-up controller deletes it, whatever
\* keys either controller has dropped after its retries.
RequestEnds == \A g \in GRs : Exists(g) ~> (~Exists(g) \/ grs[g].state = "Completed")

\* When the trigger is gone for good, a completed request goes too, in spite of failed
\* deletions and dropped keys, unless an empty ResourceSpec is on its list.
CompletedRequestCleaned ==
    \A g \in GRs :
        <>[](~trigger /\ ~asked) =>
            []<>(~Exists(g) \/ grs[g].state # "Completed" \/ Contains(grs[g].generated, None))

\* The two minutes of a request pass while it waits for the generate worker.
TimedOutInQueue ==
    \E g \in late : Exists(g) /\ (lister[g] = None \/ g \in Tracked(gq) \cup gq.processing)

\* "generate is used to create additional resources when a resource is created": a trigger
\* that stays, under a policy that stays and whose clone sources exist, gets its resources,
\* unless its request times out before the worker comes to it.
GeneratedForTrigger ==
    (trigger /\ source = Clones /\ late = {})
        ~> (~trigger \/ ~policy \/ TimedOutInQueue \/ \A r \in RuleNames : target[r] # "none")
=============================================================================

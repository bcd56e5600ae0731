-------------------------- MODULE ResourceWebhook --------------------------
(***************************************************************************)
(* The mutating webhook configuration through which the API server sends   *)
(* resources to Kyverno.  It is created on demand by                       *)
(* RegisterResourceWebhook (pkg/webhookconfig/rwebhookregister.go), called *)
(* by the policy controller's worker and by the policy admission handler,  *)
(* and removed by the worker after a policy deletion, at start-up and on   *)
(* shutdown.  Creation runs in goroutines of its own and every decision is *)
(* taken from an informer's copy of the configuration that may be stale.   *)
(***************************************************************************)
EXTENDS Naturals, FiniteSets

CONSTANTS Policies,     \* names of policies (each has a mutate, validate or generate rule)
          Background,   \* those the informer's handlers queue for background processing
          None,
          MaxCreators, MaxEdits, MaxFaults, MaxStops   \* bounds of the model

ASSUME WebhookAssumption ==
    /\ Background \subseteq Policies
    /\ None \notin Policies
    /\ {MaxEdits, MaxFaults, MaxStops} \subseteq Nat
    /\ MaxCreators \in Nat \ {0}

VARIABLES policies,   \* policies at the API server
          admitted,   \* policy requests the webhook has let pass, not stored yet
          plister,    \* the policy informer's copy
          queue,      \* the policy controller's work queue
          worker,     \* its one worker
          config,     \* the configuration exists at the API server
          clister,    \* ... in the informer's copy
          pending,    \* pendingCreation
          creators,   \* number of createWebhook goroutines in each phase
          recent,     \* the last request came in less than DefaultDeadline ago
          phase,      \* the Kyverno process
          edits, faults, stops   \* counters of the bounds

clusterVars == <<policies, admitted>>
bounds      == <<edits, faults, stops>>
vars == <<policies, admitted, plister, queue, worker, config, clister, pending, creators,
          recent, phase, bounds>>

CreatorPhases == {"spawned", "creating", "created", "failed", "retrying"}
NoCreators    == [c \in CreatorPhases |-> 0]
WorkerAt(pc, key) == [pc |-> pc, key |-> key]

TypeOK ==
    /\ policies \subseteq Policies /\ admitted \subseteq Policies
    /\ plister \subseteq Policies /\ queue \subseteq Policies
    /\ worker \in [pc : {"start", "get", "sync", "process", "remove", "delete", "off"},
                   key : Policies \cup {None}]
    /\ worker.pc \in {"sync", "process", "remove", "delete"} => worker.key # None
    /\ config \in BOOLEAN /\ clister \in BOOLEAN /\ pending \in BOOLEAN /\ recent \in BOOLEAN
    /\ creators \in [CreatorPhases -> Nat]
    /\ phase \in {"up", "stopping", "cleaned", "down"}
    /\ edits \in 0..MaxEdits /\ faults \in 0..MaxFaults /\ stops \in 0..MaxStops

\* Kyverno is about to be started on a cluster that may have policies already and a
\* configuration a killed process left behind.
Init ==
    /\ policies \in SUBSET Policies
    /\ admitted = {} /\ plister = {} /\ queue = {}
    /\ worker = WorkerAt("off", None)
    /\ config \in BOOLEAN
    /\ clister = FALSE /\ pending = FALSE /\ recent = FALSE
    /\ creators = NoCreators
    /\ phase = "down"
    /\ edits = 0 /\ faults = 0 /\ stops = 0

Running == phase # "down"

-----------------------------------------------------------------------------
(* RegisterResourceWebhook: the caller's part, and the goroutine it starts. *)

InFlight == creators["spawned"] + creators["creating"] + creators["created"]
            + creators["failed"] + creators["retrying"]

Leave(c)     == creators' = [creators EXCEPT ![c] = @ - 1]
Move(c1, c2) == creators' = [creators EXCEPT ![c1] = @ - 1, ![c2] = @ + 1]

\* Nothing is done while a creation is pending, when the informer's copy has the
\* configuration, or when no request came in lately.
Skipped(lately) == pending \/ clister \/ ~lately

RegisterResourceWebhook(lately) ==
    \/ Skipped(lately) /\ UNCHANGED creators
    \/ /\ ~Skipped(lately)
       /\ InFlight < MaxCreators
       /\ creators' = [creators EXCEPT !["spawned"] = @ + 1]

creatorFrame == <<clusterVars, plister, queue, worker, clister, recent, phase, edits, stops>>

CreatorSet ==
    /\ creators["spawned"] > 0
    /\ pending' = TRUE
    /\ Move("spawned", "creating")
    /\ UNCHANGED <<creatorFrame, config, faults>>

\* "Already exists" is a success too.
CreatorCreate ==
    /\ creators["creating"] > 0
    /\ config' = TRUE
    /\ Move("creating", "created")
    /\ UNCHANGED <<creatorFrame, pending, faults>>

\* No CA data, or the API server fails.
CreatorFault ==
    /\ creators["creating"] > 0 /\ faults < MaxFaults
    /\ faults' = faults + 1
    /\ Move("creating", "failed")
    /\ UNCHANGED <<creatorFrame, config, pending>>

CreatorUnSet ==
    /\ creators["created"] > 0
    /\ pending' = FALSE
    /\ Leave("created")
    /\ UNCHANGED <<creatorFrame, config, faults>>

(* Mutated form: an early return on the error skips UnSet. *)
CreatorUnSetErrNoUnSet ==
    /\ creators["failed"] > 0
    /\ Move("failed", "retrying")
    /\ UNCHANGED <<creatorFrame, config, pending, faults>>

CreatorUnSetErr ==
    /\ creators["failed"] > 0
    /\ pending' = FALSE
    /\ Move("failed", "retrying")
    /\ UNCHANGED <<creatorFrame, config, faults>>

\* After an error the goroutine itself calls RegisterResourceWebhook again and ends.
CreatorRetry ==
    /\ creators["retrying"] > 0
    /\ IF Skipped(recent) THEN Leave("retrying") ELSE Move("retrying", "spawned")
    /\ UNCHANGED <<creatorFrame, config, pending, faults>>

Creator ==
    CreatorSet \/ CreatorCreate \/ CreatorFault \/ CreatorUnSet \/ CreatorUnSetErr \/ CreatorRetry

-----------------------------------------------------------------------------
(* The policy controller's worker. *)

workerFrame == <<clusterVars, plister, clister, pending, recent, phase, edits, stops>>

(* Mutated form: the worker registers nothing before it waits for a key. *)
WorkerStartNoRegister ==
    /\ worker.pc = "start"
    /\ worker' = WorkerAt("get", None)
    /\ UNCHANGED <<workerFrame, queue, config, creators, faults>>

\* processNextWorkItem registers first, since policies without background processing
\* never reach the queue...
WorkerStart ==
    /\ worker.pc = "start"
    /\ RegisterResourceWebhook(recent)
    /\ worker' = WorkerAt("get", None)
    /\ UNCHANGED <<workerFrame, queue, config, faults>>

\* ... and then blocks until there is a key; on shutdown the queue is closed.
WorkerGet(p) ==
    /\ worker.pc = "get" /\ p \in queue
    /\ queue' = queue \ {p}
    /\ worker' = WorkerAt("sync", p)
    /\ UNCHANGED <<workerFrame, config, creators, faults>>

WorkerQuit ==
    /\ worker.pc = "get" /\ queue = {} /\ phase \in {"stopping", "cleaned"}
    /\ worker' = WorkerAt("off", None)
    /\ UNCHANGED <<workerFrame, queue, config, creators, faults>>

\* syncPolicy of an existing policy.
SyncPolicy ==
    /\ worker.pc = "sync" /\ worker.key \in plister
    /\ RegisterResourceWebhook(recent)
    /\ worker' = WorkerAt("process", worker.key)
    /\ UNCHANGED <<workerFrame, queue, config, faults>>

\* Background processing, reports and status: nothing here concerns the webhook.
SyncPolicyDone ==
    /\ worker.pc = "process"
    /\ worker' = WorkerAt("start", None)
    /\ UNCHANGED <<workerFrame, queue, config, creators, faults>>

\* syncPolicy of a policy that is gone: its violations are deleted...
SyncDeleted ==
    /\ worker.pc = "sync" /\ worker.key \notin plister
    /\ worker' = WorkerAt("remove", worker.key)
    /\ UNCHANGED <<workerFrame, queue, config, creators, faults>>

\* An error of either kind of sync puts the key back (far fewer faults than maxRetries).
SyncFault ==
    /\ \/ worker.pc = "process"
       \/ worker.pc = "sync" /\ worker.key \notin plister
    /\ faults < MaxFaults
    /\ faults' = faults + 1
    /\ queue' = queue \cup {worker.key}
    /\ worker' = WorkerAt("start", None)
    /\ UNCHANGED <<workerFrame, config, creators>>

\* ... then the configuration is removed, whether or not policies are left, if the
\* informer's copy has it;
RemoveResourceWebhookConfiguration ==
    /\ worker.pc = "remove"
    /\ worker' = IF clister THEN WorkerAt("delete", worker.key) ELSE WorkerAt("start", None)
    /\ UNCHANGED <<workerFrame, queue, config, creators, faults>>

DeleteConfig ==
    /\ worker.pc = "delete"
    /\ config' = FALSE
    /\ worker' = WorkerAt("start", None)
    /\ UNCHANGED <<workerFrame, queue, creators, faults>>

\* a failure to do so is only logged.
DeleteConfigFault ==
    /\ worker.pc = "delete" /\ faults < MaxFaults
    /\ faults' = faults + 1
    /\ worker' = WorkerAt("start", None)
    /\ UNCHANGED <<workerFrame, queue, config, creators>>

Worker ==
    \/ WorkerStart \/ WorkerQuit \/ SyncPolicy \/ SyncPolicyDone \/ SyncDeleted \/ SyncFault
    \/ RemoveResourceWebhookConfiguration \/ DeleteConfig \/ DeleteConfigFault
    \/ \E p \in Policies : WorkerGet(p)

-----------------------------------------------------------------------------
(* Requests. *)

\* serve records the time; a valid policy that is created or updated also registers.
HandlePolicyValidation(p) ==
    /\ Running /\ edits < MaxEdits /\ p \notin admitted
    /\ edits' = edits + 1
    /\ admitted' = admitted \cup {p}
    /\ recent' = TRUE
    /\ RegisterResourceWebhook(TRUE)
    /\ UNCHANGED <<policies, plister, queue, worker, config, clister, pending, phase, faults, stops>>

\* The API server stores the policy once every webhook has answered.
StorePolicy(p) ==
    /\ p \in admitted
    /\ admitted' = admitted \ {p}
    /\ policies' = policies \cup {p}
    /\ queue' = IF Running /\ p \in plister \cap Background THEN queue \cup {p} ELSE queue
    /\ UNCHANGED <<plister, worker, config, clister, pending, creators, recent, phase, bounds>>

DeletePolicy(p) ==
    /\ p \in policies /\ edits < MaxEdits
    /\ edits' = edits + 1
    /\ policies' = policies \ {p}
    /\ UNCHANGED <<admitted, plister, queue, worker, config, clister, pending, creators, recent,
                   phase, faults, stops>>

\* Any other request: of the resource webhook, the verify webhook or a health probe.
Request ==
    /\ Running /\ ~recent
    /\ recent' = TRUE
    /\ UNCHANGED <<clusterVars, plister, queue, worker, config, clister, pending, creators, phase, bounds>>

\* DefaultDeadline passes without one.
Quiet ==
    /\ Running /\ recent
    /\ recent' = FALSE
    /\ UNCHANGED <<clusterVars, plister, queue, worker, config, clister, pending, creators, phase, bounds>>

-----------------------------------------------------------------------------
(* The informers. *)

informerFrame == <<clusterVars, worker, config, pending, creators, recent, phase, bounds>>

(* Mutated form: a deletion queues the key of an empty object. *)
PolicyInformerSyncNilKey(p) ==
    /\ Running /\ (p \in policies) # (p \in plister)
    /\ plister' = IF p \in policies THEN plister \cup {p} ELSE plister \ {p}
    /\ queue' = IF p \in policies THEN queue \cup ({p} \cap Background) ELSE queue \cup {None}
    /\ UNCHANGED <<informerFrame, clister>>

\* addPolicy queues a policy with background processing, deletePolicy every policy.
PolicyInformerSync(p) ==
    /\ Running /\ (p \in policies) # (p \in plister)
    /\ plister' = IF p \in policies THEN plister \cup {p} ELSE plister \ {p}
    /\ queue' = IF p \in Background \/ p \notin policies THEN queue \cup {p} ELSE queue
    /\ UNCHANGED <<informerFrame, clister>>

(* Mutated form: a resync of an unchanged policy is ignored. *)
PolicyResyncIgnored(p) == FALSE /\ UNCHANGED vars /\ p = p

\* The periodic resync calls updatePolicy.
PolicyResync(p) ==
    /\ Running /\ p \in plister \cap Background /\ p \notin queue
    /\ queue' = queue \cup {p}
    /\ UNCHANGED <<informerFrame, plister, clister>>

ConfigInformerSync ==
    /\ Running /\ clister # config
    /\ clister' = config
    /\ UNCHANGED <<informerFrame, plister, queue>>

-----------------------------------------------------------------------------
(* The process. *)

\* main: Register removes what a predecessor left; the informers are filled before the
\* worker starts.
Start ==
    /\ phase = "down"
    /\ phase' = "up"
    /\ config' = FALSE /\ clister' = FALSE
    /\ plister' = policies /\ queue' = policies \cap Background
    /\ worker' = WorkerAt("start", None)
    /\ recent' = TRUE
    /\ UNCHANGED <<clusterVars, pending, creators, bounds>>

\* A termination signal.
Stop ==
    /\ phase = "up" /\ stops < MaxStops
    /\ stops' = stops + 1
    /\ phase' = "stopping"
    /\ UNCHANGED <<clusterVars, plister, queue, worker, config, clister, pending, creators, recent, edits, faults>>

\* RemoveWebhookConfigurations
CleanUp ==
    /\ phase = "stopping"
    /\ phase' = "cleaned"
    /\ config' = FALSE
    /\ UNCHANGED <<clusterVars, plister, queue, worker, clister, pending, creators, recent, bounds>>

ProcessGone ==
    /\ phase' = "down"
    /\ plister' = {} /\ queue' = {} /\ worker' = WorkerAt("off", None)
    /\ clister' = FALSE /\ pending' = FALSE /\ creators' = NoCreators /\ recent' = FALSE
    /\ UNCHANGED <<clusterVars, config, edits, faults>>

Exit == phase = "cleaned" /\ ProcessGone /\ UNCHANGED stops

Crash == phase = "up" /\ stops < MaxStops /\ stops' = stops + 1 /\ ProcessGone

Next ==
    \/ Creator \/ Worker
    \/ \E p \in Policies : \/ HandlePolicyValidation(p) \/ StorePolicy(p) \/ DeletePolicy(p)
                           \/ PolicyInformerSync(p) \/ PolicyResync(p)
    \/ Request \/ Quiet \/ ConfigInformerSync
    \/ Start \/ Stop \/ CleanUp \/ Exit \/ Crash

Spec == Init /\ [][Next]_vars

\* Goroutines, informers and the resync timer keep running and the process is started
\* again; users, faults and the absence of requests are free.
Fairness ==
    /\ WF_vars(Worker) /\ WF_vars(ConfigInformerSync)
    /\ WF_vars(Start) /\ WF_vars(CleanUp) /\ WF_vars(Exit)
    /\ WF_vars(CreatorSet) /\ WF_vars(CreatorCreate) /\ WF_vars(CreatorUnSet)
    /\ WF_vars(CreatorUnSetErr) /\ WF_vars(CreatorRetry)
    /\ \A p \in Policies : WF_vars(StorePolicy(p)) /\ WF_vars(PolicyInformerSync(p)) /\ WF_vars(PolicyResync(p))

FairSpec == Spec /\ Fairness

-----------------------------------------------------------------------------
(* Properties. *)

\* pendingCreation is never left set without a goroutine that will clear it, although
\* several goroutines set and clear the one flag: a stuck flag would drop every later
\* registration for good.
PendingHasCreator == pending => creators["creating"] + creators["created"] + creators["failed"] > 0

\* While a policy with background processing exists and requests keep coming in, the
\* configuration exists again and again: whatever removes it (a deletion, a restart, a
\* stale informer), the resync, the worker and the retries bring it back.
BackgroundPolicyServed ==
    (<>[](plister \cap Background # {} /\ recent)) => []<>config

\* A worker that starts a round while the informer's copy has no configuration and no
\* creation is pending gets one created, faults and concurrent registrations
\* notwithstanding, as long as requests come in and the process lives: this is how
\* policies without background processing that exist before Kyverno are served (the
\* comment of processNextWorkItem).
RoundRegisters ==
    []((worker.pc = "start" /\ ~clister /\ ~pending /\ [](recent /\ phase = "up")) => <>config)
=============================================================================

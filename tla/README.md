# A TLA+ verification project for Kyverno

Kyverno is a policy engine for Kubernetes. It is an admission webhook together with a set
of controllers in one process; policies are Kubernetes objects (`ClusterPolicy`) whose rules
validate, mutate or generate resources. This directory holds TLA+ models of the parts of it
that keep state and run concurrently, the TLC configurations that check them on small
instances, and proofs, checked by TLAPS, of what matters most for all instances. All paths
below are relative to the repository.

    tlc -workers 2 -config PolicyStore.cfg MCPolicyStore     # any run of PROJECT.json
    tlapm PolicyStoreProofs.tla                              # any module of proofs

`PROJECT.json` lists components, runs, mutants (a plausible bug for each checked property,
which the run then catches), the source lines each definition models, the findings, the
hazards and the theorems.

## 1. Inventory

| component | state | operations | talks to |
|---|---|---|---|
| policy meta-store `pkg/policystore` | kind -> namespace -> policy maps, one RW lock | Register, UnRegister, LookUp | written by the policy informer's handlers, read by admission requests |
| policy controller `pkg/policy/controller.go` | work queue, one worker | addPolicy, updatePolicy, deletePolicy, processNextWorkItem, syncPolicy | store, webhook registration, violations, background scan, status aggregator |
| background scan `pkg/policy/existing.go`, `apply.go` | resource manager (what was processed, when) | processExistingResources, ProcessResource, RegisterResource, Drop | engine, violation and event generators |
| policy status `pkg/policy/status.go` | statistics per policy, unbuffered channel | SendStat, aggregate, GetPolicyStats, RemovePolicyStats | webhooks and background scan send, the controller reads |
| violation generator `pkg/policyviolation` | dataStore (key -> info), work queue | Add, processNextWorkitem, create, update | webhooks, controllers add; writes violation objects |
| event generator `pkg/event` | work queue of event infos | Add, processNextWorkItem, syncHandler | everybody adds |
| webhook registration `pkg/webhookconfig`, `pkg/policy/webhookregistration.go` | the MutatingWebhookConfiguration, `pendingCreation` | Register, RegisterResourceWebhook, createWebhook, Remove... | policy worker, policy admission, checker, main |
| webhook checker `pkg/checker` | time of the last request, annotations on the deployment | Run (ticker), setStatus, IncrementAnnotation | every admission request sets the time |
| admission server `pkg/webhooks` | none of its own | serve, handleAdmissionRequest, HandleMutation, HandleValidation, HandleGenerate | store, engine, violation generator, generate channel |
| generate `pkg/webhooks/generate`, `pkg/generate` | channel of 1000, GenerateRequest objects, work queue | Create, process, syncGenerateRequest, applyRule, updateStatus | API server, violations, events |
| generate clean-up `pkg/generate/cleanup` | work queue | processGR, deleteGeneratedResources, Delete | shares the request objects with generate |
| dynamic configuration `pkg/config` | resource filters, lock | load, unload, ToFilter | config map informer; every request reads |
| engine `pkg/engine` | none: functions of policy and resource | Validate, Mutate, Generate, match and exclude, anchors, patterns, variables | called by webhooks, background scan, generate |
| policy validation `pkg/engine/policy` | none | Validate, ContainsUserInfo | policy admission |
| init container `cmd/initContainer` | none | deletes leftover configurations through a pipeline of goroutines | API server |
| client, TLS, generated clientset, CLI, `pkg/namespace` | - | wrappers, key generation, generated code, a file-based front end, a controller that is not started | - |

What makes it hard: every controller works on *copies* (informer indexers) that lag behind
the API server and behind each other; handlers, workers, goroutines and requests interleave
with locks held for single statements only; work is retried a few times, then dropped; and
the process can be stopped at any point while its objects live on in the cluster. For the
components that are modelled the properties that make them correct are:

* store: a lookup sees, for every policy, exactly one version; nothing of an older version
  stays; the index converges to the API server; a resync hides no policy.
* violation generator: a stored violation is never stranded; retries end; no update
  overwrites what it has not seen; every request is resolved.
* policy controller: once a policy and its resources stay as they are, the violations agree
  with them; those of a deleted policy go; the status shows their number.
* admission: nothing is stored in violation of an enforced policy it was checked with; what
  an audited policy finds is reported, once the resource has a name; an admitted trigger asks for what is to be generated;
  the filters are those of the config map.
* reporting: a statistic is counted once; those of a deleted policy do not come back; nobody
  who reports is held up for ever; every event is recorded or given up.
* resource webhook: the flag guarding creation is never stuck; while there are policies
  the configuration comes back whatever removes it.
* checker: a lasting outage is reported, and so is activity.
* generate: what is admitted is generated; requests end, and what belongs to a trigger that
  is gone is cleaned up.
* engine and policy validation: the verdict on a resource is the documented one, but for the
  departures of section 3; mutation is idempotent, leaves alone what its overlay does not
  name, and agrees with validation; the rules generated for pod controllers say what the rule
  for pods says; a policy accepted for background processing does not depend on the user; the
  scan meets exactly the resources the rules apply to.

## 2. Modules

| module | models | extends / instantiates |
|---|---|---|
| `PolicyIndex` | abstract: versions are published and withdrawn whole, and what a lookup may answer | |
| `PolicyStore` | store, informer, handlers, lookups | implements `PolicyIndex` (`ImplementsIndex`) |
| `PolicyStoreProofs` | proofs about `PolicyStore` | `PolicyStore`, TLAPS |
| `WorkQueue` | client-go's rate-limiting queue (external), as operators on a record, with lemmas about them | |
| `PVGenerator` | violation generator | `WorkQueue` |
| `PVGeneratorProofs` | proofs about `PVGenerator` | `PVGenerator`, TLAPS |
| `ResourceWebhook` | life of the resource webhook configuration | |
| `ResourceWebhookProofs` | proofs about `ResourceWebhook` and `WebhookChecker` | `ResourceWebhook`, `WebhookChecker`, TLAPS |
| `WebhookChecker` | ticker, deadlines, annotations | |
| `GenerateRequest` | admission, channel, generate and clean-up controllers | `WorkQueue` (two queues) |
| `GenerateRequestProofs` | proofs about `GenerateRequest` | `GenerateRequest`, TLAPS |
| `PolicyController` | queue and worker of the policy controller, scan, resource manager, violations, status | `WorkQueue` |
| `PolicyControllerProofs` | proofs about `PolicyController` | `PolicyController`, TLAPS |
| `RuleMatch` | which resources and requests a rule applies to: match and exclude, users and roles, filters, the selection of the scan (operators) | |
| `Engine` | one policy applied to one resource, rule by rule (operators) | `RuleMatch` |
| `Admission` | concurrent requests, API server, pod controller, policies that come and go, dynamic configuration | `Engine` |
| `AdmissionProofs` | proofs about `Admission` and the operators of `Engine` and `RuleMatch` | `Admission`, TLAPS |
| `Reporting` | statistics over the unbuffered channel, aggregator, event generator | `WorkQueue` |
| `ReportingProofs` | proofs about `Reporting` | `Reporting`, TLAPS |
| `Pattern` | trees, variables, anchors, values and references: validation with a pattern (operators) | |
| `Overlay` | conditions and patches of a mutate rule (operators) | `Pattern` |
| `PolicyRules` | defaults, rules generated for pod controllers, well-formedness of a policy (operators) | `Overlay`, `RuleMatch` |
| `PolicyLife` | composition: a policy from submission through cache to requests and scans | `PolicyRules` |
| `MC...` | values of constants for TLC | the module they are named after |

**PolicyStore.** `api`, `lister` and `data` are the three copies of the policies: at the API
server, in the informer's indexer, and in the store's maps (a set of
`<<kind, namespace, policy>>`; `kinds` is the domain of the top-level map, on which
`UnRegister` returns early). `events` is the buffer between indexer and handlers. A
notification carries the old and the new object; a broken watch makes the informer skip
versions (`InformerSync` always takes the current one). `updatePolicy` is two actions because
it takes the store's lock twice. `LookUp` reads names from `data` under the lock, then each
policy from `lister`, one action per policy. Rules are abstracted to kinds and namespaces.
`PolicyIndex` is what this amounts to for a reader: a version of a policy is published at
once and withdrawn at once; what a lookup is to find is settled at the moment it asks, and it
gets all of these policies, whatever comes and goes meanwhile, or an error for the whole when
one of them no longer exists.

**PVGenerator.** `store` is the dataStore, `adding` a producer between its two locks, `worker`
the goroutine with its local variables, `pvs`/`lister` the violation objects with their
resource versions and the informer's copy. The cluster-wide and namespaced generators run
the same protocol on different objects, so one is modelled. The key holds the *number* of
violated rules (`ToKey`), as in `Info.toKey`. `unsynced` is a history variable: keys whose
info no sync has taken.

**ResourceWebhook.** `config`/`clister` say whether the configuration exists, and whether
the informer shows it; `pending` is `pendingCreation`; `creators` counts createWebhook
goroutines by the statement they are about to execute, any number of them. The policy worker
is `worker`; a policy of `Background` is one the informer's handlers queue. `phase` is the
process: `Stop`, `CleanUp`, `Exit` are the orderly shutdown, `Crash` is not.

**WebhookChecker.** Time is the number of ticks since the last request, saturated at the
value where all comparisons stay the same. A write to the deployment is itself an admission
request when the webhook is reachable, which is what the checker relies on.

**GenerateRequest.** One policy with a sequence of rules (some with data, some clones), one
triggering resource. `asked` is the time between the webhook's answer and the moment the API
server has stored the trigger, in which the request may already be processed. `target` says
for each rule what is found under the name of its resource: nothing, what Kyverno created
(`ours`), or something else. A request is its state, its list of generated resources (`None`
is the empty `ResourceSpec` which `applyRule` returns for a trigger older than the policy) and
its version. A rule whose data cannot be converted (`Unparsable`) succeeds without a resource,
because `ParseFailed` counts as handled. Both controllers have a queue (`gq`, `cq`) and a worker (`gw`, `cw`) and share
the informer. `Restart` keeps the objects and loses everything else.

**PolicyController.** One worker takes policies from the queue, lists the resources of the
policy, asks both engines, hands violations to the generator, deletes those of resources that
pass, counts what the lister shows and writes the status. Versions are never reused, so of a
version the model keeps only whether it is the newest: `behind` holds the policies whose
newest version the informer has not delivered, `processed` the entries of the resource
manager a scan could still hit, `fresh` the policies whose cached status has the current
statistics. `pv` and `pvl` are the violations and the lister's copy, with the handlers of both
kinds of violation objects; `requests` is what the violation generator has yet to write.
Whatever the engine says of a specification and a content is the constant `Verdict`.

**Admission.** A request is a record with a `pc`; one action for each part of the handler
between two calls that block: `Serve` (decode, filter, look-up, mutation), `HandleValidation`,
`HandleGenerate`. Around it are the API server (`Complete`, and `GiveUp` after the time-out,
which stores the object as it was sent because the failure policy is Ignore), users, a
controller that creates pods from a stored template, edits of policies (lister first, store
later) and of the config map, and the shutdown. `owed` is a history variable: the policies a
stored resource was admitted under, which the properties are about; `reported` and `generated`
are the hand-overs to the generators. Users send resources with and without a name, and pods
that carry the annotation of checked templates already, which pass every policy; a controller's
pods have no name when they are admitted, and the API server gives them one. What the engine computes from its inputs alone is
tabulated once.

**Reporting.** `sender` holds the handlers and the worker, each with the statistics it still
has to send; `agg` and `mux` are the aggregator and its lock; `events` is the queue of the
event generator. `due` (what was reported of a policy) and `late` (policies removed while
somebody was still reporting on them) are history variables.

**Pattern, Overlay, PolicyRules, PolicyLife.** A tree is a record with one field named after
its type; a key is `<<anchor, name>>`; a string is not taken apart, the constant `Meaning`
says what is written in it (numbers, quantities, operators, wildcards, variables,
references). Go visits maps in any order, so a validation yields the *set* of its outcomes,
and a Go panic is an outcome. `PolicyLife` composes them: `Submit` runs the policy webhooks,
`stored` is the policy at the API server, `cached` the informer's object, into which every
request writes the values of its variables, `source` what the last event brought; `obj` is
the resource that is mutated and validated, and `last` what the last request did. A rule with
a variable that the context lacks, in its match or exclude block or its conditions, is answered
before it is matched ("path"). A mutation is the overlay, then the JSON patches of the rule,
then, for a pod controller, the annotation of its template, which rules without a mutation
make too; a rule that fails keeps all patches of the policy from being sent. Wildcards
in `RuleMatch` are the sets of strings they match.

Abstractions common to all: payloads, messages, log lines and events are left out; a failing
API server is a fault action whose number is bounded; an informer is a copy that some action
brings up to date.

## 3. Runs

Passing runs (TLC 2 workers):

| run | checks | states | bounds |
|---|---|---|---|
| `policystore` | `TypeOK`, `IndexMatchesHandled`, `ImplementsIndex`, `EventuallyServed` | 82 000 | two policies, three contents (everywhere / two rules sharing a kind / two namespaces), one edit beyond the initial policies, one resync notification in flight, one request |
| `pvgenerator` | `TypeOK`, `NoStrandedInfo`, `NoBlindUpdate`, `ComesToRest`, `RequestResolved` | 55 000 | one target, three contents of which two share a key, two producers, three Adds, retry limit 1, two faults, one deletion |
| `webhook` | `TypeOK`, `PendingHasCreator`, `BackgroundPolicyServed`, `RoundRegisters` | 154 000 | two policies, one with background processing, two creators at a time, one edit, fault and stop |
| `checker` | `TypeOK`, `OutageReported`, `ActivityReported` | 1 250 | the code's retry count of 3, two faults, three changes (reachability, policies, restart) |
| `generate` | `TypeOK`, `RequestEnds`, `CompletedRequestCleaned` | 500 000 | a data rule, one whose data cannot be converted and a clone rule, a Namespace as trigger, one retry, one admission, one edit, one fault or restart |
| `policycontroller` | `TypeOK`, `ViolationsConverge`, `OrphansRemoved`, `StatusShowsCount` | 390 000 | one policy with two specifications (a validating and a mutating one), one resource with two contents, one retry, one edit, one fault |
| `admission` | `TypeOK`, `Enforced`, `AuditReported`, `Generates`, `FiltersFollow` | 735 000 | three policies (with mutation, enforced and audited validation, generation), two users, resources with and without a name, two requests at a time of three in all, one edit, time-out or shutdown |
| `reporting` | `TypeOK`, `Conservation`, `RemovedForGood`, `Served`, `EventsSettle` | 380 000 | one handler and the worker, two policies of which one is enforced, two requests, one scan, one edit, retry limit 1 |
| `policylife` | `SecondMutationIsIdle`, `MutatedSatisfies`, `MutationIsFramed`, `VerdictIsDocumented`, `AutogenAgrees`, `BackgroundIgnoresUser`, `ScanIsExact` | 81 000 | the policies, resources and requests of `MCPolicyLife`; two accepted policies, two mutations of one resource |

The bounds are the smallest at which all cases occur: two policies so that one can be hurt
by the other's events; two producers and three Adds so that a key is added while it is
processed, in back-off and being dropped; two creators for the shared flag; retries reduced
from 5 (or 3) to 1, because a retry only repeats the same steps and one suffices to tell
"retried", "last retry" and "dropped" apart; two requests at a time and a third so that one
can be updated, or its pod created, while policies change. The instance of `policylife` is a
catalogue: each anchor, operator and kind of value occurs in a pattern and in an overlay,
with resources that do and do not comply, and one policy is replaced by another.
Deadlock is checked where the system cannot stop (`checker`, `policylife`); in the other
models everything may come to rest.

`policycontroller` leaves out the resources that one engine reports and the other accepts
(the code itself disagrees there, see below); `admission` speaks of the policies a request
looked up and not of resources stored after a time-out, because the code fails open;
`VerdictIsDocumented` compares with a definition of its own, written after
`documentation/writing-policies-validate.md`, of what a pattern means (`Conforms`), and names
the resources on which the code is known to say something else (`Departs`). In the same way
`MutationIsFramed` allows the change of list elements that do not meet a condition only where
another element does, `AutogenAgrees` leaves out rules of which a part is lost, and
`BackgroundIgnoresUser` rules with variables in match and exclude blocks; these departures are
listed below, and without the exceptions TLC finds each of the properties violated.

Runs that show a disagreement between the code and what a document or comment says:

| run | property | what TLC shows |
|---|---|---|
| `policystore_resync` | `UnchangedPolicyStaysIndexed` | every resync takes every policy out of the index between two critical sections |
| `generate_lost` | `GeneratedForTrigger` | the retries (nanoseconds apart) are used up before the trigger is stored; nothing is generated, the request is deleted after two minutes |
| `policylife_variables` | `VerdictOfTheRequest` | the values one request gives to variables are written into the cached policy and decide later requests |

`generate_lost` uses the code's 5 retries and a trigger that is not a Namespace, no faults
and no user edits; the property excuses a request whose two minutes pass while it waits for
the worker, so that the counterexample is the back-off and nothing else.

Observed while modelling. The models behave like this, but no property is about it:

* *Store and look-up.* A rule that lists namespaces is indexed under the last one only
  (`policystore.go:79`), and a pattern of namespaces is looked up as a literal key. A policy
  deleted between the halves of a look-up fails the look-up for all policies, and the request
  passes unchecked (`policystore.go:90`); `ImplementsIndex` shows that nothing else fails one.
* *Violations.* No violation is made for a resource without a name (`builder.go:14`), as a pod
  is when its controller creates it. Dropping a key deletes the newer info added under it meanwhile
  (`generator.go:175`). The dataStore never shrinks after a success (`generator.go:58`). The
  response of the engine that passes deletes the violation that the other engine has just
  reported (`report.go:29`).
* *Generate.* Data that is no object is recorded as generated although nothing is made
  (`generate.go:175`). When a later rule fails, the resources of earlier rules are on no list and are
  never cleaned up (`generate.go:140`).
* *Webhook.* After a deletion the configuration may stay away for good when the policies that
  are left have no background processing (`controller.go:287`).
* *Admission.* The annotation patch is computed from the first response with annotations, also
  from that of a failed policy; the patch then fails at the API server and the request with it
  (`annotations.go:37`), although a comment says that mutation never blocks. An emptied config
  map keeps the filters of the previous version (`dynamicconfig.go:127`). A pod that its user
  annotates like those of a checked template passes every policy (`server.go:228`). A subject
  that is a service account is compared with the user's name after as many characters as the
  prefix has, whatever they are (`rbacValidation.go:101`).
  The roles of the user are not looked up when policies name roles in exclude blocks only
  (`common.go:117`), and such an exclusion never applies.
* *Reporting.* The scan sends the statistics of the mutation twice (`apply.go:76`), and
  `aggregateRules` drops the rules that are missing from the statistic it adds, and those in
  it without an execution time (`status.go:113`).
* *Validation.* A condition on a field that is absent counts as holding (`anchor.go`), although
  `writing-policies-validate.md:43` says "If tag with the given value (including child elements)
  is specified"; an existence anchor on a list that is absent holds, although line 45 says "must
  exist"; next to a condition that fails, another anchor that fails decides the verdict or does
  not, as Go happens to visit the map (`validate.go:93`).
* *Mutation.* An element of an overlay's list with a condition is laid over every element of
  the resource's list as soon as one of them meets the condition (`overlay.go:333`), although
  `writing-policies-mutate.md:151` speaks of "all ports with a name value that starts with
  "secure"" and the comment at `overlay.go:301` says "choose corresponding resource element and
  mutate it". A patch that removes something that is not there is ignored (`patches.go:54`).
* *Background.* A rule with a variable in its match or exclude block is accepted for background
  processing (`background.go:29` does not look there) and then answered with a missing path for
  the users who lack it.
* *Engine and rules.* A rule with an exclude block is never scanned for (`existing.go:214`); a
  generated rule loses the preconditions, patches next to an overlay, and an exclude block
  without kinds (`policymutation.go:258`); a policy created from an exported one is refused because its
  generated rules are made twice (`policymutation.go:176`); a list of the resource that is
  shorter than that of the pattern, or empty, is an index out of range (`validate.go:141`,
  `overlayCondition.go:75`), which the HTTP server recovers from without an answer. Not in the
  model, where a request is one step: two requests that substitute variables in one cached
  policy write one Go map concurrently, which ends the process.

Further: the worker removes the resource webhook also
when policies are left (`pkg/policy/webhookregistration.go`, both branches) and registers it
when there are none; two creations can run at once since the flag is set by the goroutine
that the test has started (the second ends in "already exists"); a creation under way during
shutdown leaves the configuration behind, until the next start removes it; two results for
one resource that differ in the number of rules are applied in either order; the checker
reports a reachable webhook inactive on a quiet cluster whose deployment has annotations but
not the counter (`IncrementAnnotation` parses the empty string); the clean-up controller
takes any error of the look-up of the trigger for its absence; a request whose list holds an
empty `ResourceSpec` can never be cleaned up; a rule with data creates a resource a second
time, after a user's deletion, when the worker reads a request from an informer that lags
behind the status.

**Fairness.** Weak fairness of goroutines that loop for ever (workers, informers with watch
and re-list, the handlers' listener, createWebhook goroutines once started), of the queue's
back-off timers, of the tickers (checker; resync of 10 seconds or 2 minutes where a property
depends on it; the two-minute age of a request), of a producer in the middle of `Add`, of the
API server storing what it admitted, and of Kubernetes restarting the process and annotating
the deployment. A fault action is never fair, but a worker that alternates between success
and fault is bounded by the number of faults. In `PolicyController` the rebuild time of the
resource manager passes again and again, so some scans start with an empty manager (strong
fairness of `SyncPolicy(p, TRUE)`). In `Reporting` the goroutines that wait on the channel
are served in the order of their arrival, as Go's runtime does (strong fairness of `Receive`
for each sender). In `Admission` only the informers' deliveries are fair (`RegisterPolicy`,
`ConfigMapEvent`). No fairness for users, admission requests,
reachability, faults, crashes or policy edits. `policystore` needs no fair resync; `webhook`
and `generate` do, and the code justifies it: the informers are created with a resync period
and the handlers concerned do not compare versions.

## 4. Proofs

Every theorem holds for all values of the constants that satisfy the named assumptions: any
sets of policies, resources, rules, requests and goroutines, any retry limit, any bounds.
Each module of proofs states its inductive invariant `IndInv` first, then lemmas about the
operators, then one lemma per action (or group of actions that change the same variables),
and the theorems last.

| module | theorems |
|---|---|
| `PolicyStoreProofs` | `TypeCorrect`, `IndexCorrect` (`IndexMatchesHandled`), `StoreImplementsIndex` (`ImplementsIndex`) |
| `ResourceWebhookProofs` | `TypeCorrect`, `PendingCleared` (`PendingHasCreator`), `CheckerTypeCorrect` (`WebhookChecker`'s `TypeOK`), `CheckerReportsEvidence` |
| `WorkQueue` | lemmas `AddFacts` ... `ForgetFacts`: what each call keeps and changes |
| `PVGeneratorProofs` | `TypeCorrect`, `InfoNeverStranded` (`NoStrandedInfo`), `UpdatesNotBlind` (`NoBlindUpdate`), `DirtyKeysServed` |
| `ReportingProofs` | `TypeCorrect`, `ApplicationsConserved` (`Conservation`), `RemovalIsFinal` (`RemovedForGood`), `EventQueueServed`, `OnlyRetriesLoseEvents` |
| `AdmissionProofs` | `TypeCorrect`, `EnforcePoliciesHold` (`Enforced`), `ViolationsReported` (`AuditReported`), `GenerateRequestsMade` (`Generates`), `ScanAgreesWithEngine`, `RolesOnDemand` |
| `GenerateRequestProofs` | `TypeCorrect`, `QueuesServed`, `RecordsAreWhole`, `UpdatesNotBlind`, `OnlyRetriesLoseRequests` |
| `PolicyControllerProofs` | `TypeCorrect`, `QueueServed`, `StatusFitsSpec`, `SkipIsSound`, `NoOrphanForgotten`, `RestIsClean` |

In parentheses is the property a run checks as well; a theorem without one states a property
defined in its own module.

**Assumptions.** Each says that the constants are of their types, and that `None` is none of
the values it is told apart from. Beyond that: "*" is a namespace key (`StoreAssumption`);
a policy's rules have different names, which the policy webhook enforces, and policies are
finitely many (`EngineAssumption`); handlers and policies are finitely many
(`ReportingAssumption`) and so are resources (`ControllerAssumption`), because a status holds
their number. Bounds are any naturals. TLC evaluates all of them on the runs. The checker's
constants are those of an instance, so its theorems have what `WebhookChecker` assumes of them
as a hypothesis (`CheckerConstants`).

**PolicyStore.** `IndexMatchesHandled` is not inductive: whether `UnRegister` removes
everything depends on what the notification's old object is and on the early return at an
unknown kind. The invariant adds that the notifications of one policy form a chain ending at
the indexer's content (`EventsChained`), that each is an add, an update or a delete
(`EventsWellFormed`), and that the top-level map has all kinds of a version that is, or was
just, registered (`KindsKnown`), so that the early return is never taken. The argument:
`RemovedCoversRegistered` (the keys UnRegister computes include those Register added, in
spite of the different treatment of several namespaces), `RegisterAdds` and
`UnRegisterRemoves` (effect on one policy's entries), `AppendStep` (a notification is
queued), `PopStep` (one is handled), `FrameStep` (all else). The refinement follows step by
step: Register publishes where nothing is left, UnRegister withdraws everything. For lookups it
needs that the names it collects under the lock are those the index serves (`NamesAreAsked`),
that each get from the lister serves one of them or fails because the policy is gone
(`GetIsServed`), and that none is left over at the return (`ReturnIsServed`), although
informer, handlers and index go on in between.

**ResourceWebhook.** `PendingHasCreator` is inductive relative to `TypeOK`: a goroutine leaves
the phases "creating", "created", "failed" only by the statement that clears the flag, and
sets the flag only as it enters them. This is what excuses the unsynchronised use of the
flag: it may be cleared too early, never too late. The checker is proved in the same module
through an instance: `CheckerReportsEvidence` says that the status on the deployment turns
"false" only after `MaxRetryCount` ticks without a request, "true" only after a request since
the last tick or at the start of the process, and neither without a policy. (That the silence
may be that of a quiet cluster is an observation of section 3.)

**WorkQueue.** `Consistent`: the FIFO holds no key twice, and its keys are those that are
dirty and not being processed. The lemmas give, for every call, what becomes of the sets and
that `Consistent` is kept; the four controllers are proved from them without looking into the
queue. From `Consistent` and "the worker holds the one key in processing" it follows that no
dirty key is lost (`DirtyKeysServed`, `QueuesServed`, `QueueServed`), and `handleErr` keeps the
retries of every key within the limit.

**PVGenerator.** For `NoStrandedInfo` the invariant says what the worker has read at each step
(`WorkerOK`): it has a key, from "sync" on an info, and the info is in the dataStore until the
worker itself drops the key. Without it the drop could delete an info that nobody has taken.
`NoBlindUpdate` follows from the versions: an update is accepted only for the version read,
and a new object takes a place where none was (`CreatedOK`).

**Reporting.** `Conservation` adds up, over all goroutines, what each still has to send, what
the aggregator holds and what `policyData` has; the lemmas on sums over a finite set of
senders show that a hand-over through the channel moves one unit. `Sound` (a statistic without
rules counts no application) is needed because the aggregator ignores a statistic without rules.
`RemovedForGood` becomes inductive as `RemovedQuiet`: of a policy that is gone, and was not
removed under somebody's hands (`late`), nobody has a statistic in hand either. For the events
`Consistent` is kept by `Add`, `processNextWorkItem` and the end of a back-off
(`EventsQueued`); an event leaves the queue and the back-off only where `handleErr` forgets it,
with its object found or its retries used up (`EventsKept`).

**Admission.** The type invariant already needs the engine: `Mutate` and the loop over the
policies return resources of the same kind and lists of patches, by induction over the loop
(`SetInduction`, `IterateType`; induction for a set, since an operator cannot be
instantiated). The safety properties speak of stored objects, but are established while the
request is under way and must survive everybody else's steps: `RequestOK` says what holds of a
request at each `pc`, such as that a validated object violates a policy the request looked up
only if the object it replaces does (an update that leaves the verdict unchanged passes), or
the policy audits and the violation was reported (`Accounted`), or nobody was told because
the object had no name when it was created (`Told`). A pod made from a template is
checked through its controller, so `RequestOK` carries what the template's policies have shown.
As reports and generate requests only grow (`Monotone`), the steps of other requests keep it.
The proof of `Generates` failed at first: a rule that excludes users generates nothing for
them, so `GeneratesFor` now asks for a rule without an exclusion of users. Of the matching of
rules, two facts for all rules, clusters, filters, users and bindings. `ScanAgreesWithEngine`:
the scan's own reading of a match block (kinds, namespaces, then name, selector and filters)
and the engine's select the same resources within `ScansAll`; its hypotheses are that the
cluster's namespaces are listed and that a Namespace has no namespace. `RolesOnDemand`: that
roles are looked up only if some rule matches on roles makes no difference to any rule; the
proof failed for roles that occur in exclude blocks only, where `containRBACinfo` says no and
the exclusion is not applied, and the theorem says so.

**GenerateRequest.** `Versioned`: a copy of a request, the lister's or the worker's, is older
than the request or is it; hence an accepted status update is of the version the worker has
read. `Making` and `Recording`: the list under construction follows the rules, one entry for
each applied, and is written only when it is complete. A failing rule records none of it,
which is how the resources of earlier rules escape clean-up (section 3): `RecordsAreWhole`
is about the records and not about what exists in the cluster. `OnlyRetriesLoseRequests` adds
to the invariant that a worker reports success only after the write of the status
(`OkRecorded`). A key is dirty or being processed from the moment the informer lists its
request; `handleErr` is the only step that lets go of one, with a status or with its retries
used up, and a restart queues every stored request anew. With the nanoseconds between the
retries this is the whole story of `generate_lost`: no other step loses a request.

**PolicyController.** `SameSpec`: a cached policy whose newest version has been delivered
differs from the policy in its status at most. `ScanOK`: the worker's specification is the
cached one unless the object was replaced during the scan (`old`), and a listed content is the
present one unless the resource changed since (`changed`). From these, `StatusFitsSpec`
(the write fails on a version conflict otherwise) and `SkipIsSound` (an entry of the resource
manager with an outdated version is never hit). `OrphansChased` is the safety half of
`OrphansRemoved`: a violation whose policy is gone from the lister has yet to be delivered
(its handler then queues the policy or deletes it), or the policy is queued, or the worker is
on its way to it in one of the two lists of violations, or the policy was dropped after its
retries. It is inductive with `IndInv`; each step that ends one reason begins another. At rest
no reason is left, hence no orphan (`RestIsClean`), also of those that a request or the
generator created after the clean-up.

Only model-checked, not proved:

* all liveness properties (`EventuallyServed`, `ComesToRest`, `RequestResolved`,
  `BackgroundPolicyServed`, `RoundRegisters`, `OutageReported`, `ActivityReported`,
  `RequestEnds`, `CompletedRequestCleaned`, `ViolationsConverge`, `OrphansRemoved`,
  `StatusShowsCount`, `FiltersFollow`, `Served`, `EventsSettle`), which need fairness and
  ENABLED and are out of the prover's reach;
* the properties of `PolicyLife`, whose operators are recursive on trees (RECURSIVE operators
  and induction over data are out of reach as well). The content of `ScanIsExact`,
  `ListsExactly`, does not depend on trees and is proved (`ScanAgreesWithEngine`).

## 5. Plan

The components that keep state or run concurrently, and the algorithms of the engine, are
modelled, and the safety properties of the concurrent components are proved. What is left, in
this order:

1. Models: the merging of JSON documents in the context, and the init container's pipeline.
2. Proofs: safety halves of the remaining liveness properties, above all that a violation in
   `PolicyController` whose resource complies again is chased like an orphan.
3. If the prover learns recursive operators: `Framed` and `Conforms` for all trees.

## 6. Not modelled

* JMESPath and the merging of documents in the context (`pkg/engine/context`): a context is a
  map from variables to values. Of the mutation engine: JSON patches through lists (in `Engine`
  what a JSON patch does is arbitrary); lists of mixed types and the quoting of annotation keys and booleans are left out.
* The init container (`cmd/initContainer`): a short pipeline that shares no state with the
  rest and ends before Kyverno starts.
* The dynamic client and TLS (I/O and encoding), generated code (`pkg/client`, deep copies),
  the command line (no state of its own), `pkg/testrunner` (test support), `pkg/namespace`
  (not started by `cmd/kyverno/main.go`).
* The static webhook configurations are written once at start-up; only what they deliver is
  modelled.
* Execution times in statistics, wording of messages and events, logging.
* A deletion that reaches a handler as a tombstone: the handlers of generate, clean-up and
  configuration unpack it and then use a nil pointer; the models deliver the object.
* More than one replica of Kyverno: the manifests deploy one.

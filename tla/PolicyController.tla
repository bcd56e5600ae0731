-------------------------- MODULE PolicyController --------------------------
(***************************************************************************)
(* The policy controller's reconciliation (pkg/policy): one worker scans   *)
(* the existing resources of a background policy, reports violations to    *)
(* the violation generator, removes those of compliant resources, counts   *)
(* them in the policy's status, and removes everything that belongs to a   *)
(* deleted policy.  It reads the informers' copies and remembers in the    *)
(* ResourceManager which resources it has processed.  The statistics it    *)
(* sends on the way are the subject of Reporting.                          *)
(*                                                                         *)
(* Resource versions are never reused, so of a version the model keeps     *)
(* only whether it is the newest: "behind" holds the policies whose newest *)
(* version the informer has not delivered, and "processed" the pairs whose *)
(* entry in the ResourceManager has the versions a scan would see now.     *)
(* Aggregated statistics never repeat either: "fresh" holds the policies   *)
(* whose cached status has the statistics the aggregator has now.          *)
(***************************************************************************)
EXTENDS Naturals, Sequences, FiniteSets

CONSTANTS Policies, Resources,
          AutogenPods,  \* pods whose controller was checked in their place
          Specs, Background, \* policy specifications; those that are scanned for
          Selected,     \* [Specs -> the resources listResources returns]
          Contents,
          Verdict,      \* [Specs \X Contents -> the results of the two engine calls]
          None,
          MaxRetries,
          MaxEdits, MaxFaults   \* bounds of the model

\* Result of one engine call: no rule applied, success, failure, or success with a
\* variable that refers to a missing path.
Results == {"none", "pass", "fail", "path"}
Engines == {"mutate", "validate"}

ASSUME ControllerAssumption ==
    /\ IsFiniteSet(Resources) /\ AutogenPods \subseteq Resources
    /\ Background \subseteq Specs
    /\ Selected \in [Specs -> SUBSET Resources]
    /\ Verdict \in [Specs \X Contents -> [Engines -> Results]]
    /\ {MaxRetries, MaxEdits, MaxFaults} \subseteq Nat

INSTANCE WorkQueue WITH Keys <- Policies

\* count: status.violationCount
Policy == [spec : Specs, count : 0..Cardinality(Resources)]
Pairs  == Policies \X Resources

ASSUME NoneAssumption == None \notin Specs /\ None \notin Policy

VARIABLES
    namespaced,   \* the namespaced resources, which never changes; the others are cluster-wide
    api, cache,   \* policies at the API server and the informer's objects
    behind,       \* policies whose newest version the informer has not delivered
    res,          \* content of each resource
    pv, pvl,      \* violation of a pair (the engine it is from), and the lister's copy
    requests,     \* violations handed to the violation generator
    processed,    \* ResourceManager.data, as far as it can still be hit
    fresh,        \* policies whose cached status has the current statistics
    wq, w,        \* the queue and the worker
    lost,         \* history: policies with a deletion of violations that was given up
    edits, faults   \* counters of the bounds

bounds == <<edits, faults>>
objects == <<namespaced, api, cache, behind, res>>
violations == <<pv, pvl, requests>>
vars == <<objects, violations, processed, fresh, wq, w, lost, bounds>>

WorkerType ==
    [pc : {"idle", "scan", "cleanup", "delcluster", "delnamespaced"},
     key : Policies \cup {None}, spec : Specs \cup {None},
     old : BOOLEAN,    \* the informer has replaced the worker's object
     count : 0..Cardinality(Resources),
     list : [Resources -> Contents \cup {None}],  \* content when listed
     todo : SUBSET Resources, done : SUBSET Resources, changed : SUBSET Resources]

Idle == [pc |-> "idle", key |-> None, spec |-> None, old |-> FALSE, count |-> 0,
         list |-> [r \in Resources |-> None],
         todo |-> {}, done |-> {}, changed |-> {}]

TypeOK ==
    /\ namespaced \in SUBSET Resources
    /\ api \in [Policies -> Policy \cup {None}] /\ cache \in [Policies -> Policy \cup {None}]
    /\ behind \in SUBSET Policies /\ res \in [Resources -> Contents]
    /\ pv \in [Pairs -> Engines \cup {None}] /\ pvl \in [Pairs -> Engines \cup {None}]
    /\ requests \in SUBSET (Pairs \X Engines)
    /\ processed \in SUBSET Pairs
    /\ fresh \in SUBSET Policies
    /\ wq \in WorkQueueType /\ w \in WorkerType
    /\ lost \in SUBSET Policies
    /\ edits \in 0..MaxEdits /\ faults \in 0..MaxFaults

\* The process starts, possibly after an earlier one: policies with their status and
\* violations may be there, the informers are about to deliver them, and the
\* statistics of the earlier process are gone.
Init ==
    /\ namespaced \in SUBSET Resources
    /\ api \in [Policies -> {None} \cup [spec : Specs, count : {0}]]
    /\ cache = [p \in Policies |-> None] /\ behind = {p \in Policies : api[p] # None}
    /\ \E c \in Contents : res = [r \in Resources |-> c]
    /\ \E v \in {"validate", None} : pv = [x \in Pairs |-> v]
    /\ pvl = [x \in Pairs |-> None] /\ requests = {}
    /\ processed = {}
    /\ fresh = {}
    /\ wq = EmptyQueue /\ w = Idle
    /\ lost = {} /\ edits = 0 /\ faults = 0

Fault == faults < MaxFaults /\ faults' = faults + 1

-----------------------------------------------------------------------------
(* Users and the policy informer with its handlers. *)

EditPolicy(p, s) ==
    /\ edits < MaxEdits /\ (api[p] # None => api[p].spec # s)
    /\ api' = [api EXCEPT ![p] = [spec |-> s, count |-> IF api[p] = None THEN 0 ELSE api[p].count]]
    /\ behind' = behind \cup {p}
    /\ edits' = edits + 1
    /\ UNCHANGED <<namespaced, cache, res, violations, processed, fresh, wq, w, lost, faults>>

DeletePolicy(p) ==
    /\ edits < MaxEdits /\ api[p] # None
    /\ api' = [api EXCEPT ![p] = None]
    /\ behind' = behind \cup {p}
    /\ edits' = edits + 1
    /\ UNCHANGED <<namespaced, cache, res, violations, processed, fresh, wq, w, lost, faults>>

\* A new version of a resource: entries of the ResourceManager for it are stale.
EditResource(r, c) ==
    /\ edits < MaxEdits /\ res[r] # c
    /\ res' = [res EXCEPT ![r] = c]
    /\ processed' = {x \in processed : x[2] # r}
    /\ w' = IF r \in w.todo /\ w.pc = "scan" THEN [w EXCEPT !.changed = @ \cup {r}] ELSE w
    /\ edits' = edits + 1
    /\ UNCHANGED <<namespaced, api, cache, behind, violations, fresh, wq, lost, faults>>

\* addPolicy, updatePolicy and deletePolicy (their index is modelled in PolicyStore).
PolicyEvent(p) ==
    /\ p \in behind
    /\ behind' = behind \ {p}
    /\ cache' = [cache EXCEPT ![p] = api[p]]
    /\ processed' = {x \in processed : x[1] # p}
    /\ w' = IF w.spec # None /\ w.key = p THEN [w EXCEPT !.old = TRUE] ELSE w
    /\ wq' = IF \/ api[p] # None /\ api[p].spec \in Background
                \/ api[p] = None /\ cache[p] # None
             THEN Add(wq, p) ELSE wq
    /\ fresh' \in {fresh \ {p}} \cup (IF api[p] = None THEN {} ELSE {fresh \cup {p}})
    /\ UNCHANGED <<namespaced, api, res, violations, lost, bounds>>

\* The periodic resync calls updatePolicy for every cached policy.
Resync(p) ==
    /\ cache[p] # None /\ cache[p].spec \in Background
    /\ wq' = Add(wq, p)
    /\ UNCHANGED <<objects, violations, processed, fresh, w, lost, bounds>>

-----------------------------------------------------------------------------
(* The informer of violations with its handlers. *)

\* getPolicyForClusterPolicyViolation: the policy the label of a violation names.
PolicyForViolation(x) == {p \in Policies : p = x[1] /\ cache[p] # None}

Delivered(x) == pvl' = [pvl EXCEPT ![x] = pv[x]]

\* An orphan is deleted; a failure is only logged.
DeleteOrphan(x) ==
    \/ /\ pv' = [pv EXCEPT ![x] = None]
       /\ UNCHANGED <<lost, faults>>
    \/ /\ Fault /\ pv' = pv
       /\ lost' = lost \cup {x[1]}

EnqueueOrDelete(x) ==
    /\ IF PolicyForViolation(x) = {}
       THEN DeleteOrphan(x) /\ wq' = wq
       ELSE wq' = Add(wq, x[1]) /\ UNCHANGED <<pv, lost, faults>>
    /\ UNCHANGED <<objects, requests, processed, fresh, w, edits>>

AddClusterPolicyViolation(x) ==
    /\ x[2] \notin namespaced /\ pvl[x] = None /\ pv[x] # None
    /\ Delivered(x) /\ EnqueueOrDelete(x)

AddNamespacedPolicyViolation(x) ==
    /\ x[2] \in namespaced /\ pvl[x] = None /\ pv[x] # None
    /\ Delivered(x) /\ EnqueueOrDelete(x)

UpdateClusterPolicyViolation(x) ==
    /\ x[2] \notin namespaced /\ None \notin {pvl[x], pv[x]} /\ pvl[x] # pv[x]
    /\ Delivered(x) /\ EnqueueOrDelete(x)

UpdateNamespacedPolicyViolation(x) ==
    /\ x[2] \in namespaced /\ None \notin {pvl[x], pv[x]} /\ pvl[x] # pv[x]
    /\ Delivered(x) /\ EnqueueOrDelete(x)

\* The object is gone already, so deleting the orphan again changes nothing.
Deleted(x) ==
    /\ pvl[x] # None /\ pv[x] = None
    /\ Delivered(x)
    /\ wq' = IF PolicyForViolation(x) = {} THEN wq ELSE Add(wq, x[1])
    /\ UNCHANGED <<objects, pv, requests, processed, fresh, w, lost, bounds>>

DeleteClusterPolicyViolation(x)    == x[2] \notin namespaced /\ Deleted(x)
DeleteNamespacedPolicyViolation(x) == x[2] \in namespaced /\ Deleted(x)

-----------------------------------------------------------------------------
(* The violation generator, as far as this controller sees it (PVGenerator).  A
   second object for one pair, which it can create, is not told apart.          *)

GeneratorSync(q) ==
    LET x == q[1] IN
    /\ q \in requests
    /\ requests' = requests \ {q}
    /\ pv' = IF pvl[x] = q[2] THEN pv ELSE [pv EXCEPT ![x] = q[2]]
    /\ pvl[x] \in {None, q[2], pv[x]}        \* else: conflict, the key is retried
    /\ UNCHANGED <<objects, pvl, processed, fresh, wq, w, lost, bounds>>

GeneratorDrops(q) ==
    /\ q \in requests /\ Fault
    /\ requests' = requests \ {q}
    /\ UNCHANGED <<objects, pv, pvl, processed, fresh, wq, w, lost, edits>>

-----------------------------------------------------------------------------
(* The worker: syncPolicy for a policy the lister has. *)

\* handleErr with the deferred Done, in the step that ends syncPolicy.
HandleErr(failed) ==
    LET retry == failed /\ wq.requeues[w.key] < MaxRetries IN
    /\ wq' = Done(IF retry THEN AddRateLimited(wq, w.key) ELSE Forget(wq, w.key), w.key)
    /\ lost' = IF failed /\ ~retry /\ w.spec = None THEN lost \cup {w.key} ELSE lost
    /\ w' = Idle

\* processNextWorkItem: the key the worker takes; the look-up in the lister, the first
\* thing syncPolicy does, is in the same step.
TakesKey(p) == w.pc = "idle" /\ wq.queue # <<>> /\ p = Head(wq.queue) /\ wq' = Get(wq)

ViolationsOf(p) == {r \in Resources : pvl[<<p, r>>] # None}

(* Mutated form: each of the two lists has the violations of both kinds. *)
CountTwice(p) == 2 * Cardinality(ViolationsOf(p))

\* The violation count of calculateStatus, from the lists syncPolicy has read.
Count(p) == Cardinality(ViolationsOf(p))

\* processExistingResources: the resources the policy is applied to.  Only this worker
\* registers resources, so that the test can be made when they are listed.
Listed(p, done) == {r \in Selected[cache[p].spec] \ AutogenPods : <<p, r>> \notin done}

(* Mutated form: the cache of processed resources is never dropped. *)
SyncPolicyNoDrop(p, drop) ==
    /\ TakesKey(p) /\ cache[p] # None
    /\ w' = [w EXCEPT !.pc = "scan", !.key = p, !.spec = cache[p].spec,
                      !.count = Count(p),
                      !.list = [r \in Resources |-> IF r \in Listed(p, processed) THEN res[r] ELSE None],
                      !.todo = Listed(p, processed)]
    /\ UNCHANGED <<objects, violations, processed, fresh, lost, bounds>>

\* The violations are listed and the resources too, after the ResourceManager has
\* dropped its data when its rebuild time is over.
SyncPolicy(p, drop) ==
    /\ TakesKey(p) /\ cache[p] # None
    /\ processed' = IF drop THEN {} ELSE processed
    /\ w' = [w EXCEPT !.pc = "scan", !.key = p, !.spec = cache[p].spec,
                      !.count = Count(p),
                      !.list = [r \in Resources |-> IF r \in Listed(p, processed') THEN res[r] ELSE None],
                      !.todo = Listed(p, processed')]
    /\ UNCHANGED <<objects, violations, fresh, lost, bounds>>

Response(r) == Verdict[w.spec, w.list[r]]

\* applyPolicy sends statistics, which the aggregator ignores when no rule applied;
\* RegisterResource enters the versions the worker has seen, and others may be
\* current by now.
ApplyPolicy(r) ==
    /\ w.pc = "scan" /\ r \in w.todo
    /\ processed' = IF w.old \/ r \in w.changed THEN processed ELSE processed \cup {<<w.key, r>>}
    /\ fresh' = IF \A e \in Engines : Response(r)[e] = "none" THEN fresh ELSE fresh \ {w.key}
    /\ w' = [w EXCEPT !.todo = @ \ {r}, !.done = @ \cup {r}]
    /\ UNCHANGED <<objects, violations, wq, lost, bounds>>

\* generateEvents and GeneratePVsFromEngineResponse.
Reports(r) == {e \in Engines : Response(r)[e] \in {"fail", "path"}}
\* cleanUp: the responses with a rule and without a failed one.
Clears(r)  == {e \in Engines : Response(r)[e] \in {"pass", "path"}}

CleanupAndReport ==
    /\ w.pc = "scan" /\ w.todo = {}
    /\ requests' = requests \cup UNION {{<<<<w.key, r>>, e>> : e \in Reports(r)} : r \in w.done}
    /\ w' = [w EXCEPT !.pc = "cleanup", !.todo = {r \in w.done : Clears(r) # {}}]
    /\ UNCHANGED <<objects, pv, pvl, processed, fresh, wq, lost, bounds>>

(* Mutated form: nothing is removed. *)
CleanUpNothing(r) ==
    /\ w.pc = "cleanup" /\ r \in w.todo
    /\ pv' = pv /\ faults' = faults
    /\ w' = [w EXCEPT !.todo = @ \ {r}]
    /\ UNCHANGED <<objects, pvl, requests, processed, fresh, wq, lost, edits>>

\* cleanUpPolicyViolation: what the lister shows is deleted; a failure is logged.
CleanUpPolicyViolation(r) ==
    /\ w.pc = "cleanup" /\ r \in w.todo
    /\ \/ /\ pv' = IF pvl[<<w.key, r>>] # None THEN [pv EXCEPT ![<<w.key, r>>] = None] ELSE pv
          /\ faults' = faults
       \/ /\ pvl[<<w.key, r>>] # None /\ Fault /\ pv' = pv
    /\ w' = [w EXCEPT !.todo = @ \ {r}]
    /\ UNCHANGED <<objects, pvl, requests, processed, fresh, wq, lost, edits>>

\* calculateStatus: whether the held object has the new status already; of an object
\* the informer has replaced meanwhile the status is not kept in the model.
Unchanged == IF w.old THEN BOOLEAN ELSE {cache[w.key].count = w.count /\ w.key \in fresh}

\* The informer's own object gets the new status before the call is made.
WriteHeld ==
    IF w.old THEN UNCHANGED <<cache, fresh>>
    ELSE /\ cache' = [cache EXCEPT ![w.key].count = w.count]
         /\ fresh' = fresh \cup {w.key}

\* syncStatusOnly: the new status is written into the informer's own object and sent;
\* the API server refuses a version that is not the newest.
SyncStatusOnly ==
    /\ w.pc = "cleanup" /\ w.todo = {}
    /\ \/ /\ TRUE \in Unchanged
          /\ HandleErr(FALSE)
          /\ UNCHANGED <<api, cache, behind, fresh>>
       \/ /\ FALSE \in Unchanged /\ (w.old \/ w.key \in behind)
          /\ WriteHeld
          /\ HandleErr(TRUE)
          /\ UNCHANGED <<api, behind>>
       \/ /\ FALSE \in Unchanged /\ ~w.old /\ w.key \notin behind
          /\ WriteHeld
          /\ api' = [api EXCEPT ![w.key].count = w.count]
          /\ behind' = behind \cup {w.key}
          /\ HandleErr(FALSE)
    /\ UNCHANGED <<namespaced, res, violations, processed, bounds>>

SyncStatusOnlyFault ==
    /\ w.pc = "cleanup" /\ w.todo = {} /\ FALSE \in Unchanged
    /\ Fault /\ WriteHeld
    /\ HandleErr(TRUE)
    /\ UNCHANGED <<namespaced, api, behind, res, violations, processed, edits>>

-----------------------------------------------------------------------------
(* syncPolicy for a policy the lister has no more. *)

SyncDeleted(p) ==
    /\ TakesKey(p) /\ cache[p] = None
    /\ w' = [w EXCEPT !.pc = "delcluster", !.key = p, !.todo = ViolationsOf(p) \ namespaced]
    /\ UNCHANGED <<objects, violations, processed, fresh, lost, bounds>>

DeleteViolations(r) ==
    /\ w.pc \in {"delcluster", "delnamespaced"} /\ r \in w.todo
    /\ \/ /\ pv[<<w.key, r>>] # None
          /\ pv' = [pv EXCEPT ![<<w.key, r>>] = None]
          /\ w' = [w EXCEPT !.todo = @ \ {r}]
          /\ UNCHANGED <<wq, lost, faults>>
       \/ /\ pv[<<w.key, r>>] = None          \* the API server does not find it
          /\ HandleErr(TRUE)
          /\ UNCHANGED <<pv, faults>>
       \/ /\ Fault /\ HandleErr(TRUE)
          /\ pv' = pv
    /\ UNCHANGED <<objects, pvl, requests, processed, fresh, edits>>

(* Mutated form: only the violations of cluster-wide resources are deleted. *)
ClusterViolationsDeletedOnly ==
    /\ w.pc = "delcluster" /\ w.todo = {}
    /\ w' = [w EXCEPT !.pc = "delnamespaced", !.todo = {}]
    /\ UNCHANGED <<objects, violations, processed, fresh, wq, lost, bounds>>

ClusterViolationsDeleted ==
    /\ w.pc = "delcluster" /\ w.todo = {}
    /\ w' = [w EXCEPT !.pc = "delnamespaced", !.todo = ViolationsOf(w.key) \cap namespaced]
    /\ UNCHANGED <<objects, violations, processed, fresh, wq, lost, bounds>>

\* The removal of the statistics and of the webhook configuration follow, which are
\* in Reporting and ResourceWebhook.
DeletedPolicyCleaned ==
    /\ w.pc = "delnamespaced" /\ w.todo = {}
    /\ HandleErr(FALSE)
    /\ UNCHANGED <<objects, violations, processed, fresh, bounds>>

BackOff(p) ==
    /\ p \in wq.waiting
    /\ wq' = BackOffEnds(wq, p)
    /\ UNCHANGED <<objects, violations, processed, fresh, w, lost, bounds>>

-----------------------------------------------------------------------------
Worker ==
    \/ \E p \in Policies : SyncDeleted(p) \/ \E drop \in BOOLEAN : SyncPolicy(p, drop)
    \/ \E r \in Resources : ApplyPolicy(r) \/ CleanUpPolicyViolation(r) \/ DeleteViolations(r)
    \/ CleanupAndReport \/ SyncStatusOnly
    \/ SyncStatusOnlyFault \/ ClusterViolationsDeleted \/ DeletedPolicyCleaned

ViolationEvent(x) ==
    \/ AddClusterPolicyViolation(x) \/ AddNamespacedPolicyViolation(x)
    \/ UpdateClusterPolicyViolation(x) \/ UpdateNamespacedPolicyViolation(x)
    \/ DeleteClusterPolicyViolation(x) \/ DeleteNamespacedPolicyViolation(x)

Generator == \E q \in Pairs \X Engines : GeneratorSync(q)

Next ==
    \/ \E p \in Policies : \/ \E s \in Specs : EditPolicy(p, s)
                           \/ DeletePolicy(p) \/ PolicyEvent(p) \/ Resync(p)
                           \/ BackOff(p)
    \/ \E r \in Resources, c \in Contents : EditResource(r, c)
    \/ \E x \in Pairs : ViolationEvent(x)
    \/ \E q \in Pairs \X Engines : GeneratorDrops(q)
    \/ Generator \/ Worker

Spec == Init /\ [][Next]_vars

\* Goroutines, informers with their resync and timers go on; the rebuild time passes,
\* so some of infinitely many scans drop the cache.  Nobody has to edit anything and
\* no call has to fail.
Fairness ==
    /\ WF_vars(Worker) /\ WF_vars(Generator)
    /\ \A p \in Policies : SF_vars(SyncPolicy(p, TRUE)) /\ WF_vars(PolicyEvent(p)) /\ WF_vars(Resync(p)) /\ WF_vars(BackOff(p))
    /\ \A x \in Pairs : WF_vars(ViolationEvent(x))

FairSpec == Spec /\ Fairness

-----------------------------------------------------------------------------
(* Properties. *)

\* A policy and a resource that no longer change.
Stays(p, r, s, c) == <>[](api[p] # None /\ api[p].spec = s /\ res[r] = c)

\* Once a policy and a resource stay as they are, the violations come to agree with
\* the scan, although a scan works on old versions, requests for violations arrive
\* late and violations are looked up in a lagging informer: a resource the policy
\* reports has its violation and a resource it accepts has none.  (For a
\* resource that one engine reports and the other accepts, the code itself disagrees:
\* the accepting response cleans up what the other has reported.)
ViolationsConverge ==
    \A p \in Policies, r \in Resources, s \in Background, c \in Contents :
        LET v == Verdict[s, c] IN
        (Stays(p, r, s, c) /\ r \in Selected[s] \ AutogenPods) =>
            /\ (v["mutate"] = "none" /\ v["validate"] = "fail") => <>[](pv[<<p, r>>] = "validate")
            /\ (v["mutate"] = "none" /\ v["validate"] = "pass") => <>[](pv[<<p, r>>] = None)

\* When a policy stays deleted, its violations go, also those a late request creates
\* after the clean-up, unless a deletion was given up.
OrphansRemoved ==
    \A p \in Policies :
        <>[](api[p] = None) => <>[](\A r \in Resources : pv[<<p, r>>] = None) \/ <>(p \in lost)

\* The status of a scanned policy shows the number of its violations again and again,
\* although the worker writes the status into the informer's object before the API
\* server has accepted it.
StatusShowsCount ==
    \A p \in Policies, s \in Background :
        (/\ <>[](api[p] # None /\ api[p].spec = s)
         /\ \E r \in Selected[s] \ AutogenPods :
               \A c \in Contents : \E e \in Engines : Verdict[s, c][e] # "none")
        => []<>(api[p] # None /\ api[p].count = Cardinality({r \in Resources : pv[<<p, r>>] # None}))
=============================================================================

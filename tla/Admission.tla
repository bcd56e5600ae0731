----------------------------- MODULE Admission -----------------------------
(***************************************************************************)
(* The admission webhook (pkg/webhooks): requests served concurrently,     *)
(* each with the policies it looked up, mutated, patched, validated and    *)
(* handed to the generators; the configuration's filters (pkg/config) that *)
(* exempt resources; and around them the API server, which sends the       *)
(* object, waits, applies the patch of the answer and stores the result,   *)
(* and a controller that makes pods from the stored pod template.          *)
(*                                                                         *)
(* A handler blocks while it hands statistics to the aggregator (pc        *)
(* "mutated" and "validated"); Reporting shows that it is always served.   *)
(***************************************************************************)
EXTENDS Engine

CONSTANTS
    Slots,         \* requests in flight
    Users, Bindings,   \* users and the role bindings of the informers
    Manifests,     \* the objects that users send
    ConfigMaps,    \* contents of the config map: None when its key is missing or
                   \* empty, or else the elements of resourceFilters
    InitFilters,   \* filters of the command line
    MaxRequests,   \* bounds of the model: requests, and
    MaxEvents      \* edits, time-outs and shutdowns

ASSUME AdmissionAssumption ==
    Manifests \subseteq Resource /\ MaxRequests \in Nat /\ MaxEvents \in Nat

Sent(kind, name, v, auto) ==
    [kind |-> kind, ns |-> "ns", name |-> name, label |-> "l", v |-> v,
     auto |-> auto, ann |-> "nil"]

VARIABLES
    req,         \* the requests
    listed,      \* policies of the informer's lister
    enabled,     \* policies in the meta-store
    store,       \* resource of each kind at the API server
    owed,        \* history: the policies each stored resource was admitted under
    cm, seen,    \* config map at the API server; whether the informer delivered it
    filters,     \* ConfigData.filters
    reported,    \* history: violations handed to the violation generator
    generated,   \* history: generate requests handed to their generator
    stopping,    \* the stop channel is closed
    sent, events   \* counters of the bounds

config == <<cm, seen, filters>>
history == <<reported, generated>>
bounds == <<sent, events>>
vars == <<req, listed, enabled, store, owed, config, history, stopping, bounds>>

Idle == [pc |-> "idle", obj |-> None, old |-> None, user |-> None,
         template |-> {}, pols |-> {}, info |-> None, patched |-> None,
         allowed |-> TRUE, waiting |-> FALSE]

\* The elements of resourceFilters have one to three parts; a missing part is the empty
\* string, which only a cluster-wide resource (namespace) or no resource (name) matches.
\* An element of another length repeats the resource of the one before it.
parseKinds(list) ==
    LET part(e, i) == IF i <= Len(e) THEN e[i] ELSE {None}
        resource[i \in 0..Len(list)] ==
            IF i = 0 THEN [kind |-> {None}, ns |-> {None}, name |-> {None}]
            ELSE IF Len(list[i]) > 3 THEN resource[i - 1]
            ELSE [kind |-> part(list[i], 1), ns |-> part(list[i], 2), name |-> part(list[i], 3)]
    IN  {resource[i] : i \in 1..Len(list)}

\* The roles of a request, which depend on the policies that were looked up.
InfoOf ==
    [x \in (SUBSET Policies) \X Users |->
        RequestInfo(UNION {RulesOf(p) : p \in x[1]}, Bindings, x[2])]
Infos == {InfoOf[x] : x \in DOMAIN InfoOf}

RequestType ==
    [pc : {"idle", "sent", "mutated", "validated", "answered"},
     obj : Resource \cup {None}, old : Resource \cup {None}, patched : Resource \cup {None},
     user : Users \cup {None}, info : Infos \cup {None},
     template : SUBSET Policies, pols : SUBSET Policies,
     allowed : BOOLEAN, waiting : BOOLEAN]

TypeOK ==
    /\ req \in [Slots -> RequestType]
    /\ enabled \subseteq Policies /\ listed \subseteq Policies
    /\ store \in [Kinds -> Resource \cup {None}]
    /\ owed \in [Kinds -> SUBSET Policies]
    /\ cm \in {"deleted"} \X {None} \cup {"present"} \X ConfigMaps
    /\ seen \in BOOLEAN /\ stopping \in BOOLEAN
    /\ reported \subseteq Policies \X Kinds /\ generated \subseteq Policies \X Kinds
    /\ sent \in 0..MaxRequests /\ events \in 0..MaxEvents

Init ==
    /\ req = [s \in Slots |-> Idle]
    /\ enabled = Policies /\ listed = Policies
    /\ store = [k \in Kinds |-> None] /\ owed = [k \in Kinds |-> {}]
    /\ cm = <<"deleted", None>> /\ seen = TRUE /\ filters = InitFilters
    /\ reported = {} /\ generated = {} /\ stopping = FALSE
    /\ sent = 0 /\ events = 0

(***************************************************************************)
(* The API server and its clients.                                         *)
(***************************************************************************)
Send(s, r) ==
    /\ sent < MaxRequests /\ req[s].pc = "idle"
    /\ req' = [req EXCEPT ![s] = r] /\ sent' = sent + 1
    /\ UNCHANGED <<listed, enabled, store, owed, config, history, stopping, events>>

\* A user creates or replaces a resource, a pod perhaps with the annotation that pods of
\* controllers have; a malformed object has no resource.
UserRequest(s) ==
    \E m \in Manifests, u \in Users, malformed \in BOOLEAN :
        Send(s, [Idle EXCEPT !.pc = "sent", !.user = u, !.waiting = TRUE,
                    !.old = store[m.kind],
                    !.obj = IF malformed THEN None
                            ELSE IF store[m.kind] = None THEN m
                            ELSE [store[m.kind] EXCEPT !.v = m.v, !.auto = m.auto]])

\* The deployment controller creates a pod from the stored template and leaves it to the
\* API server to name it.
ControllerRequest(s) ==
    /\ store["Deployment"] # None /\ store["Pod"] = None
    /\ \E u \in Users :
        Send(s, [Idle EXCEPT !.pc = "sent", !.user = u, !.waiting = TRUE,
                    !.template = owed["Deployment"],
                    !.obj = Sent("Pod", "", store["Deployment"].v, store["Deployment"].auto)])

checkPodTemplateAnn(r) == r.kind = "Pod" /\ r.auto

\* The resource matches under any name, and so before it has one.
MatchesUnnamed(r, rule) ==
    \A n \in Names : MatchesResourceDescription([r EXCEPT !.name = n], rule)

\* A rule that concerns a resource whoever sends it and whatever it contained.
Concerns(rule, r) ==
    /\ rule.pattern # None /\ MatchesUnnamed(r, rule)
    /\ rule.matchUser = AnyUser /\ rule.excludeUser = AnyUser
    /\ rule.when = Values /\ rule.missing = {}

Violates(p, r) ==
    \E rule \in RulesOf(p) : Concerns(rule, r) /\ rule.pattern[r.v] \notin {"pass", "path"}

\* The policy's rules for pods have their counterparts for the templates of pods, as
\* generateRulesForControllers makes them.
CoversTemplates(p) ==
    \A v \in Values :
        Violates(p, Sent("Pod", "", v, TRUE)) => Violates(p, Sent("Deployment", "", v, TRUE))

\* Policies a stored resource was admitted under: those the request looked up, and of an
\* update among those the old resource was admitted under.  An annotated pod is not
\* checked.  One made from a template is admitted under those that its template was
\* admitted under and that cover templates; one that a user has annotated, and one whose
\* annotation a user takes off, under none.
OwedBy(r) ==
    IF ~checkPodTemplateAnn(r.obj)
    THEN r.pols \cap (IF r.old = None THEN Policies
                     ELSE IF checkPodTemplateAnn(r.old) THEN {} ELSE owed[r.old.kind])
    ELSE IF r.old # None THEN {} ELSE {p \in r.pols \cap r.template : CoversTemplates(p)}

Event == events < MaxEvents /\ events' = events + 1

Named(r) == IF r.name = "" THEN [r EXCEPT !.name = "x-7f"] ELSE r

\* The object is stored, and named, unless the one it replaces has changed since.
Persist(r, object, under) ==
    IF object = None \/ (object # None /\ store[object.kind] # r.old)
    THEN UNCHANGED <<store, owed>>
    ELSE /\ store' = [store EXCEPT ![object.kind] = Named(object)]
         /\ owed' = [owed EXCEPT ![object.kind] = under]

\* The API server has the answer: a denial or a patch that cannot be applied is an
\* error to the client.
Complete(s) ==
    /\ req[s].pc = "answered" /\ req[s].waiting
    /\ req' = [req EXCEPT ![s] = Idle]
    /\ Persist(req[s], IF req[s].allowed THEN req[s].patched ELSE None,
               OwedBy(req[s]))
    /\ UNCHANGED <<listed, enabled, config, history, stopping, bounds>>

\* The time-out of the call: the failure policy is Ignore, so the object is stored as
\* it was sent, while the handler goes on.
GiveUp(s) ==
    /\ req[s].waiting /\ req[s].pc # "answered" /\ Event
    /\ req' = [req EXCEPT ![s].waiting = FALSE]
    /\ Persist(req[s], req[s].obj, {})
    /\ UNCHANGED <<listed, enabled, config, history, stopping, sent>>

-----------------------------------------------------------------------------
(* The handler. *)

\* Nobody reads a late answer.
Answer(s, r, allowed) ==
    req' = [req EXCEPT ![s] =
        IF ~r.waiting THEN Idle ELSE IF allowed THEN [r EXCEPT !.pc = "answered"]
        ELSE [Idle EXCEPT !.pc = "answered", !.waiting = TRUE, !.allowed = FALSE]]

\* The names that the meta-store has for a kind and namespace, in the order of a Go map.
lookUp(r) ==
    {p \in enabled : \E rule \in RulesOf(p) :
        /\ r.kind \in rule.match.kinds
        /\ rule.match.namespaces = {} \/ {r.ns} \in rule.match.namespaces}

\* Variants of Violations: reports under the names of rules, and reports of missing paths
\* only.
ViolationRules(responses) ==
    UNION {{er.rules[i].name : i \in DOMAIN er.rules} :
               er \in {e \in responses : ~IsSuccesful(e) \/ IsPathNotPresent(e)}}
ViolationsOfPaths(responses) == {er.policy : er \in {e \in responses : IsPathNotPresent(e)}}

\* Engine responses of failed policies, and of those with a missing path, for a resource
\* that has its name.
Violations(responses) ==
    {er.policy : er \in {e \in responses : /\ e.name # ""
                                           /\ ~IsSuccesful(e) \/ IsPathNotPresent(e)}}

\* The annotation that lists the patches.  Whether the resource has annotations is read
\* off the first response whose resource has any, and be it one of a failed policy.
generateAnnotationPatches(responses) ==
    LET patched == {i \in DOMAIN responses :
                        IsSuccesful(responses[i]) /\ GetPatches(responses[i]) # <<>>}
        annotated == {i \in DOMAIN responses : responses[i].resource.ann # "nil"}
        ann == IF annotated = {} THEN "nil" ELSE responses[Min(annotated)].resource.ann
        op == IF ann = "kyverno" THEN "replace"
              ELSE IF ann = "user" THEN "annotation" ELSE "annotations"
    IN  IF patched = {} THEN <<>> ELSE <<[op |-> op, v |-> "kyverno"]>>

\* What the webhook and the API server make of the object and the patches of the answer
\* is kept in the request (patched), None if a patch cannot be applied.

\* The responses to the policies in order, each on the resource as patched by the
\* successful ones before it.
Gather(acc, er) ==
    [resource |-> IF IsSuccesful(er) THEN er.resource ELSE acc.resource,
     patches |-> IF IsSuccesful(er) THEN acc.patches \o GetPatches(er) ELSE acc.patches,
     responses |-> Append(acc.responses, er)]

Gathering == [resource : Resource, patches : Seq(Op), responses : Seq(EngineResponse)]

MutateAll(pols, object, info) ==
    Iterate([i \in DOMAIN pols |-> [acc \in Gathering |->
                Gather(acc, Mutate(PolicyOf[pols[i]], acc.resource, object.v, info))]],
            [resource |-> object, patches |-> <<>>, responses |-> <<>>])

Answered(object, all) ==
    [patched |-> ApplyPatches(object, all.patches \o generateAnnotationPatches(all.responses)),
     reports |-> Violations(ToSet(all.responses))]

HandleMutation(pols, object, info) == Answered(object, MutateAll(pols, object, info))

\* What the webhook computes from its inputs alone is tabulated: TLC evaluates a table once.
Orders == [ps \in SUBSET Policies |-> SetToSeqs(ps)]
Mutation ==
    [x \in (UNION {Orders[ps] : ps \in SUBSET Policies}) \X Resource \X Infos |->
        HandleMutation(x[1], x[2], x[3])]
Validation ==
    [x \in Policies \X Resource \X (Resource \cup {None}) \X Values \X Infos |->
        Validate(PolicyOf[x[1]], x[2], x[3], x[4], x[5])]
Generation ==
    [x \in Policies \X Resource \X Infos |->
        filterRules(PolicyOf[x[1]], x[2], x[2].v, x[3])]

\* handleAdmissionRequest up to the statistics of the mutation.
HandleAdmission(s, r, mutation) ==
    IF checkPodTemplateAnn(r.obj)
    THEN Answer(s, [r EXCEPT !.patched = r.obj], TRUE) /\ UNCHANGED reported
    ELSE /\ req' = [req EXCEPT ![s] = [r EXCEPT !.pc = "mutated",
                                           !.patched = mutation.patched]]
         /\ reported' = reported \cup (mutation.reports \X {r.obj.kind})

\* A lookup that meets a policy that is gone from the lister fails as a whole.
Serve(s) ==
    LET r == req[s] IN
    /\ r.pc = "sent"
    /\ IF r.obj = None THEN Answer(s, r, FALSE) /\ UNCHANGED reported
       ELSE IF ToFilter(filters, r.obj) \/ ~(lookUp(r.obj) \subseteq listed)
       THEN Answer(s, [r EXCEPT !.patched = r.obj], TRUE) /\ UNCHANGED reported
       ELSE \E found \in {lookUp(r.obj)} : \E info \in {InfoOf[found, r.user]} :
            \E pols \in Orders[found] :
              HandleAdmission(s, [r EXCEPT !.pols = found, !.user = None, !.info = info],
                              Mutation[pols, r.obj, info])
    /\ UNCHANGED <<listed, enabled, store, owed, config, generated, stopping, bounds>>

\* Variant: the resource is validated as it was sent.
processResource(r) == r.obj

processResourceWithPatches(r) == r.patched

\* A failed policy blocks the request only if its action is "enforce".
toBlockResource(responses) ==
    \E er \in responses : ~IsSuccesful(er) /\ PolicyOf[er.policy].action = "enforce"

\* Without a patched resource nothing is validated and the request goes on.
HandleValidation(s) ==
    LET r == req[s]
        new == processResourceWithPatches(r)
        responses == IF new = None THEN {}
                     ELSE UNION {Validation[p, new, r.old, r.obj.v, r.info] : p \in r.pols}
    IN  /\ r.pc = "mutated"
        /\ IF toBlockResource(responses)
           THEN req' = [req EXCEPT ![s].pc = "validated", ![s].allowed = FALSE]
                /\ UNCHANGED reported
           ELSE /\ req' = [req EXCEPT ![s].pc = "validated"]
                /\ reported' = reported \cup (Violations(responses) \X {r.obj.kind})
        /\ UNCHANGED <<listed, enabled, store, owed, config, generated, stopping, bounds>>

\* Variant: a generate request that is not made does not deny the creation.
HandleGenerateAnyway(s) ==
    LET r == req[s]
        needed == {p \in r.pols : Generation[p, r.obj, r.info] # {}}
    IN  /\ r.pc = "validated"
        /\ \E made \in SUBSET needed :
                  /\ made # needed => stopping
                  /\ Answer(s, r, r.allowed)
                  /\ generated' = generated \cup (made \X {r.obj.kind})
        /\ UNCHANGED <<listed, enabled, store, owed, config, reported, stopping, bounds>>

\* Generate requests are made one after another until one fails, which only happens
\* once the stop channel is closed.
HandleGenerate(s) ==
    LET r == req[s]
        needed == {p \in r.pols : Generation[p, r.obj, r.info] # {}}
    IN  /\ r.pc = "validated"
        /\ IF ~r.allowed \/ r.old # None
           THEN Answer(s, r, r.allowed) /\ UNCHANGED generated
           ELSE \E made \in SUBSET needed :
                  /\ made # needed => stopping
                  /\ Answer(s, r, made = needed)
                  /\ generated' = generated \cup (made \X {r.obj.kind})
        /\ UNCHANGED <<listed, enabled, store, owed, config, reported, stopping, bounds>>

-----------------------------------------------------------------------------
(* Policies, configuration and shutdown. *)

\* The lister changes before the handler of the informer registers the policy.
EditPolicy ==
    /\ Event
    /\ \E p \in Policies : listed' = (listed \ {p}) \cup ({p} \ listed)
    /\ UNCHANGED <<req, enabled, store, owed, config, history, stopping, sent>>

RegisterPolicy ==
    /\ enabled # listed
    /\ enabled' = listed
    /\ UNCHANGED <<req, listed, store, owed, config, history, stopping, bounds>>

EditConfigMap ==
    /\ Event
    /\ cm' \in ({"deleted"} \X {None} \cup {"present"} \X ConfigMaps) \ {cm}
    /\ seen' = FALSE
    /\ UNCHANGED <<req, listed, enabled, store, owed, filters, history, stopping, sent>>

\* Variant: the filters of the previous config map are kept beside the new ones.
loadMore(data) == IF data = None THEN filters ELSE filters \cup parseKinds(data)

\* A config map without filters leaves those of the previous one in place.
load(data) == IF data = None THEN filters ELSE parseKinds(data)
unload == {}

\* addCM, updateCM and deleteCM
ConfigMapEvent ==
    /\ ~seen /\ seen' = TRUE
    /\ filters' = IF cm[1] = "deleted" THEN unload ELSE load(cm[2])
    /\ UNCHANGED <<req, listed, enabled, store, owed, cm, history, stopping, bounds>>

Stop ==
    /\ ~stopping /\ stopping' = TRUE /\ Event
    /\ UNCHANGED <<req, listed, enabled, store, owed, config, history, sent>>

Handler(s) == Serve(s) \/ HandleValidation(s) \/ HandleGenerate(s)

Next ==
    \/ \E s \in Slots : \/ UserRequest(s) \/ ControllerRequest(s) \/ GiveUp(s)
                        \/ Handler(s) \/ Complete(s)
    \/ EditPolicy \/ RegisterPolicy \/ EditConfigMap \/ ConfigMapEvent \/ Stop

Spec == Init /\ [][Next]_vars

\* The informers deliver what has changed.  That a handler which has been called returns
\* is the subject of Reporting.
FairSpec == Spec /\ WF_vars(RegisterPolicy) /\ WF_vars(ConfigMapEvent)

-----------------------------------------------------------------------------
(* Properties. *)

\* No stored resource violates an "enforce" policy it was admitted under: not a
\* resource that mutation has changed, not one that was updated while policies were
\* edited and other requests served, and not a pod that was admitted unchecked because
\* its controller's template was checked.
Enforced ==
    \A k \in Kinds : \A p \in owed[k] :
        PolicyOf[p].action = "enforce" => store[k] # None /\ ~Violates(p, store[k])

\* Reported, or excused: a resource that was created before it had a name is not reported.
Told == reported \cup Policies \X {k \in Kinds : store[k] # None /\ store[k].name = "x-7f"}

\* A stored resource that violates an "audit" policy it was admitted under has been
\* reported to the violation generator if it was created with a name; in place of a pod
\* that carries the annotation the controller that it was made for.
AuditReported ==
    \A k \in Kinds : \A p \in owed[k] :
        Violates(p, store[k]) =>
            <<p, IF checkPodTemplateAnn(store[k]) THEN "Deployment" ELSE k>> \in Told

\* A generate rule for a resource whoever creates it and whatever it contains.
GeneratesFor(p, r) ==
    \E rule \in RulesOf(p) :
        /\ rule.generates /\ MatchesUnnamed(r, rule)
        /\ rule.matchUser = AnyUser /\ rule.excludeUser = AnyUser /\ rule.when = Values

\* A stored resource that was created under a policy with a generate rule for it has its
\* generate request, although the denial of a creation leaves requests behind.
Generates ==
    \A k \in Kinds : \A p \in owed[k] :
        GeneratesFor(p, store[k]) => <<p, k>> \in generated \/ checkPodTemplateAnn(store[k])

\* Once the config map has filters that are no longer changed, the webhook filters by
\* exactly these, whatever it filtered by before.
FiltersFollow ==
    \A d \in ConfigMaps \ {None} :
        <>[](cm = <<"present", d>>) => <>[](filters = parseKinds(d))
=============================================================================

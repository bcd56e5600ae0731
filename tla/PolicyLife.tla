----------------------------- MODULE PolicyLife -----------------------------
(***************************************************************************)
(* A policy from its admission to its use: created or updated through the  *)
(* policy webhooks (PolicyRules), copied by a watch event into the cache   *)
(* of the informer, and applied from there to the resources of admission   *)
(* requests (Overlay, Pattern) and to existing resources (RuleMatch).      *)
(*                                                                         *)
(* The rules that the engine works on share their trees with the cache:    *)
(* substituting the variables of a request in a tree changes it for all    *)
(* later requests, until the next event of the policy.                     *)
(***************************************************************************)
EXTENDS PolicyRules

CONSTANTS Policies,  \* the policies that users submit first
          Later,     \* the policies that users submit afterwards
          MaxSubmits, \* how many policies are accepted (a bound)
          MaxRounds,  \* how often one resource is submitted for mutation (a bound)
          Resources, \* the resources that are submitted: [kind, name, ns, label, tree]
          Requests,  \* the users of requests: [info, ctx]
          Cluster,   \* the resources that a background scan meets
          Namespaces, \* the namespaces of the cluster
          Filters    \* the resource filters of the configuration

VARIABLES submits, \* how many policies have been accepted
          stored, \* the policy in the API server, or None
          cached, \* the policy as it is in the cache of the informer, or None
          source, \* the policy that the last event brought (history)
          obj,    \* the resource of the current request
          rounds, \* how often it has been mutated
          last    \* what the last request did (history)

vars == <<submits, stored, cached, source, obj, rounds, last>>

NoRequest == [op |-> "none"]

Init == /\ submits = 0
        /\ stored = None
        /\ cached = None
        /\ source = None
        /\ obj \in Resources
        /\ rounds = 0
        /\ last = NoRequest

----------------------------------------------------------------------------
(***************************************************************************)
(* The policy webhooks: mutation first, then validation of the result.     *)
(***************************************************************************)
Submit(create) ==
    /\ submits < MaxSubmits
    /\ \E policy \in IF submits = 0 THEN Policies ELSE Later :
          LET mutated == handlePolicyMutation(policy, create)
          IN  /\ handlePolicyValidation(mutated)
              /\ stored' = mutated
    /\ submits' = submits + 1
    /\ UNCHANGED <<cached, source, obj, rounds, last>>

CreatePolicy == stored = None /\ Submit(TRUE)

UpdatePolicy == stored # None /\ Submit(FALSE)

DeletePolicy == /\ stored # None
                /\ stored' = None
                /\ UNCHANGED <<submits, cached, source, obj, rounds, last>>

\* A watch event replaces the object in the cache.
PolicyEvent == /\ source # stored \/ cached # stored
               /\ cached' = stored
               /\ source' = stored
               /\ last' = NoRequest
               /\ UNCHANGED <<submits, stored, obj, rounds>>

----------------------------------------------------------------------------
(***************************************************************************)
(* The engine on one resource.  A run of the rules is a record [tree,      *)
(* rules, verdicts, panicked]: the resource patched so far, the rules with *)
(* the trees that substitution leaves behind, what each rule said ("none"  *)
(* for a rule that does not apply, "path" for one with a variable that is  *)
(* not present) and whether the request has panicked, which the HTTP       *)
(* server recovers from.                                                   *)
(***************************************************************************)
\* The variables of the match and exclude blocks and of the conditions that the context
\* does not have: with one of them the rule is answered without being matched.
MissingVariables(rule, ctx) ==
    {v \in rule.match.vars \cup rule.exclude.vars : ctx[v] = Nil}
      \cup UNION {ValidateVariables(ctx, c.key) \cup ValidateVariables(ctx, c.value) :
                      c \in rule.conditions}

Applies(rule, r, req) ==
    /\ MatchAdmissionInfo(rule, req.info)
    /\ MatchesResourceDescription(r, rule)
    /\ EvaluateConditions(req.ctx, rule.conditions)

\* The tree that stays in the cache: a tree with a missing variable is not substituted.
\* A string has no parts, so a tree that is only a string is not changed in place.
InPlace(ctx, tree) ==
    IF ValidateVariables(ctx, tree) # {} \/ TypeOf(tree) \notin {"map", "arr"} THEN tree
    ELSE SubstituteVariables(ctx, tree)

Start(policy, r) == [tree |-> r.tree, rules |-> policy.rules,
                     verdicts |-> [i \in DOMAIN policy.rules |-> "none"], panicked |-> FALSE]

(***************************************************************************)
(* A mutation takes three steps: the overlay, the patches and, for a pod   *)
(* controller, the annotation of its pod template.  The last one is made   *)
(* for every rule that applies, whatever the rule is for, unless the       *)
(* overlay was skipped.                                                    *)
(***************************************************************************)
Overlaid(st, i, ctx) ==
    LET overlay == st.rules[i].overlay
        After(out) ==
          [st EXCEPT !.rules[i].overlay = InPlace(ctx, @),
                     !.verdicts[i] = IF TypeOf(out) = "end" THEN out.end ELSE "mutated",
                     !.tree = IF TypeOf(out) = "end" THEN @ ELSE out.tree,
                     !.panicked = out = End("panic")]
    IN  IF overlay = None THEN {st} ELSE {After(out) : out \in ProcessOverlay(ctx, st.tree, overlay)}

Patched(st, i) ==
    LET out == ProcessPatches(st.tree, st.rules[i].patches)
        fails == TypeOf(out) = "end"
    IN  IF st.rules[i].patches = <<>> THEN st
        ELSE [st EXCEPT !.verdicts[i] = IF fails \/ @ = "fail" THEN "fail" ELSE "mutated",
                        !.tree = IF fails THEN @ ELSE out.tree]

podTemplateRule ==
    InTemplate(MapOf(<<"", "metadata">> :> MapOf(<<"", "annotations">> :>
        MapOf(<<"+", "autogen-applied">> :> [str |-> "true"]))))

\* The overlay of podTemplateRule has no conditions and no variables: there is one outcome.
AnnotateTemplate(tree) ==
    LET out == CHOOSE x \in processOverlayPatches(tree, podTemplateRule) : TRUE
    IN  IF TypeOf(out) = "end" THEN tree ELSE out.tree

Annotated(st, r) ==
    IF r.kind \in PodControllers THEN [st EXCEPT !.tree = AnnotateTemplate(@)] ELSE st

MutateRule(st, i, r, req) ==
    LET rule == st.rules[i]
        Finish(s) == IF s.panicked \/ s.verdicts[i] \in {"path", "skip"} THEN s
                     ELSE Annotated(Patched(s, i), r)
    IN  IF st.panicked \/ (~HasMutate(rule) /\ r.kind \notin PodControllers) THEN {st}
        ELSE IF MissingVariables(rule, req.ctx) # {} THEN {[st EXCEPT !.verdicts[i] = "path"]}
        ELSE IF ~Applies(rule, r, req) THEN {st}
        ELSE {Finish(s) : s \in Overlaid(st, i, req.ctx)}

ValidateRule(st, i, r, req) ==
    LET rule == st.rules[i]
        outs == IF rule.pattern # None
                THEN {[out |-> o, tried |-> 0] :
                          o \in ValidateResourceWithPattern(req.ctx, st.tree, rule.pattern)}
                ELSE validateAnyPattern(req.ctx, st.tree, rule.anyPattern)
        After(o) ==
          [st EXCEPT !.rules[i].pattern = IF @ = None THEN None ELSE InPlace(req.ctx, @),
                     !.rules[i].anyPattern =
                         [j \in DOMAIN @ |-> IF j <= o.tried THEN InPlace(req.ctx, @[j]) ELSE @[j]],
                     !.verdicts[i] = o.out,
                     !.panicked = o.out = "panic"]
    IN  IF ~HasValidate(rule) \/ st.panicked THEN {st}
        ELSE IF MissingVariables(rule, req.ctx) # {} THEN {[st EXCEPT !.verdicts[i] = "path"]}
        ELSE IF ~Applies(rule, r, req) THEN {st}
        ELSE {After(o) : o \in outs}

Run(Rule(_, _, _, _), policy, r, req) ==
    LET step(sts, i) == UNION {Rule(st, i, r, req) : st \in sts}
    IN  FoldLeft(step, {Start(policy, r)}, [i \in DOMAIN policy.rules |-> i])

Mutations(policy, r, req)   == Run(MutateRule, policy, r, req)
Validations(policy, r, req) == Run(ValidateRule, policy, r, req)

(***************************************************************************)
(* Admission requests.                                                     *)
(***************************************************************************)
NewResource == \E r \in Resources :
    /\ obj' = r
    /\ rounds' = 0
    /\ last' = NoRequest
    /\ UNCHANGED <<submits, stored, cached, source>>

\* The patches of a policy with a rule that fails are not sent.
Rejected(verdicts) == \E i \in DOMAIN verdicts : verdicts[i] \in {"fail", "panic"}

\* The annotation of the webhook on the resource itself is left out (see Admission).
MutateRequest == \E req \in Requests :
    /\ cached # None
    /\ rounds < MaxRounds
    /\ rounds' = rounds + 1
    /\ \E st \in Mutations(cached, obj, req) :
          /\ obj' = [obj EXCEPT !.tree = IF Rejected(st.verdicts) THEN @ ELSE st.tree]
          /\ cached' = [cached EXCEPT !.rules = st.rules]
          /\ last' = [op |-> "mutate", req |-> req, before |-> obj.tree,
                      verdicts |-> st.verdicts]
    /\ UNCHANGED <<submits, stored, source>>

ValidateRequest == \E req \in Requests :
    /\ cached # None
    /\ \E st \in Validations(cached, obj, req) :
          /\ cached' = [cached EXCEPT !.rules = st.rules]
          /\ last' = [op |-> "validate", req |-> req, verdicts |-> st.verdicts]
    /\ UNCHANGED <<submits, stored, source, obj, rounds>>

Next == \/ CreatePolicy \/ UpdatePolicy \/ DeletePolicy \/ PolicyEvent
        \/ NewResource \/ MutateRequest \/ ValidateRequest

Spec == Init /\ [][Next]_vars

----------------------------------------------------------------------------
(***************************************************************************)
(* Properties.                                                             *)
(***************************************************************************)
\* EXPECTATION.  documentation/writing-policies.md:89 says "Variables can be used to
\* reference attributes that are loaded in the context", the context of the request: what
\* a validation says is what the policy says with the values of this request.
VerdictOfTheRequest ==
    last.op = "validate" =>
        \E st \in Validations(source, obj, last.req) : st.verdicts = last.verdicts

\* A list in the overlay whose elements are added to the list of the resource.
RECURSIVE Appends(_)
Appends(o) ==
    CASE TypeOf(o) = "map" -> \E k \in DOMAIN o.map : Appends(o.map[k])
      [] TypeOf(o) = "arr" -> \E i \in DOMAIN o.arr :
                                  ~hasNestedAnchors(o.arr[i]) \/ Appends(o.arr[i])
      [] OTHER -> FALSE

\* The rules that changed the resource of the last request.
Mutated == IF last.op # "mutate" \/ Rejected(last.verdicts) THEN {}
           ELSE {i \in DOMAIN last.verdicts : last.verdicts[i] = "mutated"}

\* The API server may call the webhook again for the same object (on an update): a
\* resource that a rule has mutated, with an overlay or with patches, is left as it is the
\* second time, unless the overlay appends to lists.
SecondMutationIsIdle ==
    \A i \in Mutated :
        LET rule == cached.rules[i]
        IN  (rule.overlay # None => ~Appends(rule.overlay)) =>
                {st.tree : st \in Mutations([cached EXCEPT !.rules = <<rule>>], obj, last.req)}
                  = {obj.tree}

\* The overlay as a pattern: adding anchors say nothing about a resource.
RECURSIVE AsPattern(_)
AsPattern(o) ==
    CASE TypeOf(o) = "map" ->
            MapOf([k \in {n \in DOMAIN o.map : ~IsAddingAnchor(n)} |-> AsPattern(o.map[k])])
      [] TypeOf(o) = "arr" -> [arr |-> [i \in DOMAIN o.arr |-> AsPattern(o.arr[i])]]
      [] OTHER -> o

\* Mutation and validation agree on overlays: a resource that was mutated with an overlay,
\* and not with patches after it, satisfies it as a pattern, unless the overlay appends to
\* lists.
MutatedSatisfies ==
    \A i \in Mutated :
        LET rule == cached.rules[i]
            p    == AsPattern(rule.overlay)
        IN  rule.overlay # None /\ rule.patches = <<>> /\ ~Appends(p) =>
                validateResourceElement(obj.tree, p, p, <<>>) = {"pass"}

(***************************************************************************)
(* How trees before and after a mutation may differ when the overlays os   *)
(* have been laid over the first: a value is replaced by the one that an   *)
(* overlay has in its place; a map loses no key and a new key comes from a *)
(* plain key or an adding anchor; a list loses no element, its new ones    *)
(* come from an overlay, and the others may change only as the elements    *)
(* with anchors say, and only if the conditions hold of some element of    *)
(* the list.  The code then changes every element of the list              *)
(* (applyOverlayWithAnchors), not only those that meet the conditions, as  *)
(* documentation/writing-policies-mutate.md:151 and the comment at         *)
(* overlay.go:301 have it.                                                 *)
(***************************************************************************)
Replaces(o, tree) == ~SameType(o, tree) \/ TypeOf(o) \notin {"map", "arr"}

Meets(list, o) == \E r \in ToSet(list), e \in ToSet(o.arr) : "pass" \in checkConditions(r, e)

RECURSIVE Framed(_, _, _)
Framed(before, after, os) ==
    LET Under(k) == {o.map[k] : o \in {p \in os : k \in DOMAIN p.map}}
        Anchored == UNION {{e \in ToSet(o.arr) : hasNestedAnchors(e)} :
                               o \in {p \in os : Meets(before.arr, p)}}
        Appended == UNION {{removeAnchorFromSubTree(e) : e \in ToSet(o.arr)} : o \in os}
        From(o, k) == {removeAnchorFromSubTree(o.map[n]) :
                           n \in {k, <<"+", k[2]>>} \cap DOMAIN o.map}
    IN  \/ before = after
        \/ \E o \in os : /\ Replaces(o, before)
                         /\ Framed(removeAnchorFromSubTree(o), after, os \ {o})
        \/ /\ \A o \in os : ~Replaces(o, before)
           /\ TypeOf(before) = "map" /\ TypeOf(after) = "map"
           /\ DOMAIN before.map \subseteq DOMAIN after.map
           /\ \A k \in DOMAIN before.map : Framed(before.map[k], after.map[k], Under(k))
           /\ \A k \in DOMAIN after.map \ DOMAIN before.map :
                 \E v \in UNION {From(o, k) : o \in os} : Framed(v, after.map[k], Under(k))
        \/ /\ \A o \in os : ~Replaces(o, before)
           /\ TypeOf(before) = "arr" /\ TypeOf(after) = "arr"
           /\ Len(after.arr) >= Len(before.arr)
           /\ \A i \in DOMAIN after.arr :
                 IF i \in DOMAIN before.arr THEN Framed(before.arr[i], after.arr[i], Anchored)
                 ELSE after.arr[i] \in Appended

\* A mutation keeps what the overlay of the rule, and for a pod controller the annotation
\* of its template, do not name: nothing else is changed or removed, no condition or adding
\* anchor changes a value that is there (overlay.go:203), and a list is left alone when no
\* element meets the conditions for it.
MutationIsFramed ==
    /\ last.op = "mutate" /\ Cardinality(Mutated) <= 1
    /\ \A i \in Mutated : cached.rules[i].patches = <<>>
    => Framed(last.before, obj.tree,
              {cached.rules[i].overlay : i \in Mutated}
                \cup IF obj.kind \in PodControllers THEN {podTemplateRule} ELSE {})

----------------------------------------------------------------------------
RECURSIVE HasReference(_)
HasReference(p) ==
    CASE TypeOf(p) = "map" -> \E k \in DOMAIN p.map : HasReference(p.map[k])
      [] TypeOf(p) = "arr" -> \E i \in DOMAIN p.arr : HasReference(p.arr[i])
      [] TypeOf(p) = "str" -> Meaning[p.str].reference # None
      [] OTHER -> FALSE

(***************************************************************************)
(* What documentation/writing-policies-validate.md says of a pattern       *)
(* (lines 41 to 46).  "If tag with the given value (including child        *)
(* elements) is specified, then peer elements will be processed": the      *)
(* fields with condition anchors, when they are all there and hold, ask    *)
(* for the others.  An equality anchor binds a field that is there, an     *)
(* existence anchor asks for a list with one element that satisfies its    *)
(* pattern, and a negation anchor for no field.                            *)
(***************************************************************************)
RECURSIVE Conforms(_, _)

Holds(f, g, k) ==
    LET name  == removeAnchor(k)
        there == name \in DOMAIN f
    IN  CASE IsNegationAnchor(k)  -> ~there
          [] IsConditionAnchor(k) -> there /\ Conforms(f[name], g[k])
          [] IsEqualityAnchor(k)  -> there => Conforms(f[name], g[k])
          [] IsExistenceAnchor(k) -> /\ there /\ TypeOf(f[name]) = "arr"
                                     /\ \E r \in ToSet(f[name].arr) : Conforms(r, g[k].arr[1])
          [] OTHER -> IF IsStar(g[k]) THEN there /\ f[name] # Nil
                      ELSE Conforms(At(f, name), g[k])

Conforms(r, p) ==
    CASE TypeOf(p) = "map" ->
            /\ TypeOf(r) = "map"
            /\ (\A k \in ConditionKeys(p.map) : Holds(r.map, p.map, k))
                 => \A k \in DOMAIN p.map \ ConditionKeys(p.map) : Holds(r.map, p.map, k)
      [] TypeOf(p) = "arr" ->
            /\ TypeOf(r) = "arr" /\ p.arr # <<>>
            /\ IF TypeOf(p.arr[1]) = "map" THEN \A i \in DOMAIN r.arr : Conforms(r.arr[i], p.arr[1])
               ELSE \A i \in DOMAIN p.arr : i \in DOMAIN r.arr /\ Conforms(r.arr[i], p.arr[i])
      [] OTHER -> ValidateValueWithPattern(r, p)

\* The pairs of a map of the resource and the map of the pattern that it is compared with,
\* and of a list and a list.
RECURSIVE Compared(_, _)
Compared(r, p) ==
    {<<r, p>>} \cup
      CASE TypeOf(r) = "map" /\ TypeOf(p) = "map" ->
              UNION {Compared(r.map[removeAnchor(k)], p.map[k]) :
                         k \in {n \in DOMAIN p.map : removeAnchor(n) \in DOMAIN r.map}}
        [] TypeOf(r) = "arr" /\ TypeOf(p) = "arr" /\ p.arr # <<>> ->
              IF TypeOf(p.arr[1]) = "map" THEN UNION {Compared(x, p.arr[1]) : x \in ToSet(r.arr)}
              ELSE UNION {Compared(r.arr[i], p.arr[i]) : i \in DOMAIN r.arr \cap DOMAIN p.arr}
        [] OTHER -> {}

\* Where the code departs from the document: a condition or an existence anchor holds of a
\* field that is absent, an existence anchor over values fails, and next to a condition
\* that fails the order of the map decides whether another anchor that fails counts.
Departs(f, g) ==
    LET keys == GetAnchors(g)
    IN  \/ \E k \in keys : /\ IsConditionAnchor(k) \/ IsExistenceAnchor(k)
                           /\ removeAnchor(k) \notin DOMAIN f
        \/ \E k \in keys : IsExistenceAnchor(k) /\ TypeOf(g[k].arr[1]) # "map"
        \/ /\ \E k \in ConditionKeys(g) : ~Holds(f, g, k)
           /\ \E k \in keys \ ConditionKeys(g) : ~Holds(f, g, k)

Undocumented(r, p) ==
    \E c \in Compared(r, p) : /\ TypeOf(c[1]) = "map" /\ TypeOf(c[2]) = "map"
                              /\ Departs(c[1].map, c[2].map)

\* A list of values in the pattern is longer than the list of the resource.
Short(r, p) ==
    \E c \in Compared(r, p) : /\ TypeOf(c[1]) = "arr" /\ TypeOf(c[2]) = "arr"
                              /\ Len(c[1].arr) < Len(c[2].arr) /\ TypeOf(c[2].arr[1]) # "map"

\* The verdict on a resource is the documented one whatever order Go visits the maps in,
\* for every accepted pattern without references, on all resources but those on which the
\* code is known to depart from the document (Departs); and the validation panics only
\* where the resource has fewer values in a list than the pattern.
VerdictIsDocumented ==
    cached # None =>
        \A i \in DOMAIN cached.rules :
            LET p == cached.rules[i].pattern
            IN  p # None /\ ~HasReference(p) =>
                    \A out \in validateResourceElement(obj.tree, p, p, <<>>) :
                        IF out = "panic" THEN Short(obj.tree, p)
                        ELSE Undocumented(obj.tree, p) \/ out = Verdict(Conforms(obj.tree, p))

----------------------------------------------------------------------------
RECURSIVE HasAbsolute(_)
HasAbsolute(p) ==
    CASE TypeOf(p) = "map" -> \E k \in DOMAIN p.map : HasAbsolute(p.map[k])
      [] TypeOf(p) = "arr" -> \E i \in DOMAIN p.arr : HasAbsolute(p.arr[i])
      [] TypeOf(p) = "str" -> /\ Meaning[p.str].reference # None
                              /\ Meaning[p.str].reference.absolute
      [] OTHER -> FALSE

\* What the generated rule keeps of the rule it comes from.
KeptWhole(rule) ==
    /\ rule.exclude.kinds # {} \/ (rule.exclude = AnyResource /\ rule.excludeUser = AnyUser)
    /\ rule.conditions = {}
    /\ rule.patches = <<>>
    /\ rule.pattern # None => ~HasAbsolute(rule.pattern)

Deployed(r) == [r EXCEPT !.kind = "Deployment", !.tree = InTemplate(@)]

\* A rule generated for pod controllers says of a Deployment what the rule for pods says
\* of the pods of its template, and mutates the template like the pod but for the
\* annotation of the template, unless parts of the rule are lost: an exclude block without
\* kinds, preconditions, patches next to an overlay, and references from the root of the
\* pattern (policymutation.go:229).
AutogenAgrees ==
    stored # None =>
        \A i, j \in DOMAIN stored.rules :
            LET rule == stored.rules[i]  gen == stored.rules[j]
            IN  /\ gen.name = <<"autogen">> \o rule.name
                /\ "Deployment" \in gen.match.kinds
                /\ obj.kind = "Pod" /\ KeptWhole(rule)
                => \A req \in Requests :
                     LET one == [stored EXCEPT !.rules = <<rule>>]
                         two == [stored EXCEPT !.rules = <<gen>>]
                     IN  /\ {st.verdicts : st \in Validations(one, obj, req)}
                              = {st.verdicts : st \in Validations(two, Deployed(obj), req)}
                         /\ {AnnotateTemplate(InTemplate(st.tree)) : st \in Mutations(one, obj, req)}
                              = {AnnotateTemplate(st.tree) : st \in Mutations(two, Deployed(obj), req)}

\* Requests that differ only in what depends on the user.
SameButUser(a, b) == \A v \in DOMAIN a.ctx \ filterVars : a.ctx[v] = b.ctx[v]

\* The rules without variables in their match and exclude blocks, where ContainsUserInfo
\* does not look for them.
PlainlyMatched(policy) ==
    [policy EXCEPT !.rules = SelectSeq(@, LAMBDA rule : rule.match.vars \cup rule.exclude.vars = {})]

\* A policy that is accepted for background processing, where there is no user, treats a
\* resource in the same way whoever submits it (background.go:11), by all its rules but
\* those with a variable in the match or the exclude block: such a rule is answered with a
\* missing path for the users that lack it and applied for the others.
BackgroundIgnoresUser ==
    stored # None /\ stored.background =>
        LET policy == PlainlyMatched(stored)
        IN  \A a, b \in Requests : SameButUser(a, b) =>
              /\ {st.verdicts : st \in Validations(policy, obj, a)}
                   = {st.verdicts : st \in Validations(policy, obj, b)}
              /\ {<<st.tree, st.verdicts>> : st \in Mutations(policy, obj, a)}
                   = {<<st.tree, st.verdicts>> : st \in Mutations(policy, obj, b)}

\* The background scan meets only resources that a rule applies to and that are not
\* filtered; and for a rule without exclude block and without patterns in its namespaces,
\* all of those that have a namespace (existing.go:51).
ScanIsExact ==
    stored # None =>
        \A i \in DOMAIN stored.rules :
            ListsExactly(Cluster, Namespaces, stored.rules[i], Filters)
=============================================================================

------------------------------- MODULE Engine -------------------------------
(***************************************************************************)
(* One policy applied to one resource (pkg/engine: Mutate, Validate and    *)
(* Generate), rule by rule.  What an overlay, a JSON patch or a pattern    *)
(* does with a resource is the subject of Overlay and Pattern: here a rule *)
(* maps the value of a resource to an outcome.                             *)
(*                                                                         *)
(* A resource has, besides what rules match on, a value v (of a pod        *)
(* controller: of its pod template), the flag auto (the annotation         *)
(* autogen-applied, of a pod controller: in its template) and the state    *)
(* ann of its annotations: "nil", "user" or "kyverno", the last when the   *)
(* annotation policies.kyverno.patches is among them.  Its name is empty   *)
(* as long as only generateName is given.                                  *)
(***************************************************************************)
EXTENDS RuleMatch, Naturals, SequencesExt

CONSTANTS Values,     \* values of resources
          PolicyOf    \* the policies by name: records with rules and an action

Kinds == {"Pod", "Deployment"}

\* No name yet, a name that was given, and one that the API server has made.
Names == {"", "x", "x-7f"}

Resource ==
    [kind : Kinds, ns : {"ns"}, name : Names, label : {"l"}, v : Values,
     auto : BOOLEAN, ann : {"nil", "user", "kyverno"}]

\* A rule has these fields besides those of RuleMatch:
\*   name
\*   overlay  None, or what it does to a value: "skip", "path", "fail" or a new value
\*   annotates  whether the overlay also adds an annotation
\*   patches  None, or what the JSON patches do to a value: "fail" or a new value
\*   pattern  None, or the outcome of a value: "pass", "path" or where it fails
\*   generates  whether it is a generate rule
\*   when     the values of the context for which the preconditions hold
\*   missing  the values of the context that lack a path its variables refer to
Rule == [name |-> "", match |-> AnyResource, exclude |-> AnyResource,
         matchUser |-> AnyUser, excludeUser |-> AnyUser,
         overlay |-> None, annotates |-> FALSE, patches |-> None, pattern |-> None,
         generates |-> FALSE, when |-> {}, missing |-> {}]

Policies == DOMAIN PolicyOf
RulesOf(p) == ToSet(PolicyOf[p].rules)
AllRules == UNION {RulesOf(p) : p \in Policies}

\* Rules are named uniquely: validateUniqueRuleName of the policy webhook.
ASSUME EngineAssumption ==
    /\ None \notin Resource
    /\ IsFiniteSet(Policies)
    /\ \A p \in Policies :
        /\ PolicyOf[p].name = p /\ PolicyOf[p].rules \in Seq(RulesOf(p))
        /\ \A i, j \in DOMAIN PolicyOf[p].rules :
               PolicyOf[p].rules[i].name = PolicyOf[p].rules[j].name => i = j
    /\ \A rule \in AllRules :
        /\ rule.overlay \in [Values -> Values \cup {"skip", "path", "fail"}] \cup {None}
        /\ rule.patches \in [Values -> Values \cup {"fail"}] \cup {None}

PodControllers == {"DaemonSet", "Deployment", "Job", "StatefulSet"}

HasMutate(rule) == rule.overlay # None \/ rule.patches # None

\* What a loop makes of the value it starts with: its steps are functions, in their order.
Iterate(steps, base) ==
    LET after[i \in 0..Len(steps)] == IF i = 0 THEN base ELSE steps[i][after[i - 1]]
    IN  after[Len(steps)]

(***************************************************************************)
(* JSON patches.  An operation that needs the annotations of the resource  *)
(* fails without them; None stands for a resource that is not to be had.   *)
(***************************************************************************)
Op == [op : {"value"}, v : Values] \cup [op : {"template"}, v : {"true"}]
        \cup [op : {"annotations", "annotation", "replace"}, v : {"user", "kyverno"}]

ApplyOp(r, op) ==
    IF r = None THEN None
    ELSE CASE op.op = "value"    -> [r EXCEPT !.v = op.v]
           [] op.op = "template" -> [r EXCEPT !.auto = @ \/ r.kind \in PodControllers]
           [] op.op = "annotations" -> [r EXCEPT !.ann = op.v]
           [] op.op = "annotation" ->
                IF r.ann = "nil" THEN None
                ELSE [r EXCEPT !.ann = IF "kyverno" \in {op.v, @} THEN "kyverno" ELSE @]
           [] op.op = "replace" -> IF r.ann # "kyverno" THEN None ELSE r

ApplyPatches(r, patches) ==
    Iterate([i \in DOMAIN patches |-> [x \in Resource \cup {None} |-> ApplyOp(x, patches[i])]], r)

(***************************************************************************)
(* Rule responses.  The message is the outcome: isSameRules compares it.   *)
(***************************************************************************)
RuleNames == {rule.name : rule \in AllRules} \cup {"", "autogen-annotate-podtemplate"}
RuleResponse == [name : RuleNames, success : BOOLEAN, path : BOOLEAN,
                 message : {"ok", "skip", "path", "fail"}, patches : Seq(Op)]
EngineResponse == [policy : Policies, name : Names, rules : Seq(RuleResponse),
                   resource : Resource]

Response(rule, success, path, message, patches) ==
    [name |-> rule, success |-> success, path |-> path, message |-> message,
     patches |-> patches]

newPathNotPresentRuleResponse(rule) == Response(rule.name, TRUE, TRUE, "path", <<>>)

\* A response that nothing was done for is not appended.
Skipped == Response("", TRUE, FALSE, "skip", <<>>)

IsSuccesful(er)     == \A i \in DOMAIN er.rules : er.rules[i].success
IsPathNotPresent(er) == \E i \in DOMAIN er.rules : er.rules[i].path

GetPatches(er) ==
    Iterate([i \in DOMAIN er.rules |-> [ps \in Seq(Op) |-> ps \o er.rules[i].patches]], <<>>)

AnnotationOp(r) == IF r.ann = "nil" THEN [op |-> "annotations", v |-> "user"]
                   ELSE [op |-> "annotation", v |-> "user"]

ProcessOverlay(rule, r) ==
    LET out == rule.overlay[r.v]
        ops == <<[op |-> "value", v |-> out]>>
                 \o IF rule.annotates THEN <<AnnotationOp(r)>> ELSE <<>>
    IN  CASE out = "path" -> newPathNotPresentRuleResponse(rule)
          [] out = "skip" -> Skipped
          [] out = "fail" -> Response(rule.name, FALSE, FALSE, "fail", <<>>)
          [] OTHER        -> Response(rule.name, TRUE, FALSE, "ok", ops)

ProcessPatches(rule, r) ==
    LET out == rule.patches[r.v]
    IN  IF out = "fail" THEN Response(rule.name, FALSE, FALSE, "fail", <<>>)
        ELSE Response(rule.name, TRUE, FALSE, "ok", <<[op |-> "value", v |-> out]>>)

\* podTemplateRule adds the annotation to a pod template that lacks it.
PodTemplate(r) ==
    IF r.auto THEN Skipped
    ELSE Response("autogen-annotate-podtemplate", TRUE, FALSE, "ok",
                  <<[op |-> "template", v |-> "true"]>>)

\* Conditions that every kind of rule checks before it is applied; ctx is the value of
\* the resource in the request, patched or not.
Applies(rule, r, ctx, info) ==
    /\ MatchAdmissionInfo(rule, info)
    /\ MatchesResourceDescription(r, rule)
    /\ ctx \in rule.when

Append1(er, resp) ==
    IF resp = Skipped THEN er
    ELSE [er EXCEPT !.rules = Append(@, resp), !.resource = ApplyPatches(@, resp.patches)]

(***************************************************************************)
(* Mutate.  The rules match the resource as it was before the policy; each *)
(* overlay and patch works on the resource patched so far.  The template   *)
(* of a pod controller is annotated by any rule that applies, even by one  *)
(* that does not mutate.  A rule whose overlay does not apply is left      *)
(* before its patches and the annotation.                                  *)
(***************************************************************************)
Patched(er, rule) ==
    IF rule.patches = None THEN er
    ELSE Append1(er, ProcessPatches(rule, er.resource))

Annotated(er, annotate) ==
    IF annotate THEN Append1(er, PodTemplate(er.resource)) ELSE er

Overlaid(er, rule, overlaid, annotate) ==
    IF rule.overlay # None /\ (overlaid = Skipped \/ overlaid.path) THEN Append1(er, overlaid)
    ELSE Annotated(Patched(Append1(er, overlaid), rule), annotate)

ApplyRule(er, rule, r, ctx, info) ==
    IF ~HasMutate(rule) /\ r.kind \notin PodControllers THEN er
    ELSE IF ctx \in rule.missing THEN Append1(er, newPathNotPresentRuleResponse(rule))
    ELSE IF ~Applies(rule, r, ctx, info) THEN er
    ELSE Overlaid(er, rule,
                  IF rule.overlay = None THEN Skipped ELSE ProcessOverlay(rule, er.resource),
                  info # None /\ r.kind \in PodControllers)

Mutate(policy, r, ctx, info) ==
    Iterate([i \in DOMAIN policy.rules |->
                [er \in EngineResponse |-> ApplyRule(er, policy.rules[i], r, ctx, info)]],
            [policy |-> policy.name, name |-> r.name, rules |-> <<>>, resource |-> r])

(***************************************************************************)
(* Validate.  On an update the old and the new resource are both           *)
(* evaluated, and there is no response when the two evaluations agree.     *)
(* The rule responses are kept by the index of their rule: the names of    *)
(* the rules of a policy are unique, so the lists of two evaluations are   *)
(* equal when the rules that responded and their responses are.            *)
(***************************************************************************)
validatePatterns(rule, r) ==
    LET out == rule.pattern[r.v]
    IN  Response(rule.name, out \in {"pass", "path"}, out = "path", out, <<>>)

validateResource(policy, r, ctx, info) ==
    LET rule(i) == policy.rules[i]
        responding == {i \in DOMAIN policy.rules :
                         /\ rule(i).pattern # None
                         /\ ctx \in rule(i).missing \/ Applies(rule(i), r, ctx, info)}
    IN  [policy |-> policy.name, name |-> r.name,
         rules |-> [i \in responding |->
                       IF ctx \in rule(i).missing THEN newPathNotPresentRuleResponse(rule(i))
                       ELSE validatePatterns(rule(i), r)]]

isSameResponse(old, new) == old.rules = new.rules

Validate(policy, new, old, ctx, info) ==
    LET response == validateResource(policy, new, ctx, info)
    IN  IF old # None /\ isSameResponse(validateResource(policy, old, ctx, info), response)
        THEN {} ELSE {response}

(***************************************************************************)
(* Generate only selects the rules that apply; a rule whose variables      *)
(* refer to a missing path counts as one that does, whatever its kind.     *)
(***************************************************************************)
filterRules(policy, r, ctx, info) ==
    {rule \in ToSet(policy.rules) :
        ctx \in rule.missing \/ (rule.generates /\ Applies(rule, r, ctx, info))}
=============================================================================

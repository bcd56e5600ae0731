---------------------------- MODULE PolicyRules ----------------------------
(***************************************************************************)
(* What the webhooks do with a policy that is created or updated: fill in  *)
(* the defaults and generate rules for pod controllers                     *)
(* (pkg/webhooks/policymutation.go), then accept or refuse it              *)
(* (pkg/webhooks/policyvalidation.go, pkg/engine/policy).                  *)
(*                                                                         *)
(* A policy has its rules (a sequence), background (None, TRUE or FALSE),  *)
(* action ("" when the validation failure action is not given) and         *)
(* controllers, the annotation autogen-controllers: None or the set of the *)
(* names in it, which may be "all" or "none".  A rule has a name, a        *)
(* sequence that starts with "autogen" for a generated rule; what it       *)
(* matches and excludes (RuleMatch); its conditions; and an overlay, a     *)
(* sequence of patches, a pattern, a sequence anyPattern and what it       *)
(* generates.  A patch has an op, a value and a path that leads through    *)
(* maps.  A role is a sequence, <<namespace, name>> when it is well-formed.*)
(***************************************************************************)
EXTENDS Overlay

CONSTANTS BadSelector, \* a selector that cannot be converted
          AllLabels    \* all labels: what a selector without requirements selects

INSTANCE RuleMatch

PolicyRule ==
    [name |-> <<>>, match |-> AnyResource, exclude |-> AnyResource,
     matchUser |-> AnyUser, excludeUser |-> AnyUser, conditions |-> {},
     overlay |-> None, patches |-> <<>>, pattern |-> None, anyPattern |-> <<>>,
     generate |-> None]

HasMutate(rule)   == rule.overlay # None \/ rule.patches # <<>>
HasValidate(rule) == rule.pattern # None \/ rule.anyPattern # <<>>
HasGenerate(rule) == rule.generate # None

PodControllers == {"DaemonSet", "Deployment", "Job", "StatefulSet"}

----------------------------------------------------------------------------
(***************************************************************************)
(* Rules for pod controllers.  Neither the conditions of a rule nor an     *)
(* exclude block without kinds find their way into the generated rule.     *)
(***************************************************************************)
InTemplate(tree) == MapOf(<<"", "spec">> :> MapOf(<<"", "template">> :> tree))

\* Name and selector may not be applicable to pod controllers.
NamesPods(rule) == \E d \in {rule.match, rule.exclude} : d.name # None \/ d.selector # None

(* Mutated form: the exclude block keeps its kinds. *)
generateRuleSharingExclude(rule, controllers) ==
    IF "Pod" \notin rule.match.kinds \/ ~HasValidate(rule) \/ rule.pattern = None THEN None
    ELSE [PolicyRule EXCEPT !.name = <<"autogen">> \o rule.name,
                            !.match = [rule.match EXCEPT !.kinds = PodControllers],
                            !.matchUser = rule.matchUser,
                            !.exclude = rule.exclude, !.excludeUser = rule.excludeUser,
                            !.pattern = InTemplate(rule.pattern)]

generateRuleForControllers(rule, controllers) ==
    LET kinds == IF controllers = {"all"} THEN PodControllers ELSE controllers
        copied == rule.exclude.kinds # {}
        base == [PolicyRule EXCEPT
                    !.name      = <<"autogen">> \o rule.name,
                    !.match     = [rule.match EXCEPT !.kinds = kinds],
                    !.matchUser = rule.matchUser,
                    !.exclude   = IF copied THEN [rule.exclude EXCEPT !.kinds = kinds] ELSE @,
                    !.excludeUser = IF copied THEN rule.excludeUser ELSE @]
    IN  CASE \/ "Pod" \notin rule.match.kinds
             \/ rule.exclude.kinds # {} /\ "Pod" \notin rule.exclude.kinds
             \/ rule.overlay = None /\ ~HasValidate(rule)
             \/ controllers = {"all"} /\ NamesPods(rule) -> None
          [] OTHER ->
             IF rule.overlay # None
             THEN [base EXCEPT !.overlay = InTemplate(rule.overlay)]
             ELSE IF rule.pattern # None
             THEN [base EXCEPT !.pattern = InTemplate(rule.pattern)]
             ELSE [base EXCEPT !.anyPattern = [i \in DOMAIN rule.anyPattern |->
                                                  InTemplate(rule.anyPattern[i])]]

generateRulePatches(policy, controllers) ==
    LET generated == [i \in DOMAIN policy.rules |->
                         generateRuleForControllers(policy.rules[i], controllers)]
    IN  SelectSeq(generated, LAMBDA rule : rule # None)

generatePodControllerRule(policy) ==
    LET controllers == IF policy.controllers = None THEN {"all"} ELSE policy.controllers
    IN  IF controllers = {"none"} THEN policy
        ELSE [policy EXCEPT !.rules = @ \o generateRulePatches(policy, controllers),
                            !.controllers = controllers]

defaultBackgroundFlag(policy) ==
    [policy EXCEPT !.background = IF @ = None THEN TRUE ELSE @]

defaultvalidationFailureAction(policy) ==
    [policy EXCEPT !.action = IF @ = "" THEN "audit" ELSE @]

handlePolicyMutation(policy, create) ==
    LET defaulted == defaultBackgroundFlag(defaultvalidationFailureAction(policy))
    IN  IF create THEN generatePodControllerRule(defaulted) ELSE defaulted

----------------------------------------------------------------------------
(***************************************************************************)
(* A policy with background processing must not depend on the user.        *)
(***************************************************************************)
(* Mutated form: subjects are not looked at. *)
rolesDefined(ui) == ui.roles # {} \/ ui.clusterRoles # {}

userInfoDefined(ui) == ui # AnyUser

filterVars == {"request.userInfo", "serviceAccountName", "serviceAccountNamespace"}

\* The search answers true whether or not it finds one of the variables.
variablePatternSearch(variable) == variable \in filterVars \/ TRUE

CheckVariables(tree) == \E v \in extractVariables(tree) : variablePatternSearch(v)

ContainsUserInfo(policy) ==
    \E i \in DOMAIN policy.rules :
        LET rule == policy.rules[i]
        IN  \/ userInfoDefined(rule.matchUser)
            \/ userInfoDefined(rule.excludeUser)
            \/ \E c \in rule.conditions : CheckVariables(c.key) \/ CheckVariables(c.value)
            \/ rule.overlay # None /\ CheckVariables(rule.overlay)
            \/ rule.pattern # None /\ CheckVariables(rule.pattern)
            \/ \E j \in DOMAIN rule.anyPattern : CheckVariables(rule.anyPattern[j])

----------------------------------------------------------------------------
(***************************************************************************)
(* The checks of a rule.                                                   *)
(***************************************************************************)
RECURSIVE validatePattern(_, _)
validatePattern(tree, supported) ==
    CASE TypeOf(tree) = "map" ->
            \A k \in DOMAIN tree.map :
                /\ k[1] \in supported \cup {""}
                /\ IsExistenceAnchor(k) => TypeOf(tree.map[k]) = "arr" /\ Len(tree.map[k].arr) = 1
                /\ validatePattern(tree.map[k], supported)
      [] TypeOf(tree) = "arr" -> \A i \in DOMAIN tree.arr : validatePattern(tree.arr[i], supported)
      [] OTHER -> TRUE

validateUniqueRuleName(policy) ==
    \A i, j \in DOMAIN policy.rules : policy.rules[i].name = policy.rules[j].name => i = j

validateRuleType(rule) ==
    Cardinality({op \in {"mutate", "validate", "generate"} :
        CASE op = "mutate"   -> HasMutate(rule)
          [] op = "validate" -> HasValidate(rule)
          [] op = "generate" -> HasGenerate(rule)}) = 1

validateResourceDescription(rd) == rd.selector \notin {BadSelector, AllLabels}

validateMatchedResourceDescription(rd) == rd.kinds # {} /\ validateResourceDescription(rd)

validateExcludeResourceDescription(rd) == rd # AnyResource => validateResourceDescription(rd)

validateRoles(roles) == \A role \in roles : Len(role) = 2

validateSubjects(subjects) == \A s \in subjects : s.kind = "ServiceAccount" => s.ns # None

validateUserInfo(rule) ==
    \A ui \in {rule.matchUser, rule.excludeUser} :
        validateRoles(ui.roles) /\ validateSubjects(ui.subjects)

validateResources(rule) ==
    /\ validateUserInfo(rule)
    /\ validateMatchedResourceDescription(rule.match)
    /\ validateExcludeResourceDescription(rule.exclude)

validatePatch(pp) ==
    /\ pp.path # None
    /\ pp.op \in {"add", "replace", "remove"}
    /\ pp.op # "remove" => pp.value # None

validateMutation(rule) ==
    /\ \A i \in DOMAIN rule.patches : validatePatch(rule.patches[i])
    /\ rule.overlay # None => validatePattern(rule.overlay, {"(", "+"})

validateOverlayPattern(rule) == (rule.pattern # None) # (rule.anyPattern # <<>>)

validateValidation(rule) ==
    LET anchors == {"(", "^", "=", "X"}
    IN  /\ validateOverlayPattern(rule)
        /\ rule.pattern # None => validatePattern(rule.pattern, anchors)
        /\ \A i \in DOMAIN rule.anyPattern : validatePattern(rule.anyPattern[i], anchors)

validateClone(c) == c.name # None /\ c.ns # None

validateGeneration(gen) ==
    /\ (gen.data = None) # (gen.clone = None)
    /\ gen.name # None /\ gen.kind # None
    /\ gen.clone # None => validateClone(gen.clone)
    /\ gen.data # None => validatePattern(gen.data, {})

\* A policy whose background flag was not defaulted is not checked further.
Validate(policy) ==
    /\ validateUniqueRuleName(policy)
    /\ policy.background # None =>
        /\ policy.background => ~ContainsUserInfo(policy)
        /\ \A i \in DOMAIN policy.rules :
              LET rule == policy.rules[i]
              IN  /\ validateRuleType(rule)
                  /\ validateResources(rule)
                  /\ HasMutate(rule) => validateMutation(rule)
                  /\ HasValidate(rule) => validateValidation(rule)
                  /\ HasGenerate(rule) => validateGeneration(rule.generate)

handlePolicyValidation(policy) == Validate(policy)
=============================================================================

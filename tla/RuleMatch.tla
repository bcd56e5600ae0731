----------------------------- MODULE RuleMatch -----------------------------
(***************************************************************************)
(* Which resources and requests a rule applies to: the engine's matching   *)
(* (pkg/engine/utils.go, pkg/engine/rbac), the roles of a request          *)
(* (pkg/userinfo) and the selection of existing resources by the           *)
(* background scan (pkg/policy/existing.go).                               *)
(*                                                                         *)
(* A wildcard pattern is the set of strings it matches, a label selector   *)
(* the set of label values it selects, and None stands for an empty        *)
(* pattern or a missing selector.  The namespace of a cluster-wide         *)
(* resource is None.                                                       *)
(***************************************************************************)
EXTENDS FiniteSets

CONSTANTS None,       \* an absent value
          BadSelector \* a selector that LabelSelectorAsSelector refuses

\* A resource description without any criterion; vars are the variables that occur in its
\* strings, which matching does not substitute.
AnyResource == [kinds |-> {}, name |-> None, namespaces |-> {}, selector |-> None, vars |-> {}]
\* No roles, no cluster roles and no subjects.
AnyUser == [roles |-> {}, clusterRoles |-> {}, subjects |-> {}]

findKind(kinds, kind) == kind \in kinds

ContainsNamepace(patterns, ns) == \E p \in patterns : ns \in p

Selects(selector, label) == selector # BadSelector /\ label \in selector

(***************************************************************************)
(* The exclude block.  A criterion that is not given is not evaluated; the *)
(* others say "skip" when they hold of the resource and "process" when     *)
(* they do not.                                                            *)
(***************************************************************************)
Condition(given, holds) ==
    IF ~given THEN {} ELSE IF holds THEN {"skip"} ELSE {"process"}

excludeEval(x, r) ==
    UNION { Condition(x.name # None, x.name # None => r.name \in x.name),
            Condition(x.namespaces # {}, ContainsNamepace(x.namespaces, r.ns)),
            Condition(x.selector # None,
                      x.selector \notin {None, BadSelector} => r.label \in x.selector),
            Condition(x.kinds # {}, findKind(x.kinds, r.kind)) }

MatchesResourceDescription(r, rule) ==
    LET m == rule.match
        evals == excludeEval(rule.exclude, r)
    IN  /\ findKind(m.kinds, r.kind)
        /\ m.name # None => r.name \in m.name
        /\ m.namespaces # {} => ContainsNamepace(m.namespaces, r.ns)
        /\ m.selector # None => Selects(m.selector, r.label)
        /\ evals = {} \/ "process" \in evals

(***************************************************************************)
(* Admission information: a user has a name, groups, whether its name      *)
(* contains the prefix of service accounts, and sa: the namespace and name *)
(* that its name is read as when as many characters as the prefix has are  *)
(* skipped, or None.                                                       *)
(***************************************************************************)
\* The skipped characters are not compared with the prefix.
matchSubjects(subjects, user) ==
    \E s \in subjects :
        IF s.kind = "ServiceAccount" THEN user.sa = <<s.ns, s.name>>
        ELSE s.name \in user.groups \cup {user.name}

validateMatch(m, info) ==
    /\ m.roles # {} => m.roles \cap info.roles # {}
    /\ m.clusterRoles # {} => m.clusterRoles \cap info.clusterRoles # {}
    /\ m.subjects # {} => matchSubjects(m.subjects, info.user)

validateExclude(x, info) ==
    /\ x.roles \cap info.roles = {}
    /\ x.clusterRoles \cap info.clusterRoles = {}
    /\ ~matchSubjects(x.subjects, info.user)

\* Existing resources are processed without a request: info is None.
MatchAdmissionInfo(rule, info) ==
    info # None => /\ validateMatch(rule.matchUser, info)
                   /\ validateExclude(rule.excludeUser, info)

(***************************************************************************)
(* The roles of a request, from the role bindings and cluster role         *)
(* bindings of the informers.  A binding whose ns is None is a cluster     *)
(* role binding.                                                           *)
(***************************************************************************)
matchSubjectsMap(subject, user) ==
    IF user.prefixed THEN user.sa = <<subject.ns, subject.name>>
    ELSE subject.name \in user.groups \cup {user.name}

Granting(bindings, user) ==
    {b \in bindings : \E s \in b.subjects : matchSubjectsMap(s, user)}

getRoleRefByRoleBindings(bindings, user) ==
    LET granted == Granting({b \in bindings : b.ns # None}, user)
    IN  [roles        |-> {<<b.ns, b.ref>> : b \in {g \in granted : g.refKind = "Role"}},
         clusterRoles |-> {b.ref : b \in {g \in granted : g.refKind = "ClusterRole"}}]

getRoleRefByClusterRoleBindings(bindings, user) ==
    {b.ref : b \in {g \in Granting({c \in bindings : c.ns = None}, user) :
                        g.refKind = "ClusterRole"}}

GetRoleRef(bindings, user) ==
    LET named == getRoleRefByRoleBindings(bindings, user)
    IN  [roles |-> named.roles,
         clusterRoles |-> named.clusterRoles
                              \cup getRoleRefByClusterRoleBindings(bindings, user)]

\* The roles of the request are looked up only for policies that match on roles.
containRBACinfo(rules) ==
    \E rule \in rules : rule.matchUser.roles # {} \/ rule.matchUser.clusterRoles # {}

RequestInfo(rules, bindings, user) ==
    LET found == IF containRBACinfo(rules) THEN GetRoleRef(bindings, user)
                 ELSE [roles |-> {}, clusterRoles |-> {}]
    IN  [roles |-> found.roles, clusterRoles |-> found.clusterRoles, user |-> user]

(***************************************************************************)
(* A filter of the configuration names kind, namespace and name by         *)
(* patterns (ConfigData.ToFilter).                                         *)
(***************************************************************************)
ToFilter(filters, r) ==
    \E f \in filters : r.kind \in f.kind /\ r.ns \in f.ns /\ r.name \in f.name

(***************************************************************************)
(* The background scan.  client.ListResource answers for one kind and one  *)
(* namespace; the namespaces of the match block are passed as they are     *)
(* written, so that only a pattern without wildcard finds resources, and a *)
(* cluster-wide kind has no resources under a namespace.                   *)
(***************************************************************************)
ListResource(cluster, kind, nsPattern, selector) ==
    {r \in cluster : /\ r.kind = kind
                     /\ r.ns # None /\ nsPattern = {r.ns}
                     /\ selector # None => Selects(selector, r.label)}

getAllNamespaces(namespaces) == {{n} : n \in namespaces}

\* Whatever the conditions of a non-empty exclude block say, every resource is deleted.
excludeResources(included, x) == IF x = AnyResource THEN included ELSE {}

(* Mutated form: the name of the match block is not compared. *)
getResourcesAnyName(cluster, kind, nsPattern, rule, filters) ==
    excludeResources({r \in ListResource(cluster, kind, nsPattern, rule.match.selector) :
                          ~ToFilter(filters, r)},
                     rule.exclude)

getResourcesPerNamespace(cluster, kind, nsPattern, rule, filters) ==
    excludeResources({r \in ListResource(cluster, kind, nsPattern, rule.match.selector) :
                          /\ rule.match.name # None => r.name \in rule.match.name
                          /\ ~ToFilter(filters, r)},
                     rule.exclude)

listResources(cluster, namespaces, rules, filters) ==
    UNION {LET spaces == IF rule.match.namespaces # {} THEN rule.match.namespaces
                         ELSE getAllNamespaces(namespaces)
           IN  UNION {getResourcesPerNamespace(cluster, k, s, rule, filters) :
                          k \in rule.match.kinds \ {"Namespace"}, s \in spaces}
           : rule \in rules}

(***************************************************************************)
(* What the scan is for: the resources the rule applies to and that are    *)
(* not filtered.  Out of its reach are all of them when the rule has an    *)
(* exclude block, with which nothing is listed, and those of a namespace   *)
(* that is given as a pattern.                                             *)
(***************************************************************************)
Meant(cluster, rule, filters) ==
    {r \in cluster : MatchesResourceDescription(r, rule) /\ ~ToFilter(filters, r)}

ScansAll(rule) ==
    /\ rule.exclude = AnyResource
    /\ \A ns \in rule.match.namespaces : \E n \in ns : ns = {n}

\* The scan lists nothing else, and all of those within its reach that have a namespace.
ListsExactly(cluster, namespaces, rule, filters) ==
    LET listed == listResources(cluster, namespaces, {rule}, filters)
        meant  == Meant(cluster, rule, filters)
    IN  /\ listed \subseteq meant
        /\ ScansAll(rule) => {r \in meant : r.ns # None} \subseteq listed
=============================================================================

---------------------------- MODULE MCPolicyLife ----------------------------
(***************************************************************************)
(* Policies of one rule each, over pods with a few fields: every anchor,   *)
(* operator, reference and variable occurs, and what the webhooks refuse.  *)
(***************************************************************************)
EXTENDS PolicyLife

S(s) == [str |-> s]
I(n) == [int |-> n]
A(s) == [arr |-> s]
K(name) == <<"", name>>
Spec1(f) == MapOf(K("spec") :> MapOf(f))

\* Strings.
Plain(s, n) == [int |-> n, float |-> IF n = None THEN None ELSE 2 * n, quantity |-> n,
                statements |-> {[op |-> "", number |-> n # None, quantity |-> n, globs |-> {s}]},
                reference |-> None, variable |-> None]
Strings == {"a", "b", "c", "u", "v", "0", "1", "2", "3", "", "true"}
Says(s, st) == [Plain(s, None) EXCEPT !.statements = st]
St(op, n, globs) == [op |-> op, number |-> n # None, quantity |-> n, globs |-> globs]
MCMeaning ==
    [s \in Strings |-> Plain(s, CASE s = "0" -> 0 [] s = "1" -> 1 [] s = "2" -> 2
                                  [] s = "3" -> 3 [] OTHER -> None)]
      @@ ("*"   :> Says("*", {St("", None, Strings)}))
      @@ ("!a"  :> Says("!a", {St("!", None, {"a"})}))
      @@ ("a|b" :> Says("a|b", {St("", None, {"a"}), St("", None, {"b"})}))
      @@ (">=2" :> Says(">=2", {St(">=", 2, {})}))
      @@ ("!2"  :> Says("!2", {St("!", 2, {})}))
      @@ ("1?"  :> Says("1?", {[St("", None, {}) EXCEPT !.number = TRUE]}))
      @@ ("{{user}}" :> [Plain("{{user}}", None) EXCEPT
                            !.variable = [op |-> "", name |-> "request.userInfo"]])
      @@ ("!{{user}}" :> [Says("!{{user}}", {St("!", None, {"{{user}}"})}) EXCEPT
                            !.variable = [op |-> "!", name |-> "request.userInfo"]])
      @@ ("$(y)" :> [Plain("$(y)", None) EXCEPT !.reference =
                        [op |-> "", absolute |-> FALSE, up |-> 1, path |-> <<"y">>]])
      @@ ("$(!y)" :> [Plain("$(!y)", None) EXCEPT !.reference =
                        [op |-> "!", absolute |-> FALSE, up |-> 1, path |-> <<"y">>]])
      @@ ("$(/)" :> [Plain("$(/)", None) EXCEPT !.reference =
                        [op |-> "", absolute |-> TRUE, up |-> 0, path |-> <<"spec", "y">>]])
MCText == [v \in {I(n) : n \in 0 .. 3} |->
              CASE v.int = 0 -> "0" [] v.int = 1 -> "1" [] v.int = 2 -> "2" [] v.int = 3 -> "3"]
            @@ ([float |-> 3] :> "1")
MCPrefixed == (<<"!", "a">> :> "!a") @@ (<<"!", "2">> :> "!2") @@ (<<"!", "u">> :> "!a")

\* Pods, and Deployments of them.
El(n, v) == MapOf(K("n") :> S(n) @@ K("v") :> I(v))
Pods == {Spec1(K("x") :> S("a") @@ K("l") :> A(<<El("a", 1), El("b", 2)>>)),
         Spec1(K("x") :> S("u") @@ K("y") :> S("2") @@ K("l") :> A(<<>>)),
         Spec1(K("x") :> I(2) @@ K("y") :> S("a") @@ K("args") :> A(<<S("a")>>)),
         Spec1(K("y") :> I(1) @@ K("x") :> S("b") @@ K("args") :> A(<<S("a"), S("b")>>)),
         Spec1(K("x") :> S("b") @@ K("l") :> A(<<El("b", 2)>>)),
         MapOf(K("other") :> Nil)}
Pod(tree) == [kind |-> "Pod", name |-> "a", ns |-> "n1", label |-> "l1", tree |-> tree]
MCResources == {Pod(t) : t \in Pods}
                 \cup {Deployed(Pod(Spec1(K("x") :> S("a") @@ K("l") :> A(<<El("a", 1), El("b", 2)>>))))}
                 \cup {[Pod(Spec1(K("x") :> S("a"))) EXCEPT !.ns = "n2", !.name = "b"]}

\* Users.
Info(u) == [roles |-> {}, clusterRoles |-> {}, user |-> [name |-> u, groups |-> {}, prefixed |-> FALSE, sa |-> None]]
MCRequests == {[info |-> Info(u), ctx |-> [v \in {"request.userInfo"} |-> IF u = "w" THEN Nil ELSE S(u)]]
                  : u \in {"a", "u", "w"}}

\* The rules.
Patterns ==
    {Spec1(<<"(", "x">> :> S("a") @@ K("y") :> S("a|b")),
     Spec1(<<"^", "l">> :> A(<<MapOf(K("n") :> S("a"))>>)),
     Spec1(<<"X", "y">> :> Nil),
     Spec1(<<"=", "y">> :> S(">=2") @@ K("x") :> S("*")),
     Spec1(K("l") :> A(<<MapOf(<<"(", "n">> :> S("a") @@ K("v") :> I(1))>>)),
     Spec1(K("args") :> A(<<S("a"), S("b")>>)),
     Spec1(K("x") :> S("{{user}}")),
     Spec1(K("l") :> A(<<MapOf(K("n") :> S("!{{user}}"))>>)),
     Spec1(K("x") :> S("$(!y)") @@ K("y") :> S("a")),
     Spec1(K("x") :> S("$(/)") @@ K("y") :> S("a")),
     Spec1(<<"(", "x">> :> S("a") @@ <<"=", "l">> :> S("b")),
     Spec1(<<"^", "l">> :> A(<<>>)),
     Spec1(<<"+", "x">> :> S("a")),
     Spec1(K("x") :> S("1?")),
     Spec1(K("y") :> [float |-> 2])}
Overlays ==
    {Spec1(<<"+", "y">> :> S("a") @@ K("z") :> Nil),
     Spec1(<<"(", "x">> :> S("a") @@ K("y") :> MapOf(K("x") :> S("b"))),
     Spec1(K("l") :> A(<<MapOf(<<"(", "n">> :> S("a") @@ K("v") :> I(3))>>)),
     Spec1(K("args") :> A(<<S("c")>>)),
     Spec1(K("x") :> S("{{user}}")),
     Spec1(K("l") :> A(<<MapOf(<<"(", "n">> :> S("a") @@ K("v") :> I(3)), El("c", 3)>>)),
     Spec1(K("l") :> A(<<El("c", 0)>>)),
     Spec1(<<"X", "x">> :> S("a"))}

Base == [PolicyRule EXCEPT !.name = <<"r">>, !.match.kinds = {"Pod"}]
P(rule, bg) == [rules |-> <<rule>>, background |-> bg, action |-> "", controllers |-> None]
Y == Spec1(<<"X", "y">> :> Nil)
Small == [Base EXCEPT !.pattern = Y]
UserVar == {"request.userInfo"}
At1(op, key, value) == [op |-> op, path |-> <<K("spec"), K(key)>>, value |-> value]
Sub(kind, name) == [kind |-> kind, name |-> name, ns |-> None]

MCPolicies ==
    {P([Base EXCEPT !.pattern = p], FALSE) : p \in Patterns}
      \cup {P([Base EXCEPT !.overlay = o], FALSE) : o \in Overlays}
      \cup {P([Base EXCEPT !.anyPattern = <<Spec1(K("x") :> S("{{user}}")), Y>>], bg) :
                bg \in {None, FALSE}}
      \cup {P([Base EXCEPT !.pattern = Spec1(K("l") :> A(<<MapOf(K("n") :> S("{{user}}"))>>))], None)}
      \cup {P(rule, bg) : bg \in {None, FALSE}, rule \in
              {[Small EXCEPT !.exclude.namespaces = {{"n1"}}],
               [Small EXCEPT !.exclude.namespaces = {{"n1"}}, !.exclude.kinds = {"Pod"}],
               [Small EXCEPT !.exclude.kinds = {"Job"}],
               [Small EXCEPT !.match.namespaces = {{"n1"}, {"n2", "n3"}}],
               [Small EXCEPT !.match.name = {"a"}],
               [Small EXCEPT !.match.selector = {"l1"}],
               [Small EXCEPT !.match.selector = BadSelector],
               [Small EXCEPT !.match.selector = AllLabels],
               [Small EXCEPT !.match.kinds = {"Pod", "Namespace"}],
               [Small EXCEPT !.matchUser.subjects = {Sub("User", "a")}],
               [Small EXCEPT !.matchUser.subjects = {Sub("ServiceAccount", "a")}],
               [Small EXCEPT !.excludeUser.roles = {<<"n1">>}],
               [Small EXCEPT !.overlay = Y],
               [Small EXCEPT !.conditions =
                   {[key |-> S("{{user}}"), operator |-> "NotEqual", value |-> S("a")]}],
               [Small EXCEPT !.conditions =
                   {[key |-> I(1), operator |-> "Equal", value |-> S("1")]}],
               [Small EXCEPT !.exclude.namespaces = {{"{{user}}"}}, !.exclude.vars = UserVar],
               [Small EXCEPT !.match.namespaces = {{"n1"}, {"{{user}}"}}, !.match.vars = UserVar],
               [Base EXCEPT !.patches = <<At1("add", "y", None)>>],
               [Base EXCEPT !.patches = <<At1("remove", "y", None), At1("replace", "x", S("c"))>>],
               [Base EXCEPT !.patches = <<At1("add", "z", S("a")),
                                          [At1("add", "y", S("a")) EXCEPT !.path = Append(@, K("x"))]>>],
               [Base EXCEPT !.overlay = Spec1(<<"(", "x">> :> S("a") @@ K("y") :> S("b")),
                            !.patches = <<At1("remove", "y", None), At1("add", "z", S("c"))>>],
               [Base EXCEPT !.generate = [data |-> None, clone |-> [name |-> "a", ns |-> "n1"],
                                          name |-> "a", kind |-> "ConfigMap"]]}}
      \cup {[P([Small EXCEPT !.match.name = {"a"}], FALSE) EXCEPT !.controllers = {"Deployment"}],
            [P(Small, FALSE) EXCEPT !.controllers = {"none"}],
            [P(Small, FALSE) EXCEPT !.rules = <<Small, Small>>]}
MCLater == {P([Base EXCEPT !.pattern = Spec1(K("x") :> S("{{user}}"))], FALSE),
            P([Base EXCEPT !.overlay = Spec1(<<"+", "y">> :> S("a") @@ K("z") :> Nil)], None)}

MCAllLabels == {"l1", "l2"}
MCNamespaces == {"n1", "n2", "n3"}
Res(kind, name, ns, label) == [kind |-> kind, name |-> name, ns |-> ns, label |-> label]
MCCluster == {Res("Pod", "a", "n1", "l1"), Res("Pod", "b", "n2", "l2"), Res("Pod", "a", "n3", "l1"),
              Res("Deployment", "a", "n1", "l1"), Res("Job", "b", "n2", "l1"),
              Res("Namespace", "a", None, "l1")}
MCFilters == {[kind |-> {"Pod"}, ns |-> {"n3"}, name |-> {"a", "b"}]}
=============================================================================

---------------------------- MODULE MCAdmission ----------------------------
(* Three policies and two users for Admission.  "setter" turns the value "raw" into
   "bad" for users that have a role, and generates for deployments.  "noter" annotates
   pods, fails to patch "raw" ones, and reports "raw".  "guard" refuses "bad" pods and, by its
   generated rule, pod templates. *)
EXTENDS Admission

MCValues == {"raw", "bad"}
On(kinds) == [AnyResource EXCEPT !.kinds = kinds]
Base == [Rule EXCEPT !.when = MCValues, !.match = On(Kinds)]
Fails(v, at) == [w \in MCValues |-> IF w = v THEN at ELSE "pass"]

Setter == [Base EXCEPT !.name = "set", !.matchUser = [AnyUser EXCEPT !.roles = {<<"ns", "dev">>}],
                       !.overlay = [v \in MCValues |-> IF v = "raw" THEN "bad" ELSE "skip"]]
Note1 == [Base EXCEPT !.name = "note", !.match = On({"Pod"}), !.overlay = [v \in MCValues |-> v], !.annotates = TRUE]
Note2 == [Base EXCEPT !.name = "patch", !.match = On({"Pod"}),
                      !.patches = [v \in MCValues |-> IF v = "raw" THEN "fail" ELSE v]]
Guard == [Base EXCEPT !.name = "guard", !.match = On({"Pod"}), !.pattern = Fails("bad", "spec")]
Autogen == [Guard EXCEPT !.name = "autogen-guard", !.match = On({"Deployment"})]
Audit == [Base EXCEPT !.name = "audit", !.pattern = Fails("raw", "spec")]
Maker == [Base EXCEPT !.name = "make", !.match = On({"Deployment"}), !.generates = TRUE]

Policy(name, action, rules) == [name |-> name, action |-> action, rules |-> rules]

MCPolicyOf ==
    [p \in {"setter", "noter", "guard"} |->
        CASE p = "setter" -> Policy(p, "audit", <<Setter, Maker>>)
          [] p = "noter"  -> Policy(p, "audit", <<Note1, Note2, Audit>>)
          [] p = "guard"  -> Policy(p, "enforce", <<Guard, Autogen>>)]

Dev == [name |-> "dev", groups |-> {"devs"}, prefixed |-> FALSE, sa |-> None]
Robot == [name |-> "sa:ns:robot", groups |-> {}, prefixed |-> TRUE, sa |-> <<"ns", "robot">>]
MCUsers == {Dev, Robot}
MCBindings ==
    {[ns |-> "ns", refKind |-> "Role", ref |-> "dev",
      subjects |-> {[kind |-> "Group", ns |-> "", name |-> "devs"]}]}

\* A deployment is named by the API server, like the pods of the controller, and a pod
\* carries the annotation of templates.
MCManifests ==
    {Sent("Pod", "x", "raw", FALSE), Sent("Pod", "x", "bad", TRUE),
     Sent("Deployment", "x", "raw", FALSE), Sent("Deployment", "", "raw", FALSE),
     Sent("Deployment", "x", "bad", FALSE)}

Pods == <<{"Pod"}, {"ns"}, {"x"}>>
\* A filter for the pods, the same with a fourth part that is not understood, and none.
MCConfigMaps == {None, <<Pods>>, <<<<{"Deployment"}, {"ns"}, {"x"}, {"x"}>>>>}
\* The default of the installation: everything in kube-system.
MCInitFilters == {[kind |-> Kinds, ns |-> {"kube-system"}, name |-> {"x"}]}
=============================================================================

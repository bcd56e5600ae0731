---------------------------- MODULE MCReporting ----------------------------
(* Two policies: p mutates and reports, q enforces. *)
EXTENDS Reporting

Find(pm, pv, qv, named) ==
    [mutate |-> [x \in {"p", "q"} |-> IF x = "p" THEN pm ELSE "none"],
     validate |-> [x \in {"p", "q"} |-> IF x = "p" THEN pv ELSE qv], named |-> named]

MCResults == {Find("quick", "fail", "none", TRUE), Find("pass", "pass", "fail", FALSE)}
=============================================================================

------------------------- MODULE MCPolicyController -------------------------
(* Instances of PolicyController for TLC. *)
EXTENDS PolicyController

CONSTANTS validating, mutating, mixed, foreground, good, bad, r1

Checked == [s \in Specs |-> Resources]

Response1(m, v) == [e \in Engines |-> IF e = "mutate" THEN m ELSE v]

\* A policy with a validation rule, one with a mutation rule, one with both, of which
\* the mutation is already in place, and one that is not scanned for.
Verdicts ==
    [x \in Specs \X Contents |->
        CASE x[1] = mutating  -> Response1(IF x[2] = bad THEN "fail" ELSE "pass", "none")
          [] x[1] = mixed     -> Response1("pass", IF x[2] = bad THEN "fail" ELSE "pass")
          [] OTHER            -> Response1("none", IF x[2] = bad THEN "fail" ELSE "pass")]
=============================================================================

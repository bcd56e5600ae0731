--------------------------- MODULE MCPVGenerator ---------------------------
(* Instances of PVGenerator for TLC. *)
EXTENDS PVGenerator

CONSTANTS oneRule, otherRule, twoRules

\* Two lists of one rule share a key; a list of two rules has a key of its own.
RuleCount == [c \in Contents |-> IF c = twoRules THEN 2 ELSE 1]
=============================================================================

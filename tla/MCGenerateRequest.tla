------------------------- MODULE MCGenerateRequest -------------------------
(* Instances of GenerateRequest for TLC. *)
EXTENDS GenerateRequest

CONSTANTS dataRule, badRule, cloneRule

DataThenClone == <<dataRule, cloneRule>>
BadBetween == <<dataRule, badRule, cloneRule>>
=============================================================================

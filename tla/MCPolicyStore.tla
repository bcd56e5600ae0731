--------------------------- MODULE MCPolicyStore ---------------------------
(* Instances of PolicyStore for TLC. *)
EXTENDS PolicyStore

CONSTANTS Pod, Deployment, star, nsA, nsB

\* One rule for all namespaces.
Everywhere == [rules |-> <<[kinds |-> <<Pod>>, namespaces |-> <<>>]>>,
               background |-> "unset", userInfo |-> FALSE]
\* Two rules, several kinds, one kind in both rules, one named namespace each.
TwoRules == [rules |-> <<[kinds |-> <<Pod, Deployment>>, namespaces |-> <<nsA>>],
                         [kinds |-> <<Deployment>>, namespaces |-> <<nsB>>]>>,
             background |-> "true", userInfo |-> TRUE]
\* A rule that lists two namespaces, and no background processing.
TwoNamespaces == [rules |-> <<[kinds |-> <<Deployment>>, namespaces |-> <<nsA, nsB>>]>>,
                  background |-> "false", userInfo |-> FALSE]
AllVersions == {Everywhere, TwoRules, TwoNamespaces}
SimpleVersions == {Everywhere, TwoRules}
=============================================================================

---------------------------- MODULE PolicyIndex ----------------------------
(***************************************************************************)
(* What the policy meta-store promises its readers, without its maps, its  *)
(* lock or its informer: a set of (kind, namespace, policy) entries in     *)
(* which a policy is either absent or present under exactly the keys of    *)
(* one version.  A version is published only when nothing of an earlier    *)
(* version is left, and withdrawing a policy removes all of it at once.    *)
(* A reader is served the policies the index has for it at one moment: all *)
(* of them, although other policies come and go while they are fetched, or *)
(* an error, which it gets only when one of them has ceased to exist.      *)
(***************************************************************************)
CONSTANTS Policies,   \* policy names
          Versions,   \* contents a policy can have
          KeysOf,     \* [Versions -> sets of <<kind, namespace>> pairs]
          Kinds,      \* resource kinds
          Namespaces, \* namespace keys
          AllNs,      \* the key that stands for every namespace
          Readers     \* concurrent readers

VARIABLES index,      \* set of <<kind, namespace, policy>> entries
          known,      \* policies that exist, as far as can be told
          answer      \* reader -> how far it is served, and with which policies

vars == <<index, known, answer>>

EntriesOf(p) == {e \in index : e[3] = p}

Serving(kind, ns) == {p \in Policies : <<kind, ns, p>> \in index \/ <<kind, AllNs, p>> \in index}

Init ==
    /\ index = {}
    /\ known = {}
    /\ answer = [r \in Readers |-> [st |-> "idle", names |-> {}]]

\* A policy that is not in the index becomes visible under one version.
Publish(p, v) ==
    /\ EntriesOf(p) = {}
    /\ index' = index \cup {<<k[1], k[2], p>> : k \in KeysOf[v]}
    /\ UNCHANGED <<known, answer>>

\* A policy disappears from the index, whatever version it was published in.
Withdraw(p) ==
    /\ index' = index \ EntriesOf(p)
    /\ UNCHANGED <<known, answer>>

\* A policy is created or deleted; the index follows in its own time.
Learn(p) ==
    /\ known' \in {known \cup {p}, known \ {p}}
    /\ UNCHANGED <<index, answer>>

\* A reader asks: what it will be given is settled at this moment.
Ask(r, kind, ns) ==
    /\ answer[r].st # "reading"
    /\ answer' = [answer EXCEPT ![r] = [st |-> "reading", names |-> Serving(kind, ns)]]
    /\ UNCHANGED <<index, known>>

\* It is given exactly that.
Return(r) ==
    /\ answer[r].st = "reading"
    /\ answer' = [answer EXCEPT ![r].st = "done"]
    /\ UNCHANGED <<index, known>>

\* Or, when one of those policies is gone, nothing at all.
Fail(r) ==
    /\ answer[r].st = "reading"
    /\ ~(answer[r].names \subseteq known)
    /\ answer' = [answer EXCEPT ![r] = [st |-> "failed", names |-> {}]]
    /\ UNCHANGED <<index, known>>

Next ==
    \/ \E p \in Policies : Withdraw(p) \/ Learn(p) \/ \E v \in Versions : Publish(p, v)
    \/ \E r \in Readers :
          Return(r) \/ Fail(r) \/ \E kind \in Kinds, ns \in Namespaces : Ask(r, kind, ns)

Spec == Init /\ [][Next]_vars
=============================================================================

--------------------------- MODULE WebhookChecker ---------------------------
(***************************************************************************)
(* The checker of admission control (pkg/checker), a goroutine that wakes  *)
(* up once per DefaultResync, measures the time since the last admission   *)
(* request and writes annotations on Kyverno's own deployment.  The verify *)
(* webhook watches that deployment, so every successful write comes back   *)
(* as a request if the API server can reach the webhook server.            *)
(*                                                                         *)
(* Time is counted in ticks of the checker: DefaultDeadline is one tick.   *)
(***************************************************************************)
EXTENDS Naturals

CONSTANTS MaxRetryCount,   \* maxDeadline in units of DefaultDeadline
          MaxFaults, MaxChanges   \* bounds of the model

ASSUME CheckerAssumption == MaxRetryCount \in Nat \ {0} /\ MaxFaults \in Nat /\ MaxChanges \in Nat

Oldest == MaxRetryCount + 1   \* ages above the maximal deadline are not told apart

VARIABLES age,        \* ticks since the last request
          ann,        \* annotations of the deployment
          reachable,  \* the API server can reach the webhook server
          exists,     \* the lister has a policy with a rule
          faults, changes   \* counters of the bounds

vars == <<age, ann, reachable, exists, faults, changes>>

TypeOK ==
    /\ age \in 0..Oldest
    /\ ann \in [present : BOOLEAN, webhookActive : {"absent", "true", "false"},
                counter : {"absent", "number"}]
    /\ reachable \in BOOLEAN /\ exists \in BOOLEAN
    /\ faults \in 0..MaxFaults /\ changes \in 0..MaxChanges

\* The deployment as definitions/install.yaml creates it, before or after Kubernetes has
\* put annotations of its own on it.
Init ==
    /\ age = 0
    /\ ann \in [present : BOOLEAN, webhookActive : {"absent"}, counter : {"absent"}]
    /\ reachable \in BOOLEAN /\ exists \in BOOLEAN
    /\ faults = 0 /\ changes = 0

-----------------------------------------------------------------------------
(* Writing annotations.  "now" is the age of the last request at that time. *)

\* UpdateResource: the write is verified by a request, or it fails (a conflict or a fault).
UpdateDeployment(now, new) ==
    \/ /\ ann' = new
       /\ age' = IF reachable THEN 0 ELSE now
       /\ UNCHANGED faults
    \/ /\ faults < MaxFaults
       /\ faults' = faults + 1
       /\ age' = now
       /\ UNCHANGED ann

NoUpdate(now) == age' = now /\ UNCHANGED <<ann, faults>>

\* A deployment without annotations is given a fresh map that holds the status already,
\* so it looks as if nothing had to be written.
SetStatus(now, status) ==
    IF ~ann.present \/ ann.webhookActive = status
    THEN NoUpdate(now)
    ELSE UpdateDeployment(now, [ann EXCEPT !.webhookActive = status])

(* Mutated form: the counter is written under the key of the status. *)
IncrementAnnotationWrongKey(now) ==
    UpdateDeployment(now, [ann EXCEPT !.present = TRUE, !.webhookActive = "number"])

\* Only a deployment without any annotation starts the counter at 0; a missing counter
\* among other annotations is an empty string, which is no number.
IncrementAnnotation(now) ==
    IF ann.present /\ ann.counter = "absent"
    THEN NoUpdate(now)
    ELSE UpdateDeployment(now, [ann EXCEPT !.present = TRUE, !.counter = "number"])

-----------------------------------------------------------------------------
(* The goroutine. *)

(* Mutated forms: the deadlines are tested in the wrong order; a request in time is
   taken for a failure. *)
CheckDeadlineFirst(now) ==
    IF now > 1 THEN IncrementAnnotation(now)
    ELSE IF now > MaxRetryCount THEN SetStatus(now, "false")
    ELSE SetStatus(now, "true")
CheckNoSuccess(now) ==
    IF now > MaxRetryCount THEN SetStatus(now, "false")
    ELSE IF now > 1 THEN IncrementAnnotation(now)
    ELSE NoUpdate(now)

\* A request n ticks ago is more than n - 1 and at most n deadlines old.
Check(now) ==
    IF now > MaxRetryCount THEN SetStatus(now, "false")
    ELSE IF now > 1 THEN IncrementAnnotation(now)
    ELSE SetStatus(now, "true")

Tick ==
    LET now == IF age < Oldest THEN age + 1 ELSE age IN
    /\ IF exists THEN Check(now) ELSE NoUpdate(now)
    /\ UNCHANGED <<reachable, exists, changes>>

\* A new process starts with the current time and, given a policy, reports success.
Restart ==
    /\ changes < MaxChanges /\ changes' = changes + 1
    /\ IF exists THEN SetStatus(0, "true") ELSE NoUpdate(0)
    /\ UNCHANGED <<reachable, exists>>

\* serve: an admission request arrives.
Request ==
    /\ reachable /\ age > 0
    /\ age' = 0
    /\ UNCHANGED <<ann, reachable, exists, faults, changes>>

-----------------------------------------------------------------------------
(* The cluster. *)

ReachabilityChanges ==
    /\ changes < MaxChanges /\ changes' = changes + 1
    /\ reachable' = ~reachable
    /\ UNCHANGED <<age, ann, exists, faults>>

PoliciesChange ==
    /\ changes < MaxChanges /\ changes' = changes + 1
    /\ exists' = ~exists
    /\ UNCHANGED <<age, ann, reachable, faults>>

\* The deployment controller writes its revision annotation.
RevisionAnnotated ==
    /\ ~ann.present
    /\ ann' = [ann EXCEPT !.present = TRUE]
    /\ UNCHANGED <<age, reachable, exists, faults, changes>>

Next ==
    Tick \/ Restart \/ Request \/ ReachabilityChanges \/ PoliciesChange \/ RevisionAnnotated

Spec == Init /\ [][Next]_vars

\* The ticker ticks and Kubernetes annotates the deployment; requests may stay away.
Fairness == WF_vars(Tick) /\ WF_vars(RevisionAnnotated)

FairSpec == Spec /\ Fairness

-----------------------------------------------------------------------------
(* Properties. *)

\* A webhook server that is out of reach for good is reported inactive for good, in spite
\* of restarts, failed writes and an annotation the last process left.
OutageReported == (<>[](~reachable /\ exists)) => <>[](ann.webhookActive = "false")

\* As long as requests keep coming in, the webhook is reported active again and again.
ActivityReported == (<>[]exists /\ []<>(age = 0)) => []<>(ann.webhookActive = "true")
=============================================================================

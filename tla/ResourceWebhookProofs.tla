----------------------- MODULE ResourceWebhookProofs -----------------------
(***************************************************************************)
(* Proofs about ResourceWebhook: the type invariant, and that the flag     *)
(* pendingCreation, which every createWebhook goroutine sets and clears    *)
(* without regard to the others, is never left set with no goroutine to    *)
(* clear it.  Both hold for any number of goroutines, policies, faults and *)
(* restarts.  At the end, WebhookChecker: types, and the evidence of its   *)
(* reports.                                                                *)
(***************************************************************************)
EXTENDS ResourceWebhook, TLAPS

(* A goroutine that leaves a phase, or changes it, keeps the counts natural. *)
LEMMA CreatorMoves ==
    ASSUME NEW c1 \in CreatorPhases, NEW c2 \in CreatorPhases,
           creators \in [CreatorPhases -> Nat], creators[c1] > 0, c1 # c2,
           Move(c1, c2)
    PROVE  /\ creators' \in [CreatorPhases -> Nat]
           /\ creators'[c2] > 0
           /\ \A c \in CreatorPhases \ {c1, c2} : creators'[c] = creators[c]
<1>1. creators' = [creators EXCEPT ![c1] = @ - 1, ![c2] = @ + 1]
  BY DEF Move
<1>2. creators[c1] - 1 \in Nat /\ creators[c2] + 1 \in Nat
  OBVIOUS
<1> QED
  BY <1>1, <1>2

(* The same for a goroutine that ends. *)
LEMMA CreatorLeaves ==
    ASSUME NEW c \in CreatorPhases,
           creators \in [CreatorPhases -> Nat], creators[c] > 0,
           Leave(c)
    PROVE  /\ creators' \in [CreatorPhases -> Nat]
           /\ \A d \in CreatorPhases \ {c} : creators'[d] = creators[d]
<1>1. creators' = [creators EXCEPT ![c] = @ - 1]
  BY DEF Leave
<1>2. creators[c] - 1 \in Nat
  OBVIOUS
<1> QED
  BY <1>1, <1>2

(* A caller of RegisterResourceWebhook takes no goroutine out of its phase. *)
LEMMA RegisterAddsCreator ==
    ASSUME NEW lately, creators \in [CreatorPhases -> Nat], RegisterResourceWebhook(lately)
    PROVE  /\ creators' \in [CreatorPhases -> Nat]
           /\ \A c \in CreatorPhases \ {"spawned"} : creators'[c] = creators[c]
<1>1. creators' = creators \/ creators' = [creators EXCEPT !["spawned"] = @ + 1]
  BY DEF RegisterResourceWebhook
<1>2. "spawned" \in CreatorPhases
  BY DEF CreatorPhases
<1>3. creators["spawned"] + 1 \in Nat
  BY <1>2
<1> QED
  BY <1>1, <1>2, <1>3

(* The phases, and the bounds, the actions use. *)
LEMMA Constants ==
    /\ {"spawned", "creating", "created", "failed", "retrying"} = CreatorPhases
    /\ Background \subseteq Policies
    /\ MaxEdits \in Nat /\ MaxFaults \in Nat /\ MaxStops \in Nat
BY WebhookAssumption DEF CreatorPhases

-----------------------------------------------------------------------------
(* Type correctness. *)

(* Every initial state has the types. *)
LEMMA TypeInit == Init => TypeOK
<1> SUFFICES ASSUME Init PROVE TypeOK
  OBVIOUS
<1>1. config \in BOOLEAN /\ clister \in BOOLEAN /\ pending \in BOOLEAN /\ recent \in BOOLEAN
  BY DEF Init
<1>2. worker \in [pc : {"start", "get", "sync", "process", "remove", "delete", "off"},
                 key : Policies \cup {None}] /\ worker.pc = "off"
  BY DEF Init, WorkerAt
<1>3. creators \in [CreatorPhases -> Nat]
  BY DEF Init, NoCreators
<1>4. edits \in 0..MaxEdits /\ faults \in 0..MaxFaults /\ stops \in 0..MaxStops
  BY Constants DEF Init
<1> QED
  BY <1>1, <1>2, <1>3, <1>4 DEF Init, TypeOK

(* A step of a createWebhook goroutine keeps the types. *)
LEMMA CreatorType == TypeOK /\ Creator => TypeOK'
<1> SUFFICES ASSUME TypeOK, Creator PROVE TypeOK'
  OBVIOUS
<1> USE Constants
<1>1. creators \in [CreatorPhases -> Nat]
  BY DEF TypeOK
<1>2. CASE CreatorSet
  <2>1. creators' \in [CreatorPhases -> Nat]
    BY <1>1, <1>2, CreatorMoves DEF CreatorSet
  <2> QED
    BY <1>2, <2>1 DEF CreatorSet, creatorFrame, clusterVars, TypeOK
<1>3. CASE CreatorCreate
  <2>1. creators' \in [CreatorPhases -> Nat]
    BY <1>1, <1>3, CreatorMoves DEF CreatorCreate
  <2> QED
    BY <1>3, <2>1 DEF CreatorCreate, creatorFrame, clusterVars, TypeOK
<1>4. CASE CreatorFault
  <2>1. creators' \in [CreatorPhases -> Nat]
    BY <1>1, <1>4, CreatorMoves DEF CreatorFault
  <2>2. faults' \in 0..MaxFaults
    BY <1>4 DEF CreatorFault, TypeOK
  <2> QED
    BY <1>4, <2>1, <2>2 DEF CreatorFault, creatorFrame, clusterVars, TypeOK
<1>5. CASE CreatorUnSet
  <2>1. creators' \in [CreatorPhases -> Nat]
    BY <1>1, <1>5, CreatorLeaves DEF CreatorUnSet
  <2> QED
    BY <1>5, <2>1 DEF CreatorUnSet, creatorFrame, clusterVars, TypeOK
<1>6. CASE CreatorUnSetErr
  <2>1. creators' \in [CreatorPhases -> Nat]
    BY <1>1, <1>6, CreatorMoves DEF CreatorUnSetErr
  <2> QED
    BY <1>6, <2>1 DEF CreatorUnSetErr, creatorFrame, clusterVars, TypeOK
<1>7. CASE CreatorRetry
  <2>1. creators' \in [CreatorPhases -> Nat]
    BY <1>1, <1>7, CreatorMoves, CreatorLeaves DEF CreatorRetry
  <2> QED
    BY <1>7, <2>1 DEF CreatorRetry, creatorFrame, clusterVars, TypeOK
<1> QED
  BY <1>2, <1>3, <1>4, <1>5, <1>6, <1>7 DEF Creator

(* A step of the policy controller's worker keeps the types. *)
LEMMA WorkerType == TypeOK /\ Worker => TypeOK'
<1> SUFFICES ASSUME TypeOK, Worker PROVE TypeOK'
  OBVIOUS
<1> USE Constants
<1>1. creators \in [CreatorPhases -> Nat]
  BY DEF TypeOK
<1>2. CASE WorkerStart
  <2>1. creators' \in [CreatorPhases -> Nat]
    BY <1>1, <1>2, RegisterAddsCreator DEF WorkerStart
  <2> QED
    BY <1>2, <2>1 DEF WorkerStart, WorkerAt, workerFrame, clusterVars, TypeOK
<1>3. CASE WorkerQuit
  BY <1>3 DEF WorkerQuit, WorkerAt, workerFrame, clusterVars, TypeOK
<1>4. CASE SyncPolicy
  <2>1. creators' \in [CreatorPhases -> Nat]
    BY <1>1, <1>4, RegisterAddsCreator DEF SyncPolicy
  <2> QED
    BY <1>4, <2>1 DEF SyncPolicy, WorkerAt, workerFrame, clusterVars, TypeOK
<1>5. CASE SyncPolicyDone
  BY <1>5 DEF SyncPolicyDone, WorkerAt, workerFrame, clusterVars, TypeOK
<1>6. CASE SyncDeleted
  BY <1>6 DEF SyncDeleted, WorkerAt, workerFrame, clusterVars, TypeOK
<1>7. CASE SyncFault
  <2>1. faults' \in 0..MaxFaults
    BY <1>7 DEF SyncFault, TypeOK
  <2>2. queue' \subseteq Policies
    <3>1. worker.key \in Policies
      BY <1>7 DEF SyncFault, TypeOK
    <3> QED
      BY <1>7, <3>1 DEF SyncFault, TypeOK
  <2> QED
    BY <1>7, <2>1, <2>2 DEF SyncFault, WorkerAt, workerFrame, clusterVars, TypeOK
<1>8. CASE RemoveResourceWebhookConfiguration
  BY <1>8 DEF RemoveResourceWebhookConfiguration, WorkerAt, workerFrame, clusterVars, TypeOK
<1>9. CASE DeleteConfig
  BY <1>9 DEF DeleteConfig, WorkerAt, workerFrame, clusterVars, TypeOK
<1>10. CASE DeleteConfigFault
  <2>1. faults' \in 0..MaxFaults
    BY <1>10 DEF DeleteConfigFault, TypeOK
  <2> QED
    BY <1>10, <2>1 DEF DeleteConfigFault, WorkerAt, workerFrame, clusterVars, TypeOK
<1>11. CASE \E p \in Policies : WorkerGet(p)
  BY <1>11, WebhookAssumption DEF WorkerGet, WorkerAt, workerFrame, clusterVars, TypeOK
<1> QED
  BY <1>2, <1>3, <1>4, <1>5, <1>6, <1>7, <1>8, <1>9, <1>10, <1>11 DEF Worker

(* Requests, informers and the life of the process keep the types. *)
LEMMA EnvironmentType ==
    ASSUME TypeOK,
           \/ \E p \in Policies : \/ HandlePolicyValidation(p) \/ StorePolicy(p) \/ DeletePolicy(p)
                                  \/ PolicyInformerSync(p) \/ PolicyResync(p)
           \/ Request \/ Quiet \/ ConfigInformerSync
           \/ Start \/ Stop \/ CleanUp \/ Exit \/ Crash
    PROVE  TypeOK'
<1> USE Constants
<1>1. ASSUME NEW p \in Policies, HandlePolicyValidation(p) PROVE TypeOK'
  <2>1. creators' \in [CreatorPhases -> Nat]
    BY <1>1, RegisterAddsCreator DEF HandlePolicyValidation, TypeOK
  <2>2. edits' \in 0..MaxEdits
    BY <1>1 DEF HandlePolicyValidation, TypeOK
  <2> QED
    BY <1>1, <2>1, <2>2 DEF HandlePolicyValidation, TypeOK
<1>2. ASSUME NEW p \in Policies, StorePolicy(p) PROVE TypeOK'
  BY <1>2 DEF StorePolicy, bounds, TypeOK
<1>3. ASSUME NEW p \in Policies, DeletePolicy(p) PROVE TypeOK'
  <2>1. edits' \in 0..MaxEdits
    BY <1>3 DEF DeletePolicy, TypeOK
  <2> QED
    BY <1>3, <2>1 DEF DeletePolicy, TypeOK
<1>4. ASSUME NEW p \in Policies, PolicyInformerSync(p) PROVE TypeOK'
  BY <1>4 DEF PolicyInformerSync, informerFrame, clusterVars, bounds, TypeOK
<1>5. ASSUME NEW p \in Policies, PolicyResync(p) PROVE TypeOK'
  BY <1>5 DEF PolicyResync, informerFrame, clusterVars, bounds, TypeOK
<1>6. CASE Request
  BY <1>6 DEF Request, clusterVars, bounds, TypeOK
<1>7. CASE Quiet
  BY <1>7 DEF Quiet, clusterVars, bounds, TypeOK
<1>8. CASE ConfigInformerSync
  BY <1>8 DEF ConfigInformerSync, informerFrame, clusterVars, bounds, TypeOK
<1>9. CASE Start
  BY <1>9 DEF Start, WorkerAt, clusterVars, bounds, TypeOK
<1>10. CASE Stop
  <2>1. stops' \in 0..MaxStops
    BY <1>10 DEF Stop, TypeOK
  <2> QED
    BY <1>10, <2>1 DEF Stop, clusterVars, TypeOK
<1>11. CASE CleanUp
  BY <1>11 DEF CleanUp, clusterVars, bounds, TypeOK
<1>12. CASE Exit \/ Crash
  <2>1. stops' \in 0..MaxStops
    BY <1>12 DEF Exit, Crash, TypeOK
  <2>2. ProcessGone
    BY <1>12 DEF Exit, Crash
  <2>3. creators' \in [CreatorPhases -> Nat]
    BY <2>2 DEF ProcessGone, NoCreators
  <2> QED
    BY <2>1, <2>2, <2>3 DEF ProcessGone, WorkerAt, clusterVars, TypeOK
<1> QED
  BY <1>1, <1>2, <1>3, <1>4, <1>5, <1>6, <1>7, <1>8, <1>9, <1>10, <1>11, <1>12

(* TypeOK is an invariant of the webhook configuration's life. *)
THEOREM TypeCorrect == Spec => []TypeOK
<1>1. TypeOK /\ [Next]_vars => TypeOK'
  <2> SUFFICES ASSUME TypeOK, [Next]_vars PROVE TypeOK'
    OBVIOUS
  <2>1. CASE Creator
    BY <2>1, CreatorType
  <2>2. CASE Worker
    BY <2>2, WorkerType
  <2>3. CASE \/ \E p \in Policies : \/ HandlePolicyValidation(p) \/ StorePolicy(p)
                                    \/ DeletePolicy(p) \/ PolicyInformerSync(p)
                                    \/ PolicyResync(p)
             \/ Request \/ Quiet \/ ConfigInformerSync
             \/ Start \/ Stop \/ CleanUp \/ Exit \/ Crash
    BY <2>3, EnvironmentType
  <2>4. CASE UNCHANGED vars
    BY <2>4 DEF vars, bounds, TypeOK
  <2> QED
    BY <2>1, <2>2, <2>3, <2>4 DEF Next
<1> QED
  BY TypeInit, <1>1, PTL DEF Spec

-----------------------------------------------------------------------------
(* The flag pendingCreation. *)

(* A step that leaves the flag alone, or clears it, and takes no goroutine out of the *)
(* three phases in which it will clear the flag, keeps PendingHasCreator.            *)
LEMMA PendingKept ==
    ASSUME TypeOK, TypeOK', PendingHasCreator, pending' => pending,
           \A c \in {"creating", "created", "failed"} : creators'[c] = creators[c]
    PROVE  PendingHasCreator'
BY DEF PendingHasCreator

(* PendingHasCreator is an invariant: the last goroutine in one of the three phases has *)
(* not called UnSet yet, and no other one can leave them without clearing the flag.    *)
THEOREM PendingCleared == Spec => []PendingHasCreator
<1>1. Init => PendingHasCreator
  BY DEF Init, PendingHasCreator
<1>2. TypeOK /\ TypeOK' /\ PendingHasCreator /\ [Next]_vars => PendingHasCreator'
  <2> SUFFICES ASSUME TypeOK, TypeOK', PendingHasCreator, [Next]_vars
               PROVE  PendingHasCreator'
    OBVIOUS
  <2> USE Constants
  <2>0. creators \in [CreatorPhases -> Nat] /\ creators' \in [CreatorPhases -> Nat]
    BY DEF TypeOK
  <2>1. CASE CreatorSet
    <3>1. creators'["creating"] > 0
      BY <2>0, <2>1, CreatorMoves DEF CreatorSet
    <3> QED
      BY <2>0, <3>1 DEF PendingHasCreator
  <2>2. CASE CreatorCreate
    <3>1. creators'["created"] > 0
      BY <2>0, <2>2, CreatorMoves DEF CreatorCreate
    <3> QED
      BY <2>0, <3>1 DEF PendingHasCreator
  <2>3. CASE CreatorFault
    <3>1. creators'["failed"] > 0
      BY <2>0, <2>3, CreatorMoves DEF CreatorFault
    <3> QED
      BY <2>0, <3>1 DEF PendingHasCreator
  <2>4. CASE CreatorUnSet \/ CreatorUnSetErr
    BY <2>4 DEF CreatorUnSet, CreatorUnSetErr, PendingHasCreator
  <2>5. CASE CreatorRetry
    <3>1. \A c \in {"creating", "created", "failed"} : creators'[c] = creators[c]
      BY <2>0, <2>5, CreatorMoves, CreatorLeaves DEF CreatorRetry
    <3>2. pending' = pending
      BY <2>5 DEF CreatorRetry
    <3> QED
      BY <3>1, <3>2, PendingKept
  <2>6. CASE Worker
    <3>1. pending' = pending
      BY <2>6 DEF Worker, WorkerStart, WorkerQuit, SyncPolicy, SyncPolicyDone, SyncDeleted,
                  SyncFault, RemoveResourceWebhookConfiguration, DeleteConfig,
                  DeleteConfigFault, WorkerGet, workerFrame
    <3>2. CASE RegisterResourceWebhook(recent)
      BY <2>0, <3>1, <3>2, RegisterAddsCreator, PendingKept
    <3>3. CASE creators' = creators
      BY <3>1, <3>3, PendingKept
    <3> QED
      BY <2>6, <3>2, <3>3
         DEF Worker, WorkerStart, WorkerQuit, SyncPolicy, SyncPolicyDone, SyncDeleted,
             SyncFault, RemoveResourceWebhookConfiguration, DeleteConfig,
             DeleteConfigFault, WorkerGet
  <2>7. ASSUME NEW p \in Policies, HandlePolicyValidation(p) PROVE PendingHasCreator'
    <3>1. pending' = pending
      BY <2>7 DEF HandlePolicyValidation
    <3>2. RegisterResourceWebhook(TRUE)
      BY <2>7 DEF HandlePolicyValidation
    <3>3. \A c \in CreatorPhases \ {"spawned"} : creators'[c] = creators[c]
      BY <2>0, <3>2, RegisterAddsCreator
    <3>4. \A c \in {"creating", "created", "failed"} : creators'[c] = creators[c]
      BY <3>3
    <3> QED
      BY <3>1, <3>4, PendingKept
  <2>8. CASE Exit \/ Crash
    BY <2>8 DEF Exit, Crash, ProcessGone, PendingHasCreator
  <2>9. CASE \/ \E p \in Policies : \/ StorePolicy(p) \/ DeletePolicy(p)
                                    \/ PolicyInformerSync(p) \/ PolicyResync(p)
             \/ Request \/ Quiet \/ ConfigInformerSync \/ Start \/ Stop \/ CleanUp
    <3>1. creators' = creators /\ pending' = pending
      BY <2>9 DEF StorePolicy, DeletePolicy, PolicyInformerSync, PolicyResync, Request, Quiet,
                  ConfigInformerSync, Start, Stop, CleanUp, informerFrame
    <3> QED
      BY <3>1, PendingKept
  <2>10. CASE UNCHANGED vars
    BY <2>10 DEF vars, PendingHasCreator
  <2> QED
    BY <2>1, <2>2, <2>3, <2>4, <2>5, <2>6, <2>7, <2>8, <2>9, <2>10 DEF Next, Creator
<1> QED
  BY <1>1, <1>2, TypeCorrect, PTL DEF Spec

-----------------------------------------------------------------------------
(***************************************************************************)
(* The checker (WebhookChecker), the other goroutine of pkg/webhookconfig  *)
(* and pkg/checker that decides from the time of the last request: its     *)
(* type invariant, and what its reports are based on.                      *)
(***************************************************************************)
CONSTANTS MaxRetryCount, MaxChanges
VARIABLES age, ann, reachable, exists, checkerFaults, changes

Checker == INSTANCE WebhookChecker WITH faults <- checkerFaults

CheckerConstants == MaxRetryCount \in Nat \ {0} /\ MaxFaults \in Nat /\ MaxChanges \in Nat

(* The annotations, whatever is written to them. *)
LEMMA CheckerWrites ==
    ASSUME CheckerConstants, Checker!TypeOK, NEW now \in 0..Checker!Oldest,
           NEW new \in [present : BOOLEAN, webhookActive : {"absent", "true", "false"},
                        counter : {"absent", "number"}],
           Checker!UpdateDeployment(now, new) \/ Checker!NoUpdate(now)
    PROVE  /\ ann' \in {ann, new} /\ age' \in 0..Checker!Oldest
           /\ checkerFaults' \in 0..MaxFaults
<1>1. 0 \in 0..Checker!Oldest
  BY DEF CheckerConstants, Checker!Oldest
<1>2. CASE Checker!NoUpdate(now)
  BY <1>2 DEF Checker!NoUpdate, Checker!TypeOK
<1>3. CASE Checker!UpdateDeployment(now, new)
  BY <1>1, <1>3 DEF Checker!UpdateDeployment, Checker!TypeOK, CheckerConstants
<1> QED
  BY <1>2, <1>3

(* SetStatus keeps the types, and writes no other status than the given one. *)
LEMMA CheckerSets ==
    ASSUME CheckerConstants, Checker!TypeOK, NEW now \in 0..Checker!Oldest,
           NEW status \in {"true", "false"},
           Checker!SetStatus(now, status)
    PROVE  /\ ann' \in [present : BOOLEAN, webhookActive : {"absent", "true", "false"},
                        counter : {"absent", "number"}]
           /\ ann'.webhookActive \in {ann.webhookActive, status}
           /\ age' \in 0..Checker!Oldest /\ checkerFaults' \in 0..MaxFaults
<1> DEFINE new == [ann EXCEPT !.webhookActive = status]
<1>1. /\ ann \in [present : BOOLEAN, webhookActive : {"absent", "true", "false"},
                  counter : {"absent", "number"}]
  BY DEF Checker!TypeOK
<1>2. /\ new \in [present : BOOLEAN, webhookActive : {"absent", "true", "false"},
                  counter : {"absent", "number"}]
      /\ new.webhookActive = status
  BY <1>1
<1>3. Checker!UpdateDeployment(now, new) \/ Checker!NoUpdate(now)
  BY DEF Checker!SetStatus
<1> HIDE DEF new
<1>4. /\ ann' \in {ann, new} /\ age' \in 0..Checker!Oldest /\ checkerFaults' \in 0..MaxFaults
  BY <1>2, <1>3, CheckerWrites
<1> QED
  BY <1>1, <1>2, <1>4

(* IncrementAnnotation leaves the status alone. *)
LEMMA CheckerIncrements ==
    ASSUME CheckerConstants, Checker!TypeOK, NEW now \in 0..Checker!Oldest,
           Checker!IncrementAnnotation(now)
    PROVE  /\ ann' \in [present : BOOLEAN, webhookActive : {"absent", "true", "false"},
                        counter : {"absent", "number"}]
           /\ ann'.webhookActive = ann.webhookActive
           /\ age' \in 0..Checker!Oldest /\ checkerFaults' \in 0..MaxFaults
<1> DEFINE new == [ann EXCEPT !.present = TRUE, !.counter = "number"]
<1>1. /\ ann \in [present : BOOLEAN, webhookActive : {"absent", "true", "false"},
                  counter : {"absent", "number"}]
  BY DEF Checker!TypeOK
<1>2. /\ new \in [present : BOOLEAN, webhookActive : {"absent", "true", "false"},
                  counter : {"absent", "number"}]
      /\ new.webhookActive = ann.webhookActive
  BY <1>1
<1>3. Checker!UpdateDeployment(now, new) \/ Checker!NoUpdate(now)
  BY DEF Checker!IncrementAnnotation
<1> HIDE DEF new
<1>4. /\ ann' \in {ann, new} /\ age' \in 0..Checker!Oldest /\ checkerFaults' \in 0..MaxFaults
  BY <1>2, <1>3, CheckerWrites
<1> QED
  BY <1>1, <1>2, <1>4

\* What a report is based on: the webhook is called inactive only when no request has come
\* for as long as the maximal deadline, and active only when one came since the last tick or
\* the process starts; and neither without a policy.
ReportsHaveEvidence ==
    (ann'.webhookActive # ann.webhookActive) =>
        /\ exists
        /\ \/ ann'.webhookActive = "false" /\ age >= MaxRetryCount
           \/ ann'.webhookActive = "true" /\ (age = 0 \/ Checker!Restart)

(* Every step of the checker and the cluster keeps the types, and reports with evidence. *)
LEMMA CheckerStep ==
    ASSUME CheckerConstants, Checker!TypeOK, Checker!Next
    PROVE  Checker!TypeOK' /\ ReportsHaveEvidence
<1> DEFINE Ann == [present : BOOLEAN, webhookActive : {"absent", "true", "false"},
                   counter : {"absent", "number"}]
<1>1. ann \in Ann /\ age \in 0..Checker!Oldest /\ MaxRetryCount \in Nat \ {0}
  BY DEF Checker!TypeOK, CheckerConstants
<1>2. ASSUME ann' \in Ann, age' \in 0..Checker!Oldest, checkerFaults' \in 0..MaxFaults,
             reachable' \in BOOLEAN, exists' \in BOOLEAN, changes' \in 0..MaxChanges
      PROVE  Checker!TypeOK'
  BY <1>2 DEF Checker!TypeOK, Checker!Oldest
<1>3. CASE Checker!Tick
  <2> DEFINE now == IF age < Checker!Oldest THEN age + 1 ELSE age
  <2>1. /\ IF exists THEN Checker!Check(now) ELSE Checker!NoUpdate(now)
        /\ UNCHANGED <<reachable, exists, changes>>
    BY <1>3 DEF Checker!Tick
  <2>2. /\ now \in 0..Checker!Oldest /\ (now > MaxRetryCount => age >= MaxRetryCount)
        /\ (now <= 1 => age = 0) /\ now \in Nat
    BY <1>1 DEF Checker!Oldest
  <2> HIDE DEF now
  <2>3. UNCHANGED <<reachable, exists, changes>> => reachable' \in BOOLEAN /\ exists' \in BOOLEAN
            /\ changes' \in 0..MaxChanges
    BY DEF Checker!TypeOK
  <2>4. CASE ~exists \/ (exists /\ 1 < now /\ ~(now > MaxRetryCount))
    <3>1. Checker!NoUpdate(now) \/ Checker!IncrementAnnotation(now)
      BY <2>1, <2>4 DEF Checker!Check
    <3>2. /\ ann' \in Ann /\ ann'.webhookActive = ann.webhookActive
          /\ age' \in 0..Checker!Oldest /\ checkerFaults' \in 0..MaxFaults
      <4>1. CASE Checker!NoUpdate(now)
        BY <1>1, <2>2, <4>1 DEF Checker!NoUpdate, Checker!TypeOK
      <4>2. CASE Checker!IncrementAnnotation(now)
        BY <2>2, <4>2, CheckerIncrements
      <4> QED
        BY <3>1, <4>1, <4>2
    <3> QED
      BY <1>2, <2>1, <2>3, <3>2 DEF ReportsHaveEvidence
  <2>5. CASE exists /\ now > MaxRetryCount
    <3>1. Checker!SetStatus(now, "false")
      BY <2>1, <2>5 DEF Checker!Check
    <3>2. /\ ann' \in Ann /\ ann'.webhookActive \in {ann.webhookActive, "false"}
          /\ age' \in 0..Checker!Oldest /\ checkerFaults' \in 0..MaxFaults
      BY <2>2, <3>1, CheckerSets
    <3>3. age >= MaxRetryCount
      BY <2>2, <2>5
    <3>4. ReportsHaveEvidence
      BY <2>5, <3>2, <3>3 DEF ReportsHaveEvidence
    <3> QED
      BY <1>2, <2>1, <2>3, <3>2, <3>4
  <2>6. CASE exists /\ ~(1 < now) /\ ~(now > MaxRetryCount)
    <3>1. Checker!SetStatus(now, "true")
      BY <2>1, <2>6 DEF Checker!Check
    <3>2. /\ ann' \in Ann /\ ann'.webhookActive \in {ann.webhookActive, "true"}
          /\ age' \in 0..Checker!Oldest /\ checkerFaults' \in 0..MaxFaults
      BY <2>2, <3>1, CheckerSets
    <3>3. age = 0
      BY <2>2, <2>6
    <3> QED
      BY <1>2, <2>1, <2>3, <2>6, <3>2, <3>3 DEF ReportsHaveEvidence
  <2> QED
    BY <2>4, <2>5, <2>6
<1>4. CASE Checker!Restart
  <2>1. /\ changes < MaxChanges /\ changes' = changes + 1
        /\ IF exists THEN Checker!SetStatus(0, "true") ELSE Checker!NoUpdate(0)
        /\ UNCHANGED <<reachable, exists>>
    BY <1>4 DEF Checker!Restart
  <2>2. 0 \in 0..Checker!Oldest
    BY <1>1 DEF Checker!Oldest
  <2>3. changes' \in 0..MaxChanges /\ reachable' \in BOOLEAN /\ exists' \in BOOLEAN
    BY <2>1 DEF Checker!TypeOK, CheckerConstants
  <2>4. CASE exists
    <3>1. /\ ann' \in Ann /\ ann'.webhookActive \in {ann.webhookActive, "true"}
          /\ age' \in 0..Checker!Oldest /\ checkerFaults' \in 0..MaxFaults
      BY <2>1, <2>2, <2>4, CheckerSets
    <3> QED
      BY <1>2, <1>4, <2>3, <2>4, <3>1 DEF ReportsHaveEvidence
  <2>5. CASE ~exists
    <3>1. ann' = ann /\ age' = 0 /\ checkerFaults' = checkerFaults
      BY <2>1, <2>5 DEF Checker!NoUpdate
    <3>2. ann' \in Ann /\ age' \in 0..Checker!Oldest /\ checkerFaults' \in 0..MaxFaults
      BY <1>1, <2>2, <3>1 DEF Checker!TypeOK
    <3> QED
      BY <1>2, <2>3, <3>1, <3>2 DEF ReportsHaveEvidence
  <2> QED
    BY <2>4, <2>5
<1>5. CASE Checker!Request
  BY <1>1, <1>5 DEF Checker!Request, Checker!TypeOK, Checker!Oldest, ReportsHaveEvidence
<1>6. CASE Checker!ReachabilityChanges
  BY <1>6 DEF Checker!ReachabilityChanges, Checker!TypeOK, ReportsHaveEvidence, CheckerConstants
<1>7. CASE Checker!PoliciesChange
  BY <1>7 DEF Checker!PoliciesChange, Checker!TypeOK, ReportsHaveEvidence, CheckerConstants
<1>8. CASE Checker!RevisionAnnotated
  BY <1>1, <1>8 DEF Checker!RevisionAnnotated, Checker!TypeOK, ReportsHaveEvidence
<1> QED
  BY <1>3, <1>4, <1>5, <1>6, <1>7, <1>8 DEF Checker!Next

(* The checker's time, annotations and counters keep their types for every maximal deadline:
   nothing but a status or a number is ever written under the two keys of status.go. *)
THEOREM CheckerTypeCorrect == CheckerConstants => (Checker!Spec => []Checker!TypeOK)
<1> SUFFICES ASSUME CheckerConstants PROVE Checker!Spec => []Checker!TypeOK
  OBVIOUS
<1>1. Checker!Init => Checker!TypeOK
  BY DEF Checker!Init, Checker!TypeOK, Checker!Oldest, CheckerConstants
<1>2. Checker!TypeOK /\ [Checker!Next]_(Checker!vars) => Checker!TypeOK'
  <2>1. Checker!TypeOK /\ UNCHANGED Checker!vars => Checker!TypeOK'
    BY DEF Checker!TypeOK, Checker!vars, Checker!Oldest
  <2> QED
    BY <2>1, CheckerStep
<1> QED
  BY <1>1, <1>2, PTL DEF Checker!Spec

(* The checker of pkg/checker never reports without evidence: not inactive while requests come
   in, nor active because a write of its own failed, whatever restarts and failed writes are
   in between. *)
THEOREM CheckerReportsEvidence ==
    CheckerConstants => (Checker!Spec => [][ReportsHaveEvidence]_(Checker!vars))
<1> SUFFICES ASSUME CheckerConstants
             PROVE  Checker!Spec => [][ReportsHaveEvidence]_(Checker!vars)
  OBVIOUS
<1>1. Checker!TypeOK /\ [Checker!Next]_(Checker!vars) => [ReportsHaveEvidence]_(Checker!vars)
  BY CheckerStep
<1> QED
  BY <1>1, CheckerTypeCorrect, PTL DEF Checker!Spec
=============================================================================

-------------------------- MODULE AdmissionProofs --------------------------
(***************************************************************************)
(* Proofs about Admission, for every set of policies, requests and users:  *)
(* type correctness (which needs what the mutation engine returns), that   *)
(* stored resources obey the "enforce" policies they were admitted under,  *)
(* that violations of the others were reported, and that what was created  *)
(* under a generate rule has its generate request; and about RuleMatch,    *)
(* that scan and engine agree and that roles may be looked up on demand.   *)
(***************************************************************************)
EXTENDS Admission, FiniteSetTheorems, WellFoundedInduction, NaturalsInduction, TLAPS

(* Induction on the naturals, for a set instead of a predicate. *)
LEMMA SetInduction ==
    ASSUME NEW S, 0 \in S, \A n \in Nat : n \in S => n + 1 \in S
    PROVE  Nat \subseteq S
<1> SUFFICES ASSUME Nat \ S # {} PROVE FALSE
  OBVIOUS
<1> DEFINE R == OpToRel(<, Nat)
<1>1. IsWellFoundedOn(R, Nat)
  BY NatLessThanWellFounded
<1>2. \A n \in Nat : <<n, n + 1>> \in R
  BY DEF OpToRel
<1> HIDE DEF R
<1>3. PICK x \in Nat \ S : \A y \in Nat \ S : ~(<<y, x>> \in R)
  BY <1>1, WFMin
<1>4. x # 0 /\ x - 1 \in Nat /\ (x - 1) + 1 = x
  BY <1>3
<1>5. x - 1 \notin S
  BY <1>3, <1>4
<1> QED
  BY <1>2, <1>3, <1>4, <1>5

(* A loop whose steps stay in a set ends in the set. *)
LEMMA IterateType ==
    ASSUME NEW A, NEW steps, Len(steps) \in Nat, NEW base \in A,
           \A i \in 1..Len(steps) : \A x \in A : steps[i][x] \in A
    PROVE  Iterate(steps, base) \in A
<1> DEFINE N == Len(steps)
           Good(n, g) == g = [i \in 0..n |-> IF i = 0 THEN base ELSE steps[i][g[i - 1]]]
           S == {n \in Nat : \E g : Good(n, g)}
<1>1. 0 \in S
  <2>1. Good(0, [i \in 0..0 |-> base])
    OBVIOUS
  <2> QED
    BY <2>1
<1>2. ASSUME NEW n \in Nat, n \in S PROVE n + 1 \in S
  <2>1. PICK g : Good(n, g)
    BY <1>2
  <2> DEFINE h == [i \in 0..(n + 1) |-> IF i = n + 1 THEN steps[n + 1][g[n]] ELSE g[i]]
  <2>2. Good(n + 1, h)
    <3> SUFFICES ASSUME NEW i \in 0..(n + 1)
                 PROVE  h[i] = IF i = 0 THEN base ELSE steps[i][h[i - 1]]
      OBVIOUS
    <3>1. CASE i = n + 1
      BY <3>1
    <3>2. CASE i \in 0..n
      <4>1. g[i] = IF i = 0 THEN base ELSE steps[i][g[i - 1]]
        BY <2>1, <3>2
      <4> QED
        BY <3>2, <4>1
    <3> QED
      BY <3>1, <3>2
  <2> HIDE DEF Good, h
  <2>3. n + 1 \in Nat /\ \E f : Good(n + 1, f)
    BY <2>2
  <2> QED
    BY <2>3
<1>3. N \in S
  <2> HIDE DEF S
  <2> QED
    BY <1>1, <1>2, SetInduction
<1> DEFINE after == CHOOSE g : Good(N, g)
<1>4. Good(N, after)
  BY <1>3
<1>5. Iterate(steps, base) = after[N]
  BY DEF Iterate
<1> HIDE DEF after
<1>6. after[0] = base /\ \A i \in 1..N : after[i] = steps[i][after[i - 1]]
  BY <1>4
<1> DEFINE T == {n \in Nat : n <= N => after[n] \in A}
<1>7. 0 \in T
  BY <1>6
<1>8. ASSUME NEW n \in Nat, n \in T PROVE n + 1 \in T
  <2> SUFFICES ASSUME n + 1 <= N PROVE after[n + 1] \in A
    OBVIOUS
  <2>1. after[n] \in A /\ n + 1 \in 1..N
    BY <1>8
  <2>2. after[n + 1] = steps[n + 1][after[n]]
    BY <1>6, <2>1
  <2> QED
    BY <2>1, <2>2
<1>9. N \in T
  <2> HIDE DEF T
  <2> QED
    BY <1>7, <1>8, SetInduction
<1> QED
  BY <1>5, <1>9

-----------------------------------------------------------------------------
(* What the engine returns. *)

(* The number of steps of a loop over a sequence. *)
LEMMA StepsLen ==
    ASSUME NEW T, NEW s \in Seq(T), NEW f, DOMAIN f = DOMAIN s
    PROVE  Len(f) = Len(s) /\ Len(s) \in Nat /\ DOMAIN s = 1..Len(s)
OBVIOUS

(* The elements of a concatenation. *)
LEMMA ToSetConcat ==
    ASSUME NEW S, NEW s \in Seq(S), NEW t \in Seq(S)
    PROVE  s \o t \in Seq(S) /\ ToSet(s \o t) \subseteq ToSet(s) \cup ToSet(t)
<1>1. s \o t \in Seq(S)
  OBVIOUS
<1>2. ASSUME NEW i \in DOMAIN (s \o t) PROVE (s \o t)[i] \in ToSet(s) \cup ToSet(t)
  <2>1. Len(s) \in Nat /\ Len(t) \in Nat /\ i \in 1..(Len(s) + Len(t))
    OBVIOUS
  <2>2. DOMAIN s = 1..Len(s) /\ DOMAIN t = 1..Len(t)
    OBVIOUS
  <2>3. CASE i <= Len(s)
    <3>1. (s \o t)[i] = s[i] /\ i \in DOMAIN s
      BY <2>1, <2>2, <2>3
    <3> QED
      BY <3>1 DEF ToSet
  <2>4. CASE i > Len(s)
    <3>1. (s \o t)[i] = t[i - Len(s)] /\ i - Len(s) \in DOMAIN t
      BY <2>1, <2>2, <2>4
    <3> QED
      BY <3>1 DEF ToSet
  <2> QED
    BY <2>1, <2>3, <2>4
<1> QED
  BY <1>1, <1>2 DEF ToSet

\* Resources of a kind, or none.
OfKind(k) == {r \in Resource : r.kind = k} \cup {None}

\* What patches can make of a resource: its kind, its name and, of a pod, the annotation
\* that pods of controllers have stay as they are.
Same(r) == {x \in Resource : /\ x.kind = r.kind /\ x.name = r.name
                             /\ r.kind = "Pod" => x.auto = r.auto} \cup {None}

(* An operation leaves kind, name and a pod's annotation alone; some always succeed. *)
LEMMA ApplyOpFacts ==
    ASSUME NEW r \in Resource, NEW op \in Op
    PROVE  /\ ApplyOp(r, op) \in Same(r)
           /\ op.op \in {"value", "template", "annotations"} => ApplyOp(r, op) \in Resource
           /\ op.op # "replace" /\ r.ann # "nil"
                => ApplyOp(r, op) \in Resource /\ ApplyOp(r, op).ann # "nil"
<1>1. r # None
  BY EngineAssumption
<1>2. CASE op.op = "value"
  <2>1. op.v \in Values
    BY <1>2 DEF Op
  <2>2. ApplyOp(r, op) = [r EXCEPT !.v = op.v]
    BY <1>1, <1>2 DEF ApplyOp
  <2> QED
    BY <1>2, <2>1, <2>2 DEF Resource, Same
<1>3. CASE op.op = "template"
  <2> DEFINE b == r.auto \/ r.kind \in PodControllers
  <2>1. ApplyOp(r, op) = [r EXCEPT !.auto = b]
    BY <1>1, <1>3 DEF ApplyOp
  <2>2. b \in BOOLEAN
    OBVIOUS
  <2>3. r.kind = "Pod" => b = r.auto
    <3>1. r.kind = "Pod" => ~(r.kind \in PodControllers)
      BY DEF PodControllers
    <3>2. r.auto \in BOOLEAN
      BY DEF Resource
    <3> QED
      BY <3>1, <3>2
  <2> HIDE DEF b
  <2> QED
    BY <1>3, <2>1, <2>2, <2>3 DEF Resource, Same
<1>4. CASE op.op = "annotations"
  <2>1. op.v \in {"user", "kyverno"}
    BY <1>4 DEF Op
  <2>2. ApplyOp(r, op) = [r EXCEPT !.ann = op.v]
    BY <1>1, <1>4 DEF ApplyOp
  <2> QED
    BY <1>4, <2>1, <2>2 DEF Resource, Same
<1>5. CASE op.op = "annotation"
  <2>1. CASE r.ann = "nil"
    BY <1>1, <1>5, <2>1 DEF ApplyOp, Same
  <2>2. CASE r.ann # "nil"
    <3> DEFINE a == IF "kyverno" \in {op.v, r.ann} THEN "kyverno" ELSE r.ann
    <3>1. ApplyOp(r, op) = [r EXCEPT !.ann = a]
      BY <1>1, <1>5, <2>2 DEF ApplyOp
    <3>2. a \in {"user", "kyverno"}
      BY <2>2 DEF Resource
    <3> HIDE DEF a
    <3> QED
      BY <1>5, <3>1, <3>2 DEF Resource, Same
  <2> QED
    BY <2>1, <2>2
<1>6. CASE op.op = "replace"
  BY <1>1, <1>6 DEF ApplyOp, Same
<1> QED
  BY <1>2, <1>3, <1>4, <1>5, <1>6 DEF Op

(* So do patches. *)
LEMMA ApplyPatchesSame ==
    ASSUME NEW r \in Resource, NEW patches \in Seq(Op)
    PROVE  ApplyPatches(r, patches) \in Same(r)
<1> DEFINE steps == [i \in DOMAIN patches |->
                        [x \in Resource \cup {None} |-> ApplyOp(x, patches[i])]]
<1>1. Len(steps) = Len(patches) /\ Len(patches) \in Nat /\ DOMAIN patches = 1..Len(patches)
  BY StepsLen
<1>2. ASSUME NEW i \in 1..Len(patches), NEW x \in Same(r)
      PROVE  steps[i][x] \in Same(r)
  <2>1. steps[i][x] = ApplyOp(x, patches[i]) /\ patches[i] \in Op
    BY <1>1 DEF Same
  <2>2. CASE x = None
    BY <2>1, <2>2 DEF ApplyOp, Same
  <2>3. CASE x # None
    <3>1. /\ x \in Resource /\ x.kind = r.kind /\ x.name = r.name
          /\ r.kind = "Pod" => x.auto = r.auto
      BY <2>3 DEF Same
    <3>2. ApplyOp(x, patches[i]) \in Same(x)
      BY <2>1, <3>1, ApplyOpFacts
    <3> QED
      BY <2>1, <3>1, <3>2 DEF Same
  <2> QED
    BY <2>2, <2>3
<1>3. r \in Same(r)
  BY DEF Same
<1>4. ApplyPatches(r, patches) = Iterate(steps, r)
  BY DEF ApplyPatches
<1> DEFINE A == Same(r)
<1>5. r \in A /\ \A i \in 1..Len(steps) : \A x \in A : steps[i][x] \in A
  BY <1>1, <1>2, <1>3
<1> HIDE DEF steps, A
<1>6. Iterate(steps, r) \in A
  BY <1>1, <1>5, IterateType
<1> QED
  BY <1>4, <1>6 DEF A

(* Patches that do not rely on an annotation the resource may lack can be applied. *)
LEMMA ApplyPatchesSucceeds ==
    ASSUME NEW r \in Resource, NEW patches \in Seq(Op),
           \/ \A i \in DOMAIN patches : patches[i].op \in {"value", "template", "annotations"}
           \/ r.ann # "nil" /\ \A i \in DOMAIN patches : patches[i].op # "replace"
    PROVE  ApplyPatches(r, patches) \in Resource
<1> DEFINE steps == [i \in DOMAIN patches |->
                        [x \in Resource \cup {None} |-> ApplyOp(x, patches[i])]]
<1>1. Len(steps) = Len(patches) /\ Len(patches) \in Nat /\ DOMAIN patches = 1..Len(patches)
  BY StepsLen
<1>2. ASSUME NEW i \in 1..Len(patches), NEW x \in Resource
      PROVE  steps[i][x] = ApplyOp(x, patches[i]) /\ patches[i] \in Op
  BY <1>1
<1>3. ApplyPatches(r, patches) = Iterate(steps, r)
  BY DEF ApplyPatches
<1> HIDE DEF steps
<1>4. CASE \A i \in DOMAIN patches : patches[i].op \in {"value", "template", "annotations"}
  <2>1. ASSUME NEW i \in 1..Len(patches), NEW x \in Resource PROVE steps[i][x] \in Resource
    BY <1>1, <1>2, <1>4, ApplyOpFacts
  <2> QED
    BY <1>1, <1>3, <2>1, IterateType
<1>5. CASE r.ann # "nil" /\ \A i \in DOMAIN patches : patches[i].op # "replace"
  <2> DEFINE A == {x \in Resource : x.ann # "nil"}
  <2>1. ASSUME NEW i \in 1..Len(patches), NEW x \in A PROVE steps[i][x] \in A
    BY <1>1, <1>2, <1>5, ApplyOpFacts
  <2>2. r \in A
    BY <1>5
  <2> HIDE DEF A
  <2>3. Iterate(steps, r) \in A
    BY <1>1, <2>1, <2>2, IterateType
  <2> QED
    BY <1>3, <2>3 DEF A
<1> QED
  BY <1>4, <1>5

(* What a rule response consists of. *)
LEMMA ResponseType ==
    ASSUME NEW n \in RuleNames, NEW b \in BOOLEAN, NEW c \in BOOLEAN,
           NEW m \in {"ok", "skip", "path", "fail"}, NEW ps \in Seq(Op)
    PROVE  Response(n, b, c, m, ps) \in RuleResponse /\ Response(n, b, c, m, ps).patches = ps
BY DEF Response, RuleResponse

(* The response to an overlay is typed, and its patches fit the resource. *)
LEMMA ProcessOverlayFacts ==
    ASSUME NEW r \in Resource, NEW rule \in AllRules, rule.overlay # None
    PROVE  /\ ProcessOverlay(rule, r) \in RuleResponse
           /\ ApplyPatches(r, ProcessOverlay(rule, r).patches) \in Resource
<1> DEFINE out == rule.overlay[r.v]
           a == AnnotationOp(r)
           more == IF rule.annotates THEN <<a>> ELSE <<>>
           ops == <<[op |-> "value", v |-> out]>> \o more
<1>1. out \in Values \cup {"skip", "path", "fail"} /\ rule.name \in RuleNames
  BY EngineAssumption DEF Resource, RuleNames
<1>2. <<>> \in Seq(Op) /\ ApplyPatches(r, <<>>) \in Resource
  <2>1. <<>> \in Seq(Op) /\ \A i \in DOMAIN <<>> : <<>>[i].op \in {"value", "template", "annotations"}
    OBVIOUS
  <2> QED
    BY <2>1, ApplyPatchesSucceeds
<1>3. CASE out \in {"path", "skip", "fail"}
  <2>1. \E n \in {"", rule.name}, b, c \in BOOLEAN, m \in {"skip", "path", "fail"} :
          ProcessOverlay(rule, r) = Response(n, b, c, m, <<>>)
    BY <1>3 DEF ProcessOverlay, newPathNotPresentRuleResponse, Skipped
  <2>2. ProcessOverlay(rule, r) \in RuleResponse /\ ProcessOverlay(rule, r).patches = <<>>
    <3>1. "" \in RuleNames
      BY DEF RuleNames
    <3>2. PICK n \in {"", rule.name}, b \in BOOLEAN, c \in BOOLEAN, m \in {"skip", "path", "fail"} :
            ProcessOverlay(rule, r) = Response(n, b, c, m, <<>>)
      BY <2>1
    <3>3. n \in RuleNames /\ m \in {"ok", "skip", "path", "fail"}
      BY <1>1, <3>1
    <3>4. Response(n, b, c, m, <<>>) \in RuleResponse /\ Response(n, b, c, m, <<>>).patches = <<>>
      BY <1>2, <3>3 DEF Response, RuleResponse
    <3> QED
      BY <3>2, <3>4
  <2> QED
    BY <1>2, <2>2
<1>4. CASE out \notin {"path", "skip", "fail"}
  <2>1. out \in Values
    BY <1>1, <1>4
  <2>2. /\ a \in Op /\ a.op \in {"annotations", "annotation"}
        /\ a.op = "annotation" => r.ann # "nil"
    BY DEF AnnotationOp, Op
  <2> HIDE DEF a
  <2>3. more \in Seq(Op) /\ \A i \in DOMAIN more : more[i] = a
    BY <2>2
  <2>4. [op |-> "value", v |-> out] \in Op
    BY <2>1 DEF Op
  <2>5. ops \in Seq(Op)
    <3> HIDE DEF out, more
    <3> QED
      BY <2>3, <2>4
  <2>6. ASSUME NEW i \in DOMAIN ops PROVE ops[i].op = "value" \/ ops[i] = a
    <3> DEFINE first == <<[op |-> "value", v |-> out]>>
    <3>1. first \in Seq(Op) /\ \A x \in ToSet(first) : x.op = "value"
      BY <2>4 DEF ToSet
    <3>2. ops = first \o more /\ ops[i] \in ToSet(ops)
      BY DEF ToSet
    <3> HIDE DEF first, more, ops
    <3>3. ToSet(ops) \subseteq ToSet(first) \cup ToSet(more)
      BY <2>3, <3>1, <3>2, ToSetConcat
    <3>4. \A x \in ToSet(more) : x = a
      BY <2>3 DEF ToSet
    <3> QED
      BY <3>1, <3>2, <3>3, <3>4
  <2>7. ProcessOverlay(rule, r) = Response(rule.name, TRUE, FALSE, "ok", ops)
    BY <1>4 DEF ProcessOverlay, a
  <2> HIDE DEF ops, out, more
  <2>8. ApplyPatches(r, ops) \in Resource
    <3>1. CASE a.op = "annotations"
      BY <2>5, <2>6, <3>1, ApplyPatchesSucceeds
    <3>2. CASE a.op = "annotation"
      BY <2>2, <2>5, <2>6, <3>2, ApplyPatchesSucceeds
    <3> QED
      BY <2>2, <3>1, <3>2
  <2>9. /\ Response(rule.name, TRUE, FALSE, "ok", ops) \in RuleResponse
        /\ Response(rule.name, TRUE, FALSE, "ok", ops).patches = ops
    BY <1>1, <2>5, ResponseType
  <2> QED
    BY <2>7, <2>8, <2>9
<1> QED
  BY <1>3, <1>4

(* The response to JSON patches likewise. *)
LEMMA ProcessPatchesFacts ==
    ASSUME NEW r \in Resource, NEW rule \in AllRules, rule.patches # None
    PROVE  /\ ProcessPatches(rule, r) \in RuleResponse
           /\ ApplyPatches(r, ProcessPatches(rule, r).patches) \in Resource
<1> DEFINE out == rule.patches[r.v]
           ops == IF out = "fail" THEN <<>> ELSE <<[op |-> "value", v |-> out]>>
           ok == out # "fail"
           msg == IF out = "fail" THEN "fail" ELSE "ok"
<1>1. out \in Values \cup {"fail"} /\ rule.name \in RuleNames
  BY EngineAssumption DEF Resource, RuleNames
<1>2. ops \in Seq(Op) /\ \A i \in DOMAIN ops : ops[i].op = "value"
  <2>1. CASE out = "fail"
    BY <2>1
  <2>2. CASE out # "fail"
    <3>1. [op |-> "value", v |-> out] \in Op
      BY <1>1, <2>2 DEF Op
    <3> QED
      BY <2>2, <3>1
  <2> QED
    BY <2>1, <2>2
<1>3. ProcessPatches(rule, r) = Response(rule.name, ok, FALSE, msg, ops)
  BY DEF ProcessPatches
<1>4. ok \in BOOLEAN /\ msg \in {"ok", "fail"}
  OBVIOUS
<1> HIDE DEF ops, ok, msg
<1>5. ApplyPatches(r, ops) \in Resource
  BY <1>2, ApplyPatchesSucceeds
<1> QED
  BY <1>1, <1>2, <1>3, <1>4, <1>5 DEF Response, RuleResponse

(* The annotation of a pod template likewise. *)
LEMMA PodTemplateFacts ==
    ASSUME NEW r \in Resource
    PROVE  /\ PodTemplate(r) \in RuleResponse
           /\ ApplyPatches(r, PodTemplate(r).patches) \in Resource
<1> DEFINE ops == IF r.auto THEN <<>> ELSE <<[op |-> "template", v |-> "true"]>>
           name == IF r.auto THEN "" ELSE "autogen-annotate-podtemplate"
           msg == IF r.auto THEN "skip" ELSE "ok"
<1>1. [op |-> "template", v |-> "true"] \in Op
  BY DEF Op
<1>2. ops \in Seq(Op) /\ \A i \in DOMAIN ops : ops[i].op = "template"
  <2>1. CASE r.auto
    BY <2>1
  <2>2. CASE ~r.auto
    BY <1>1, <2>2
  <2> QED
    BY <2>1, <2>2
<1>3. PodTemplate(r) = Response(name, TRUE, FALSE, msg, ops)
  BY DEF PodTemplate, Skipped
<1>4. name \in RuleNames /\ msg \in {"ok", "skip"}
  BY DEF RuleNames
<1> HIDE DEF ops, name, msg
<1>5. ApplyPatches(r, ops) \in Resource
  BY <1>2, ApplyPatchesSucceeds
<1> QED
  BY <1>2, <1>3, <1>4, <1>5 DEF Response, RuleResponse

\* The engine responses for a policy.
For(p) == {er \in EngineResponse : er.policy = p}

(* A response whose patches fit is appended. *)
LEMMA Append1Facts ==
    ASSUME NEW p, NEW er \in For(p), NEW resp \in RuleResponse,
           ApplyPatches(er.resource, resp.patches) \in Resource
    PROVE  Append1(er, resp) \in For(p)
<1>1. CASE resp = Skipped
  BY <1>1 DEF Append1
<1>2. CASE resp # Skipped
  <2> DEFINE q == ApplyPatches(er.resource, resp.patches)
             rs == Append(er.rules, resp)
  <2>1. Append1(er, resp) = [er EXCEPT !.rules = rs, !.resource = q]
    BY <1>2 DEF Append1
  <2>2. rs \in Seq(RuleResponse)
    BY DEF For, EngineResponse
  <2>3. q \in Resource
    OBVIOUS
  <2> HIDE DEF q, rs
  <2> QED
    BY <2>1, <2>2, <2>3 DEF For, EngineResponse
<1> QED
  BY <1>1, <1>2

(* A rule turns a response for its policy into one. *)
LEMMA ApplyRuleFacts ==
    ASSUME NEW p, NEW er \in For(p), NEW rule \in AllRules, NEW r, NEW ctx, NEW info
    PROVE  ApplyRule(er, rule, r, ctx, info) \in For(p)
<1> DEFINE path == newPathNotPresentRuleResponse(rule)
           annotate == info # None /\ r.kind \in PodControllers
<1>1. \A e \in For(p) : e.resource \in Resource
  BY DEF For, EngineResponse
<1>2. <<>> \in Seq(Op) /\ \A x \in Resource : ApplyPatches(x, <<>>) \in Resource
  <2>1. <<>> \in Seq(Op) /\ \A i \in DOMAIN <<>> : <<>>[i].op \in {"value", "template", "annotations"}
    OBVIOUS
  <2> QED
    BY <2>1, ApplyPatchesSucceeds
<1>3. Append1(er, path) \in For(p)
  <2>1. path \in RuleResponse /\ path.patches = <<>>
    <3>1. rule.name \in RuleNames
      BY DEF RuleNames
    <3> QED
      BY <1>2, <3>1 DEF newPathNotPresentRuleResponse, Response, RuleResponse
  <2> QED
    BY <1>1, <1>2, <2>1, Append1Facts
<1> DEFINE over == IF rule.overlay = None THEN Skipped ELSE ProcessOverlay(rule, er.resource)
<1>4. Append1(er, over) \in For(p)
  <2>1. CASE rule.overlay = None
    BY <2>1 DEF Append1
  <2>2. CASE rule.overlay # None
    BY <1>1, <2>2, ProcessOverlayFacts, Append1Facts
  <2> QED
    BY <2>1, <2>2
<1>5. ASSUME NEW e \in For(p) PROVE Patched(e, rule) \in For(p)
  BY <1>1, ProcessPatchesFacts, Append1Facts DEF Patched
<1>6. ASSUME NEW e \in For(p), NEW b PROVE Annotated(e, b) \in For(p)
  BY <1>1, PodTemplateFacts, Append1Facts DEF Annotated
<1> HIDE DEF over, path, annotate
<1>7. Overlaid(er, rule, over, annotate) \in For(p)
  BY <1>4, <1>5, <1>6 DEF Overlaid
<1> QED
  BY <1>3, <1>7 DEF ApplyRule, over, path, annotate

(* Mutate returns a response for the policy. *)
LEMMA MutateFacts ==
    ASSUME NEW p \in Policies, NEW r \in Resource, NEW ctx, NEW info
    PROVE  Mutate(PolicyOf[p], r, ctx, info) \in For(p)
<1> DEFINE rules == PolicyOf[p].rules
           base == [policy |-> PolicyOf[p].name, name |-> r.name, rules |-> <<>>, resource |-> r]
           steps == [i \in DOMAIN rules |->
                        [er \in EngineResponse |-> ApplyRule(er, rules[i], r, ctx, info)]]
<1>1. rules \in Seq(RulesOf(p)) /\ PolicyOf[p].name = p
  BY EngineAssumption
<1>2. Len(steps) = Len(rules) /\ Len(rules) \in Nat /\ DOMAIN rules = 1..Len(rules)
  BY <1>1, StepsLen
<1>3. base \in For(p)
  <2>1. <<>> \in Seq(RuleResponse)
    OBVIOUS
  <2> QED
    BY <1>1, <2>1 DEF For, EngineResponse, Resource
<1>4. ASSUME NEW i \in 1..Len(rules), NEW er \in For(p) PROVE steps[i][er] \in For(p)
  <2>1. rules[i] \in AllRules
    BY <1>1, <1>2 DEF AllRules
  <2>2. steps[i][er] = ApplyRule(er, rules[i], r, ctx, info)
    BY <1>2 DEF For
  <2> QED
    BY <2>1, <2>2, ApplyRuleFacts
<1>5. Mutate(PolicyOf[p], r, ctx, info) = Iterate(steps, base)
  BY DEF Mutate
<1> DEFINE A == For(p)
<1>6. base \in A /\ \A i \in 1..Len(steps) : \A x \in A : steps[i][x] \in A
  BY <1>2, <1>3, <1>4
<1> HIDE DEF steps, A, base
<1>7. Iterate(steps, base) \in A
  BY <1>2, <1>6, IterateType
<1> QED
  BY <1>5, <1>7 DEF A

(* The patches of a response are patches. *)
LEMMA GetPatchesFacts ==
    ASSUME NEW er \in EngineResponse
    PROVE  GetPatches(er) \in Seq(Op)
<1> DEFINE steps == [i \in DOMAIN er.rules |-> [ps \in Seq(Op) |-> ps \o er.rules[i].patches]]
           A == Seq(Op)
<1>1. er.rules \in Seq(RuleResponse)
  BY DEF EngineResponse
<1>2. Len(steps) = Len(er.rules) /\ Len(er.rules) \in Nat /\ DOMAIN er.rules = 1..Len(er.rules)
  BY <1>1, StepsLen
<1>3. \A i \in 1..Len(steps) : \A ps \in A : steps[i][ps] \in A
  <2> SUFFICES ASSUME NEW i \in 1..Len(steps), NEW ps \in A PROVE steps[i][ps] \in A
    OBVIOUS
  <2>1. er.rules[i].patches \in Seq(Op)
    <3>1. er.rules[i] \in RuleResponse
      BY <1>1, <1>2
    <3> QED
      BY <3>1 DEF RuleResponse
  <2>2. steps[i][ps] = ps \o er.rules[i].patches
    BY <1>2
  <2> QED
    BY <2>1, <2>2
<1>4. GetPatches(er) = Iterate(steps, <<>>) /\ <<>> \in A
  BY DEF GetPatches
<1> HIDE DEF steps, A
<1>5. Iterate(steps, <<>>) \in A
  BY <1>2, <1>3, <1>4, IterateType
<1> QED
  BY <1>4, <1>5 DEF A

(* The mutation of a request: the object it patches keeps its kind and name, if it  *)
(* can be patched, and what it reports are policies. *)
LEMMA HandleMutationFacts ==
    ASSUME NEW pols \in Seq(Policies), NEW object \in Resource, NEW info
    PROVE  /\ HandleMutation(pols, object, info).patched \in Same(object)
           /\ HandleMutation(pols, object, info).reports \subseteq Policies
<1> DEFINE base == [resource |-> object, patches |-> <<>>, responses |-> <<>>]
           er(i, acc) == Mutate(PolicyOf[pols[i]], acc.resource, object.v, info)
           steps == [i \in DOMAIN pols |-> [acc \in Gathering |-> Gather(acc, er(i, acc))]]
           all == MutateAll(pols, object, info)
<1>1. Len(steps) = Len(pols) /\ Len(pols) \in Nat /\ DOMAIN pols = 1..Len(pols)
  BY StepsLen
<1>2. base \in Gathering
  <2>1. <<>> \in Seq(Op) /\ <<>> \in Seq(EngineResponse)
    OBVIOUS
  <2> QED
    BY <2>1 DEF Gathering
<1>3. ASSUME NEW i \in 1..Len(pols), NEW acc \in Gathering PROVE steps[i][acc] \in Gathering
  <2> DEFINE e == er(i, acc)
  <2>1. steps[i][acc] = Gather(acc, e)
    BY <1>1
  <2>2. acc.resource \in Resource /\ acc.patches \in Seq(Op) /\ acc.responses \in Seq(EngineResponse)
    BY DEF Gathering
  <2>3. e \in EngineResponse /\ e.resource \in Resource
    <3>1. pols[i] \in Policies
      BY <1>1
    <3>2. e \in For(pols[i])
      BY <2>2, <3>1, MutateFacts
    <3> QED
      BY <3>2 DEF For, EngineResponse
  <2> HIDE DEF e
  <2>4. GetPatches(e) \in Seq(Op)
    BY <2>3, GetPatchesFacts
  <2> DEFINE res == IF IsSuccesful(e) THEN e.resource ELSE acc.resource
             ps == IF IsSuccesful(e) THEN acc.patches \o GetPatches(e) ELSE acc.patches
             rs == Append(acc.responses, e)
  <2>5. res \in Resource /\ ps \in Seq(Op) /\ rs \in Seq(EngineResponse)
    BY <2>2, <2>3, <2>4
  <2>6. Gather(acc, e) = [resource |-> res, patches |-> ps, responses |-> rs]
    BY DEF Gather
  <2> HIDE DEF res, ps, rs
  <2> QED
    BY <2>1, <2>5, <2>6 DEF Gathering
<1>4. all = Iterate(steps, base)
  BY DEF MutateAll
<1>5. \A i \in 1..Len(steps) : \A acc \in Gathering : steps[i][acc] \in Gathering
  BY <1>1, <1>3
<1> HIDE DEF steps, base
<1>6. all \in Gathering
  BY <1>1, <1>2, <1>4, <1>5, IterateType
<1> HIDE DEF all
<1> DEFINE note == generateAnnotationPatches(all.responses)
<1>7. note \in Seq(Op)
  <2> DEFINE annotated == {i \in DOMAIN all.responses : all.responses[i].resource.ann # "nil"}
             ann == IF annotated = {} THEN "nil" ELSE all.responses[Min(annotated)].resource.ann
             op == IF ann = "kyverno" THEN "replace"
                   ELSE IF ann = "user" THEN "annotation" ELSE "annotations"
  <2>1. note = <<>> \/ note = <<[op |-> op, v |-> "kyverno"]>>
    BY DEF generateAnnotationPatches
  <2>2. op \in {"annotations", "annotation", "replace"}
    OBVIOUS
  <2> HIDE DEF op
  <2> DEFINE o == [op |-> op, v |-> "kyverno"]
  <2>3. o \in Op
    BY <2>2 DEF Op
  <2>4. note = <<>> \/ note = <<o>>
    BY <2>1
  <2> HIDE DEF note, o
  <2>5. <<>> \in Seq(Op) /\ <<o>> \in Seq(Op)
    BY <2>3
  <2> QED
    BY <2>4, <2>5
<1> HIDE DEF note
<1>8. all.patches \o note \in Seq(Op)
  BY <1>6, <1>7 DEF Gathering
<1>9. ApplyPatches(object, all.patches \o note) \in Same(object)
  BY <1>8, ApplyPatchesSame
<1>10. \A e \in ToSet(all.responses) : e.policy \in Policies
  <2>1. all.responses \in Seq(EngineResponse)
    BY <1>6 DEF Gathering
  <2>2. \A i \in DOMAIN all.responses : all.responses[i] \in EngineResponse
    BY <2>1
  <2>3. \A e \in EngineResponse : e.policy \in Policies
    BY DEF EngineResponse
  <2> QED
    BY <2>2, <2>3 DEF ToSet
<1>11. Violations(ToSet(all.responses)) \subseteq Policies
  BY <1>10 DEF Violations
<1> QED
  BY <1>9, <1>11 DEF HandleMutation, Answered, all, note

-----------------------------------------------------------------------------
(* What the webhook computes for a request. *)

(* An order of some policies is a sequence of policies. *)
LEMMA OrderType ==
    ASSUME NEW ps \in SUBSET Policies, NEW pols \in Orders[ps]
    PROVE  pols \in Seq(Policies)
<1>1. IsFiniteSet(ps) /\ Cardinality(ps) \in Nat
  BY EngineAssumption, FS_Subset, FS_CardinalityType
<1>2. Orders[ps] = SetToSeqs(ps)
  BY DEF Orders
<1>3. pols \in [1..Cardinality(ps) -> ps]
  BY <1>2 DEF SetToSeqs
<1> QED
  BY <1>1, <1>3

(* The mutation that a request is given, out of the table. *)
LEMMA MutationFacts ==
    ASSUME NEW ps \in SUBSET Policies, NEW pols \in Orders[ps],
           NEW object \in Resource, NEW info \in Infos
    PROVE  /\ Mutation[pols, object, info].patched \in Same(object)
           /\ Mutation[pols, object, info].reports \subseteq Policies
<1>1. pols \in UNION {Orders[q] : q \in SUBSET Policies}
  OBVIOUS
<1>2. Mutation[pols, object, info] = HandleMutation(pols, object, info)
  BY <1>1 DEF Mutation
<1> QED
  BY <1>2, OrderType, HandleMutationFacts

(* Rules match resources of a kind and name alike. *)
LEMMA MatchesAlike ==
    ASSUME NEW a \in Resource, NEW b \in Resource, a.kind = b.kind, a.name = b.name, NEW rule
    PROVE  MatchesResourceDescription(a, rule) = MatchesResourceDescription(b, rule)
<1>1. a.ns = b.ns /\ a.label = b.label
  BY DEF Resource
<1>2. excludeEval(rule.exclude, a) = excludeEval(rule.exclude, b)
  BY <1>1 DEF excludeEval
<1> QED
  BY <1>1, <1>2 DEF MatchesResourceDescription

(* Rules that match resources under any name match those of a kind alike. *)
LEMMA UnnamedAlike ==
    ASSUME NEW a \in Resource, NEW b \in Resource, a.kind = b.kind, NEW rule
    PROVE  MatchesUnnamed(a, rule) = MatchesUnnamed(b, rule)
<1>1. ASSUME NEW n \in Names
      PROVE  MatchesResourceDescription([a EXCEPT !.name = n], rule)
               = MatchesResourceDescription([b EXCEPT !.name = n], rule)
  <2> DEFINE c == [a EXCEPT !.name = n]
             d == [b EXCEPT !.name = n]
  <2>1. c \in Resource /\ d \in Resource /\ c.kind = d.kind /\ c.name = d.name
    BY DEF Resource
  <2> HIDE DEF c, d
  <2>2. MatchesResourceDescription(c, rule) = MatchesResourceDescription(d, rule)
    BY <2>1, MatchesAlike
  <2> QED
    BY <2>2 DEF c, d
<1> QED
  BY <1>1 DEF MatchesUnnamed

(* They match a resource under its own. *)
LEMMA MatchesNamed ==
    ASSUME NEW r \in Resource, NEW rule, MatchesUnnamed(r, rule)
    PROVE  MatchesResourceDescription(r, rule)
<1>1. r.name \in Names /\ [r EXCEPT !.name = r.name] = r
  BY DEF Resource
<1> QED
  BY <1>1 DEF MatchesUnnamed

(* A policy is violated by all resources of a kind and a value or by none. *)
LEMMA ViolatesAlike ==
    ASSUME NEW a \in Resource, NEW b \in Resource, a.kind = b.kind, a.v = b.v, NEW p
    PROVE  Violates(p, a) <=> Violates(p, b)
<1>1. \A rule \in RulesOf(p) : Concerns(rule, a) <=> Concerns(rule, b)
  BY UnnamedAlike DEF Concerns
<1> QED
  BY <1>1 DEF Violates

(* A rule that is not about users applies whoever sends the request. *)
LEMMA AppliesToAll ==
    ASSUME NEW rule, NEW r, NEW ctx \in rule.when, NEW info,
           MatchesResourceDescription(r, rule),
           rule.matchUser = AnyUser, rule.excludeUser = AnyUser
    PROVE  Applies(rule, r, ctx, info)
<1>1. validateMatch(rule.matchUser, info)
  BY DEF validateMatch, AnyUser
<1>2. validateExclude(rule.excludeUser, info)
  BY DEF validateExclude, matchSubjects, AnyUser
<1> QED
  BY <1>1, <1>2 DEF Applies, MatchAdmissionInfo

(* How validateResource responds to a rule that concerns the resource. *)
LEMMA ResponseToConcern ==
    ASSUME NEW p \in Policies, NEW r \in Resource, NEW ctx \in Values, NEW info,
           NEW i \in DOMAIN PolicyOf[p].rules, Concerns(PolicyOf[p].rules[i], r)
    PROVE  /\ i \in DOMAIN validateResource(PolicyOf[p], r, ctx, info).rules
           /\ validateResource(PolicyOf[p], r, ctx, info).rules[i].success
                = (PolicyOf[p].rules[i].pattern[r.v] \in {"pass", "path"})
<1> DEFINE rule == PolicyOf[p].rules[i]
           res == validateResource(PolicyOf[p], r, ctx, info)
<1>1. rule.pattern # None /\ ctx \notin rule.missing /\ Applies(rule, r, ctx, info)
  BY AppliesToAll, MatchesNamed DEF Concerns
<1>2. i \in DOMAIN res.rules /\ res.rules[i] = validatePatterns(rule, r)
  BY <1>1 DEF validateResource
<1>3. validatePatterns(rule, r).success = (rule.pattern[r.v] \in {"pass", "path"})
  BY DEF validatePatterns, Response
<1> QED
  BY <1>2, <1>3

(* A violation that the old resource does not share has its response. *)
LEMMA ViolationFound ==
    ASSUME NEW p \in Policies, NEW new \in Resource, NEW old \in OfKind(new.kind),
           NEW ctx \in Values, NEW info \in Infos,
           Violates(p, new), ~(old # None /\ Violates(p, old))
    PROVE  \E er \in Validation[p, new, old, ctx, info] :
               er.policy = p /\ er.name = new.name /\ ~IsSuccesful(er)
<1> DEFINE er == validateResource(PolicyOf[p], new, ctx, info)
           rules == PolicyOf[p].rules
<1>1. Validation[p, new, old, ctx, info] = Validate(PolicyOf[p], new, old, ctx, info)
  <2>1. old \in Resource \cup {None}
    BY DEF OfKind
  <2> QED
    BY <2>1 DEF Validation
<1>2. er.policy = p /\ er.name = new.name
  BY EngineAssumption DEF validateResource
<1>3. PICK i \in DOMAIN rules : Concerns(rules[i], new) /\ rules[i].pattern[new.v] \notin {"pass", "path"}
  BY DEF Violates, RulesOf, ToSet
<1>4. i \in DOMAIN er.rules /\ er.rules[i].success = FALSE
  <2>1. /\ i \in DOMAIN er.rules
        /\ er.rules[i].success = (rules[i].pattern[new.v] \in {"pass", "path"})
    BY <1>3, ResponseToConcern
  <2>2. (rules[i].pattern[new.v] \in {"pass", "path"}) = FALSE
    BY <1>3
  <2> HIDE DEF er, rules
  <2> QED
    BY <2>1, <2>2, Zenon
<1>5. ~IsSuccesful(er)
  BY <1>4 DEF IsSuccesful
<1>6. ASSUME old # None
      PROVE  ~isSameResponse(validateResource(PolicyOf[p], old, ctx, info), er)
  <2> DEFINE was == validateResource(PolicyOf[p], old, ctx, info)
  <2>1. old \in Resource /\ old.kind = new.kind
    BY <1>6 DEF OfKind
  <2>2. Concerns(rules[i], old)
    BY <1>3, <2>1, UnnamedAlike DEF Concerns
  <2>3. rules[i].pattern[old.v] \in {"pass", "path"}
    BY <1>6, <2>2 DEF Violates, RulesOf, ToSet
  <2>4. was.rules[i].success = TRUE
    <3>1. was.rules[i].success = (rules[i].pattern[old.v] \in {"pass", "path"})
      BY <2>1, <2>2, ResponseToConcern
    <3> HIDE DEF was, rules
    <3> QED
      BY <2>3, <3>1
  <2>5. was.rules # er.rules
    <3> HIDE DEF was, er
    <3> QED
      BY <1>4, <2>4
  <2> QED
    BY <2>5 DEF isSameResponse
<1>7. er \in Validate(PolicyOf[p], new, old, ctx, info)
  BY <1>6 DEF Validate
<1> QED
  BY <1>1, <1>2, <1>5, <1>7

(* Responses to a validation are responses for the policy. *)
LEMMA ValidationPolicy ==
    ASSUME NEW p \in Policies, NEW new \in Resource, NEW old \in OfKind(new.kind),
           NEW ctx \in Values, NEW info \in Infos
    PROVE  \A er \in Validation[p, new, old, ctx, info] : er.policy = p
<1>1. Validation[p, new, old, ctx, info] = Validate(PolicyOf[p], new, old, ctx, info)
  <2>1. old \in Resource \cup {None}
    BY DEF OfKind
  <2> QED
    BY <2>1 DEF Validation
<1>2. \A er \in Validation[p, new, old, ctx, info] :
        er = validateResource(PolicyOf[p], new, ctx, info)
  BY <1>1 DEF Validate
<1>3. validateResource(PolicyOf[p], new, ctx, info).policy = p
  BY EngineAssumption DEF validateResource
<1> QED
  BY <1>2, <1>3

(* A generate rule for the resource is selected. *)
LEMMA GenerationFound ==
    ASSUME NEW p \in Policies, NEW r \in Resource, NEW info \in Infos, GeneratesFor(p, r)
    PROVE  Generation[p, r, info] # {}
<1>1. Generation[p, r, info] = filterRules(PolicyOf[p], r, r.v, info)
  BY DEF Generation
<1>2. PICK rule \in RulesOf(p) :
        /\ rule.generates /\ MatchesResourceDescription(r, rule)
        /\ rule.matchUser = AnyUser /\ rule.excludeUser = AnyUser /\ rule.when = Values
  BY MatchesNamed DEF GeneratesFor
<1>3. r.v \in Values
  BY DEF Resource
<1>4. Applies(rule, r, r.v, info)
  BY <1>2, <1>3, AppliesToAll
<1> QED
  BY <1>1, <1>2, <1>4 DEF filterRules, RulesOf

-----------------------------------------------------------------------------
(* The inductive invariant. *)

\* What a policy demands of an object as it is patched, when the object it replaces is to
\* be had: it violates the policy only if the old one does or if the policy only audits
\* and the violation has been reported, or the object is new and has no name yet.
Accounted(p, new, old, kind, rep) ==
    Violates(p, new) => \/ old # None /\ Violates(p, old)
                        \/ /\ PolicyOf[p].action # "enforce"
                           /\ <<p, kind>> \in rep \/ (old = None /\ new.name = "")

\* What the handler has established of a request, given the violations that have been
\* reported or are excused and the generate requests that have been made.
RequestOK(r, rep, gen) ==
    /\ r.pc = "sent" => r.user \in Users /\ r.pols = {}
    /\ r.pc \in {"mutated", "validated"} =>
           r.obj # None /\ r.info \in Infos /\ ~checkPodTemplateAnn(r.obj)
    /\ r.old # None => r.old.name # ""
    /\ r.obj # None /\ r.old # None => r.obj.kind = r.old.kind /\ r.obj.name = r.old.name
    /\ r.patched # None => /\ r.obj # None /\ r.patched \in Same(r.obj)
                           /\ checkPodTemplateAnn(r.obj) => r.patched = r.obj
    /\ r.obj # None /\ checkPodTemplateAnn(r.obj) /\ r.old = None =>
           \A p \in r.template : CoversTemplates(p) /\ Violates(p, r.obj) =>
               PolicyOf[p].action # "enforce" /\ <<p, "Deployment">> \in rep
    /\ /\ r.pc \in {"validated", "answered"} /\ r.allowed /\ r.patched # None
       /\ ~checkPodTemplateAnn(r.obj)
       => \A p \in r.pols : Accounted(p, r.patched, r.old, r.obj.kind, rep)
    /\ /\ r.pc = "answered" /\ r.allowed /\ r.patched # None /\ r.old = None
       /\ ~checkPodTemplateAnn(r.obj)
       => \A p \in r.pols : GeneratesFor(p, r.obj) => <<p, r.obj.kind>> \in gen

Requests == \A s \in Slots : RequestOK(req[s], Told, generated)

\* Resources are stored under their kind, with a name.
Kept == \A k \in Kinds : store[k] # None => store[k].kind = k /\ store[k].name # ""

IndInv == TypeOK /\ Requests /\ Kept /\ Enforced /\ AuditReported /\ Generates

(* More reports and generate requests keep what is known of a request. *)
LEMMA Monotone ==
    ASSUME NEW r \in RequestType, NEW rep, NEW gen, NEW rep2, NEW gen2,
           rep \subseteq rep2, gen \subseteq gen2, RequestOK(r, rep, gen)
    PROVE  RequestOK(r, rep2, gen2)
<1>1. \A p, new, old, kind : Accounted(p, new, old, kind, rep) => Accounted(p, new, old, kind, rep2)
  BY DEF Accounted
<1> QED
  BY <1>1 DEF RequestOK

(* An idle slot, and the answer that refuses a request. *)
LEMMA IdleFacts ==
    /\ Idle \in RequestType
    /\ \A rep, gen : RequestOK(Idle, rep, gen)
    /\ [Idle EXCEPT !.pc = "answered", !.waiting = TRUE, !.allowed = FALSE] \in RequestType
    /\ \A rep, gen :
         RequestOK([Idle EXCEPT !.pc = "answered", !.waiting = TRUE, !.allowed = FALSE], rep, gen)
<1> DEFINE refused == [Idle EXCEPT !.pc = "answered", !.waiting = TRUE, !.allowed = FALSE]
<1>1. Idle \in RequestType /\ refused \in RequestType
  BY DEF Idle, RequestType
<1>2. /\ Idle.pc = "idle" /\ Idle.obj = None /\ Idle.patched = None
      /\ Idle.old = None /\ refused.old = None
      /\ refused.pc = "answered" /\ refused.obj = None /\ refused.patched = None
  BY DEF Idle
<1> HIDE DEF refused
<1>3. \A rep, gen : RequestOK(Idle, rep, gen)
  BY <1>2 DEF RequestOK
<1>4. \A rep, gen : RequestOK(refused, rep, gen)
  BY <1>2 DEF RequestOK
<1> QED
  BY <1>1, <1>3, <1>4 DEF refused

(* What an answer leaves in the slot. *)
LEMMA AnswerFacts ==
    ASSUME NEW s \in Slots, NEW r \in RequestType, NEW allowed, NEW rep, NEW gen,
           Answer(s, r, allowed),
           allowed => RequestOK([r EXCEPT !.pc = "answered"], rep, gen)
    PROVE  \E q \in RequestType : req' = [req EXCEPT ![s] = q] /\ RequestOK(q, rep, gen)
<1> DEFINE refused == [Idle EXCEPT !.pc = "answered", !.waiting = TRUE, !.allowed = FALSE]
           passed == [r EXCEPT !.pc = "answered"]
           q == IF ~r.waiting THEN Idle ELSE IF allowed THEN passed ELSE refused
<1>1. passed \in RequestType
  BY DEF RequestType
<1>2. req' = [req EXCEPT ![s] = q]
  BY DEF Answer
<1>3. /\ Idle \in RequestType /\ RequestOK(Idle, rep, gen)
      /\ refused \in RequestType /\ RequestOK(refused, rep, gen)
  BY IdleFacts
<1> HIDE DEF refused, passed
<1>4. q \in RequestType /\ RequestOK(q, rep, gen)
  BY <1>1, <1>3 DEF passed
<1> HIDE DEF q
<1> QED
  BY <1>2, <1>4

(* What was reported or excused stays so when nothing is stored. *)
LEMMA ToldStays ==
    ASSUME UNCHANGED store, reported \subseteq reported'
    PROVE  Told \subseteq Told'
BY DEF Told

(* And the same when nothing is reported either. *)
LEMMA ToldSame ==
    ASSUME UNCHANGED <<store, reported>>
    PROVE  Told' = Told
BY DEF Told

(* Steps that store nothing. *)
LEMMA StoreStays ==
    ASSUME IndInv, UNCHANGED <<store, owed>>,
           reported \subseteq reported', generated \subseteq generated'
    PROVE  Kept' /\ Enforced' /\ AuditReported' /\ Generates'
<1>0. Told \subseteq Told'
  BY ToldStays
<1>1. Kept'
  BY DEF IndInv, Kept
<1>2. Enforced'
  BY DEF IndInv, Enforced
<1>3. AuditReported'
  BY <1>0 DEF IndInv, AuditReported
<1>4. Generates'
  BY DEF IndInv, Generates
<1> QED
  BY <1>1, <1>2, <1>3, <1>4

(* A step that changes one request. *)
LEMMA OneRequest ==
    ASSUME IndInv, NEW s \in Slots, NEW q \in RequestType, req' = [req EXCEPT ![s] = q],
           RequestOK(q, Told', generated'),
           Told \subseteq Told', generated \subseteq generated'
    PROVE  req' \in [Slots -> RequestType] /\ Requests'
<1>1. req \in [Slots -> RequestType] /\ \A t \in Slots : RequestOK(req[t], Told, generated)
  BY DEF IndInv, TypeOK, Requests
<1>2. req' \in [Slots -> RequestType]
  BY <1>1
<1>3. ASSUME NEW t \in Slots PROVE RequestOK(req'[t], Told', generated')
  <2>1. CASE t = s
    BY <1>1, <2>1
  <2>2. CASE t # s
    <3>1. req'[t] = req[t] /\ req[t] \in RequestType
      BY <1>1, <2>2
    <3> QED
      BY <1>1, <3>1, Monotone
  <2> QED
    BY <2>1, <2>2
<1> QED
  BY <1>2, <1>3 DEF Requests

(* Such a step, if it stores nothing, preserves the invariant. *)
LEMMA RequestStep ==
    ASSUME IndInv, NEW s \in Slots, NEW q \in RequestType, req' = [req EXCEPT ![s] = q],
           RequestOK(q, Told', generated'),
           reported \subseteq reported', reported' \subseteq Policies \X Kinds,
           generated \subseteq generated', generated' \subseteq Policies \X Kinds,
           UNCHANGED <<listed, enabled, store, owed, cm, seen, stopping, events>>,
           sent' \in 0..MaxRequests
    PROVE  IndInv'
<1>1. req' \in [Slots -> RequestType] /\ Requests'
  BY ToldStays, OneRequest
<1>2. TypeOK'
  BY <1>1 DEF IndInv, TypeOK
<1>3. Kept' /\ Enforced' /\ AuditReported' /\ Generates'
  BY StoreStays
<1> QED
  BY <1>1, <1>2, <1>3 DEF IndInv

(* Requests that are sent. *)
LEMMA UserRequestStep ==
    ASSUME IndInv, NEW s \in Slots, UserRequest(s)
    PROVE  IndInv'
<1>1. PICK m \in Manifests, u \in Users, malformed \in BOOLEAN :
        Send(s, [Idle EXCEPT !.pc = "sent", !.user = u, !.waiting = TRUE,
                    !.old = store[m.kind],
                    !.obj = IF malformed THEN None
                            ELSE IF store[m.kind] = None THEN m
                            ELSE [store[m.kind] EXCEPT !.v = m.v, !.auto = m.auto]])
  BY DEF UserRequest
<1> DEFINE old == store[m.kind]
           obj == IF malformed THEN None ELSE IF old = None THEN m
                  ELSE [old EXCEPT !.v = m.v, !.auto = m.auto]
           q == [Idle EXCEPT !.pc = "sent", !.user = u, !.waiting = TRUE,
                    !.old = old, !.obj = obj]
<1>2. m \in Resource /\ m.kind \in Kinds /\ m.v \in Values /\ m.auto \in BOOLEAN
  BY AdmissionAssumption DEF Resource
<1>3. old \in Resource \cup {None} /\ (old # None => old.name # "")
  BY <1>2 DEF IndInv, TypeOK, Kept
<1> HIDE DEF old
<1>4. /\ obj \in Resource \cup {None}
      /\ obj # None /\ old # None => obj.kind = old.kind /\ obj.name = old.name
  <2>1. CASE malformed
    BY <2>1
  <2>2. CASE ~malformed /\ old = None
    BY <1>2, <2>2
  <2>3. CASE ~malformed /\ old # None
    <3>1. obj = [old EXCEPT !.v = m.v, !.auto = m.auto] /\ old \in Resource
      BY <1>3, <2>3
    <3> HIDE DEF obj
    <3> QED
      BY <1>2, <2>3, <3>1 DEF Resource
  <2> QED
    BY <2>1, <2>2, <2>3
<1> HIDE DEF obj
<1>5. q \in RequestType
  BY <1>3, <1>4, IdleFacts DEF RequestType
<1>6. /\ q.pc = "sent" /\ q.user = u /\ q.pols = {} /\ q.obj = obj /\ q.old = old
      /\ q.patched = None /\ q.template = {}
  BY DEF Idle
<1>7. req' = [req EXCEPT ![s] = q] /\ sent < MaxRequests /\ sent' = sent + 1
  BY <1>1 DEF Send, obj, old
<1> HIDE DEF q
<1>8. RequestOK(q, Told', generated')
  BY <1>3, <1>4, <1>6 DEF RequestOK
<1>9. UNCHANGED <<listed, enabled, store, owed, config, history, stopping, events>>
  BY <1>1 DEF Send
<1>10. sent' \in 0..MaxRequests /\ reported \subseteq Policies \X Kinds /\ generated \subseteq Policies \X Kinds
  BY <1>7, AdmissionAssumption DEF IndInv, TypeOK
<1> QED
  BY <1>5, <1>7, <1>8, <1>9, <1>10, RequestStep DEF config, history

(* A pod made from the stored template inherits what is known of the template. *)
LEMMA ControllerRequestStep ==
    ASSUME IndInv, NEW s \in Slots, ControllerRequest(s)
    PROVE  IndInv'
<1> DEFINE d == store["Deployment"]
           obj == Sent("Pod", "", d.v, d.auto)
           under == owed["Deployment"]
<1>1. PICK u \in Users :
        Send(s, [Idle EXCEPT !.pc = "sent", !.user = u, !.waiting = TRUE,
                    !.template = under, !.obj = obj])
  BY DEF ControllerRequest
<1> DEFINE q == [Idle EXCEPT !.pc = "sent", !.user = u, !.waiting = TRUE,
                    !.template = under, !.obj = obj]
<1>2. d \in Resource /\ d.kind = "Deployment" /\ under \subseteq Policies
  BY DEF IndInv, TypeOK, Kept, ControllerRequest, Kinds
<1>3. obj \in Resource /\ obj.kind = "Pod" /\ obj.v = d.v /\ obj.auto = d.auto
  BY <1>2 DEF Sent, Resource, Kinds, Names
<1>4. ASSUME NEW p \in under, CoversTemplates(p), obj.auto, Violates(p, obj)
      PROVE  PolicyOf[p].action # "enforce" /\ <<p, "Deployment">> \in Told
  <2> DEFINE sp == Sent("Pod", "", d.v, TRUE)
             sd == Sent("Deployment", "", d.v, TRUE)
  <2>1. d.v \in Values
    BY <1>2 DEF Resource
  <2>2. /\ sp \in Resource /\ sp.kind = "Pod" /\ sp.v = d.v
        /\ sd \in Resource /\ sd.kind = "Deployment" /\ sd.v = d.v
    BY <2>1 DEF Sent, Resource, Kinds, Names
  <2>3. Violates(p, sp) => Violates(p, sd)
    BY <1>4, <2>1 DEF CoversTemplates
  <2> HIDE DEF sp, sd, obj, d
  <2>4. Violates(p, d)
    BY <1>2, <1>3, <1>4, <2>2, <2>3, ViolatesAlike
  <2>5. "Deployment" \in Kinds
    BY DEF Kinds
  <2>6. PolicyOf[p].action # "enforce"
    BY <2>4, <2>5 DEF IndInv, Enforced, d
  <2>7. <<p, "Deployment">> \in Told
    BY <1>2, <2>4, <2>5 DEF IndInv, AuditReported, checkPodTemplateAnn, d
  <2> QED
    BY <2>6, <2>7
<1> HIDE DEF obj, d, under
<1>5. q \in RequestType
  BY <1>2, <1>3, IdleFacts DEF RequestType
<1>6. /\ q.pc = "sent" /\ q.user = u /\ q.pols = {} /\ q.obj = obj /\ q.old = None
      /\ q.patched = None /\ q.template = under
  BY DEF Idle
<1>7. req' = [req EXCEPT ![s] = q] /\ sent < MaxRequests /\ sent' = sent + 1
  BY <1>1 DEF Send
<1> HIDE DEF q
<1>8. UNCHANGED <<listed, enabled, store, owed, config, history, stopping, events>>
  BY <1>1 DEF Send
<1>9. Told' = Told
  BY <1>8, ToldSame DEF history
<1>10. RequestOK(q, Told, generated)
  BY <1>4, <1>6 DEF RequestOK, checkPodTemplateAnn
<1>11. RequestOK(q, Told', generated')
  BY <1>8, <1>9, <1>10 DEF history
<1>12. sent' \in 0..MaxRequests /\ reported \subseteq Policies \X Kinds /\ generated \subseteq Policies \X Kinds
  BY <1>7, AdmissionAssumption DEF IndInv, TypeOK
<1> QED
  BY <1>5, <1>7, <1>8, <1>11, <1>12, RequestStep DEF config, history

(* An object that is let through unchanged. *)
LEMMA PassedOK ==
    ASSUME NEW r \in RequestType, NEW ps \in SUBSET Policies, NEW user, NEW info, NEW rep, NEW gen,
           RequestOK(r, rep, gen), r.pc = "sent", r.obj # None,
           ps = {} \/ checkPodTemplateAnn(r.obj)
    PROVE  RequestOK([r EXCEPT !.pols = ps, !.user = user, !.info = info,
                               !.patched = r.obj, !.pc = "answered"], rep, gen)
<1> DEFINE q == [r EXCEPT !.pols = ps, !.user = user, !.info = info,
                          !.patched = r.obj, !.pc = "answered"]
<1>1. /\ q.pc = "answered" /\ q.obj = r.obj /\ q.old = r.old /\ q.patched = r.obj
      /\ q.template = r.template /\ q.pols = ps
  BY DEF RequestType
<1> HIDE DEF q
<1>2. r.obj \in Same(r.obj)
  BY DEF RequestType, Same
<1>3. RequestOK(q, rep, gen)
  BY <1>1, <1>2 DEF RequestOK
<1> QED
  BY <1>3 DEF q

(* The webhook looks up the policies of a request and mutates its object. *)
LEMMA ServeStep ==
    ASSUME IndInv, NEW s \in Slots, Serve(s)
    PROVE  IndInv'
<1> DEFINE r == req[s]
<1>1. r \in RequestType /\ RequestOK(r, Told, generated) /\ r.pc = "sent"
  BY DEF IndInv, TypeOK, Requests, Serve
<1>2. UNCHANGED <<listed, enabled, store, owed, config, generated, stopping, bounds>>
  BY DEF Serve
<1>3. /\ sent' \in 0..MaxRequests /\ reported \subseteq Policies \X Kinds
      /\ generated' \subseteq Policies \X Kinds /\ generated' = generated
  BY <1>2 DEF IndInv, TypeOK, bounds
<1>4. ASSUME UNCHANGED reported, NEW q \in RequestType, req' = [req EXCEPT ![s] = q],
             RequestOK(q, Told, generated)
      PROVE  IndInv'
  <2>1. Told' = Told
    BY <1>2, <1>4, ToldSame
  <2> QED
    BY <1>2, <1>3, <1>4, <2>1, RequestStep DEF config, bounds
<1>5. CASE r.obj = None
  <2>1. Answer(s, r, FALSE) /\ UNCHANGED reported
    BY <1>5 DEF Serve
  <2>2. \E q \in RequestType : req' = [req EXCEPT ![s] = q] /\ RequestOK(q, Told, generated)
    BY <1>1, <2>1, AnswerFacts
  <2> QED
    BY <1>4, <2>1, <2>2
<1>6. CASE r.obj # None /\ (ToFilter(filters, r.obj) \/ ~(lookUp(r.obj) \subseteq listed))
  <2> DEFINE p == [r EXCEPT !.patched = r.obj]
             a == [r EXCEPT !.pols = {}, !.user = r.user, !.info = r.info,
                            !.patched = r.obj, !.pc = "answered"]
  <2>1. Answer(s, p, TRUE) /\ UNCHANGED reported
    BY <1>6 DEF Serve
  <2>2. p \in RequestType
    BY <1>1 DEF RequestType
  <2>3. r.pols = {}
    BY <1>1 DEF RequestOK
  <2>4. [p EXCEPT !.pc = "answered"] = a
    BY <1>1, <2>3 DEF RequestType
  <2>5. RequestOK(a, Told, generated)
    BY <1>1, <1>6, PassedOK
  <2> HIDE DEF p, a
  <2>6. \E q \in RequestType : req' = [req EXCEPT ![s] = q] /\ RequestOK(q, Told, generated)
    BY <2>1, <2>2, <2>4, <2>5, AnswerFacts
  <2> QED
    BY <1>4, <2>1, <2>6
<1>7. CASE r.obj # None /\ ~(ToFilter(filters, r.obj) \/ ~(lookUp(r.obj) \subseteq listed))
  <2> DEFINE found == lookUp(r.obj)
             info == InfoOf[found, r.user]
             n == [r EXCEPT !.pols = found, !.user = None, !.info = info]
  <2>1. PICK pols \in Orders[found] : HandleAdmission(s, n, Mutation[pols, r.obj, info])
    BY <1>7 DEF Serve
  <2> DEFINE m == Mutation[pols, r.obj, info]
  <2>2. found \in SUBSET Policies /\ r.user \in Users /\ r.obj \in Resource
    BY <1>1, <1>7 DEF IndInv, TypeOK, lookUp, RequestOK, RequestType
  <2>3. info \in Infos
    BY <2>2 DEF Infos, InfoOf
  <2> HIDE DEF found, info
  <2>4. m.patched \in Same(r.obj) /\ m.reports \subseteq Policies
    BY <2>2, <2>3, MutationFacts
  <2>5. n \in RequestType /\ n.obj = r.obj
    BY <1>1, <2>2, <2>3 DEF RequestType
  <2> HIDE DEF m
  <2>6. CASE checkPodTemplateAnn(r.obj)
    <3> DEFINE p == [n EXCEPT !.patched = n.obj]
               a == [r EXCEPT !.pols = found, !.user = None, !.info = info,
                              !.patched = r.obj, !.pc = "answered"]
    <3>1. Answer(s, p, TRUE) /\ UNCHANGED reported
      BY <2>1, <2>5, <2>6 DEF HandleAdmission
    <3>2. p \in RequestType
      BY <2>5 DEF RequestType
    <3>3. [p EXCEPT !.pc = "answered"] = a
      BY <1>1, <2>5 DEF RequestType
    <3>4. RequestOK(a, Told, generated)
      BY <1>1, <1>7, <2>2, <2>6, PassedOK
    <3> HIDE DEF p, a, n
    <3>5. \E q \in RequestType : req' = [req EXCEPT ![s] = q] /\ RequestOK(q, Told, generated)
      BY <3>1, <3>2, <3>3, <3>4, AnswerFacts
    <3> QED
      BY <1>4, <3>1, <3>5
  <2>7. CASE ~checkPodTemplateAnn(r.obj)
    <3> DEFINE q == [n EXCEPT !.pc = "mutated", !.patched = m.patched]
    <3>1. /\ req' = [req EXCEPT ![s] = q]
          /\ reported' = reported \cup (m.reports \X {r.obj.kind})
      BY <2>1, <2>5, <2>7 DEF HandleAdmission, m
    <3>2. q \in RequestType
      BY <2>4, <2>5 DEF RequestType, Same
    <3>3. /\ q.pc = "mutated" /\ q.obj = r.obj /\ q.old = r.old /\ q.info = info
          /\ q.patched = m.patched /\ q.template = r.template
      BY <1>1 DEF RequestType
    <3> HIDE DEF q
    <3>4. RequestOK(q, Told', generated')
      BY <1>1, <1>7, <2>3, <2>4, <2>7, <3>3 DEF RequestOK
    <3>5. reported \subseteq reported' /\ reported' \subseteq Policies \X Kinds
      BY <1>3, <2>2, <2>4, <3>1 DEF Resource
    <3> QED
      BY <1>2, <1>3, <3>1, <3>2, <3>4, <3>5, RequestStep DEF config, bounds
  <2> QED
    BY <2>6, <2>7
<1> QED
  BY <1>5, <1>6, <1>7

(* The webhook validates the patched object. *)
LEMMA HandleValidationStep ==
    ASSUME IndInv, NEW s \in Slots, HandleValidation(s)
    PROVE  IndInv'
<1> DEFINE r == req[s]
           new == r.patched
           responses == IF new = None THEN {}
                        ELSE UNION {Validation[p, new, r.old, r.obj.v, r.info] : p \in r.pols}
<1>1. r \in RequestType /\ RequestOK(r, Told, generated) /\ r.pc = "mutated"
  BY DEF IndInv, TypeOK, Requests, HandleValidation
<1>2. UNCHANGED <<listed, enabled, store, owed, config, generated, stopping, bounds>>
  BY DEF HandleValidation
<1>3. /\ sent' \in 0..MaxRequests /\ reported \subseteq Policies \X Kinds
      /\ generated' \subseteq Policies \X Kinds /\ generated' = generated
  BY <1>2 DEF IndInv, TypeOK, bounds
<1>4. /\ r.obj \in Resource /\ r.info \in Infos /\ ~checkPodTemplateAnn(r.obj)
      /\ r.old \in Resource \cup {None} /\ new \in Resource \cup {None}
      /\ r.pols \subseteq Policies /\ r.obj.v \in Values
      /\ new # None => new \in Same(r.obj) /\ new.kind = r.obj.kind /\ r.old \in OfKind(new.kind)
  <2>1. /\ r.obj \in Resource /\ r.info \in Infos /\ ~checkPodTemplateAnn(r.obj)
        /\ r.old \in Resource \cup {None} /\ new \in Resource \cup {None}
        /\ r.pols \subseteq Policies /\ r.obj.v \in Values
    BY <1>1 DEF RequestType, RequestOK, Resource
  <2>2. new # None => new \in Same(r.obj) /\ new.kind = r.obj.kind
    BY <1>1 DEF RequestOK, Same
  <2>3. r.old # None => r.old.kind = r.obj.kind
    BY <1>1, <2>1, EngineAssumption DEF RequestOK
  <2> QED
    BY <2>1, <2>2, <2>3 DEF OfKind
<1>5. CASE toBlockResource(responses)
  <2> DEFINE q == [r EXCEPT !.pc = "validated", !.allowed = FALSE]
  <2>1. req' = [req EXCEPT ![s] = q] /\ reported' = reported
    BY <1>1, <1>5 DEF HandleValidation, processResourceWithPatches, IndInv, TypeOK, RequestType
  <2>2. q \in RequestType
    BY <1>1 DEF RequestType
  <2>3. /\ q.pc = "validated" /\ ~q.allowed /\ q.obj = r.obj /\ q.old = r.old
        /\ q.info = r.info /\ q.patched = r.patched /\ q.template = r.template
    BY <1>1 DEF RequestType
  <2> HIDE DEF q
  <2>4. RequestOK(q, Told', generated')
    <3>1. Told' = Told
      BY <1>2, <2>1, ToldSame
    <3> QED
      BY <1>1, <1>3, <2>3, <3>1 DEF RequestOK
  <2> QED
    BY <1>2, <1>3, <2>1, <2>2, <2>4, RequestStep DEF config, bounds
<1>6. CASE ~toBlockResource(responses)
  <2> DEFINE q == [r EXCEPT !.pc = "validated"]
  <2>1. /\ req' = [req EXCEPT ![s] = q]
        /\ reported' = reported \cup (Violations(responses) \X {r.obj.kind})
    BY <1>1, <1>6 DEF HandleValidation, processResourceWithPatches, IndInv, TypeOK, RequestType
  <2>2. q \in RequestType
    BY <1>1 DEF RequestType
  <2>3. /\ q.pc = "validated" /\ q.obj = r.obj /\ q.old = r.old /\ q.pols = r.pols
        /\ q.info = r.info /\ q.patched = r.patched /\ q.template = r.template
    BY <1>1 DEF RequestType
  <2> HIDE DEF q
  <2>4. reported \subseteq reported' /\ reported' \subseteq Policies \X Kinds
    <3>1. \A er \in responses : er.policy \in Policies
      <4> SUFFICES ASSUME NEW er \in responses PROVE er.policy \in Policies
        OBVIOUS
      <4>1. new # None
        OBVIOUS
      <4>2. PICK p \in r.pols : er \in Validation[p, new, r.old, r.obj.v, r.info]
        BY <4>1
      <4>3. /\ p \in Policies /\ new \in Resource /\ r.old \in OfKind(new.kind)
            /\ r.obj.v \in Values /\ r.info \in Infos
        BY <1>4, <4>1
      <4> HIDE DEF r, new, responses
      <4>4. \A e \in Validation[p, new, r.old, r.obj.v, r.info] : e.policy = p
        BY <4>3, ValidationPolicy, ZenonT(60)
      <4> QED
        BY <4>2, <4>3, <4>4
    <3>2. Violations(responses) \subseteq Policies
      BY <3>1 DEF Violations
    <3> QED
      BY <1>3, <1>4, <2>1, <3>2 DEF Resource
  <2>5. ASSUME new # None, NEW p \in r.pols
        PROVE  Accounted(p, new, r.old, r.obj.kind, Told')
    <3> SUFFICES ASSUME Violates(p, new), ~(r.old # None /\ Violates(p, r.old))
                 PROVE  /\ PolicyOf[p].action # "enforce"
                        /\ <<p, r.obj.kind>> \in Told' \/ (r.old = None /\ new.name = "")
      BY DEF Accounted
    <3>0. /\ p \in Policies /\ new \in Resource /\ r.old \in OfKind(new.kind)
          /\ r.obj.v \in Values /\ r.info \in Infos
      BY <1>4, <2>5
    <3>1. PICK er \in Validation[p, new, r.old, r.obj.v, r.info] :
            er.policy = p /\ er.name = new.name /\ ~IsSuccesful(er)
      BY <3>0, ViolationFound, ZenonT(60)
    <3>2. er \in responses
      BY <2>5, <3>1
    <3> HIDE DEF responses
    <3>3. PolicyOf[p].action # "enforce"
      BY <1>6, <3>1, <3>2 DEF toBlockResource
    <3>4. CASE new.name # ""
      <4>1. p \in Violations(responses)
        BY <3>1, <3>2, <3>4 DEF Violations
      <4> QED
        BY <2>1, <3>3, <4>1 DEF Told
    <3>5. CASE new.name = ""
      <4>1. r.old = None
        BY <1>1, <1>4, <2>5, <3>5, EngineAssumption DEF RequestOK, Same
      <4> QED
        BY <3>3, <3>5, <4>1
    <3> QED
      BY <3>4, <3>5
  <2>6. RequestOK(r, Told', generated')
    BY <1>1, <1>2, <1>3, <2>4, ToldStays, Monotone
  <2>7. RequestOK(q, Told', generated')
    BY <1>1, <2>3, <2>5, <2>6 DEF RequestOK
  <2> QED
    BY <1>2, <1>3, <2>1, <2>2, <2>4, <2>7, RequestStep DEF config, bounds
<1> QED
  BY <1>5, <1>6

(* The webhook makes the generate requests of a creation. *)
LEMMA HandleGenerateStep ==
    ASSUME IndInv, NEW s \in Slots, HandleGenerate(s)
    PROVE  IndInv'
<1> DEFINE r == req[s]
           a == [r EXCEPT !.pc = "answered"]
           needed == {p \in r.pols : Generation[p, r.obj, r.info] # {}}
<1>1. r \in RequestType /\ RequestOK(r, Told, generated) /\ r.pc = "validated"
  BY DEF IndInv, TypeOK, Requests, HandleGenerate
<1>2. UNCHANGED <<listed, enabled, store, owed, config, reported, stopping, bounds>>
  BY DEF HandleGenerate
<1>3. /\ sent' \in 0..MaxRequests /\ reported' \subseteq Policies \X Kinds
      /\ generated \subseteq Policies \X Kinds /\ reported' = reported
  BY <1>2 DEF IndInv, TypeOK, bounds
<1>4. /\ r.obj \in Resource /\ r.info \in Infos /\ r.pols \subseteq Policies
      /\ ~checkPodTemplateAnn(r.obj)
  BY <1>1 DEF RequestType, RequestOK
<1>5. /\ a \in RequestType /\ a.pc = "answered" /\ a.obj = r.obj /\ a.old = r.old
      /\ a.pols = r.pols /\ a.info = r.info /\ a.patched = r.patched
      /\ a.template = r.template /\ a.allowed = r.allowed
  BY <1>1 DEF RequestType
<1> HIDE DEF a
<1>6. CASE ~r.allowed \/ r.old # None
  <2>1. Answer(s, r, r.allowed) /\ generated' = generated
    BY <1>6 DEF HandleGenerate
  <2>2. r.allowed => RequestOK(a, Told, generated)
    BY <1>1, <1>5, <1>6 DEF RequestOK
  <2>3. \E q \in RequestType : req' = [req EXCEPT ![s] = q] /\ RequestOK(q, Told, generated)
    BY <1>1, <2>1, <2>2, AnswerFacts DEF a
  <2> QED
    BY <1>2, <1>3, <2>1, <2>3, ToldSame, RequestStep DEF config, bounds
<1>7. CASE ~(~r.allowed \/ r.old # None)
  <2>1. PICK made \in SUBSET needed :
          Answer(s, r, made = needed) /\ generated' = generated \cup (made \X {r.obj.kind})
    BY <1>7 DEF HandleGenerate
  <2>2. generated \subseteq generated' /\ generated' \subseteq Policies \X Kinds
    BY <1>3, <1>4, <2>1 DEF Resource
  <2>3. RequestOK(r, Told, generated')
    BY <1>1, <2>2, Monotone
  <2>4. ASSUME made = needed, NEW p \in r.pols, GeneratesFor(p, r.obj)
        PROVE  <<p, r.obj.kind>> \in generated'
    <3>1. Generation[p, r.obj, r.info] # {}
      BY <1>4, <2>4, GenerationFound
    <3>2. p \in made
      BY <2>4, <3>1
    <3> QED
      BY <2>1, <3>2
  <2>5. made = needed => RequestOK(a, Told, generated')
    BY <1>1, <1>5, <2>3, <2>4 DEF RequestOK
  <2>6. \E q \in RequestType : req' = [req EXCEPT ![s] = q] /\ RequestOK(q, Told, generated')
    BY <1>1, <2>1, <2>5, AnswerFacts DEF a
  <2> QED
    BY <1>2, <1>3, <2>2, <2>6, ToldSame, RequestStep DEF config, bounds
<1> QED
  BY <1>6, <1>7

(* A policy generates for all resources of a kind or for none. *)
LEMMA GeneratesAlike ==
    ASSUME NEW a \in Resource, NEW b \in Resource, a.kind = b.kind, NEW p
    PROVE  GeneratesFor(p, a) <=> GeneratesFor(p, b)
BY UnnamedAlike DEF GeneratesFor

\* Where the violation of an object is reported.
Reportee(object) == IF checkPodTemplateAnn(object) THEN "Deployment" ELSE object.kind

(* The name that the API server gives an object changes nothing that policies look at. *)
LEMMA NamedFacts ==
    ASSUME NEW object \in Resource
    PROVE  /\ Named(object) \in Resource /\ Named(object).kind = object.kind
           /\ Named(object).name # "" /\ checkPodTemplateAnn(Named(object)) = checkPodTemplateAnn(object)
           /\ object.name # "" => Named(object) = object
           /\ object.name = "" => Named(object).name = "x-7f"
           /\ \A p : Violates(p, Named(object)) <=> Violates(p, object)
           /\ \A p : GeneratesFor(p, Named(object)) <=> GeneratesFor(p, object)
<1>1. /\ Named(object) \in Resource /\ Named(object).kind = object.kind
      /\ Named(object).v = object.v /\ Named(object).auto = object.auto
      /\ Named(object).name # ""
      /\ object.name # "" => Named(object) = object
      /\ object.name = "" => Named(object).name = "x-7f"
  BY DEF Named, Resource, Names
<1> QED
  BY <1>1, ViolatesAlike, GeneratesAlike DEF checkPodTemplateAnn

(* What a stored object needs so that the store is as promised. *)
LEMMA PersistFacts ==
    ASSUME IndInv, NEW r, NEW object \in Resource \cup {None}, NEW under \in SUBSET Policies,
           Persist(r, object, under), UNCHANGED <<reported, generated>>,
           object # None /\ r.old # None => object.name = r.old.name,
           object # None /\ store[object.kind] = r.old =>
             \A p \in under :
               /\ PolicyOf[p].action = "enforce" => ~Violates(p, object)
               /\ Violates(p, object) =>
                    \/ <<p, Reportee(object)>> \in Told
                    \/ ~checkPodTemplateAnn(object) /\ object.name = ""
               /\ GeneratesFor(p, object) =>
                    <<p, object.kind>> \in generated \/ checkPodTemplateAnn(object)
    PROVE  /\ store' \in [Kinds -> Resource \cup {None}] /\ owed' \in [Kinds -> SUBSET Policies]
           /\ Kept' /\ Enforced' /\ AuditReported' /\ Generates' /\ Told \subseteq Told'
<1>1. store \in [Kinds -> Resource \cup {None}] /\ owed \in [Kinds -> SUBSET Policies]
  BY DEF IndInv, TypeOK
<1>2. CASE UNCHANGED <<store, owed>>
  BY <1>1, <1>2, StoreStays, ToldStays
<1>3. CASE ~UNCHANGED <<store, owed>>
  <2> DEFINE n == Named(object)
  <2>1. /\ object # None /\ store[object.kind] = r.old
        /\ store' = [store EXCEPT ![object.kind] = n]
        /\ owed' = [owed EXCEPT ![object.kind] = under]
    BY <1>3 DEF Persist
  <2>2. object \in Resource /\ object.kind \in Kinds
    BY <2>1 DEF Resource
  <2>3. /\ n \in Resource /\ n # None /\ n.kind = object.kind /\ n.name # ""
        /\ checkPodTemplateAnn(n) = checkPodTemplateAnn(object)
        /\ object.name # "" => n = object
        /\ object.name = "" => n.name = "x-7f"
        /\ \A p : Violates(p, n) <=> Violates(p, object)
        /\ \A p : GeneratesFor(p, n) <=> GeneratesFor(p, object)
    <3>1. n # None
      <4>1. n \in Resource
        BY <2>2, NamedFacts, Zenon
      <4> QED
        BY <4>1, EngineAssumption
    <3> QED
      BY <2>2, <3>1, NamedFacts, Zenon
  <2> HIDE DEF n
  <2>4. /\ store' \in [Kinds -> Resource \cup {None}] /\ owed' \in [Kinds -> SUBSET Policies]
    BY <1>1, <2>1, <2>2, <2>3
  <2>5. /\ store'[object.kind] = n /\ owed'[object.kind] = under
        /\ \A k \in Kinds : k # object.kind => store'[k] = store[k] /\ owed'[k] = owed[k]
    BY <1>1, <2>1, <2>2
  <2>6. ASSUME NEW k \in Kinds, store[k] # None, store[k].name = "x-7f"
        PROVE  store'[k] # None /\ store'[k].name = "x-7f"
    <3>1. CASE k = object.kind
      <4>1. object.name = "x-7f" /\ n = object
        BY <2>1, <2>3, <2>6, <3>1
      <4> QED
        BY <2>1, <2>5, <3>1, <4>1
    <3>2. CASE k # object.kind
      BY <2>5, <2>6, <3>2
    <3> QED
      BY <3>1, <3>2
  <2>7. Told \subseteq Told'
    BY <2>6 DEF Told
  <2>8. Kept'
    BY <2>3, <2>5 DEF IndInv, Kept
  <2>9. Enforced'
    <3> SUFFICES ASSUME NEW k \in Kinds, NEW p \in owed'[k], PolicyOf[p].action = "enforce"
                 PROVE  store'[k] # None /\ ~Violates(p, store'[k])
      BY DEF Enforced
    <3>1. CASE k = object.kind
      BY <2>1, <2>3, <2>5, <3>1
    <3>2. CASE k # object.kind
      BY <2>5, <3>2 DEF IndInv, Enforced
    <3> QED
      BY <3>1, <3>2
  <2>10. AuditReported'
    <3> SUFFICES ASSUME NEW k \in Kinds, NEW p \in owed'[k], Violates(p, store'[k])
                 PROVE  <<p, IF checkPodTemplateAnn(store'[k]) THEN "Deployment" ELSE k>> \in Told'
      BY DEF AuditReported
    <3>1. CASE k = object.kind
      <4>1. p \in under /\ p \in Policies /\ Violates(p, object) /\ store'[k] = n
        BY <2>3, <2>5, <3>1
      <4>2. CASE <<p, Reportee(object)>> \in Told
        BY <2>3, <2>7, <3>1, <4>1, <4>2 DEF Reportee
      <4>3. CASE ~checkPodTemplateAnn(object) /\ object.name = ""
        <5>1. <<p, k>> \in Told'
          BY <2>3, <4>1, <4>3 DEF Told
        <5> QED
          BY <2>3, <4>1, <4>3, <5>1
      <4> QED
        BY <2>1, <4>1, <4>2, <4>3
    <3>2. CASE k # object.kind
      <4>1. p \in owed[k] /\ store'[k] = store[k]
        BY <2>5, <3>2
      <4> QED
        BY <2>7, <4>1 DEF IndInv, AuditReported
    <3> QED
      BY <3>1, <3>2
  <2>11. Generates'
    <3> SUFFICES ASSUME NEW k \in Kinds, NEW p \in owed'[k], GeneratesFor(p, store'[k])
                 PROVE  <<p, k>> \in generated \/ checkPodTemplateAnn(store'[k])
      BY DEF Generates
    <3>1. CASE k = object.kind
      BY <2>1, <2>3, <2>5, <3>1
    <3>2. CASE k # object.kind
      BY <2>5, <3>2 DEF IndInv, Generates
    <3> QED
      BY <3>1, <3>2
  <2> QED
    BY <2>4, <2>7, <2>8, <2>9, <2>10, <2>11
<1> QED
  BY <1>2, <1>3

(* The API server stores what the answer made of the object. *)
LEMMA CompleteStep ==
    ASSUME IndInv, NEW s \in Slots, Complete(s)
    PROVE  IndInv'
<1> DEFINE r == req[s]
           object == IF r.allowed THEN r.patched ELSE None
           under == OwedBy(r)
<1>1. r \in RequestType /\ RequestOK(r, Told, generated) /\ r.pc = "answered"
  BY DEF IndInv, TypeOK, Requests, Complete
<1>2. Persist(r, object, under) /\ req' = [req EXCEPT ![s] = Idle]
  BY DEF Complete
<1>3. UNCHANGED <<listed, enabled, config, history, stopping, bounds>>
  BY DEF Complete
<1>4. object \in Resource \cup {None} /\ under \in SUBSET Policies
  BY <1>1 DEF RequestType, OwedBy
<1>5. ASSUME object # None
      PROVE  /\ r.allowed /\ object = r.patched /\ r.obj # None
             /\ object \in Resource /\ r.obj \in Resource /\ object.kind \in Kinds
             /\ object.kind = r.obj.kind /\ object.name = r.obj.name
             /\ checkPodTemplateAnn(object) = checkPodTemplateAnn(r.obj)
             /\ r.old # None => r.old \in Resource /\ r.old.kind = object.kind /\ r.old.name = object.name
  <2>1. r.allowed /\ object = r.patched /\ r.patched # None /\ r.obj # None
    BY <1>1, <1>5 DEF RequestOK
  <2>2. object \in Resource /\ r.obj \in Resource /\ object \in Same(r.obj)
    BY <1>1, <1>4, <2>1 DEF RequestOK, RequestType
  <2>3. /\ object.kind = r.obj.kind /\ object.name = r.obj.name /\ object.kind \in Kinds
        /\ r.obj.kind = "Pod" => object.auto = r.obj.auto
    BY <2>2, EngineAssumption DEF Same, Resource
  <2>4. r.old # None => r.old \in Resource /\ r.old.kind = r.obj.kind /\ r.old.name = r.obj.name
    BY <1>1, <2>1 DEF RequestOK, RequestType
  <2> HIDE DEF object, r
  <2> QED
    BY <2>1, <2>2, <2>3, <2>4 DEF checkPodTemplateAnn
<1>6. ASSUME object # None, store[object.kind] = r.old, NEW p \in under
      PROVE  /\ PolicyOf[p].action = "enforce" => ~Violates(p, object)
             /\ Violates(p, object) =>
                  \/ <<p, Reportee(object)>> \in Told
                  \/ ~checkPodTemplateAnn(object) /\ object.name = ""
             /\ GeneratesFor(p, object) =>
                  <<p, object.kind>> \in generated \/ checkPodTemplateAnn(object)
  <2>2. CASE checkPodTemplateAnn(r.obj)
    <3>1. object = r.obj /\ checkPodTemplateAnn(object)
      BY <1>1, <1>5, <1>6, <2>2 DEF RequestOK
    <3>2. r.old = None /\ p \in r.template /\ CoversTemplates(p)
      BY <1>6, <2>2 DEF OwedBy
    <3>3. Violates(p, r.obj) => PolicyOf[p].action # "enforce" /\ <<p, "Deployment">> \in Told
      BY <1>1, <1>5, <1>6, <2>2, <3>2 DEF RequestOK
    <3> HIDE DEF object, under, r
    <3> QED
      BY <3>1, <3>3 DEF Reportee
  <2>3. CASE ~checkPodTemplateAnn(r.obj) /\ r.old = None
    <3>1. p \in r.pols
      BY <1>6, <2>3 DEF OwedBy
    <3>2. Accounted(p, object, None, object.kind, Told)
      BY <1>1, <1>5, <1>6, <2>3, <3>1 DEF RequestOK
    <3>3. GeneratesFor(p, object) => <<p, object.kind>> \in generated
      <4>1. GeneratesFor(p, r.obj) => <<p, r.obj.kind>> \in generated
        BY <1>1, <1>5, <1>6, <2>3, <3>1 DEF RequestOK
      <4> QED
        BY <1>5, <1>6, <4>1, GeneratesAlike
    <3>4. ~checkPodTemplateAnn(object)
      BY <1>5, <1>6, <2>3
    <3> HIDE DEF object, under, r
    <3> QED
      BY <3>2, <3>3, <3>4 DEF Accounted, Reportee
  <2>4. CASE ~checkPodTemplateAnn(r.obj) /\ r.old # None
    <3>1. p \in r.pols /\ p \in owed[r.old.kind] /\ ~checkPodTemplateAnn(r.old)
      BY <1>6, <2>4 DEF OwedBy
    <3> DEFINE k == object.kind
    <3>2. /\ k \in Kinds /\ store[k] = r.old /\ p \in owed[k] /\ r.old \in Resource
          /\ r.old.kind = k /\ object \in Resource /\ ~checkPodTemplateAnn(object)
      BY <1>5, <1>6, <2>4, <3>1
    <3>3. Accounted(p, object, r.old, k, Told)
      BY <1>1, <1>5, <1>6, <2>4, <3>1 DEF RequestOK
    <3>4. GeneratesFor(p, object) => GeneratesFor(p, r.old)
      BY <3>2, GeneratesAlike
    <3> HIDE DEF object, under, r, k
    <3>5. PolicyOf[p].action = "enforce" => ~Violates(p, r.old)
      BY <3>2 DEF IndInv, Enforced
    <3>6. Violates(p, r.old) => <<p, k>> \in Told
      BY <3>1, <3>2 DEF IndInv, AuditReported
    <3>7. GeneratesFor(p, r.old) => <<p, k>> \in generated
      BY <3>1, <3>2 DEF IndInv, Generates
    <3> QED
      BY <2>4, <3>2, <3>3, <3>4, <3>5, <3>6, <3>7 DEF Accounted, Reportee, k
  <2> QED
    BY <2>2, <2>3, <2>4
<1>7. object # None /\ r.old # None => object.name = r.old.name
  BY <1>5
<1> HIDE DEF object, under, r
<1>8. /\ store' \in [Kinds -> Resource \cup {None}] /\ owed' \in [Kinds -> SUBSET Policies]
      /\ Kept' /\ Enforced' /\ AuditReported' /\ Generates' /\ Told \subseteq Told'
  BY <1>2, <1>3, <1>4, <1>6, <1>7, PersistFacts DEF history
<1>9. req' \in [Slots -> RequestType] /\ Requests'
  BY <1>2, <1>3, <1>8, IdleFacts, OneRequest DEF history
<1>10. TypeOK'
  BY <1>3, <1>8, <1>9 DEF IndInv, TypeOK, config, history, bounds
<1> QED
  BY <1>8, <1>9, <1>10 DEF IndInv

(* The API server gives up and stores the object as it was sent. *)
LEMMA GiveUpStep ==
    ASSUME IndInv, NEW s \in Slots, GiveUp(s)
    PROVE  IndInv'
<1> DEFINE r == req[s]
           q == [r EXCEPT !.waiting = FALSE]
<1>1. r \in RequestType /\ RequestOK(r, Told, generated)
  BY DEF IndInv, TypeOK, Requests
<1>2. Persist(r, r.obj, {}) /\ req' = [req EXCEPT ![s] = q]
  BY <1>1 DEF GiveUp, IndInv, TypeOK
<1>3. UNCHANGED <<listed, enabled, config, history, stopping, sent>>
  BY DEF GiveUp
<1>4. events' \in 0..MaxEvents
  BY AdmissionAssumption DEF GiveUp, Event, IndInv, TypeOK
<1>5. /\ r.obj \in Resource \cup {None} /\ {} \in SUBSET Policies /\ \A p \in {} : FALSE
      /\ r.obj # None /\ r.old # None => r.obj.name = r.old.name
  BY <1>1 DEF RequestType, RequestOK
<1>6. /\ q \in RequestType /\ q.pc = r.pc /\ q.obj = r.obj /\ q.old = r.old /\ q.user = r.user
      /\ q.pols = r.pols /\ q.info = r.info /\ q.patched = r.patched
      /\ q.template = r.template /\ q.allowed = r.allowed
  BY <1>1 DEF RequestType
<1> HIDE DEF q, r
<1>7. /\ store' \in [Kinds -> Resource \cup {None}] /\ owed' \in [Kinds -> SUBSET Policies]
      /\ Kept' /\ Enforced' /\ AuditReported' /\ Generates' /\ Told \subseteq Told'
  BY <1>2, <1>3, <1>5, PersistFacts DEF history
<1>8. RequestOK(q, Told', generated)
  <2>1. RequestOK(q, Told, generated)
    BY <1>1, <1>6 DEF RequestOK
  <2> QED
    BY <1>6, <1>7, <2>1, Monotone
<1>9. req' \in [Slots -> RequestType] /\ Requests'
  BY <1>2, <1>3, <1>6, <1>7, <1>8, OneRequest DEF history
<1>10. TypeOK'
  BY <1>3, <1>4, <1>7, <1>9 DEF IndInv, TypeOK, config, history, bounds
<1> QED
  BY <1>7, <1>9, <1>10 DEF IndInv

(* Policies, the configuration and the shutdown do not touch requests and resources. *)
LEMMA OtherStep ==
    ASSUME IndInv, EditPolicy \/ RegisterPolicy \/ EditConfigMap \/ ConfigMapEvent \/ Stop
                     \/ UNCHANGED vars
    PROVE  IndInv'
<1>1. UNCHANGED <<req, store, owed, reported, generated>>
  BY DEF EditPolicy, RegisterPolicy, EditConfigMap, ConfigMapEvent, Stop, vars, history
<1>2. Requests'
  <2>1. Told' = Told
    BY <1>1, ToldSame
  <2> QED
    BY <1>1, <2>1 DEF IndInv, Requests
<1>3. Kept' /\ Enforced' /\ AuditReported' /\ Generates'
  BY <1>1, StoreStays
<1>4. enabled' \subseteq Policies /\ listed' \subseteq Policies
  BY DEF IndInv, TypeOK, EditPolicy, RegisterPolicy, EditConfigMap, ConfigMapEvent, Stop, vars
<1>5. cm' \in {"deleted"} \X {None} \cup {"present"} \X ConfigMaps
  BY DEF IndInv, TypeOK, EditPolicy, RegisterPolicy, EditConfigMap, ConfigMapEvent, Stop, vars,
         config
<1>6. seen' \in BOOLEAN /\ stopping' \in BOOLEAN
  BY DEF IndInv, TypeOK, EditPolicy, RegisterPolicy, EditConfigMap, ConfigMapEvent, Stop, vars,
         config
<1>7. sent' \in 0..MaxRequests /\ events' \in 0..MaxEvents
  BY AdmissionAssumption
     DEF IndInv, TypeOK, EditPolicy, RegisterPolicy, EditConfigMap, ConfigMapEvent, Stop, vars,
         bounds, Event
<1>8. TypeOK'
  BY <1>1, <1>4, <1>5, <1>6, <1>7 DEF IndInv, TypeOK
<1> QED
  BY <1>2, <1>3, <1>8 DEF IndInv

(* The initial state satisfies the invariant. *)
LEMMA InitInv == Init => IndInv
<1> SUFFICES ASSUME Init PROVE IndInv
  OBVIOUS
<1>1. TypeOK
  <2>1. req \in [Slots -> RequestType]
    BY IdleFacts DEF Init
  <2>2. store \in [Kinds -> Resource \cup {None}] /\ owed \in [Kinds -> SUBSET Policies]
    BY DEF Init
  <2>3. /\ cm \in {"deleted"} \X {None} \cup {"present"} \X ConfigMaps
        /\ reported \subseteq Policies \X Kinds /\ generated \subseteq Policies \X Kinds
        /\ sent \in 0..MaxRequests /\ events \in 0..MaxEvents
    BY AdmissionAssumption DEF Init
  <2> QED
    BY <2>1, <2>2, <2>3 DEF Init, TypeOK
<1>2. Requests
  BY IdleFacts DEF Init, Requests
<1>3. Kept /\ Enforced /\ AuditReported /\ Generates
  BY DEF Init, Kept, Enforced, AuditReported, Generates
<1> QED
  BY <1>1, <1>2, <1>3 DEF IndInv

(* Every step of the specification preserves the invariant. *)
THEOREM Inductive == Spec => []IndInv
<1>1. ASSUME IndInv, [Next]_vars PROVE IndInv'
  <2>1. ASSUME NEW s \in Slots, UserRequest(s) PROVE IndInv'
    BY <1>1, <2>1, UserRequestStep
  <2>2. ASSUME NEW s \in Slots, ControllerRequest(s) PROVE IndInv'
    BY <1>1, <2>2, ControllerRequestStep
  <2>3. ASSUME NEW s \in Slots, GiveUp(s) PROVE IndInv'
    BY <1>1, <2>3, GiveUpStep
  <2>4. ASSUME NEW s \in Slots, Serve(s) PROVE IndInv'
    BY <1>1, <2>4, ServeStep
  <2>5. ASSUME NEW s \in Slots, HandleValidation(s) PROVE IndInv'
    BY <1>1, <2>5, HandleValidationStep
  <2>6. ASSUME NEW s \in Slots, HandleGenerate(s) PROVE IndInv'
    BY <1>1, <2>6, HandleGenerateStep
  <2>7. ASSUME NEW s \in Slots, Complete(s) PROVE IndInv'
    BY <1>1, <2>7, CompleteStep
  <2>8. CASE EditPolicy \/ RegisterPolicy \/ EditConfigMap \/ ConfigMapEvent \/ Stop
               \/ UNCHANGED vars
    BY <1>1, <2>8, OtherStep
  <2> QED
    BY <1>1, <2>1, <2>2, <2>3, <2>4, <2>5, <2>6, <2>7, <2>8 DEF Next, Handler
<1> QED
  BY <1>1, InitInv, PTL DEF Spec

-----------------------------------------------------------------------------
(* The theorems. *)

(* The webhook, the API server and the configuration keep their state well formed: what  *)
(* the mutation engine returns is a resource, the patches of an answer are patches, and  *)
(* only policies are reported. *)
THEOREM TypeCorrect == Spec => []TypeOK
<1>1. IndInv => TypeOK
  BY DEF IndInv
<1> QED
  BY <1>1, Inductive, PTL

(* No stored resource violates an "enforce" policy it was admitted under, whatever the  *)
(* policies do: HandleValidation blocks on the object that HandleMutation patched. *)
THEOREM EnforcePoliciesHold == Spec => []Enforced
<1>1. IndInv => Enforced
  BY DEF IndInv
<1> QED
  BY <1>1, Inductive, PTL

(* A stored resource that violates a policy it was admitted under has been reported,    *)
(* unless it was created before it had a name: GeneratePVsFromEngineResponse makes no   *)
(* violation of the response for a resource without one. *)
THEOREM ViolationsReported == Spec => []AuditReported
<1>1. IndInv => AuditReported
  BY DEF IndInv
<1> QED
  BY <1>1, Inductive, PTL

(* A stored resource that was created under a generate rule has its generate request. *)
THEOREM GenerateRequestsMade == Spec => []Generates
<1>1. IndInv => Generates
  BY DEF IndInv
<1> QED
  BY <1>1, Inductive, PTL

-----------------------------------------------------------------------------
(* The selection of existing resources, for every rule, cluster and set of filters. *)

(* An exclude block without criteria skips nothing. *)
LEMMA NothingExcluded == ASSUME NEW r PROVE excludeEval(AnyResource, r) = {}
BY DEF excludeEval, Condition, AnyResource

(* What one rule lists: listResources for a single rule. *)
LEMMA ListedByRule ==
    ASSUME NEW cluster, NEW namespaces, NEW rule, NEW fs, NEW r
    PROVE  r \in listResources(cluster, namespaces, {rule}, fs) <=>
               \E k \in rule.match.kinds \ {"Namespace"},
                  s \in (IF rule.match.namespaces # {} THEN rule.match.namespaces
                         ELSE getAllNamespaces(namespaces)) :
                   r \in getResourcesPerNamespace(cluster, k, s, rule, fs)
BY DEF listResources

(* The scan of one kind in one namespace finds resources the engine matches. *)
LEMMA FoundIsMeant ==
    ASSUME NEW cluster, NEW rule, NEW fs, NEW r, NEW k \in rule.match.kinds, NEW s,
           rule.match.namespaces # {} => s \in rule.match.namespaces,
           r \in getResourcesPerNamespace(cluster, k, s, rule, fs)
    PROVE  r \in Meant(cluster, rule, fs)
<1>1. rule.exclude = AnyResource
  BY DEF getResourcesPerNamespace, excludeResources
<1>2. /\ r \in ListResource(cluster, k, s, rule.match.selector)
      /\ rule.match.name # None => r.name \in rule.match.name
      /\ ~ToFilter(fs, r)
  BY <1>1 DEF getResourcesPerNamespace, excludeResources
<1>3. /\ r \in cluster /\ r.kind = k /\ s = {r.ns}
      /\ rule.match.selector # None => Selects(rule.match.selector, r.label)
  BY <1>2 DEF ListResource
<1>4. rule.match.namespaces # {} => ContainsNamepace(rule.match.namespaces, r.ns)
  BY <1>3 DEF ContainsNamepace
<1>5. excludeEval(rule.exclude, r) = {}
  BY <1>1, NothingExcluded
<1>6. MatchesResourceDescription(r, rule)
  BY <1>2, <1>3, <1>4, <1>5 DEF MatchesResourceDescription, findKind
<1> QED
  BY <1>2, <1>3, <1>6 DEF Meant

(* A resource the engine matches is found under its kind and its namespace. *)
LEMMA MeantIsFound ==
    ASSUME NEW cluster, NEW rule, NEW fs, NEW r \in Meant(cluster, rule, fs),
           rule.exclude = AnyResource, r.ns # None
    PROVE  r \in getResourcesPerNamespace(cluster, r.kind, {r.ns}, rule, fs)
<1>1. r \in cluster /\ MatchesResourceDescription(r, rule) /\ ~ToFilter(fs, r)
  BY DEF Meant
<1>2. /\ rule.match.name # None => r.name \in rule.match.name
      /\ rule.match.selector # None => Selects(rule.match.selector, r.label)
  BY <1>1 DEF MatchesResourceDescription
<1>3. r \in ListResource(cluster, r.kind, {r.ns}, rule.match.selector)
  BY <1>1, <1>2 DEF ListResource
<1> QED
  BY <1>1, <1>2, <1>3 DEF getResourcesPerNamespace, excludeResources

(* The background scan (listResources of existing.go) and the engine (MatchesResourceDescription
   of utils.go) agree, although each has its own reading of a match block: for every rule, every
   cluster and every set of filters, the scan lists only resources the engine applies the rule
   to and the filters let through, and all of those that have a namespace when the rule has no
   exclude block and names its namespaces without wildcards.  The cluster's namespaces are
   those getAllNamespaces lists, and a Namespace has no namespace itself. *)
THEOREM ScanAgreesWithEngine ==
    ASSUME NEW cluster, NEW namespaces, NEW rule, NEW fs,
           \A r \in cluster : /\ r.ns # None => r.ns \in namespaces
                              /\ r.kind = "Namespace" => r.ns = None
    PROVE  ListsExactly(cluster, namespaces, rule, fs)
<1> DEFINE found == listResources(cluster, namespaces, {rule}, fs)
           meant  == Meant(cluster, rule, fs)
           spaces == IF rule.match.namespaces # {} THEN rule.match.namespaces
                     ELSE getAllNamespaces(namespaces)
<1>1. ASSUME NEW r \in found PROVE r \in meant
  <2>1. PICK k \in rule.match.kinds \ {"Namespace"}, s \in spaces :
            r \in getResourcesPerNamespace(cluster, k, s, rule, fs)
    BY <1>1, ListedByRule
  <2>2. rule.match.namespaces # {} => s \in rule.match.namespaces
    BY <2>1
  <2> HIDE DEF spaces
  <2> QED
    BY <2>1, <2>2, FoundIsMeant
<1>2. ASSUME ScansAll(rule), NEW r \in meant, r.ns # None PROVE r \in found
  <2>1. r \in cluster /\ MatchesResourceDescription(r, rule)
    BY <1>2 DEF Meant
  <2>2. r.kind \in rule.match.kinds \ {"Namespace"} /\ r.ns \in namespaces
    BY <1>2, <2>1 DEF MatchesResourceDescription, findKind
  <2>3. {r.ns} \in spaces
    <3>1. CASE rule.match.namespaces = {}
      BY <2>2, <3>1 DEF getAllNamespaces
    <3>2. CASE rule.match.namespaces # {}
      <4>1. PICK p \in rule.match.namespaces : r.ns \in p
        BY <2>1, <3>2 DEF MatchesResourceDescription, ContainsNamepace
      <4>2. PICK n \in p : p = {n}
        BY <1>2, <4>1 DEF ScansAll
      <4>3. p = {r.ns}
        BY <4>1, <4>2
      <4> QED
        BY <3>2, <4>1, <4>3
    <3> QED
      BY <3>1, <3>2
  <2>4. r \in getResourcesPerNamespace(cluster, r.kind, {r.ns}, rule, fs)
    BY <1>2, MeantIsFound DEF ScansAll
  <2> QED
    BY <2>2, <2>3, <2>4, ListedByRule
<1> QED
  BY <1>1, <1>2 DEF ListsExactly

(* The roles of a request are looked up only when some rule matches on roles (containRBACinfo
   of the webhook server).  No rule notices: with the roles that were looked up, or were not,
   it matches the user of a request exactly as with those the bindings grant, unless roles
   occur in exclude blocks only. *)
THEOREM RolesOnDemand ==
    ASSUME NEW rules, NEW bindings, NEW user, NEW rule \in rules,
           RequestInfo(rules, bindings, user) # None,
           \/ containRBACinfo(rules)
           \/ rule.excludeUser.roles = {} /\ rule.excludeUser.clusterRoles = {}
    PROVE  LET granted == GetRoleRef(bindings, user)
               full    == [roles |-> granted.roles, clusterRoles |-> granted.clusterRoles,
                           user |-> user]
           IN  MatchAdmissionInfo(rule, RequestInfo(rules, bindings, user))
                   <=> (validateMatch(rule.matchUser, full) /\ validateExclude(rule.excludeUser, full))
<1> DEFINE granted == GetRoleRef(bindings, user)
           full    == [roles |-> granted.roles, clusterRoles |-> granted.clusterRoles,
                       user |-> user]
           info    == RequestInfo(rules, bindings, user)
<1>1. MatchAdmissionInfo(rule, info)
          <=> (validateMatch(rule.matchUser, info) /\ validateExclude(rule.excludeUser, info))
  BY DEF MatchAdmissionInfo
<1>2. CASE containRBACinfo(rules)
  <2>1. info = full
    BY <1>2 DEF RequestInfo
  <2> HIDE DEF info, full
  <2> QED
    BY <1>1, <2>1 DEF info, full
<1>3. CASE ~containRBACinfo(rules)
  <2>1. rule.matchUser.roles = {} /\ rule.matchUser.clusterRoles = {}
    BY <1>3 DEF containRBACinfo
  <2>2. rule.excludeUser.roles = {} /\ rule.excludeUser.clusterRoles = {}
    BY <1>3
  <2>3. info.user = user /\ full.user = user
    BY <1>3 DEF RequestInfo
  <2> HIDE DEF info, full
  <2>4. validateMatch(rule.matchUser, info) <=> validateMatch(rule.matchUser, full)
    BY <2>1, <2>3 DEF validateMatch
  <2>5. validateExclude(rule.excludeUser, info) <=> validateExclude(rule.excludeUser, full)
    BY <2>2, <2>3 DEF validateExclude
  <2> QED
    BY <1>1, <2>4, <2>5 DEF info, full
<1> QED
  BY <1>2, <1>3
=============================================================================

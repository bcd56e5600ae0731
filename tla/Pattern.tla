------------------------------ MODULE Pattern ------------------------------
(***************************************************************************)
(* The trees that rules are made of and how a resource is validated with   *)
(* one: variables (pkg/engine/variables), anchors (pkg/engine/anchor),     *)
(* values and references (pkg/engine/validate).                            *)
(*                                                                         *)
(* A tree is a record with one field, named after its type: map (a         *)
(* function on keys), arr (a sequence), str, int, float (twice the value), *)
(* bool or nil.  A key is <<anchor, name>>, where the anchor is "" for a   *)
(* plain key and else the text in front of the parenthesis, "(" for the    *)
(* condition anchor.  The keys of a resource are plain.                    *)
(*                                                                         *)
(* Strings are not taken apart: the constants say what is written in one.  *)
(* A map is visited in any order, so the outcome of a validation is a set  *)
(* of possible outcomes.                                                   *)
(***************************************************************************)
EXTENDS Integers, Sequences, FiniteSets, TLC

CONSTANTS
    None,     \* nothing
    Meaning,  \* what a string says: the record below, for every string in use
    Text,     \* the string that a number is converted to
    Prefixed  \* <<operator, string>> |-> the string with the operator in front

\* Meaning[s] has the fields
\*   int, float, quantity  the number that s is parsed to, or None
\*   statements  what s means as a pattern: a set of records [op, number, quantity, globs]
\*               where number says that it starts with a digit, quantity is None if the
\*               text is no quantity, and globs is the set of strings it matches
\*   reference   None, or [op, absolute, up, path] for $(op path), path a sequence of names
\*   variable    None, or [op, name] for op{{name}}

Nil        == [nil |-> 0]
QueryError == [err |-> 0]   \* the result of a query that JMESPath refuses
MapOf(f) == [map |-> f]

TypeOf(t) == CHOOSE ty \in DOMAIN t : TRUE
SameType(t, u) == DOMAIN t = DOMAIN u

\* The value of a Go map index expression: nil for a key that is absent.
At(f, key) == IF key \in DOMAIN f THEN f[key] ELSE Nil

Indices(s) == DOMAIN s

----------------------------------------------------------------------------
(***************************************************************************)
(* Anchors.                                                                *)
(***************************************************************************)
IsConditionAnchor(key) == key[1] = "("
IsExistenceAnchor(key) == key[1] = "^"
IsEqualityAnchor(key)  == key[1] = "="
IsNegationAnchor(key)  == key[1] = "X"
IsAddingAnchor(key)    == key[1] = "+"

removeAnchor(key) == <<"", key[2]>>

\* Unlike removeAnchor, it leaves a negation anchor in the key.
getRawKeyIfWrappedWithAttributes(key) ==
    IF IsNegationAnchor(key) THEN key ELSE <<"", key[2]>>

GetAnchors(f) ==
    {k \in DOMAIN f : \/ IsConditionAnchor(k) \/ IsExistenceAnchor(k)
                      \/ IsEqualityAnchor(k) \/ IsNegationAnchor(k)}

----------------------------------------------------------------------------
(***************************************************************************)
(* Variables.  ctx maps the name of a variable to the value of its query,  *)
(* Nil when the path is not in the context.                                *)
(***************************************************************************)
RECURSIVE extractVariables(_)
extractVariables(p) ==
    CASE TypeOf(p) = "map" -> UNION {extractVariables(p.map[k]) : k \in DOMAIN p.map}
      [] TypeOf(p) = "arr" -> UNION {extractVariables(p.arr[i]) : i \in Indices(p.arr)}
      [] TypeOf(p) = "str" -> IF Meaning[p.str].variable = None THEN {}
                              ELSE {Meaning[p.str].variable.name}
      [] OTHER -> {}

\* The paths that the variables of p refer to and that are not present.
ValidateVariables(ctx, p) == {v \in extractVariables(p) : ctx[v] = Nil}

getValueQuery(ctx, v) == IF ctx[v] = QueryError THEN Nil ELSE ctx[v]

substituteValue(ctx, p) ==
    LET v     == Meaning[p.str].variable
        value == getValueQuery(ctx, v.name)
    IN  IF v = None THEN p
        ELSE IF v.op = "" THEN value
        ELSE IF TypeOf(value) = "str" THEN [str |-> Prefixed[<<v.op, value.str>>]]
        ELSE Nil

RECURSIVE SubstituteVariables(_, _)
SubstituteVariables(ctx, p) ==
    CASE TypeOf(p) = "map" ->
            MapOf([k \in DOMAIN p.map |-> SubstituteVariables(ctx, p.map[k])])
      [] TypeOf(p) = "arr" ->
            [arr |-> [i \in Indices(p.arr) |-> SubstituteVariables(ctx, p.arr[i])]]
      [] TypeOf(p) = "str" -> substituteValue(ctx, p)
      [] OTHER -> p

(***************************************************************************)
(* The preconditions of a rule compare two trees.  NotEqual is not the     *)
(* negation of Equal: both are false of values that cannot be compared.    *)
(***************************************************************************)
Whole(h) == h % 2 = 0

Comparable(key, value) ==
    CASE TypeOf(key) = "int" ->
            \/ TypeOf(value) = "int"
            \/ TypeOf(value) = "float" /\ Whole(value.float)
            \/ TypeOf(value) = "str" /\ Meaning[value.str].int # None
      [] TypeOf(key) = "float" ->
            \/ TypeOf(value) = "int" /\ Whole(key.float)
            \/ TypeOf(value) = "float"
            \/ TypeOf(value) = "str" /\ Meaning[value.str].float # None
      [] TypeOf(key) = "nil" -> FALSE
      [] OTHER -> SameType(key, value)

\* Twice the number a comparable value stands for.
Doubled(value) ==
    CASE TypeOf(value) = "int"   -> 2 * value.int
      [] TypeOf(value) = "float" -> value.float
      [] OTHER                   -> Meaning[value.str].float

EqualTo(key, value) ==
    /\ Comparable(key, value)
    /\ IF TypeOf(key) \in {"int", "float"} THEN Doubled(key) = Doubled(value)
       ELSE key = value

NotEqualTo(key, value) ==
    /\ Comparable(key, value)
    /\ IF TypeOf(key) \in {"int", "float"} THEN Doubled(key) # Doubled(value)
       ELSE key # value

Compares(operator, key, value) ==
    CASE operator = "Equal"    -> EqualTo(key, value)
      [] operator = "NotEqual" -> NotEqualTo(key, value)
      [] OTHER                 -> FALSE

Evaluate(ctx, c) ==
    Compares(c.operator, SubstituteVariables(ctx, c.key), SubstituteVariables(ctx, c.value))

EvaluateConditions(ctx, conditions) == \A c \in conditions : Evaluate(ctx, c)

----------------------------------------------------------------------------
(***************************************************************************)
(* A value against a value of a pattern.                                   *)
(***************************************************************************)
validateValueWithIntPattern(value, n) ==
    CASE TypeOf(value) = "int"   -> value.int = n
      [] TypeOf(value) = "float" -> value.float = 2 * n
      [] TypeOf(value) = "str"   -> Meaning[value.str].int = n
      [] OTHER                   -> FALSE

validateValueWithFloatPattern(value, h) ==
    CASE TypeOf(value) = "int"   -> h = 2 * value.int
      [] TypeOf(value) = "float" -> value.float = h
      [] TypeOf(value) = "str"   -> Meaning[value.str].float = h
      [] OTHER                   -> FALSE

validateValueWithNilPattern(value) ==
    value \in {Nil, [int |-> 0], [float |-> 0], [str |-> ""], [bool |-> FALSE]}

validateString(value, st) ==
    /\ st.op \in {"", "!"}
    /\ TypeOf(value) = "str"
    /\ (value.str \in st.globs) = (st.op = "")

compareQuantity(value, pattern, op) ==
    CASE op = ""   -> value = pattern
      [] op = "!"  -> value # pattern
      [] op = ">"  -> value > pattern
      [] op = "<"  -> value < pattern
      [] op = ">=" -> value >= pattern
      [] op = "<=" -> value <= pattern

convertToString(value) ==
    IF TypeOf(value) = "str" THEN value.str ELSE Text[value]

\* The operator is ignored when the text is matched as a wildcard.
validateNumberWithStr(value, st) ==
    /\ TypeOf(value) \in {"str", "int", "float"}
    /\ LET text == convertToString(value)
           q    == Meaning[text].quantity
       IN  IF st.quantity = None THEN text \in st.globs
           ELSE q # None /\ compareQuantity(q, st.quantity, st.op)

validateValueWithStringPattern(value, st) ==
    IF st.number THEN validateNumberWithStr(value, st) ELSE validateString(value, st)

\* Alternatives are separated by |.
validateValueWithStringPatterns(value, s) ==
    \E st \in Meaning[s].statements : validateValueWithStringPattern(value, st)

ValidateValueWithPattern(value, p) ==
    CASE TypeOf(p) = "bool"  -> value = p
      [] TypeOf(p) = "int"   -> validateValueWithIntPattern(value, p.int)
      [] TypeOf(p) = "float" -> validateValueWithFloatPattern(value, p.float)
      [] TypeOf(p) = "str"   -> validateValueWithStringPatterns(value, p.str)
      [] TypeOf(p) = "nil"   -> validateValueWithNilPattern(value)
      [] TypeOf(p) = "map"   -> TypeOf(value) = "map"
      [] OTHER               -> FALSE

----------------------------------------------------------------------------
(***************************************************************************)
(* References.  The result of a look-up is [val |-> tree], End("error") or *)
(* End("panic").  An entry of a map that does not lead on is skipped; any  *)
(* other one ends the search, whichever comes first.                       *)
(***************************************************************************)
End(how) == [end |-> how]

formAbsolutePath(ref, path) ==
    IF ref.absolute THEN ref.path
    ELSE SubSeq(path, 1, IF ref.up < Len(path) THEN Len(path) - ref.up ELSE 0) \o ref.path

RECURSIVE getValueFromPattern(_, _, _)
getValueFromPattern(f, keys, idx) ==
    LET last == Len(keys)
        Entry(k) ==
          LET raw  == getRawKeyIfWrappedWithAttributes(k)
              here == idx <= last /\ raw = <<"", keys[idx]>>
          IN  IF idx > last THEN {End("panic")}
              ELSE IF idx = last /\ here THEN {[val |-> f[k]]}
              ELSE IF idx # last /\ ~here THEN {End("next")}
              ELSE CASE TypeOf(f[k]) = "arr" ->
                          IF ~here \/ f[k].arr = <<>> \/ TypeOf(f[k].arr[1]) # "map"
                             \/ keys[idx + 1] # "0" THEN {End("error")}
                          ELSE getValueFromPattern(f[k].arr[1].map, keys, idx + 2)
                     [] TypeOf(f[k]) = "map" ->
                          IF here THEN getValueFromPattern(f[k].map, keys, idx + 1)
                          ELSE {End("error")}
                     [] OTHER -> {End("next")}
        ends == UNION {Entry(k) : k \in DOMAIN f} \ {End("next")}
        skips == \A k \in DOMAIN f : End("next") \in Entry(k)
    IN  ends \cup IF skips THEN {End("error")} ELSE {}

getValueFromReference(orig, keys) ==
    IF TypeOf(orig) # "map" THEN {End("panic")} ELSE getValueFromPattern(orig.map, keys, 1)

\* The value that takes the place of a reference: [val |-> tree], End("fail") or End("panic").
\* An error of the look-up becomes the value itself, which no resource matches.
actualizePattern(orig, ref, path) ==
    LET Found(x) ==
          IF x = End("error") THEN End("fail")
          ELSE IF x = End("panic") \/ ref.op = "" THEN x
          ELSE IF TypeOf(x.val) \in {"str", "int", "float"}
          THEN [val |-> [str |-> Prefixed[<<ref.op, convertToString(x.val)>>]]]
          ELSE End("fail")
    IN  IF ref.path = <<>> THEN {End("fail")}
        ELSE {Found(x) : x \in getValueFromReference(orig, formAbsolutePath(ref, path))}

Verdict(b) == IF b THEN "pass" ELSE "fail"

validateLeaf(r, p, orig, path) ==
    IF TypeOf(p) = "str" /\ Meaning[p.str].reference # None
    THEN {IF TypeOf(x) = "end" THEN x.end ELSE Verdict(ValidateValueWithPattern(r, x.val)) :
              x \in actualizePattern(orig, Meaning[p.str].reference, path)}
    ELSE {Verdict(ValidateValueWithPattern(r, p))}

----------------------------------------------------------------------------
(***************************************************************************)
(* The outcomes of visiting steps in order, as long as they give goOn, and *)
(* in any order, as long as they pass.                                     *)
(***************************************************************************)
InOrder(outs, goOn) ==
    UNION {outs[i] \ {goOn} : i \in {j \in DOMAIN outs : \A h \in 1 .. j - 1 : goOn \in outs[h]}}
      \cup IF \A i \in DOMAIN outs : goOn \in outs[i] THEN {goOn} ELSE {}

InAnyOrder(outs, then) ==
    UNION {outs[k] \ {"pass"} : k \in DOMAIN outs}
      \cup IF \A k \in DOMAIN outs : "pass" \in outs[k] THEN then ELSE {}

RECURSIVE validateResourceElement(_, _, _, _)

(* Mutated form: every element has to satisfy the pattern. *)
validateExistenceAll(list, p, orig, path) ==
    InOrder([i \in Indices(list) |->
                validateResourceElement(list[i], p, orig, Append(path, Text[[int |-> i - 1]]))],
            "pass")

validateExistenceListResource(list, p, orig, path) ==
    InOrder([i \in Indices(list) |->
                validateResourceElement(list[i], p, orig, Append(path, Text[[int |-> i - 1]]))],
            "fail")

Existence(value, p, orig, path) ==
    IF TypeOf(value) # "arr" \/ TypeOf(p) # "arr" THEN {"fail"}
    ELSE IF p.arr = <<>> THEN {"panic"}
    ELSE IF TypeOf(p.arr[1]) # "map" THEN {"fail"}
    ELSE validateExistenceListResource(value.arr, p.arr[1], orig, path)

IsStar(p) == p = [str |-> "*"]

\* What the handler that CreateElementHandler makes for a key answers.
Handle(f, key, p, orig, path) ==
    LET name == IF GetAnchors(key :> p) = {} THEN key ELSE removeAnchor(key)
        sub  == Append(path, name[2])
        Element == validateResourceElement(At(f, name), p, orig, sub)
    IN  CASE IsNegationAnchor(key) -> {Verdict(name \notin DOMAIN f)}
          [] IsConditionAnchor(key) \/ IsEqualityAnchor(key) ->
                IF name \in DOMAIN f THEN Element ELSE {"pass"}
          [] IsExistenceAnchor(key) ->
                IF name \in DOMAIN f THEN Existence(f[name], p, orig, sub) ELSE {"pass"}
          [] OTHER -> IF IsStar(p) THEN {Verdict(At(f, name) # Nil)} ELSE Element

\* A condition that fails ends the validation of the map with success.
validateMap(f, g, orig, path) ==
    LET anchors == GetAnchors(g)
        Out(k)  == Handle(f, k, g[k], orig, path)
        Anchor(k) == {IF IsConditionAnchor(k) /\ o = "fail" THEN "skip" ELSE o : o \in Out(k)}
        resources == InAnyOrder([k \in DOMAIN g \ anchors |-> Out(k)], {"pass"})
        outcomes  == InAnyOrder([k \in anchors |-> Anchor(k)], resources)
    IN  {IF o = "skip" THEN "pass" ELSE o : o \in outcomes}

validateArrayOfMaps(s, p, orig, path) ==
    InOrder([i \in Indices(s) |->
                validateResourceElement(s[i], p, orig, Append(path, Text[[int |-> i - 1]]))],
            "pass")

\* Other elements are compared one by one; there is no check that the resource has as
\* many of them as the pattern.
validateArray(s, t, orig, path) ==
    IF t = <<>> THEN {"fail"}
    ELSE IF TypeOf(t[1]) = "map" THEN validateArrayOfMaps(s, t[1], orig, path)
    ELSE InOrder([i \in Indices(t) |->
                     IF i > Len(s) THEN {"panic"}
                     ELSE validateResourceElement(s[i], t[i], orig,
                                                  Append(path, Text[[int |-> i - 1]]))],
                 "pass")

validateResourceElement(r, p, orig, path) ==
    CASE TypeOf(p) = "map" -> IF TypeOf(r) # "map" THEN {"fail"}
                              ELSE validateMap(r.map, p.map, orig, path)
      [] TypeOf(p) = "arr" -> IF TypeOf(r) # "arr" THEN {"fail"}
                              ELSE validateArray(r.arr, p.arr, orig, path)
      [] OTHER             -> validateLeaf(r, p, orig, path)

\* References are looked up in the whole pattern.
validatePatternTree(r, p) == validateResourceElement(r, p, p, <<>>)

ValidateResourceWithPattern(ctx, r, p) ==
    IF ValidateVariables(ctx, p) # {} THEN {"path"}
    ELSE validatePatternTree(r, SubstituteVariables(ctx, p))

(***************************************************************************)
(* anyPattern: the first pattern that passes decides; a pattern whose      *)
(* variables are not present makes the rule pass if none does.  tried is   *)
(* the number of patterns that were evaluated.                             *)
(***************************************************************************)
FirstPassing(outs) ==
    LET Misses(i) == outs[i] \cap {"fail", "path"} # {}
        paths == \E i \in DOMAIN outs : "path" \in outs[i]
    IN  {[out |-> o, tried |-> i] : <<o, i>> \in
            {d \in {"pass", "panic"} \X DOMAIN outs :
                d[1] \in outs[d[2]] /\ \A h \in 1 .. d[2] - 1 : Misses(h)}}
          \cup IF \A i \in DOMAIN outs : Misses(i)
               THEN {[out |-> IF paths THEN "path" ELSE "fail", tried |-> Len(outs)]}
               ELSE {}

validateAnyPattern(ctx, r, patterns) ==
    FirstPassing([i \in Indices(patterns) |->
                     ValidateResourceWithPattern(ctx, r, patterns[i])])
=============================================================================

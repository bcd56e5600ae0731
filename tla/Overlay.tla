------------------------------ MODULE Overlay ------------------------------
(***************************************************************************)
(* How a mutate rule lays a tree over a resource (pkg/engine/mutate): the  *)
(* conditions are checked on the whole overlay first, then JSON patches    *)
(* are made for it and applied to the resource.                            *)
(***************************************************************************)
EXTENDS Pattern, SequencesExt

ConditionKeys(f) == {k \in DOMAIN f : IsConditionAnchor(k)}

RECURSIVE hasNestedAnchors(_)
hasNestedAnchors(o) ==
    CASE TypeOf(o) = "map" -> \/ ConditionKeys(o.map) # {}
                              \/ \E k \in DOMAIN o.map : hasNestedAnchors(o.map[k])
      [] TypeOf(o) = "arr" -> \E i \in Indices(o.arr) : hasNestedAnchors(o.arr[i])
      [] OTHER -> FALSE

RECURSIVE hasOnlyAnchors(_)
hasOnlyAnchors(o) ==
    CASE TypeOf(o) = "map" -> \/ ConditionKeys(o.map) = DOMAIN o.map
                              \/ \A k \in DOMAIN o.map : hasOnlyAnchors(o.map[k])
      [] TypeOf(o) = "arr" -> \A i \in Indices(o.arr) : hasOnlyAnchors(o.arr[i])
      [] OTHER -> FALSE

RECURSIVE removeAnchorFromSubTree(_)
removeAnchorFromSubTree(o) ==
    CASE TypeOf(o) = "map" ->
            MapOf([n \in {getRawKeyIfWrappedWithAttributes(k) : k \in DOMAIN o.map} |->
                      removeAnchorFromSubTree(
                          o.map[CHOOSE k \in DOMAIN o.map :
                                    getRawKeyIfWrappedWithAttributes(k) = n])])
      [] TypeOf(o) = "arr" ->
            [arr |-> [i \in Indices(o.arr) |-> removeAnchorFromSubTree(o.arr[i])]]
      [] OTHER -> o

----------------------------------------------------------------------------
(***************************************************************************)
(* Conditions.  The outcomes are "pass", "fail" (the condition fails or    *)
(* its field is not present: the rule is skipped) and "panic".             *)
(***************************************************************************)
RECURSIVE compareOverlay(_, _)
compareOverlay(r, o) ==
    IF ~SameType(r, o) THEN "fail"
    ELSE CASE TypeOf(o) = "map" ->
                Verdict(\A k \in DOMAIN o.map :
                            /\ removeAnchor(k) \in DOMAIN r.map
                            /\ compareOverlay(r.map[removeAnchor(k)], o.map[k]) = "pass")
           [] TypeOf(o) = "arr" ->
                Verdict(\A i \in Indices(o.arr), j \in Indices(r.arr) :
                            compareOverlay(r.arr[j], o.arr[i]) = "pass")
           [] OTHER -> Verdict(ValidateValueWithPattern(r, o))

validateConditionAnchorMap(f, g) ==
    [k \in ConditionKeys(g) |->
        {IF removeAnchor(k) \in DOMAIN f THEN compareOverlay(f[removeAnchor(k)], g[k])
         ELSE "fail"}]

RECURSIVE checkConditions(_, _)

\* Elements under an adding anchor are not looked at.
validateNonAnchorOverlayMap(f, g) ==
    [k \in {n \in DOMAIN g : ~IsConditionAnchor(n) /\ ~IsAddingAnchor(n)} |->
        IF k \notin DOMAIN f /\ ~hasNestedAnchors(g[k]) THEN {"pass"}
        ELSE checkConditions(At(f, k), g[k])]

checkConditionOnMap(f, g) ==
    InAnyOrder(validateConditionAnchorMap(f, g),
               InAnyOrder(validateNonAnchorOverlayMap(f, g), {"pass"}))

\* One element of the resource that meets one element of the overlay is enough.
checkConditionsOnArrayOfMaps(s, t) ==
    InOrder([n \in 1 .. Len(t) * Len(s) |->
                LET r == s[((n - 1) % Len(s)) + 1]
                    o == t[((n - 1) \div Len(s)) + 1]
                IN  IF TypeOf(r) # "map" \/ TypeOf(o) # "map" THEN {"panic"}
                    ELSE checkConditionOnMap(r.map, o.map)],
            "fail")

checkConditionsOnArrayOfSameTypes(s, t) ==
    IF TypeOf(t[1]) = "map" THEN checkConditionsOnArrayOfMaps(s, t)
    ELSE InOrder([i \in Indices(t) |-> IF i > Len(s) THEN {"panic"}
                                       ELSE checkConditions(s[i], t[i])],
                 "pass")

checkConditionOnArray(s, t) ==
    IF t = <<>> THEN {"pass"}
    ELSE IF s = <<>> THEN {"panic"}
    ELSE IF ~SameType(s[1], t[1]) THEN {"fail"}
    ELSE checkConditionsOnArrayOfSameTypes(s, t)

checkConditions(r, o) ==
    IF ~hasNestedAnchors(o) THEN {"pass"}
    ELSE IF ~SameType(r, o) THEN {"fail"}
    ELSE IF TypeOf(o) = "map" THEN checkConditionOnMap(r.map, o.map)
    ELSE checkConditionOnArray(r.arr, o.arr)

----------------------------------------------------------------------------
(***************************************************************************)
(* Patches.  A path is a sequence of keys and indices.  The patches of a   *)
(* map are made in some order of its keys; those of different keys touch   *)
(* different parts of the resource, so one order stands for all.  An       *)
(* overlay that cannot be applied has the single patch Failed.             *)
(***************************************************************************)
Failed == [op |-> "error"]
Join(parts) == IF \E i \in DOMAIN parts : parts[i] = <<Failed>> THEN <<Failed>>
               ELSE FlattenSeq(parts)

\* A value that has only anchors makes no patch that can be decoded.
processSubtree(o, path, op) ==
    IF hasOnlyAnchors(o) THEN <<Failed>>
    ELSE <<[op |-> op, path |-> path, value |-> removeAnchorFromSubTree(o)]>>

RECURSIVE applyOverlay(_, _, _)

(* Mutated form: the adding anchor replaces a field that is present. *)
applyOverlayToMapReplacing(f, g, path) ==
    LET keys == SetToSeq(DOMAIN g \ ConditionKeys(g))
        Patch(k) ==
          LET name == removeAnchor(k)
          IN  IF name \notin DOMAIN f THEN processSubtree(g[k], Append(path, name), "add")
              ELSE applyOverlay(f[name], g[k], Append(path, name))
    IN  Join([i \in DOMAIN keys |-> Patch(keys[i])])

applyOverlayToMap(f, g, path) ==
    LET keys == SetToSeq(DOMAIN g \ ConditionKeys(g))
        Patch(k) ==
          LET name == removeAnchor(k)
          IN  IF name \notin DOMAIN f THEN processSubtree(g[k], Append(path, name), "add")
              ELSE IF IsAddingAnchor(k) THEN <<>>
              ELSE applyOverlay(f[name], g[k], Append(path, name))
    IN  Join([i \in DOMAIN keys |-> Patch(keys[i])])

(* Mutated form: the patches of an element take the place of those before them. *)
applyOverlayWithAnchorsOnce(s, o, path) == applyOverlay(Last(s), o, Append(path, Len(s)))

applyOverlayWithAnchors(s, o, path) ==
    Join([i \in Indices(s) |-> applyOverlay(s[i], o, Append(path, i))])

(* Mutated form: an element with anchors is added like any other. *)
applyOverlayToArrayByAdding(s, t, path) ==
    Join([i \in Indices(t) |-> processSubtree(t[i], Append(path, Len(s) + i), "add")])

\* An element without anchors goes behind the elements of the resource, at an index that
\* counts the elements of the overlay with anchors too.
applyOverlayToArrayOfMaps(s, t, path) ==
    Join([i \in Indices(t) |->
            IF hasNestedAnchors(t[i]) THEN applyOverlayWithAnchors(s, t[i], path)
            ELSE processSubtree(t[i], Append(path, Len(s) + i), "add")])

applyOverlayToArrayOfSameTypes(s, t, path) ==
    IF TypeOf(t[1]) = "map" THEN applyOverlayToArrayOfMaps(s, t, path)
    ELSE Join([i \in Indices(t) |-> processSubtree(t[i], Append(path, Len(s) + i), "add")])

applyOverlayToArray(s, t, path) ==
    IF t = <<>> THEN <<Failed>>
    ELSE IF s = <<>> THEN processSubtree([arr |-> t], path, "add")
    ELSE IF ~SameType(s[1], t[1]) THEN <<Failed>>
    ELSE applyOverlayToArrayOfSameTypes(s, t, path)

applyOverlayForSameTypes(r, o, path) ==
    CASE TypeOf(o) = "map" -> applyOverlayToMap(r.map, o.map, path)
      [] TypeOf(o) = "arr" -> applyOverlayToArray(r.arr, o.arr, path)
      [] TypeOf(o) = "nil" -> <<Failed>>
      [] OTHER             -> processSubtree(o, path, "replace")

applyOverlay(r, o, path) ==
    IF SameType(r, o) THEN applyOverlayForSameTypes(r, o, path)
    ELSE processSubtree(o, path, "replace")

(***************************************************************************)
(* A JSON patch sets the value at a path; None when it cannot.  Adding an  *)
(* element behind the end of an array is an error.                         *)
(***************************************************************************)
RECURSIVE Put(_, _, _)
Put(r, path, value) ==
    LET key == Head(path)
        \* the tree below the first step of the path
        Below(child) == IF Len(path) = 1 THEN value
                        ELSE IF child = None THEN None
                        ELSE Put(child, Tail(path), value)
    IN  IF path = <<>> THEN value
        ELSE IF TypeOf(r) = "map" THEN
            LET new == Below(IF key \in DOMAIN r.map THEN r.map[key] ELSE None)
            IN  IF new = None THEN None ELSE MapOf((key :> new) @@ r.map)
        ELSE IF TypeOf(r) # "arr" \/ key > Len(r.arr) + 1 THEN None
        ELSE LET new == Below(IF key <= Len(r.arr) THEN r.arr[key] ELSE None)
             IN  IF new = None THEN None
                 ELSE [arr |-> [i \in 1 .. (IF key > Len(r.arr) THEN key ELSE Len(r.arr)) |->
                                   IF i = key THEN new ELSE r.arr[i]]]

ApplyPatches(r, patches) ==
    LET Step(t, patch) == IF t = None THEN None ELSE Put(t, patch.path, patch.value)
    IN  FoldLeft(Step, r, patches)

\* The outcomes of a rule's overlay: [tree |-> t], or how it ends without one.
Made(tree) == IF tree = None THEN End("fail") ELSE [tree |-> tree]

\* An overlay without patches counts like one whose conditions fail.
PatchResource(r, patches) ==
    IF patches = <<>> THEN End("skip")
    ELSE Made(IF patches = <<Failed>> THEN None ELSE ApplyPatches(r, patches))

processOverlayPatches(r, o) ==
    {CASE c = "panic" -> End("panic")
       [] c = "fail"  -> End("skip")
       [] OTHER       -> PatchResource(r, applyOverlay(r, o, <<>>)) : c \in checkConditions(r, o)}

ProcessOverlay(ctx, r, overlay) ==
    IF ValidateVariables(ctx, overlay) # {} THEN {End("path")}
    ELSE processOverlayPatches(r, SubstituteVariables(ctx, overlay))

----------------------------------------------------------------------------
(***************************************************************************)
(* The JSON patches of a rule, whose paths lead through maps.  A removal   *)
(* of something that is not there is left out; any other patch that cannot *)
(* be applied makes the rule fail, after the others have been tried.       *)
(***************************************************************************)
RECURSIVE Drop(_, _)
Drop(r, path) ==
    IF TypeOf(r) # "map" \/ Head(path) \notin DOMAIN r.map THEN None
    ELSE IF Len(path) = 1
    THEN MapOf([k \in DOMAIN r.map \ {Head(path)} |-> r.map[k]])
    ELSE LET below == Drop(r.map[Head(path)], Tail(path))
         IN  IF below = None THEN None ELSE MapOf((Head(path) :> below) @@ r.map)

applyPatch(r, patch) ==
    IF patch.op = "remove" THEN Drop(r, patch.path) ELSE Put(r, patch.path, patch.value)

ProcessPatches(r, patches) ==
    LET Step(s, patch) ==
          LET t == applyPatch(s.tree, patch)
          IN  [tree |-> IF t = None THEN s.tree ELSE t,
               errs |-> s.errs \/ (t = None /\ patch.op # "remove")]
        done == FoldLeft(Step, [tree |-> r, errs |-> FALSE], patches)
    IN  Made(IF done.errs THEN None ELSE done.tree)
=============================================================================

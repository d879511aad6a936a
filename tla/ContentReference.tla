-------------------------- MODULE ContentReference --------------------------
(***************************************************************************)
(* What the actions of ContentFilter mean, on trees instead of references: *)
(* the reference knows no containers, it rebuilds a tree from the places a *)
(* path designates.                                                        *)
(***************************************************************************)
EXTENDS ContentFilter

RECURSIVE Unfold(_, _)
Unfold(h, v) ==
    IF v.kind # "node" THEN v
    ELSE [h[v.id] EXCEPT !.slots = [k \in DOMAIN @ |-> Unfold(h, @[k])]]

Gone == [kind |-> "gone"]

(* What an action means for one designated place.                          *)
Meant(tree, action) ==
    LET n == Len(tree.chars) IN
    CASE action.type = "delete"  -> Gone
      [] action.type = "replace" -> action.replacement
      [] n <= action.left + action.right -> tree
      [] OTHER ->
            Text(SubSeq(tree.chars, 1, action.left)
                 \o FlattenSeq([i \in 1 .. (IF action.length = {} THEN n - action.left - action.right
                                                                  ELSE Max(action.length))
                                    |-> ReplacementText(action).chars])
                 \o SubSeq(tree.chars, n - action.right + 1, n))

(* Every place that is deleted is gone, and an array closes up.            *)
Rebuilt(tree, after) ==
    IF tree.kind = "object"
    THEN [tree EXCEPT !.slots = [k \in { j \in DOMAIN after : after[j] # Gone } |-> after[k]]]
    ELSE [tree EXCEPT !.slots = SelectSeq(after, LAMBDA t : t # Gone)]

RECURSIVE Redacted(_, _, _)
Redacted(tree, path, action) ==
    IF path = << >> THEN Meant(tree, action)
    ELSE IF tree.kind \notin {"object", "array"} THEN tree
    ELSE LET selector  == Head(path)
             descends  == selector.kind = "recursive"
             named(k)  == IF descends THEN tree.kind = "object" /\ k = selector.name
                                      ELSE Designates(selector, tree, k)
             before    == [k \in DOMAIN tree.slots |->
                             IF descends THEN Redacted(tree.slots[k], path, action) ELSE tree.slots[k]]
             after     == [k \in DOMAIN tree.slots |->
                             IF named(k) THEN Redacted(before[k], Tail(path), action) ELSE before[k]]
         IN  Rebuilt(tree, after)

(* A replacement that was put into itself unfolds to no tree.              *)
Circular ==
    \E id \in DOMAIN heap : id[1] = Shared /\ Endless \in Range(CollectRecursive(heap, BlackSquare)[id])

(* Two of the places are elements of one array.                            *)
TwoOfOneArray(refs) ==
    \E i, j \in DOMAIN refs :
        i < j /\ refs[i].container = refs[j].container /\ heap[refs[i].container].kind = "array"

(* The action at hand, where it means one thing and not another.           *)
HasOneMeaning(action, refs) ==
    /\ \A i \in DOMAIN refs : refs[i] # Endless /\ refs[i].container[1] # Shared
    /\ ~ Circular
    /\ action.left >= 0 /\ action.right >= 0

(* The element is as the action makes it.                                  *)
Redacts(action, root) ==
    Unfold(heap', root) =
        IF action.path = << >> THEN Unfold(heap, root)
        ELSE Redacted(Unfold(heap, root), action.path,
                      [action EXCEPT !.replacement = Unfold(heap, @)])

(* An action changes exactly the places its path designates in the element *)
(* as it then is, each as the action says.  Five cases are set apart: the  *)
(* path of the root, which changes nothing at all; places inside a         *)
(* replacement, which is one object wherever it was put; replacements that *)
(* were put into themselves; a negative number of disclosed characters;    *)
(* and the deletion of several elements of one array, which is             *)
(* DeletesEveryPlace.                                                      *)
ActsAsDesignated ==
    [][ LET action == constraint.actions[at]
            refs   == ResolveRefs(Wrapped(heap, result[current]), action.path)
        IN  (/\ at \in DOMAIN constraint.actions /\ at' = at + 1
             /\ HasOneMeaning(action, refs)
             /\ ~ (action.type = "delete" /\ TwoOfOneArray(refs)))
            => Redacts(action, result[current]) ]_vars

(* An action that deletes, and does not end in a denial, deletes every     *)
(* place its path designates and no other: redaction happens faithfully or *)
(* fails closed (ContentFilterEnforcement.spec.ts).  The code splices one  *)
(* element after the other out of the array whose keys it found before.    *)
DeletesEveryPlace ==
    [][ LET action == constraint.actions[at]
            refs   == ResolveRefs(Wrapped(heap, result[current]), action.path)
        IN  (/\ at \in DOMAIN constraint.actions /\ at' = at + 1
             /\ HasOneMeaning(action, refs)
             /\ action.type = "delete")
            => Redacts(action, result[current]) ]_vars

=============================================================================

--------------------------- MODULE ContentFilter ---------------------------
(***************************************************************************)
(* The filters of JSON content (lib/constraints/providers/ContentFilter.ts *)
(* and the two providers built on it): a constraint names places of an     *)
(* element by paths, under conditions, and what to do with each place.     *)
(*                                                                         *)
(* The code works on objects, by reference: a place is a container and a   *)
(* key of it.  So the model has a heap of containers, and a value is a     *)
(* text (a sequence of characters), a number, null, or a reference to a    *)
(* container.  An identifier is << owner, n >>: the containers the method  *)
(* returned belong to Raw, those a constraint carries as a replacement to  *)
(* Shared, the copy of element e to e.  Keys are names (objects) or        *)
(* 1 .. n (arrays).                                                        *)
(*                                                                         *)
(* The elements are those of an array, or the items of a stream that one   *)
(* plan filters one after the other: the handler and the constraint        *)
(* outlive them.                                                           *)
(***************************************************************************)
EXTENDS Integers, Sequences, FiniteSets, SequencesExt, FiniteSetsExt

CONSTANTS
    Values,        \* what a method may return: [array, elements, nodes]
    Constraints,   \* [type, conditions, actions, nodes]; nodes holds the replacements
    MaxBlacken,    \* MAX_BLACKEN
    Dangerous,     \* DANGEROUS_SEGMENTS: names no wildcard designates
    StackDepth     \* bound: calls of collectRecursive one inside the other

BlackSquare == "#"

Raw == 0
Shared == -1

IsSeq(s) == s \in Seq(Range(s))

(* A container of the model is an object or an array, and holds what it    *)
(* holds by reference.                                                     *)
IsContainer(node) ==
    /\ node = [kind |-> node.kind, slots |-> node.slots]
    /\ node.slots = [key \in DOMAIN node.slots |-> node.slots[key]]
    /\ \/ node.kind = "array" /\ IsSeq(node.slots)
       \/ node.kind = "object" /\ IsFiniteSet(DOMAIN node.slots)

Within(v, ids) == v.kind = "node" => v.id \in ids

(* Containers with one owner that refer to nothing but each other.         *)
Complete(nodes, owner) ==
    /\ DOMAIN nodes \subseteq {owner} \X (Nat \ {0})
    /\ \A id \in DOMAIN nodes : /\ IsContainer(nodes[id])
                                /\ \A key \in DOMAIN nodes[id].slots :
                                      Within(nodes[id].slots[key], DOMAIN nodes)

ASSUME ValuesAssumption ==
    \A v \in Values : /\ Complete(v.nodes, Raw) /\ IsSeq(v.elements)
                      /\ \A e \in DOMAIN v.elements : Within(v.elements[e], DOMAIN v.nodes)

ASSUME ConstraintsAssumption ==
    \A c \in Constraints :
        /\ Complete(c.nodes, Shared) /\ IsSeq(c.conditions) /\ IsSeq(c.actions)
        /\ \A i \in DOMAIN c.conditions : IsSeq(c.conditions[i].path)
        /\ \A i \in DOMAIN c.actions : /\ IsSeq(c.actions[i].path)
                                        /\ Within(c.actions[i].replacement, DOMAIN c.nodes)

ASSUME BoundAssumption == StackDepth \in Nat /\ MaxBlacken \in Nat

VARIABLES
    value,         \* what the method returned
    constraint,    \* the constraint, as the decision carries it
    heap,          \* identifier -> [kind, slots]
    result,        \* the elements handed on so far
    current,       \* the element the filter is at
    at,            \* the action it is at; 0: before the conditions
    verdict        \* "planned", "filtering", "returned" or "denied"

vars == << value, constraint, heap, result, current, at, verdict >>

Null       == [kind |-> "null"]
Undeclared == [kind |-> "undeclared"]
Dropped    == [kind |-> "dropped"]
Text(cs)   == [kind |-> "text", chars |-> cs]
Number(k)  == [kind |-> "number", n |-> k]
Node(id)   == [kind |-> "node", id |-> id]

-----------------------------------------------------------------------------
(* Paths.  A selector is a child, an index, a wildcard or a recursive      *)
(* descent; Unsupported stands for a path that is missing or that          *)
(* parsePath rejects (a filter expression, a dangerous name, a bracket     *)
(* left open).                                                             *)

Unsupported == [kind |-> "unsupported"]

ParseThrows(path) == \E i \in DOMAIN path : path[i] = Unsupported

Place(id, key) == [container |-> id, key |-> key]

RefValue(h, ref) == h[ref.container].slots[ref.key]

KeysInOrder(node) ==
    IF node.kind = "array" THEN [i \in DOMAIN node.slots |-> i] ELSE SetToSeq(DOMAIN node.slots)

(* A descent that is still going when the stack is exhausted throws; a     *)
(* replacement that was put into itself has it go round for ever.          *)
Endless == [kind |-> "endless"]

(* Deliberately wrong: the descent does not look inside what it found.     *)
CollectOutermost(h, name) ==
    LET below[calls \in 0 .. StackDepth] ==
            [id \in DOMAIN h |->
                LET node == h[id]
                    keys == KeysInOrder(node)
                IN  IF calls = 0 THEN << Endless >>
                    ELSE IF node.kind = "object" /\ name \in DOMAIN node.slots
                    THEN << Place(id, name) >>
                    ELSE FlattenSeq([i \in DOMAIN keys |->
                           LET child == node.slots[keys[i]]
                           IN  IF child.kind = "node" THEN below[calls - 1][child.id] ELSE << >>])]
    IN  below[StackDepth]

(* Every place called `name` in or below a container, outermost first.     *)
CollectRecursive(h, name) ==
    LET below[calls \in 0 .. StackDepth] ==
            [id \in DOMAIN h |->
                LET node == h[id]
                    keys == KeysInOrder(node)
                IN  IF calls = 0 THEN << Endless >>
                    ELSE (IF node.kind = "object" /\ name \in DOMAIN node.slots
                          THEN << Place(id, name) >> ELSE << >>)
                         \o FlattenSeq([i \in DOMAIN keys |->
                              LET child == node.slots[keys[i]]
                              IN  IF child.kind = "node" THEN below[calls - 1][child.id] ELSE << >>])]
    IN  below[StackDepth]

(* Does a selector that names keys designate this key of this container?   *)
Designates(selector, node, key) ==
    \/ selector.kind = "child" /\ node.kind = "object" /\ key = selector.name
    \/ selector.kind = "index" /\ node.kind = "array" /\ key = selector.index
    \/ selector.kind = "wildcard" /\ (node.kind = "object" => key \notin Dangerous)

ExpandSelector(h, v, selector) ==
    IF v.kind # "node" THEN << >>
    ELSE IF selector.kind = "recursive" THEN CollectRecursive(h, selector.name)[v.id]
    ELSE LET keys == KeysInOrder(h[v.id])
         IN  FlattenSeq([i \in DOMAIN keys |-> IF Designates(selector, h[v.id], keys[i])
                                               THEN << Place(v.id, keys[i]) >> ELSE << >>])

ExpandRef(h, ref, selector) ==
    IF ref = Endless THEN << Endless >> ELSE ExpandSelector(h, RefValue(h, ref), selector)

(* The places a path designates, from a wrapper that holds the root.       *)
Wrapper == << Raw, 0 >>

Wrapped(h, root) ==
    [id \in DOMAIN h \cup {Wrapper} |->
        IF id = Wrapper THEN [kind |-> "array", slots |-> << root >>] ELSE h[id]]

ResolveRefs(h, path) ==
    LET refs[n \in 0 .. Len(path)] ==
            IF n = 0 THEN << Place(Wrapper, 1) >>
            ELSE LET before == refs[n - 1]
                 IN  FlattenSeq([i \in DOMAIN before |-> ExpandRef(h, before[i], path[n])])
    IN  refs[Len(path)]

-----------------------------------------------------------------------------
(* Actions.                                                                *)

(* String and array slices count a negative bound from the end.            *)
SliceTo(s, n) == SubSeq(s, 1, IF n < 0 THEN Len(s) + n ELSE n)

SliceFrom(s, n) == SubSeq(s, 1 + (IF n < 0 THEN Max({0, Len(s) + n}) ELSE n), Len(s))

(* How much of a text is disclosed at either end, and how often the        *)
(* replacement stands for the rest; a length is a set of at most one       *)
(* number.                                                                 *)
Masking(text, action) ==
    LET n      == Len(text.chars)
        left   == Min({action.left, n})
        right  == Min({action.right, Max({0, n - left})})
        masked == n - left - right
    IN  [left |-> left, right |-> right, masked |-> masked,
         times |-> IF action.length = {} \/ Max(action.length) < 0 THEN masked ELSE Max(action.length)]

ReplacementText(action) ==
    IF action.replacement \in {Undeclared, Null} THEN Text(<< BlackSquare >>) ELSE action.replacement

Blacken(text, action) ==
    LET m == Masking(text, action) IN
    IF text.chars = << >> \/ m.masked <= 0 THEN text
    ELSE Text(SliceTo(text.chars, m.left)
              \o FlattenSeq([i \in 1 .. m.times |-> ReplacementText(action).chars])
              \o SliceFrom(text.chars, Len(text.chars) - m.right))

BlackenThrows(v, action) ==
    \/ v.kind # "text"
    \/ ReplacementText(action).kind # "text"
    \/ \E length \in action.length : length < 0 \/ length > MaxBlacken
    \/ LET m == Masking(v, action)
       IN  m.masked > 0 /\ v.chars # << >> /\ Len(ReplacementText(action).chars) * m.times > MaxBlacken

ActionThrows(h, ref, action) ==
    CASE action.type = "delete"  -> FALSE
      [] action.type = "replace" -> action.replacement = Undeclared
      [] action.type = "blacken" -> BlackenThrows(RefValue(h, ref), action)
      [] OTHER                   -> TRUE

(* splice removes nothing past the end.                                    *)
DeleteRef(h, ref) ==
    LET slots == h[ref.container].slots IN
    [h EXCEPT ![ref.container].slots =
        IF ref.key \notin DOMAIN slots THEN slots
        ELSE IF h[ref.container].kind = "array" THEN RemoveAt(slots, ref.key)
        ELSE [k \in DOMAIN slots \ {ref.key} |-> slots[k]]]

ApplyActionToRef(h, ref, action) ==
    CASE action.type = "delete"  -> DeleteRef(h, ref)
      [] action.type = "replace" -> [h EXCEPT ![ref.container].slots[ref.key] = action.replacement]
      [] OTHER -> [h EXCEPT ![ref.container].slots[ref.key] = Blacken(@, action)]

ApplyTo(before, ref, action) ==
    IF before.thrown \/ ActionThrows(before.heap, ref, action)
    THEN [before EXCEPT !.thrown = TRUE]
    ELSE [before EXCEPT !.heap = ApplyActionToRef(before.heap, ref, action)]

(* One action on one element: all its places are found before the first    *)
(* one is changed, and the first that cannot be changed ends it.           *)
ApplyAction(h, target, action) ==
    LET wrapped == Wrapped(h, target)
        refs    == ResolveRefs(wrapped, action.path)
        done[n \in 0 .. Len(refs)] ==
            IF n = 0 THEN [thrown |-> FALSE, heap |-> wrapped]
            ELSE ApplyTo(done[n - 1], refs[n], action)
    IN  IF ParseThrows(action.path) \/ Endless \in Range(refs) THEN [thrown |-> TRUE, heap |-> h]
        ELSE done[Len(refs)]

-----------------------------------------------------------------------------
(* Conditions.                                                             *)

ConditionRefs(h, element, c) == ResolveRefs(Wrapped(h, element), c.path)

(* Deliberately wrong: a path that is not in the data is nothing to object. *)
ConditionThrowsIfMalformed(h, element, c) ==
    ParseThrows(c.path) \/ c.type \notin {"==", "!=", ">=", "=~"}

ConditionThrows(h, element, c) ==
    \/ ParseThrows(c.path)
    \/ ConditionRefs(h, element, c) = << >>
    \/ Endless \in Range(ConditionRefs(h, element, c))
    \/ c.type \notin {"==", "!=", ">=", "=~"}

(* Several values are an array: equal to nothing, comparable to nothing.   *)
Holds(h, element, c) ==
    LET refs   == ConditionRefs(h, element, c)
        actual == RefValue(Wrapped(h, element), refs[1])
        single == Len(refs) = 1
    IN  CASE c.type = "==" -> single /\ actual = c.value
          [] c.type = "!=" -> ~ (single /\ actual = c.value)
          [] c.type = ">=" -> /\ single
                          /\ \/ actual.kind = "number" /\ actual.n >= c.value.n
                             \/ actual = Null /\ 0 >= c.value.n
          [] c.type = "=~" -> single /\ actual \in c.language

(* `every` stops at the first condition that throws or does not hold.      *)
MeetsConditions(h, element, conditions) ==
    LET decisive == { i \in DOMAIN conditions : \/ ConditionThrows(h, element, conditions[i])
                                                \/ ~ Holds(h, element, conditions[i]) }
    IN  IF decisive = {} THEN "met"
        ELSE IF ConditionThrows(h, element, conditions[Min(decisive)]) THEN "throws"
        ELSE "unmet"

-----------------------------------------------------------------------------
(* The handlers of the two providers.                                      *)

Elements == DOMAIN value.elements

Element(e) == value.elements[e]

Init ==
    /\ value \in Values
    /\ constraint \in Constraints
    /\ heap = [id \in DOMAIN value.nodes \cup DOMAIN constraint.nodes |->
                  IF id \in DOMAIN value.nodes THEN value.nodes[id] ELSE constraint.nodes[id]]
    /\ result = << >>
    /\ current = 1
    /\ at = 0
    /\ verdict = "planned"

(* getHandler, predicateFromConditions: a pattern that could run away      *)
(* makes the provider throw while the plan is built.                       *)
Compile ==
    /\ verdict = "planned"
    /\ verdict' = IF \E i \in DOMAIN constraint.conditions :
                        constraint.conditions[i].type = "=~" /\ ~ constraint.conditions[i].safe
                  THEN "denied" ELSE "filtering"
    /\ UNCHANGED << value, constraint, heap, result, current, at >>

(* Deliberately wrong: the copy refers to the containers of the original.  *)
CopiedByReference(v, e) == v

(* structuredClone: the containers of the element again, as its own.       *)
Copied(v, e) == IF v.kind = "node" THEN Node(<< e, v.id[2] >>) ELSE v

StructuredClone(h, e) ==
    LET originals == { id \in DOMAIN h : id[1] = Raw } IN
    [id \in DOMAIN h \cup { << e, o[2] >> : o \in originals } |->
        IF id[1] # e THEN h[id]
        ELSE LET node == h[<< Raw, id[2] >>]
             IN  [node EXCEPT !.slots = [k \in DOMAIN @ |-> Copied(@[k], e)]]]

HandOn(v) ==
    /\ result' = Append(result, v)
    /\ current' = current + 1
    /\ UNCHANGED << heap, at, verdict >>

Deny ==
    /\ verdict' = "denied"
    /\ UNCHANGED << heap, result, current, at >>

(* filterJsonContent, up to the copy.                                      *)
EnterElement ==
    LET element == Element(current)
        met     == MeetsConditions(heap, element, constraint.conditions)
    IN  /\ verdict = "filtering" /\ current \in Elements /\ at = 0
        /\ constraint.type = "filterJsonContent"
        /\ IF element = Null \/ met = "unmet" THEN HandOn(element)
           ELSE IF met = "throws" THEN Deny
           ELSE /\ heap' = StructuredClone(heap, current)
                /\ result' = Append(result, Copied(element, current))
                /\ at' = 1
                /\ UNCHANGED << current, verdict >>
        /\ UNCHANGED << value, constraint >>

Act ==
    LET done == ApplyAction(heap, result[current], constraint.actions[at])
    IN  /\ verdict = "filtering" /\ at \in DOMAIN constraint.actions
        /\ IF done.thrown THEN Deny
           ELSE /\ heap' = [id \in DOMAIN done.heap \ {Wrapper} |-> done.heap[id]]
                /\ at' = at + 1
                /\ UNCHANGED << result, current, verdict >>
        /\ UNCHANGED << value, constraint >>

LeaveElement ==
    /\ verdict = "filtering" /\ at = Len(constraint.actions) + 1
    /\ at' = 0
    /\ current' = current + 1
    /\ UNCHANGED << value, constraint, heap, result, verdict >>

(* jsonContentFilterPredicate: an element of an array is kept or dropped,  *)
(* a single value stays or becomes null.                                   *)
Select ==
    LET element == Element(current)
        met     == MeetsConditions(heap, element, constraint.conditions)
    IN  /\ verdict = "filtering" /\ current \in Elements
        /\ constraint.type = "jsonContentFilterPredicate"
        /\ IF (element = Null /\ ~ value.array) \/ met = "met" THEN HandOn(element)
           ELSE IF met = "throws" THEN Deny
           ELSE HandOn(IF value.array THEN Dropped ELSE Null)
        /\ UNCHANGED << value, constraint >>

Return ==
    /\ verdict = "filtering" /\ current \notin Elements
    /\ verdict' = "returned"
    /\ UNCHANGED << value, constraint, heap, result, current, at >>

Next == Compile \/ EnterElement \/ Act \/ LeaveElement \/ Select \/ Return

Spec == Init /\ [][Next]_vars

-----------------------------------------------------------------------------
(* What the filter promises.                                               *)

(* Filtering one element changes neither what the method returned nor an   *)
(* element handed on before, except inside a replacement object; and that  *)
(* takes an action that comes after the one which put the object there.    *)
ElementsIsolated ==
    [][ \A id \in DOMAIN heap :
            \/ heap'[id] = heap[id]
            \/ id[1] = current
            \/ /\ id[1] = Shared
               /\ \E k \in 1 .. at - 1 : /\ constraint.actions[k].type = "replace"
                                         /\ constraint.actions[k].replacement.kind = "node" ]_vars

(* A condition can be read, and what it reads satisfies it.                *)
Readable(h, element, c) ==
    /\ ~ ParseThrows(c.path)
    /\ ConditionRefs(h, element, c) # << >>
    /\ Endless \notin Range(ConditionRefs(h, element, c))

Satisfied(h, element, c) == Readable(h, element, c) /\ Holds(h, element, c)

Met(h, element, conditions) ==
    \A i \in DOMAIN conditions : Satisfied(h, element, conditions[i])

Unmet(h, element, conditions) ==
    \E i \in DOMAIN conditions : /\ Readable(h, element, conditions[i])
                                 /\ ~ Holds(h, element, conditions[i])
                                 /\ \A j \in 1 .. i - 1 : Satisfied(h, element, conditions[j])

(* Why the result may hold what it holds for an element.                   *)
Justified(h, e) ==
    LET met   == Met(h, Element(e), constraint.conditions)
        unmet == Unmet(h, Element(e), constraint.conditions)
    IN  IF constraint.type = "jsonContentFilterPredicate"
        THEN \/ result[e] = Element(e) /\ met
             \/ result[e] \in {Dropped, Null} /\ unmet
             \/ Element(e) = Null /\ ~ value.array
        ELSE \/ result[e] = Element(e) /\ (unmet \/ Element(e) = Null)
             \/ met /\ \A i \in DOMAIN constraint.actions :
                          ~ ParseThrows(constraint.actions[i].path)

(* An element is handed on as it was, or kept by the predicate, only on a  *)
(* verdict of its conditions: one that could be read was false, or all     *)
(* were true.  What cannot be read or parsed ends in a denial.             *)
FailsClosed ==
    verdict = "returned" => \A e \in Elements : Justified(heap, e)

=============================================================================

-------------------------- MODULE MCContentFilter --------------------------
(***************************************************************************)
(* Values and constraints for ContentFilter: elements in which names       *)
(* repeat at different depths and arrays hold objects; every kind of path  *)
(* with every kind of action, two actions in a row, and conditions.        *)
(***************************************************************************)
EXTENDS ContentReference

RawNode(n)    == Node(<< Raw, n >>)
Object(slots) == [kind |-> "object", slots |-> slots]
Array(slots)  == [kind |-> "array", slots |-> slots]

abc == Text(<< "x", "y", "z" >>)
de  == Text(<< "v", "w" >>)

Returned(array, elements, nodes) == [array |-> array, elements |-> elements, nodes |-> nodes]

(* Containers 1 and 5 are the elements of an array; 1 has an object below  *)
(* the name "a" and an array of three below "b".                           *)
TwoObjects ==
    (<< Raw, 1 >> :> Object("a" :> RawNode(2) @@ "b" :> RawNode(3)))
    @@ (<< Raw, 2 >> :> Object("a" :> abc @@ "c" :> Number(2)))
    @@ (<< Raw, 3 >> :> Array(<< de, RawNode(4), abc >>))
    @@ (<< Raw, 4 >> :> Object("a" :> de))
    @@ (<< Raw, 5 >> :> Object("a" :> abc @@ "b" :> Null @@ "__proto__" :> de))

Empty == << Raw, 9 >> :> Object(<< >>)

MCValues ==
    { Returned(TRUE, << RawNode(1), RawNode(5) >>, TwoObjects),
      Returned(TRUE, << RawNode(5), Null, RawNode(5) >>, TwoObjects),
      Returned(FALSE, << RawNode(1) >>, TwoObjects),
      Returned(FALSE, << RawNode(3) >>, TwoObjects),
      Returned(FALSE, << abc >>, Empty),
      Returned(FALSE, << Null >>, Empty) }

-----------------------------------------------------------------------------
Child(name)     == [kind |-> "child", name |-> name]
Index(i)        == [kind |-> "index", index |-> i]
Wildcard        == [kind |-> "wildcard"]
Recursive(name) == [kind |-> "recursive", name |-> name]

Paths ==
    { << >>, << Child("a") >>, << Child("a"), Child("a") >>, << Child("b"), Index(2) >>,
      << Child("b"), Index(5) >>, << Child("b"), Wildcard >>, << Wildcard >>, << Recursive("a") >>,
      << Recursive("a"), Child("a") >>, << Recursive("b"), Wildcard >>, << Unsupported >> }

Action(path, type, replacement, left, right, length) ==
    [path |-> path, type |-> type, replacement |-> replacement,
     left |-> left, right |-> right, length |-> length]

NewObject == Node(<< Shared, 1 >>)
NewArray  == Node(<< Shared, 2 >>)

Replacements ==
    (<< Shared, 1 >> :> Object("a" :> abc @@ "c" :> Number(3)))
    @@ (<< Shared, 2 >> :> Array(<< abc, de, abc >>))

Actions(path) ==
    { Action(path, "delete", Undeclared, 0, 0, {}),
      Action(path, "replace", Undeclared, 0, 0, {}),
      Action(path, "replace", Number(0), 0, 0, {}),
      Action(path, "replace", NewObject, 0, 0, {}),
      Action(path, "replace", NewArray, 0, 0, {}),
      Action(path, "blacken", Undeclared, 0, 0, {}),
      Action(path, "blacken", Text(<< "*", "*" >>), 1, 0, {}),
      Action(path, "blacken", Null, 1, 1, {4}),
      Action(path, "blacken", Undeclared, 2, 2, {}),
      Action(path, "blacken", Undeclared, -1, 0, {}),
      Action(path, "blacken", Undeclared, 0, 0, {-1}),
      Action(path, "encrypt", Undeclared, 0, 0, {}) }

Followers ==
    { Action(<< Child("a"), Child("a") >>, "delete", Undeclared, 0, 0, {}),
      Action(<< Child("b"), Index(1) >>, "delete", Undeclared, 0, 0, {}),
      Action(<< Recursive("a") >>, "replace", Number(1), 0, 0, {}),
      Action(<< Recursive("a") >>, "replace", NewObject, 0, 0, {}),
      Action(<< Child("b"), Wildcard >>, "blacken", Undeclared, 0, 1, {}) }

Sequences12 ==
    LET first == UNION { Actions(path) : path \in Paths } IN
    { << >> } \cup { << x >> : x \in first } \cup { << x, y >> : x \in first, y \in Followers }

-----------------------------------------------------------------------------
Condition(path, type, v) ==
    [path |-> path, type |-> type, value |-> v, language |-> {abc}, safe |-> TRUE]

Conditions ==
    { Condition(<< Child("a") >>, "==", abc), Condition(<< Child("a"), Child("c") >>, ">=", Number(2)),
      Condition(<< Child("c") >>, "!=", Number(2)), Condition(<< Recursive("a") >>, "!=", abc),
      Condition(<< Child("b") >>, ">=", Number(0)), Condition(<< Child("a") >>, "=~", Null),
      [Condition(<< Child("a") >>, "=~", Null) EXCEPT !.safe = FALSE],
      Condition(<< Unsupported >>, "==", abc), Condition(<< >>, "==", abc),
      Condition(<< Child("a") >>, "like", abc) }

Conjunctions == { << x >> : x \in Conditions } \cup { << x, y >> : x, y \in Conditions }

Constraint(type, conditions, actions) ==
    [type |-> type, conditions |-> conditions, actions |-> actions, nodes |-> Replacements]

MCConstraints ==
    { Constraint("filterJsonContent", << >>, actions) : actions \in Sequences12 }
    \cup { Constraint("filterJsonContent", conditions,
                      << Action(path, "delete", Undeclared, 0, 0, {}) >>) :
             conditions \in Conjunctions, path \in {<< Child("a") >>, << Unsupported >>} }
    \cup { Constraint("jsonContentFilterPredicate", conditions, << >>) :
             conditions \in Conjunctions \cup { << >> } }

=============================================================================

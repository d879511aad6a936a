------------------------ MODULE ContentFilter_proof ------------------------
(***************************************************************************)
(* The content filter, for all values, constraints and bounds: filtering   *)
(* one element leaves what the method returned and the other elements as   *)
(* they are, and an element is handed on only on a verdict of conditions   *)
(* that could be read.                                                     *)
(*                                                                         *)
(* Where the model recurs, over the depth of a descent, the selectors of a *)
(* path or the places an action changes, a fact about what the recursion   *)
(* computes is proved by looking at the first stage that lacks it.         *)
(***************************************************************************)
EXTENDS ContentFilter, TLAPS, WellFoundedInduction, FiniteSetTheorems, SequenceTheorems

-----------------------------------------------------------------------------
(* Recursion.                                                              *)

(* A non-empty set of naturals has a least member.                         *)
LEMMA LeastNatural ==
    ASSUME NEW T \in SUBSET Nat, T # {}
    PROVE  \E n \in T : \A m \in T : n <= m
<1> DEFINE R == { p \in Nat \X Nat : p[1] < p[2] }
<1>1. R = OpToRel(<, Nat)
  BY Zenon DEF OpToRel
<1>2. IsWellFoundedOn(R, Nat)
  BY <1>1, NatLessThanWellFounded, Zenon
<1> HIDE DEF R
<1>3. PICK n \in T : \A m \in T : ~ (<< m, n >> \in R)
  BY <1>2, WFMin, Zenon
<1>4. ASSUME NEW m \in T PROVE n <= m
  <2>1. << m, n >> \in Nat \X Nat /\ << m, n >>[1] = m /\ << m, n >>[2] = n
    OBVIOUS
  <2>2. ~ (m < n)
    BY <1>3, <2>1 DEF R
  <2>. QED BY <2>2
<1>. QED BY <1>4

(* A set of naturals that holds 0 and with a number its successor, up to a *)
(* limit, holds every number up to the limit.                              *)
LEMMA UpTo ==
    ASSUME NEW limit \in Nat, NEW P, 0 \in P, \A n \in 0 .. limit - 1 : n \in P => n + 1 \in P
    PROVE  \A n \in 0 .. limit : n \in P
<1> DEFINE T == { n \in 0 .. limit : n \notin P }
<1> SUFFICES ASSUME T # {} PROVE FALSE
  OBVIOUS
<1>1. T \in SUBSET Nat
  OBVIOUS
<1>2. PICK n \in T : \A m \in T : n <= m
  BY <1>1, LeastNatural
<1>3. n # 0 /\ n - 1 \in 0 .. limit - 1
  BY <1>2
<1>4. n - 1 \in P
  BY <1>2, <1>3
<1>5. n \in P
  BY <1>3, <1>4, <1>2
<1>. QED BY <1>2, <1>5

-----------------------------------------------------------------------------
(* What the operators of the libraries return.                             *)

LEMMA SeqOfFunction ==
    ASSUME NEW X, NEW n \in Nat, NEW s, DOMAIN s = 1 .. n, s = [i \in DOMAIN s |-> s[i]],
           \A i \in 1 .. n : s[i] \in X
    PROVE  s \in Seq(X) /\ Len(s) = n
  OBVIOUS

LEMMA FlattenedIn ==
    ASSUME NEW X, NEW n \in Nat, NEW ss, ss = [i \in 1 .. n |-> ss[i]], \A i \in 1 .. n : ss[i] \in Seq(X)
    PROVE  FlattenSeq(ss) \in Seq(X)
<1> DEFINE Def(f, i) == IF i = 1 THEN ss[i] ELSE f[i - 1] \o ss[i]
           Stage(m) == \E f : f = [i \in 1 .. m |-> Def(f, i)]
           P == { m \in 0 .. n : Stage(m) }
<1>1. Len(ss) = n
  OBVIOUS
<1>2. Stage(0)
  <2>1. [i \in 1 .. 0 |-> 0] = [i \in 1 .. 0 |-> Def([j \in 1 .. 0 |-> 0], i)]
    OBVIOUS
  <2>. QED BY <2>1
<1>3. ASSUME NEW m \in 0 .. n - 1, Stage(m) PROVE Stage(m + 1)
  <2>1. PICK f : f = [i \in 1 .. m |-> Def(f, i)]
    BY <1>3
  <2> DEFINE g == [i \in 1 .. m + 1 |-> IF i <= m THEN f[i] ELSE Def(f, m + 1)]
  <2>2. ASSUME NEW i \in 1 .. m + 1 PROVE g[i] = Def(g, i)
    <3>1. CASE i = m + 1
      BY <3>1
    <3>2. CASE i \in 1 .. m
      <4>1. f[i] = Def(f, i)
        BY <2>1, <3>2
      <4>. QED BY <4>1, <3>2
    <3>. QED BY <3>1, <3>2
  <2> HIDE DEF g
  <2>3. g = [i \in 1 .. m + 1 |-> Def(g, i)]
    <3>1. g = [i \in 1 .. m + 1 |-> g[i]]
      BY DEF g
    <3>. QED BY <3>1, <2>2
  <2>. QED BY <2>3
<1>4. Stage(n)
  <2> HIDE DEF Stage
  <2>1. 0 \in P /\ \A m \in 0 .. n - 1 : m \in P => m + 1 \in P
    BY <1>2, <1>3
  <2> HIDE DEF P
  <2>2. n \in P
    BY <2>1, UpTo
  <2>. QED BY <2>2 DEF P
<1> DEFINE f == CHOOSE f : f = [i \in 1 .. n |-> Def(f, i)]
<1>5. f = [i \in 1 .. n |-> Def(f, i)]
  BY <1>4, Zenon
<1> HIDE DEF f
<1>6. ASSUME n # 0 PROVE FlattenSeq(ss) = f[n]
  BY <1>1, <1>6 DEF FlattenSeq, f
<1>7. ASSUME n # 0 PROVE f[n] \in Seq(X)
  <2> DEFINE Q == { m \in 0 .. n - 1 : f[m + 1] \in Seq(X) }
  <2>1. f[0 + 1] \in Seq(X)
    BY <1>5, <1>7
  <2>2. ASSUME NEW m \in 0 .. (n - 1) - 1, f[m + 1] \in Seq(X) PROVE f[(m + 1) + 1] \in Seq(X)
    <3> DEFINE k == m + 2
    <3>1. k \in 1 .. n /\ k # 1 /\ k - 1 = m + 1 /\ (m + 1) + 1 = k
      BY <2>2
    <3> HIDE DEF k
    <3>2. f[k] = f[k - 1] \o ss[k]
      BY <1>5, <3>1, Zenon
    <3>3. f[k - 1] \in Seq(X) /\ ss[k] \in Seq(X)
      BY <2>2, <3>1
    <3>4. f[k] \in Seq(X)
      BY <3>2, <3>3, ConcatProperties
    <3>. QED BY <3>1, <3>4
  <2>3. 0 \in Q /\ \A m \in 0 .. (n - 1) - 1 : m \in Q => m + 1 \in Q
    BY <2>1, <2>2, <1>7
  <2> HIDE DEF Q
  <2>4. n - 1 \in Q
    BY <2>3, <1>7, UpTo
  <2>. QED BY <2>4 DEF Q
<1>8. ASSUME n = 0 PROVE FlattenSeq(ss) \in Seq(X)
  BY <1>1, <1>8 DEF FlattenSeq
<1>. QED BY <1>6, <1>7, <1>8

LEMMA SequenceOfSet ==
    ASSUME NEW S, IsFiniteSet(S)
    PROVE  SetToSeq(S) \in Seq(S)
<1>1. PICK n \in Nat : ExistsBijection(1 .. n, S)
  BY FS_NatBijection
<1>2. Cardinality(S) = n
  BY <1>1, FS_CountingElements
<1>3. PICK b \in [1 .. n -> S] : IsInjective(b)
  BY <1>1 DEF ExistsBijection, Bijection, Injection
<1>4. SetToSeq(S) \in [1 .. n -> S]
  BY <1>2, <1>3 DEF SetToSeq
<1>. QED BY <1>4

LEMMA LeastOf ==
    ASSUME NEW S \in SUBSET Nat, S # {}
    PROVE  Min(S) \in S /\ \A n \in S : Min(S) <= n
  BY LeastNatural DEF Min

-----------------------------------------------------------------------------
(* A descent, its path and its places.                                     *)

(* One call of the descent, given what the calls below it return, and all  *)
(* calls at one depth.                                                     *)
Visit(node, id, name, deeper) ==
    LET keys == KeysInOrder(node)
    IN  (IF node.kind = "object" /\ name \in DOMAIN node.slots
         THEN << Place(id, name) >> ELSE << >>)
        \o FlattenSeq([i \in DOMAIN keys |->
             LET child == node.slots[keys[i]]
             IN  IF child.kind = "node" THEN deeper[child.id] ELSE << >>])

Level(h, name, calls, below) ==
    [id \in DOMAIN h |-> IF calls = 0 THEN << Endless >> ELSE Visit(h[id], id, name, below[calls - 1])]

(* The descent has a result at every depth, from that of the depth below.  *)
LEMMA DescentByLevels ==
    ASSUME NEW h, NEW name
    PROVE  \E below : /\ CollectRecursive(h, name) = below[StackDepth]
                      /\ \A calls \in 0 .. StackDepth : below[calls] = Level(h, name, calls, below)
<1> DEFINE Stage(m) == \E f : f = [c \in 0 .. m |-> Level(h, name, c, f)]
           P == { m \in 0 .. StackDepth : Stage(m) }
<1>1. Stage(0)
  <2> DEFINE f == [c \in 0 .. 0 |-> Level(h, name, c, << >>)]
  <2>1. Level(h, name, 0, f) = Level(h, name, 0, << >>)
    BY DEF Level
  <2> HIDE DEF Level
  <2>2. f = [c \in 0 .. 0 |-> Level(h, name, c, f)]
    BY <2>1
  <2>. QED BY <2>2
<1>2. ASSUME NEW m \in 0 .. StackDepth - 1, Stage(m) PROVE Stage(m + 1)
  <2>1. PICK f : f = [c \in 0 .. m |-> Level(h, name, c, f)]
    BY <1>2
  <2> DEFINE g == [c \in 0 .. m + 1 |-> IF c <= m THEN f[c] ELSE Level(h, name, m + 1, f)]
  <2>2. ASSUME NEW c \in 0 .. m + 1 PROVE g[c] = Level(h, name, c, g)
    <3>1. c = 0 \/ g[c - 1] = f[c - 1]
      OBVIOUS
    <3> HIDE DEF g
    <3>2. Level(h, name, c, g) = Level(h, name, c, f)
      BY <3>1 DEF Level
    <3>3. g[c] = Level(h, name, c, f)
      BY <2>1 DEF g
    <3>. QED BY <3>2, <3>3
  <2>3. g = [c \in 0 .. m + 1 |-> g[c]]
    OBVIOUS
  <2> HIDE DEF g
  <2>4. g = [c \in 0 .. m + 1 |-> Level(h, name, c, g)]
    BY <2>2, <2>3
  <2>. QED BY <2>4
<1>3. Stage(StackDepth)
  <2> HIDE DEF Stage
  <2>1. 0 \in P /\ \A m \in 0 .. StackDepth - 1 : m \in P => m + 1 \in P
    BY <1>1, <1>2, BoundAssumption DEF BoundAssumption
  <2> HIDE DEF P
  <2>2. StackDepth \in P
    BY <2>1, UpTo, BoundAssumption DEF BoundAssumption
  <2>. QED BY <2>2 DEF P
<1> DEFINE below == CHOOSE f : f = [c \in 0 .. StackDepth |-> Level(h, name, c, f)]
<1>4. below = [c \in 0 .. StackDepth |-> Level(h, name, c, below)]
  BY <1>3, Zenon
<1>5. CollectRecursive(h, name) = below[StackDepth]
  BY Zenon DEF CollectRecursive, Level, Visit
<1> HIDE DEF below
<1>6. \A c \in 0 .. StackDepth : below[c] = Level(h, name, c, below)
  BY <1>4, Zenon
<1>. QED BY <1>5, <1>6

(* The places after every selector of a path, from those after the one     *)
(* before.                                                                 *)
BySelectors(h, path, refs) ==
    /\ ResolveRefs(h, path) = refs[Len(path)]
    /\ refs[0] = << Place(Wrapper, 1) >>
    /\ \A n \in 1 .. Len(path) :
         refs[n] = FlattenSeq([i \in DOMAIN refs[n - 1] |-> ExpandRef(h, refs[n - 1][i], path[n])])

LEMMA PathBySelectors ==
    ASSUME NEW h, NEW path, IsSeq(path)
    PROVE  \E refs : BySelectors(h, path, refs)
<1> DEFINE top == Len(path)
           Next1(f, n) == FlattenSeq([i \in DOMAIN f[n - 1] |-> ExpandRef(h, f[n - 1][i], path[n])])
           Def(f, n) == IF n = 0 THEN << Place(Wrapper, 1) >> ELSE Next1(f, n)
           Stage(m) == \E f : f = [n \in 0 .. m |-> Def(f, n)]
           P == { m \in 0 .. top : Stage(m) }
<1>0. top \in Nat
  BY DEF IsSeq
<1> HIDE DEF top
<1>1. Stage(0)
  <2> DEFINE f == [n \in 0 .. 0 |-> << Place(Wrapper, 1) >>]
  <2>1. Def(f, 0) = << Place(Wrapper, 1) >>
    OBVIOUS
  <2> HIDE DEF Def
  <2>2. f = [n \in 0 .. 0 |-> Def(f, n)]
    BY <2>1
  <2>. QED BY <2>2
<1>2. ASSUME NEW m \in 0 .. top - 1, Stage(m) PROVE Stage(m + 1)
  <2>1. PICK f : f = [n \in 0 .. m |-> Def(f, n)]
    BY <1>2
  <2> DEFINE g == [n \in 0 .. m + 1 |-> IF n <= m THEN f[n] ELSE Def(f, m + 1)]
  <2>2. ASSUME NEW n \in 0 .. m + 1 PROVE g[n] = Def(g, n)
    <3>1. n = 0 \/ g[n - 1] = f[n - 1]
      BY <1>0
    <3> HIDE DEF g
    <3>2. Def(g, n) = Def(f, n)
      BY <3>1
    <3> HIDE DEF Def
    <3>3. g[n] = Def(f, n)
      BY <1>0, <2>1 DEF g
    <3>. QED BY <3>2, <3>3
  <2>3. g = [n \in 0 .. m + 1 |-> g[n]]
    OBVIOUS
  <2> HIDE DEF g, Def
  <2>4. g = [n \in 0 .. m + 1 |-> Def(g, n)]
    BY <2>2, <2>3
  <2>. QED BY <2>4
<1>3. Stage(top)
  <2> HIDE DEF Stage
  <2>1. 0 \in P /\ \A m \in 0 .. top - 1 : m \in P => m + 1 \in P
    BY <1>0, <1>1, <1>2
  <2> HIDE DEF P
  <2>2. top \in P
    BY <1>0, <2>1, UpTo
  <2>. QED BY <2>2 DEF P
<1> DEFINE refs == CHOOSE f : f = [n \in 0 .. top |-> Def(f, n)]
<1>4. refs = [n \in 0 .. top |-> Def(refs, n)]
  BY <1>3, Zenon
<1>5. ResolveRefs(h, path) = refs[top]
  BY Zenon DEF ResolveRefs, top
<1> HIDE DEF refs
<1>6. \A n \in 0 .. top : refs[n] = Def(refs, n)
  <2> HIDE DEF Def
  <2>. QED BY <1>4, Zenon
<1>7. refs[0] = << Place(Wrapper, 1) >>
  <2>1. Def(refs, 0) = << Place(Wrapper, 1) >>
    OBVIOUS
  <2> HIDE DEF Def
  <2>. QED BY <1>0, <1>6, <2>1
<1>8. ASSUME NEW n \in 1 .. top PROVE refs[n] = Next1(refs, n)
  <2>1. n \in 0 .. top /\ n # 0
    BY <1>0
  <2> HIDE DEF Next1
  <2>. QED BY <1>6, <2>1
<1>. QED BY <1>5, <1>7, <1>8 DEF top, BySelectors

(* The heap after every place of an action, from that after the one before.*)
ByPlaces(h, target, action, w, refs, done) ==
    /\ ApplyAction(h, target, action) = done[Len(refs)]
    /\ done[0] = [thrown |-> FALSE, heap |-> w]
    /\ \A n \in 1 .. Len(refs) : done[n] = ApplyTo(done[n - 1], refs[n], action)

LEMMA ActionByPlaces ==
    ASSUME NEW h, NEW target, NEW action, NEW w, w = Wrapped(h, target),
           NEW refs, refs = ResolveRefs(w, action.path), IsSeq(refs),
           ~ ParseThrows(action.path), Endless \notin Range(refs)
    PROVE  \E done : ByPlaces(h, target, action, w, refs, done)
<1> DEFINE top == Len(refs)
           Def(f, n) == IF n = 0 THEN [thrown |-> FALSE, heap |-> w]
                        ELSE ApplyTo(f[n - 1], refs[n], action)
           Stage(m) == \E f : f = [n \in 0 .. m |-> Def(f, n)]
           P == { m \in 0 .. top : Stage(m) }
<1>0. top \in Nat
  BY DEF IsSeq
<1> HIDE DEF top
<1>1. Stage(0)
  <2> DEFINE f == [n \in 0 .. 0 |-> [thrown |-> FALSE, heap |-> w]]
  <2>1. Def(f, 0) = [thrown |-> FALSE, heap |-> w]
    OBVIOUS
  <2> HIDE DEF Def
  <2>2. f = [n \in 0 .. 0 |-> Def(f, n)]
    BY <2>1
  <2>. QED BY <2>2
<1>2. ASSUME NEW m \in 0 .. top - 1, Stage(m) PROVE Stage(m + 1)
  <2>1. PICK f : f = [n \in 0 .. m |-> Def(f, n)]
    BY <1>2
  <2> DEFINE g == [n \in 0 .. m + 1 |-> IF n <= m THEN f[n] ELSE Def(f, m + 1)]
  <2>2. ASSUME NEW n \in 0 .. m + 1 PROVE g[n] = Def(g, n)
    <3>1. n = 0 \/ g[n - 1] = f[n - 1]
      BY <1>0
    <3> HIDE DEF g
    <3>2. Def(g, n) = Def(f, n)
      BY <3>1
    <3> HIDE DEF Def
    <3>3. g[n] = Def(f, n)
      BY <1>0, <2>1 DEF g
    <3>. QED BY <3>2, <3>3
  <2>3. g = [n \in 0 .. m + 1 |-> g[n]]
    OBVIOUS
  <2> HIDE DEF g, Def
  <2>4. g = [n \in 0 .. m + 1 |-> Def(g, n)]
    BY <2>2, <2>3
  <2>. QED BY <2>4
<1>3. Stage(top)
  <2> HIDE DEF Stage
  <2>1. 0 \in P /\ \A m \in 0 .. top - 1 : m \in P => m + 1 \in P
    BY <1>0, <1>1, <1>2
  <2> HIDE DEF P
  <2>2. top \in P
    BY <1>0, <2>1, UpTo
  <2>. QED BY <2>2 DEF P
<1> DEFINE done == CHOOSE f : f = [n \in 0 .. top |-> Def(f, n)]
<1>4. done = [n \in 0 .. top |-> Def(done, n)]
  BY <1>3, Zenon
<1>5. ApplyAction(h, target, action) = done[top]
  BY Zenon DEF ApplyAction, top
<1> HIDE DEF done
<1>6. \A n \in 0 .. top : done[n] = Def(done, n)
  <2> HIDE DEF Def
  <2>. QED BY <1>4, Zenon
<1>7. done[0] = [thrown |-> FALSE, heap |-> w]
  <2>1. Def(done, 0) = [thrown |-> FALSE, heap |-> w]
    OBVIOUS
  <2> HIDE DEF Def
  <2>2. 0 \in 0 .. top
    BY <1>0
  <2>. QED BY <1>6, <2>1, <2>2, Zenon
<1>8. ASSUME NEW n \in 1 .. top PROVE done[n] = ApplyTo(done[n - 1], refs[n], action)
  <2>1. n \in 0 .. top /\ n # 0
    BY <1>0
  <2>. QED BY <1>6, <2>1, Zenon
<1>. QED BY <1>5, <1>7, <1>8 DEF top, ByPlaces

-----------------------------------------------------------------------------
(* Containers that refer to nothing outside a set of them.                 *)

Closed(h, ids) ==
    /\ ids \subseteq DOMAIN h
    /\ \A id \in ids : /\ IsContainer(h[id])
                       /\ \A key \in DOMAIN h[id].slots : Within(h[id].slots[key], ids)

PlacesIn(h, ids) ==
    { Endless } \cup UNION { { Place(id, key) : key \in DOMAIN h[id].slots } : id \in ids }

LEMMA KeysOfContainer ==
    ASSUME NEW node, IsContainer(node)
    PROVE  KeysInOrder(node) \in Seq(DOMAIN node.slots)
<1>1. CASE node.kind = "array" /\ IsSeq(node.slots)
  <2>1. DOMAIN node.slots = 1 .. Len(node.slots) /\ Len(node.slots) \in Nat
    BY <1>1 DEF IsSeq
  <2>. QED BY <1>1, <2>1 DEF KeysInOrder
<1>2. CASE node.kind = "object" /\ IsFiniteSet(DOMAIN node.slots)
  BY <1>2, SequenceOfSet DEF KeysInOrder
<1>. QED BY <1>1, <1>2 DEF IsContainer

(* A descent from a closed set finds places in it.                         *)
LEMMA DescentInside ==
    ASSUME NEW h, NEW ids, Closed(h, ids), NEW name
    PROVE  \A id \in ids : CollectRecursive(h, name)[id] \in Seq(PlacesIn(h, ids))
<1>1. PICK below : /\ CollectRecursive(h, name) = below[StackDepth]
                   /\ \A calls \in 0 .. StackDepth : below[calls] = Level(h, name, calls, below)
  BY DescentByLevels
<1> DEFINE X == PlacesIn(h, ids)
           P == { c \in 0 .. StackDepth : \A id \in ids : below[c][id] \in Seq(X) }
<1>2. 0 \in 0 .. StackDepth /\ StackDepth \in Nat /\ StackDepth \in 0 .. StackDepth
  BY BoundAssumption DEF BoundAssumption
<1>3. Endless \in X
  BY DEF PlacesIn
<1> HIDE DEF X
<1>4. ASSUME NEW id \in ids PROVE below[0][id] \in Seq(X)
  <2>1. below[0] = Level(h, name, 0, below) /\ id \in DOMAIN h
    BY <1>1, <1>2 DEF Closed
  <2>2. Level(h, name, 0, below)[id] = << Endless >>
    BY <2>1 DEF Level
  <2>3. << Endless >> \in Seq(X)
    BY <1>3
  <2>. QED BY <2>1, <2>2, <2>3
<1>5. ASSUME NEW c \in 0 .. StackDepth - 1, \A id \in ids : below[c][id] \in Seq(X), NEW id \in ids
      PROVE  below[c + 1][id] \in Seq(X)
  <2> DEFINE node == h[id]
             keys == KeysInOrder(node)
             own == IF node.kind = "object" /\ name \in DOMAIN node.slots THEN << Place(id, name) >> ELSE << >>
             deep == [i \in DOMAIN keys |->
                        IF node.slots[keys[i]].kind = "node" THEN below[c][node.slots[keys[i]].id] ELSE << >>]
  <2>1. id \in DOMAIN h /\ IsContainer(node) /\ keys \in Seq(DOMAIN node.slots)
    BY KeysOfContainer DEF Closed
  <2>2. below[c + 1][id] = own \o FlattenSeq(deep)
    <3>1. c + 1 \in 0 .. StackDepth /\ c + 1 # 0 /\ (c + 1) - 1 = c
      BY <1>2
    <3>2. below[c + 1] = Level(h, name, c + 1, below)
      BY <1>1, <3>1
    <3>3. below[c + 1][id] = Visit(node, id, name, below[c])
      BY <2>1, <3>1, <3>2 DEF Level
    <3>. QED BY <3>3, Zenon DEF Visit
  <2>3. own \in Seq(X)
    <3>1. name \in DOMAIN node.slots => Place(id, name) \in X
      BY DEF X, PlacesIn
    <3>. QED BY <3>1
  <2>4. ASSUME NEW i \in DOMAIN keys PROVE deep[i] \in Seq(X)
    <3>1. keys[i] \in DOMAIN node.slots
      BY <2>1
    <3>2. Within(node.slots[keys[i]], ids)
      BY <3>1 DEF Closed
    <3>. QED BY <1>5, <3>2 DEF Within
  <2>5. FlattenSeq(deep) \in Seq(X)
    <3>1. DOMAIN keys = 1 .. Len(keys) /\ Len(keys) \in Nat
      BY <2>1
    <3>2. deep = [i \in 1 .. Len(keys) |-> deep[i]]
      BY <3>1
    <3> HIDE DEF deep
    <3>. QED BY <2>4, <3>1, <3>2, FlattenedIn
  <2> HIDE DEF own, deep
  <2>. QED BY <2>2, <2>3, <2>5, ConcatProperties
<1>6. 0 \in P /\ \A c \in 0 .. StackDepth - 1 : c \in P => c + 1 \in P
  BY <1>2, <1>4, <1>5
<1> HIDE DEF P
<1>7. StackDepth \in P
  BY <1>2, <1>6, UpTo
<1>. QED BY <1>1, <1>7 DEF P, X

(* A descent from a closed set depends on nothing outside it.              *)
LEMMA DescentSame ==
    ASSUME NEW h, NEW g, NEW ids, Closed(h, ids), ids \subseteq DOMAIN g,
           \A id \in ids : g[id] = h[id], NEW name
    PROVE  \A id \in ids : CollectRecursive(g, name)[id] = CollectRecursive(h, name)[id]
<1>1. PICK below : /\ CollectRecursive(h, name) = below[StackDepth]
                   /\ \A calls \in 0 .. StackDepth : below[calls] = Level(h, name, calls, below)
  BY DescentByLevels
<1>2. PICK other : /\ CollectRecursive(g, name) = other[StackDepth]
                   /\ \A calls \in 0 .. StackDepth : other[calls] = Level(g, name, calls, other)
  BY DescentByLevels
<1> DEFINE P == { c \in 0 .. StackDepth : \A id \in ids : other[c][id] = below[c][id] }
<1>3. 0 \in 0 .. StackDepth /\ StackDepth \in Nat /\ StackDepth \in 0 .. StackDepth
  BY BoundAssumption DEF BoundAssumption
<1>4. ASSUME NEW id \in ids PROVE other[0][id] = below[0][id]
  <2>1. id \in DOMAIN h /\ id \in DOMAIN g
    BY DEF Closed
  <2>2. Level(h, name, 0, below)[id] = << Endless >> /\ Level(g, name, 0, other)[id] = << Endless >>
    BY <2>1 DEF Level
  <2>. QED BY <1>1, <1>2, <1>3, <2>2
<1>5. ASSUME NEW c \in 0 .. StackDepth - 1, \A id \in ids : other[c][id] = below[c][id], NEW id \in ids
      PROVE  other[c + 1][id] = below[c + 1][id]
  <2> DEFINE node == h[id]
             keys == KeysInOrder(node)
             own == IF node.kind = "object" /\ name \in DOMAIN node.slots THEN << Place(id, name) >> ELSE << >>
             deep(f) == [i \in DOMAIN keys |->
                          IF node.slots[keys[i]].kind = "node" THEN f[c][node.slots[keys[i]].id] ELSE << >>]
  <2>1. id \in DOMAIN h /\ id \in DOMAIN g /\ g[id] = h[id] /\ IsContainer(node)
        /\ keys \in Seq(DOMAIN node.slots)
    BY KeysOfContainer DEF Closed
  <2>2. c + 1 \in 0 .. StackDepth /\ c + 1 # 0 /\ (c + 1) - 1 = c
    BY <1>3
  <2>3. below[c + 1][id] = own \o FlattenSeq(deep(below))
    <3>1. below[c + 1] = Level(h, name, c + 1, below)
      BY <1>1, <2>2
    <3>2. below[c + 1][id] = Visit(node, id, name, below[c])
      BY <2>1, <2>2, <3>1 DEF Level
    <3>. QED BY <3>2, Zenon DEF Visit
  <2>4. other[c + 1][id] = own \o FlattenSeq(deep(other))
    <3>1. other[c + 1] = Level(g, name, c + 1, other)
      BY <1>2, <2>2
    <3>2. other[c + 1][id] = Visit(node, id, name, other[c])
      BY <2>1, <2>2, <3>1 DEF Level
    <3>. QED BY <3>2, Zenon DEF Visit
  <2>5. deep(other) = deep(below)
    <3>1. ASSUME NEW i \in DOMAIN keys, node.slots[keys[i]].kind = "node"
          PROVE  other[c][node.slots[keys[i]].id] = below[c][node.slots[keys[i]].id]
      <4>1. keys[i] \in DOMAIN node.slots
        BY <2>1
      <4>2. Within(node.slots[keys[i]], ids)
        BY <4>1 DEF Closed
      <4>. QED BY <1>5, <3>1, <4>2 DEF Within
    <3>. QED BY <3>1
  <2> HIDE DEF own, deep
  <2>. QED BY <2>3, <2>4, <2>5
<1>6. 0 \in P /\ \A c \in 0 .. StackDepth - 1 : c \in P => c + 1 \in P
  BY <1>3, <1>4, <1>5
<1> HIDE DEF P
<1>7. StackDepth \in P
  BY <1>3, <1>6, UpTo
<1>. QED BY <1>1, <1>2, <1>7 DEF P

(* The wrapper beside a closed set that holds the root.                    *)
LEMMA WrappedIs ==
    ASSUME NEW h, NEW root
    PROVE  /\ DOMAIN Wrapped(h, root) = DOMAIN h \cup {Wrapper}
           /\ Wrapped(h, root)[Wrapper] = [kind |-> "array", slots |-> << root >>]
           /\ \A id \in DOMAIN h \ {Wrapper} : Wrapped(h, root)[id] = h[id]
  BY DEF Wrapped

LEMMA WrappedClosed ==
    ASSUME NEW h, NEW root, NEW ids, Closed(h, ids), Wrapper \notin ids, Within(root, ids)
    PROVE  /\ Closed(Wrapped(h, root), ids \cup {Wrapper})
           /\ 1 \in DOMAIN Wrapped(h, root)[Wrapper].slots
<1> DEFINE w == Wrapped(h, root)
           ws == ids \cup {Wrapper}
<1>1. /\ DOMAIN w = DOMAIN h \cup {Wrapper}
      /\ w[Wrapper] = [kind |-> "array", slots |-> << root >>]
      /\ \A id \in DOMAIN h \ {Wrapper} : w[id] = h[id]
  BY WrappedIs
<1> HIDE DEF w
<1>2. w[Wrapper].slots = << root >> /\ w[Wrapper].kind = "array"
  BY <1>1
<1>3. IsContainer(w[Wrapper])
  <2>1. IsSeq(<< root >>)
    BY DEF IsSeq, Range
  <2>2. << root >> = [key \in DOMAIN << root >> |-> << root >>[key]]
    OBVIOUS
  <2>. QED BY <1>1, <1>2, <2>1, <2>2 DEF IsContainer
<1>4. \A key \in DOMAIN w[Wrapper].slots : Within(w[Wrapper].slots[key], ws)
  BY <1>2 DEF Within
<1>5. ASSUME NEW id \in ids
      PROVE  IsContainer(w[id]) /\ \A key \in DOMAIN w[id].slots : Within(w[id].slots[key], ws)
  BY <1>1 DEF Closed, Within
<1>6. 1 \in DOMAIN w[Wrapper].slots
  BY <1>2
<1>. QED BY <1>1, <1>3, <1>4, <1>5, <1>6 DEF Closed, w

(* A selector finds places in the set a place is in, and depends on        *)
(* nothing outside it.                                                     *)
LEMMA SelectorInside ==
    ASSUME NEW h, NEW ids, Closed(h, ids), NEW ref \in PlacesIn(h, ids), NEW selector
    PROVE  ExpandRef(h, ref, selector) \in Seq(PlacesIn(h, ids))
<1> DEFINE X == PlacesIn(h, ids)
           v == RefValue(h, ref)
<1>1. CASE ref = Endless
  <2>1. Endless \in X
    BY DEF PlacesIn
  <2>2. << Endless >> \in Seq(X)
    BY <2>1
  <2>. QED BY <1>1, <2>2 DEF ExpandRef
<1>2. CASE ref # Endless
  <2>1. Within(v, ids)
    BY <1>2 DEF PlacesIn, RefValue, Place, Closed
  <2>2. ExpandRef(h, ref, selector) = ExpandSelector(h, v, selector)
    BY <1>2 DEF ExpandRef
  <2> HIDE DEF v
  <2>3. CASE v.kind # "node"
    BY <2>2, <2>3 DEF ExpandSelector
  <2>4. CASE v.kind = "node" /\ selector.kind = "recursive"
    BY <2>1, <2>2, <2>4, DescentInside DEF ExpandSelector, Within
  <2>5. CASE v.kind = "node" /\ selector.kind # "recursive"
    <3> DEFINE keys == KeysInOrder(h[v.id])
               found == [i \in DOMAIN keys |-> IF Designates(selector, h[v.id], keys[i])
                                               THEN << Place(v.id, keys[i]) >> ELSE << >>]
    <3>1. v.id \in ids /\ keys \in Seq(DOMAIN h[v.id].slots)
      BY <2>1, <2>5, KeysOfContainer DEF Within, Closed
    <3>2. ExpandRef(h, ref, selector) = FlattenSeq(found)
      BY <2>2, <2>5, Zenon DEF ExpandSelector
    <3>3. ASSUME NEW i \in DOMAIN keys PROVE found[i] \in Seq(X)
      <4>1. keys[i] \in DOMAIN h[v.id].slots
        BY <3>1
      <4>2. Place(v.id, keys[i]) \in X
        BY <3>1, <4>1 DEF PlacesIn
      <4>3. << Place(v.id, keys[i]) >> \in Seq(X)
        BY <4>2
      <4>. QED BY <4>3
    <3>4. DOMAIN keys = 1 .. Len(keys) /\ Len(keys) \in Nat
      BY <3>1
    <3>5. found = [i \in 1 .. Len(keys) |-> found[i]]
      BY <3>4
    <3> HIDE DEF found
    <3>. QED BY <3>2, <3>3, <3>4, <3>5, FlattenedIn
  <2>. QED BY <2>3, <2>4, <2>5
<1>. QED BY <1>1, <1>2

LEMMA SelectorSame ==
    ASSUME NEW h, NEW g, NEW ids, Closed(h, ids), ids \subseteq DOMAIN g,
           \A id \in ids : g[id] = h[id], NEW ref \in PlacesIn(h, ids), NEW selector
    PROVE  ExpandRef(g, ref, selector) = ExpandRef(h, ref, selector)
<1>1. CASE ref = Endless
  BY <1>1 DEF ExpandRef
<1>2. CASE ref # Endless
  <2> DEFINE v == RefValue(h, ref)
  <2>1. Within(v, ids)
    BY <1>2 DEF PlacesIn, RefValue, Place, Closed
  <2>2. RefValue(g, ref) = v
    BY <1>2 DEF PlacesIn, RefValue, Place
  <2> HIDE DEF v
  <2>3. v.kind = "node" => v.id \in ids /\ g[v.id] = h[v.id]
    BY <2>1 DEF Within
  <2>4. CASE v.kind = "node" /\ selector.kind = "recursive"
    <3>1. CollectRecursive(g, selector.name)[v.id] = CollectRecursive(h, selector.name)[v.id]
      BY <2>3, <2>4, DescentSame
    <3>2. ExpandSelector(g, v, selector) = ExpandSelector(h, v, selector)
      BY <3>1, <2>4 DEF ExpandSelector
    <3>. QED BY <1>2, <2>2, <3>2 DEF ExpandRef, v
  <2>5. CASE v.kind # "node"
    <3>1. ExpandSelector(g, v, selector) = ExpandSelector(h, v, selector)
      BY <2>5 DEF ExpandSelector
    <3>. QED BY <1>2, <2>2, <3>1 DEF ExpandRef, v
  <2>6. CASE v.kind = "node" /\ selector.kind # "recursive"
    <3> DEFINE Found(node) == LET keys == KeysInOrder(node)
                              IN  FlattenSeq([i \in DOMAIN keys |-> IF Designates(selector, node, keys[i])
                                                                    THEN << Place(v.id, keys[i]) >> ELSE << >>])
    <3>1. ExpandSelector(g, v, selector) = Found(g[v.id]) /\ ExpandSelector(h, v, selector) = Found(h[v.id])
      BY <2>6, Zenon DEF ExpandSelector
    <3> HIDE DEF Found
    <3>2. ExpandSelector(g, v, selector) = ExpandSelector(h, v, selector)
      BY <2>3, <2>6, <3>1
    <3>. QED BY <1>2, <2>2, <3>2 DEF ExpandRef, v
  <2>. QED BY <2>4, <2>5, <2>6
<1>. QED BY <1>1, <1>2

(* So does a path.                                                         *)
LEMMA PathInside ==
    ASSUME NEW h, NEW ids, Closed(h, ids), Wrapper \in ids, 1 \in DOMAIN h[Wrapper].slots,
           NEW path, IsSeq(path)
    PROVE  ResolveRefs(h, path) \in Seq(PlacesIn(h, ids))
<1>1. PICK refs : BySelectors(h, path, refs)
  BY PathBySelectors
<1> DEFINE top == Len(path)
           X == PlacesIn(h, ids)
           P == { n \in 0 .. top : refs[n] \in Seq(X) }
<1>2. top \in Nat
  BY DEF IsSeq
<1>3. refs[0] \in Seq(X)
  <2>1. Place(Wrapper, 1) \in X
    BY DEF PlacesIn
  <2>. QED BY <1>1, <2>1 DEF BySelectors
<1>4. ASSUME NEW n \in 0 .. top - 1, refs[n] \in Seq(X) PROVE refs[n + 1] \in Seq(X)
  <2> DEFINE found == [i \in DOMAIN refs[n] |-> ExpandRef(h, refs[n][i], path[n + 1])]
  <2>1. n + 1 \in 1 .. top /\ (n + 1) - 1 = n
    BY <1>2
  <2>2. refs[n + 1] = FlattenSeq(found)
    BY <1>1, <2>1 DEF BySelectors
  <2>3. DOMAIN refs[n] = 1 .. Len(refs[n]) /\ Len(refs[n]) \in Nat
    BY <1>4
  <2>4. ASSUME NEW i \in DOMAIN refs[n] PROVE found[i] \in Seq(X)
    <3>1. refs[n][i] \in X
      BY <1>4
    <3>. QED BY <3>1, SelectorInside
  <2>5. found = [i \in 1 .. Len(refs[n]) |-> found[i]]
    BY <2>3
  <2> HIDE DEF found, X
  <2>. QED BY <2>2, <2>3, <2>4, <2>5, FlattenedIn
<1> HIDE DEF top, X
<1>5. 0 \in P /\ \A n \in 0 .. top - 1 : n \in P => n + 1 \in P
  BY <1>2, <1>3, <1>4
<1> HIDE DEF P
<1>6. top \in P
  BY <1>2, <1>5, UpTo
<1>. QED BY <1>1, <1>6 DEF P, X, top, BySelectors

LEMMA PathSame ==
    ASSUME NEW h, NEW g, NEW ids, Closed(h, ids), ids \subseteq DOMAIN g,
           \A id \in ids : g[id] = h[id],
           Wrapper \in ids, 1 \in DOMAIN h[Wrapper].slots, NEW path, IsSeq(path)
    PROVE  ResolveRefs(g, path) = ResolveRefs(h, path)
<1>1. PICK refs : BySelectors(h, path, refs)
  BY PathBySelectors
<1>2. PICK other : BySelectors(g, path, other)
  BY PathBySelectors
<1> DEFINE top == Len(path)
           X == PlacesIn(h, ids)
           P == { n \in 0 .. top : refs[n] \in Seq(X) /\ other[n] = refs[n] }
<1>3. top \in Nat
  BY DEF IsSeq
<1>4. refs[0] \in Seq(X) /\ other[0] = refs[0]
  <2>1. Place(Wrapper, 1) \in X
    BY DEF PlacesIn
  <2>. QED BY <1>1, <1>2, <2>1 DEF BySelectors
<1>5. ASSUME NEW n \in 0 .. top - 1, refs[n] \in Seq(X), other[n] = refs[n]
      PROVE  refs[n + 1] \in Seq(X) /\ other[n + 1] = refs[n + 1]
  <2> DEFINE found == [i \in DOMAIN refs[n] |-> ExpandRef(h, refs[n][i], path[n + 1])]
             found1 == [i \in DOMAIN refs[n] |-> ExpandRef(g, refs[n][i], path[n + 1])]
  <2>1. n + 1 \in 1 .. top /\ (n + 1) - 1 = n
    BY <1>3
  <2>2. refs[n + 1] = FlattenSeq(found) /\ other[n + 1] = FlattenSeq(found1)
    BY <1>1, <1>2, <1>5, <2>1 DEF BySelectors
  <2>3. DOMAIN refs[n] = 1 .. Len(refs[n]) /\ Len(refs[n]) \in Nat
    BY <1>5
  <2>4. ASSUME NEW i \in DOMAIN refs[n] PROVE found[i] \in Seq(X) /\ found1[i] = found[i]
    <3>1. refs[n][i] \in X
      BY <1>5
    <3>. QED BY <3>1, SelectorInside, SelectorSame
  <2>5. found = [i \in 1 .. Len(refs[n]) |-> found[i]] /\ found1 = found
    BY <2>3, <2>4
  <2> HIDE DEF found, found1, X
  <2>. QED BY <2>2, <2>3, <2>4, <2>5, FlattenedIn
<1> HIDE DEF top, X
<1>6. 0 \in P /\ \A n \in 0 .. top - 1 : n \in P => n + 1 \in P
  BY <1>3, <1>4, <1>5
<1> HIDE DEF P
<1>7. top \in P
  BY <1>3, <1>6, UpTo
<1>. QED BY <1>1, <1>2, <1>7 DEF P, top, BySelectors

-----------------------------------------------------------------------------
(* An action on the heap.                                                  *)

LEMMA SequenceIs ==
    ASSUME NEW X, NEW s \in Seq(X)
    PROVE  /\ IsSeq(s) /\ Len(s) \in Nat /\ DOMAIN s = 1 .. Len(s)
           /\ s = [i \in DOMAIN s |-> s[i]] /\ Range(s) \subseteq X
<1>1. s \in [1 .. Len(s) -> X] /\ Len(s) \in Nat /\ DOMAIN s = 1 .. Len(s)
  OBVIOUS
<1>2. s = [i \in DOMAIN s |-> s[i]]
  BY <1>1
<1>3. \A i \in 1 .. Len(s) : s[i] \in Range(s)
  BY <1>1 DEF Range
<1>4. s \in Seq(Range(s))
  BY <1>1, <1>2, <1>3, SeqOfFunction
<1>5. Range(s) \subseteq X
  BY <1>1 DEF Range
<1>. QED BY <1>1, <1>2, <1>4, <1>5 DEF IsSeq

LEMMA AppendIs ==
    ASSUME NEW s, IsSeq(s), NEW v
    PROVE  /\ IsSeq(Append(s, v)) /\ Len(Append(s, v)) = Len(s) + 1 /\ Len(s) \in Nat
           /\ \A i \in 1 .. Len(s) : Append(s, v)[i] = s[i]
           /\ Append(s, v)[Len(s) + 1] = v
<1> DEFINE X == Range(s) \cup {v}
<1>1. s \in Seq(Range(s))
  BY DEF IsSeq
<1>2. s \in Seq(X) /\ v \in X
  BY <1>1
<1> HIDE DEF X
<1>3. Append(s, v) \in Seq(X)
  BY <1>2
<1>4. IsSeq(Append(s, v))
  BY <1>3, SequenceIs
<1>. QED BY <1>2, <1>4

LEMMA RemovedIs ==
    ASSUME NEW s, IsSeq(s), NEW i \in DOMAIN s
    PROVE  RemoveAt(s, i) \in Seq(Range(s))
<1>1. s \in Seq(Range(s)) /\ i \in 1 .. Len(s) /\ Len(s) \in Nat
  BY DEF IsSeq
<1> DEFINE X == Range(s)
<1> HIDE DEF X
<1>2. s \in Seq(X)
  BY <1>1 DEF X
<1>3. SubSeq(s, 1, i - 1) \in Seq(X) /\ SubSeq(s, i + 1, Len(s)) \in Seq(X)
  BY <1>1, <1>2
<1>4. RemoveAt(s, i) \in Seq(X)
  BY <1>3, ConcatProperties DEF RemoveAt
<1>. QED BY <1>4 DEF X

(* What a slot may hold after an action: no reference, one the container   *)
(* held before, or the replacement.                                        *)
From(node, v, action) ==
    \/ v.kind # "node"
    \/ action.type = "replace" /\ v = action.replacement
    \/ \E key \in DOMAIN node.slots : v = node.slots[key]

Kept(h, g, ids, action) ==
    /\ g = [id \in DOMAIN h |-> g[id]]
    /\ \A id \in DOMAIN h \ ids : g[id] = h[id]
    /\ \A id \in ids : /\ IsContainer(g[id])
                       /\ \A key \in DOMAIN g[id].slots : From(h[id], g[id].slots[key], action)

LEMMA SlotsReplaced ==
    ASSUME NEW node, IsContainer(node), NEW slots, slots = [key \in DOMAIN slots |-> slots[key]],
           \/ node.kind = "array" /\ IsSeq(slots)
           \/ node.kind = "object" /\ IsFiniteSet(DOMAIN slots)
    PROVE  /\ IsContainer([node EXCEPT !.slots = slots])
           /\ [node EXCEPT !.slots = slots].slots = slots
<1>1. [node EXCEPT !.slots = slots] = [kind |-> node.kind, slots |-> slots]
  BY DEF IsContainer
<1>. QED BY <1>1 DEF IsContainer

(* Deleting a key leaves the others, and what they hold.                   *)
LEMMA DeleteKeeps ==
    ASSUME NEW h, NEW ids, ids \subseteq DOMAIN h, NEW g, NEW action, Kept(h, g, ids, action),
           NEW ref, ref.container \in ids
    PROVE  Kept(h, DeleteRef(g, ref), ids, action)
<1> DEFINE c == ref.container
           slots == g[c].slots
           left == IF ref.key \notin DOMAIN slots THEN slots
                   ELSE IF g[c].kind = "array" THEN RemoveAt(slots, ref.key)
                   ELSE [k \in DOMAIN slots \ {ref.key} |-> slots[k]]
<1>1. IsContainer(g[c]) /\ slots = [key \in DOMAIN slots |-> slots[key]]
  BY DEF Kept, IsContainer
<1>2. /\ left = [key \in DOMAIN left |-> left[key]]
      /\ \/ g[c].kind = "array" /\ IsSeq(left)
         \/ g[c].kind = "object" /\ IsFiniteSet(DOMAIN left)
      /\ \A key \in DOMAIN left : \E k \in DOMAIN slots : left[key] = slots[k]
  <2>1. CASE ref.key \notin DOMAIN slots
    BY <1>1, <2>1 DEF IsContainer
  <2>2. CASE ref.key \in DOMAIN slots /\ g[c].kind = "array"
    <3>1. IsSeq(slots) /\ left = RemoveAt(slots, ref.key)
      BY <1>1, <2>2 DEF IsContainer
    <3>2. left \in Seq(Range(slots))
      BY <2>2, <3>1, RemovedIs
    <3> HIDE DEF left
    <3>3. IsSeq(left) /\ left = [key \in DOMAIN left |-> left[key]] /\ DOMAIN left = 1 .. Len(left)
      BY <3>2, SequenceIs
    <3>4. \A key \in DOMAIN left : left[key] \in Range(slots)
      BY <3>2
    <3>. QED BY <2>2, <3>3, <3>4 DEF Range
  <2>3. CASE ref.key \in DOMAIN slots /\ g[c].kind # "array"
    <3>1. g[c].kind = "object" /\ IsFiniteSet(DOMAIN slots)
      BY <1>1, <2>3 DEF IsContainer
    <3>2. left = [k \in DOMAIN slots \ {ref.key} |-> slots[k]]
      BY <2>3
    <3>3. DOMAIN left = DOMAIN slots \ {ref.key}
      BY <3>2
    <3>4. IsFiniteSet(DOMAIN left)
      BY <3>1, <3>3, FS_Subset
    <3>. QED BY <3>1, <3>2, <3>3, <3>4
  <2>. QED BY <2>1, <2>2, <2>3
<1> HIDE DEF left
<1>3. DeleteRef(g, ref) = [g EXCEPT ![c].slots = left]
  BY Zenon DEF DeleteRef, left
<1>4. DeleteRef(g, ref) = [g EXCEPT ![c] = [g[c] EXCEPT !.slots = left]]
  BY <1>3
<1>5. IsContainer([g[c] EXCEPT !.slots = left]) /\ [g[c] EXCEPT !.slots = left].slots = left
  BY <1>1, <1>2, SlotsReplaced
<1> DEFINE new == [g[c] EXCEPT !.slots = left]
<1>6. \A key \in DOMAIN new.slots : From(h[c], new.slots[key], action)
  <2>1. \A k \in DOMAIN slots : From(h[c], slots[k], action)
    BY DEF Kept
  <2>. QED BY <1>2, <1>5, <2>1
<1> HIDE DEF new
<1>. QED BY <1>4, <1>5, <1>6 DEF Kept, new

Written(g, ref, v) == [g EXCEPT ![ref.container].slots[ref.key] = v]

(* So does writing what is no reference, or the replacement, at a key.     *)
LEMMA WriteKeeps ==
    ASSUME NEW h, NEW ids, ids \subseteq DOMAIN h, NEW g, NEW action, Kept(h, g, ids, action),
           NEW ref, ref.container \in ids, NEW v,
           ref.key \in DOMAIN g[ref.container].slots => From(h[ref.container], v, action)
    PROVE  Kept(h, Written(g, ref, v), ids, action)
<1> DEFINE c == ref.container
           slots == g[c].slots
           left == [slots EXCEPT ![ref.key] = v]
           new == [g[c] EXCEPT !.slots = left]
<1>1. IsContainer(g[c]) /\ slots = [key \in DOMAIN slots |-> slots[key]]
  BY DEF Kept, IsContainer
<1>2. left = [key \in DOMAIN left |-> left[key]] /\ DOMAIN left = DOMAIN slots
  BY <1>1
<1>3. ASSUME g[c].kind = "array" PROVE IsSeq(left)
  <2>1. slots \in Seq(Range(slots))
    BY <1>1, <1>3 DEF IsContainer, IsSeq
  <2> DEFINE X == Range(slots) \cup {v}
  <2>2. DOMAIN left = 1 .. Len(slots) /\ Len(slots) \in Nat /\ \A k \in 1 .. Len(slots) : left[k] \in X
    BY <2>1
  <2> HIDE DEF left, X
  <2>3. left \in Seq(X)
    BY <1>2, <2>2, SeqOfFunction
  <2>. QED BY <2>3, SequenceIs
<1>4. \/ g[c].kind = "array" /\ IsSeq(left)
      \/ g[c].kind = "object" /\ IsFiniteSet(DOMAIN left)
  BY <1>1, <1>2, <1>3 DEF IsContainer
<1>5. \A key \in DOMAIN left : From(h[c], left[key], action)
  <2>1. \A k \in DOMAIN slots : From(h[c], slots[k], action)
    BY DEF Kept
  <2>. QED BY <2>1
<1>6. Written(g, ref, v) = [g EXCEPT ![c] = new]
  BY DEF Written
<1>7. IsContainer(new) /\ new.slots = left
  BY <1>1, <1>2, <1>4, SlotsReplaced
<1> HIDE DEF new, left
<1>. QED BY <1>5, <1>6, <1>7 DEF Kept

LEMMA BlackenedFrom ==
    ASSUME NEW node, NEW v, NEW action, From(node, v, action)
    PROVE  From(node, Blacken(v, action), action)
<1>1. \A cs : Text(cs).kind # "node"
  BY DEF Text
<1>2. Blacken(v, action) = v \/ \E cs : Blacken(v, action) = Text(cs)
  BY Zenon DEF Blacken
<1>. QED BY <1>1, <1>2 DEF From

(* One place.                                                              *)
LEMMA PlaceKeeps ==
    ASSUME NEW h, NEW ids, ids \subseteq DOMAIN h, NEW g, NEW action, Kept(h, g, ids, action),
           NEW ref, ref.container \in ids
    PROVE  Kept(h, ApplyActionToRef(g, ref, action), ids, action)
<1>1. CASE action.type = "delete"
  BY <1>1, DeleteKeeps DEF ApplyActionToRef
<1>2. CASE action.type = "replace"
  <2>1. From(h[ref.container], action.replacement, action)
    BY <1>2 DEF From
  <2>2. ApplyActionToRef(g, ref, action) = Written(g, ref, action.replacement)
    BY <1>2 DEF ApplyActionToRef, Written
  <2>. QED BY <2>1, <2>2, WriteKeeps
<1>3. CASE action.type \notin {"delete", "replace"}
  <2> DEFINE v == Blacken(g[ref.container].slots[ref.key], action)
  <2>1. ref.key \in DOMAIN g[ref.container].slots => From(h[ref.container], v, action)
    BY BlackenedFrom DEF Kept
  <2>2. ApplyActionToRef(g, ref, action) = Written(g, ref, v)
    BY <1>3 DEF ApplyActionToRef, Written
  <2> HIDE DEF v
  <2>. QED BY <2>1, <2>2, WriteKeeps
<1>. QED BY <1>1, <1>2, <1>3

(* What was closed stays closed, if it holds the replacement.              *)
LEMMA KeptClosed ==
    ASSUME NEW h, NEW g, NEW ids, NEW more, NEW action, Kept(h, g, ids, action), Closed(h, more),
           action.type = "replace" => Within(action.replacement, more)
    PROVE  Closed(g, more)
<1>1. DOMAIN g = DOMAIN h
  BY DEF Kept
<1>2. ASSUME NEW id \in more
      PROVE  IsContainer(g[id]) /\ \A key \in DOMAIN g[id].slots : Within(g[id].slots[key], more)
  <2>1. CASE id \in ids
    BY <2>1 DEF Kept, From, Closed, Within
  <2>2. CASE id \notin ids
    BY <2>2 DEF Kept, Closed
  <2>. QED BY <2>1, <2>2
<1>. QED BY <1>1, <1>2 DEF Closed

(* What an action does at a place: it deletes the key, puts the replacement*)
(* there, or blackens what was there; an array closes up behind a deletion.*)
DoneAt(before, after, key, once, action) ==
    CASE action.type = "delete"  -> key \notin DOMAIN after.slots
      [] action.type = "replace" -> key \in DOMAIN after.slots /\ after.slots[key] = action.replacement
      [] OTHER -> once => /\ key \in DOMAIN after.slots
                          /\ after.slots[key] = Blacken(before.slots[key], action)

Once(refs, n, i) == \A j \in 1 .. n : refs[j] = refs[i] => j = i

(* The first n places of an action have been changed, and nothing else.    *)
EffectOn(before, after, id, refs, n, action) ==
    /\ after.kind = before.kind
    /\ (\A i \in 1 .. n : refs[i].container # id) => after = before
    /\ (before.kind = "object" \/ action.type # "delete") =>
          \A key \in DOMAIN before.slots :
             /\ (\A i \in 1 .. n : refs[i] # Place(id, key))
                => key \in DOMAIN after.slots /\ after.slots[key] = before.slots[key]
             /\ \A i \in 1 .. n : refs[i] = Place(id, key)
                                  => DoneAt(before, after, key, Once(refs, n, i), action)

Effect(h, g, refs, n, action) ==
    \A id \in DOMAIN h : EffectOn(h[id], g[id], id, refs, n, action)

(* One place.                                                              *)
Changed(node, new, key, action) ==
    /\ new.kind = node.kind
    /\ (node.kind = "object" \/ action.type # "delete") =>
          /\ \A k \in DOMAIN node.slots : k # key => k \in DOMAIN new.slots /\ new.slots[k] = node.slots[k]
          /\ action.type = "delete" => DOMAIN new.slots = DOMAIN node.slots \ {key}
          /\ action.type # "delete" /\ key \in DOMAIN node.slots =>
               /\ key \in DOMAIN new.slots
               /\ new.slots[key] = IF action.type = "replace" THEN action.replacement
                                   ELSE Blacken(node.slots[key], action)

ChangedAt(g, new, ref, action) ==
    /\ \A id \in DOMAIN g : id # ref.container => new[id] = g[id]
    /\ Changed(g[ref.container], new[ref.container], ref.key, action)

LEMMA PlaceChanges ==
    ASSUME NEW g, NEW action, NEW ref, ref.container \in DOMAIN g, IsContainer(g[ref.container]),
           g = [id \in DOMAIN g |-> g[id]]
    PROVE  ChangedAt(g, ApplyActionToRef(g, ref, action), ref, action)
<1> DEFINE c == ref.container
           slots == g[c].slots
           new == ApplyActionToRef(g, ref, action)
<1>1. /\ g[c] = [kind |-> g[c].kind, slots |-> slots] /\ slots = [key \in DOMAIN slots |-> slots[key]]
      /\ g[c].kind \in {"array", "object"}
  BY DEF IsContainer
<1>2. CASE action.type = "delete"
  <2> DEFINE left == IF ref.key \notin DOMAIN slots THEN slots
                     ELSE IF g[c].kind = "array" THEN RemoveAt(slots, ref.key)
                     ELSE [k \in DOMAIN slots \ {ref.key} |-> slots[k]]
  <2>1. new = [g EXCEPT ![c].slots = left]
    BY <1>2, Zenon DEF ApplyActionToRef, DeleteRef
  <2>2. ASSUME g[c].kind = "object"
        PROVE  DOMAIN left = DOMAIN slots \ {ref.key} /\ \A k \in DOMAIN slots : k # ref.key => left[k] = slots[k]
    BY <1>1, <2>2
  <2> HIDE DEF left, new
  <2>3. \A id \in DOMAIN g : id # c => new[id] = g[id]
    BY <2>1
  <2>4. new[c].kind = g[c].kind /\ new[c].slots = left
    BY <1>1, <2>1
  <2>. QED BY <1>1, <1>2, <2>2, <2>3, <2>4 DEF ChangedAt, Changed, new
<1>3. CASE action.type # "delete"
  <2> DEFINE v == IF action.type = "replace" THEN action.replacement ELSE Blacken(slots[ref.key], action)
             left == [slots EXCEPT ![ref.key] = v]
  <2>1. new = [g EXCEPT ![c].slots = left]
    BY <1>3 DEF ApplyActionToRef
  <2> HIDE DEF v
  <2>2. /\ DOMAIN left = DOMAIN slots
        /\ \A k \in DOMAIN slots : left[k] = IF k = ref.key THEN v ELSE slots[k]
    BY <1>1
  <2> HIDE DEF left, new
  <2>3. \A id \in DOMAIN g : id # c => new[id] = g[id]
    BY <2>1
  <2>4. new[c].kind = g[c].kind /\ new[c].slots = left
    BY <1>1, <2>1
  <2>. QED BY <1>3, <2>2, <2>3, <2>4 DEF ChangedAt, Changed, new, v
<1>. QED BY <1>2, <1>3

(* One place more.                                                         *)
LEMMA OneMorePlace ==
    ASSUME NEW h, NEW g, NEW new, NEW refs, NEW n \in Nat, NEW action, DOMAIN g = DOMAIN h,
           Effect(h, g, refs, n, action),
           NEW c \in DOMAIN h, NEW k, refs[n + 1] = Place(c, k),
           ChangedAt(g, new, refs[n + 1], action)
    PROVE  Effect(h, new, refs, n + 1, action)
<1> SUFFICES ASSUME NEW id \in DOMAIN h PROVE EffectOn(h[id], new[id], id, refs, n + 1, action)
  BY DEF Effect
<1>1. EffectOn(h[id], g[id], id, refs, n, action)
  BY DEF Effect
<1>2. refs[n + 1].container = c /\ refs[n + 1].key = k
  BY DEF Place
<1>3. /\ \A i \in 1 .. n + 1 : i \in 1 .. n \/ i = n + 1
      /\ \A i \in 1 .. n : i \in 1 .. n + 1 /\ i # n + 1
      /\ n + 1 \in 1 .. n + 1
  OBVIOUS
<1>4. \A i \in 1 .. n : Once(refs, n + 1, i) => Once(refs, n, i) /\ refs[n + 1] # refs[i]
  BY <1>3, Zenon DEF Once
<1>5. CASE id # c
  <2>1. new[id] = g[id]
    BY <1>2, <1>5 DEF ChangedAt
  <2>2. \A key : refs[n + 1] # Place(id, key)
    BY <1>2, <1>5 DEF Place
  <2>3. \A key, i : DoneAt(h[id], g[id], key, Once(refs, n, i), action) /\ i \in 1 .. n
                    => DoneAt(h[id], g[id], key, Once(refs, n + 1, i), action)
    BY <1>4 DEF DoneAt
  <2>. QED BY <1>1, <1>2, <1>3, <1>5, <2>1, <2>2, <2>3, Zenon DEF EffectOn
<1>6. CASE id = c
  <2> DEFINE before == h[c]
             mid == g[c]
             after == new[c]
  <2>1. Changed(mid, after, k, action) /\ after.kind = before.kind
    BY <1>1, <1>2, <1>6 DEF ChangedAt, Changed, EffectOn
  <2>2. ~ (\A i \in 1 .. n + 1 : refs[i].container # c)
    BY <1>2, <1>3
  <2>3. ASSUME before.kind = "object" \/ action.type # "delete", NEW key \in DOMAIN before.slots
        PROVE  /\ (\A i \in 1 .. n + 1 : refs[i] # Place(c, key))
                  => key \in DOMAIN after.slots /\ after.slots[key] = before.slots[key]
               /\ \A i \in 1 .. n + 1 : refs[i] = Place(c, key)
                                        => DoneAt(before, after, key, Once(refs, n + 1, i), action)
    <3>1. /\ (\A i \in 1 .. n : refs[i] # Place(c, key))
             => key \in DOMAIN mid.slots /\ mid.slots[key] = before.slots[key]
          /\ \A i \in 1 .. n : refs[i] = Place(c, key) => DoneAt(before, mid, key, Once(refs, n, i), action)
          /\ mid.kind = before.kind
      BY <1>1, <1>6, <2>3, Zenon DEF EffectOn
    <3> HIDE DEF before, mid, after
    <3>2. /\ \A j \in DOMAIN mid.slots : j # k => j \in DOMAIN after.slots /\ after.slots[j] = mid.slots[j]
          /\ action.type = "delete" => DOMAIN after.slots = DOMAIN mid.slots \ {k}
          /\ action.type # "delete" /\ k \in DOMAIN mid.slots =>
               /\ k \in DOMAIN after.slots
               /\ after.slots[k] = IF action.type = "replace" THEN action.replacement
                                   ELSE Blacken(mid.slots[k], action)
      BY <2>1, <2>3, <3>1, Zenon DEF Changed
    <3>3. Place(c, key) = Place(c, k) => key = k
      BY DEF Place
    <3>4. ASSUME \A i \in 1 .. n + 1 : refs[i] # Place(c, key)
          PROVE  key \in DOMAIN after.slots /\ after.slots[key] = before.slots[key]
      <4>1. key # k /\ \A i \in 1 .. n : refs[i] # Place(c, key)
        BY <1>3, <3>4
      <4>. QED BY <3>1, <3>2, <4>1
    <3>5. ASSUME NEW i \in 1 .. n + 1, refs[i] = Place(c, key)
          PROVE  DoneAt(before, after, key, Once(refs, n + 1, i), action)
      <4>1. CASE i \in 1 .. n /\ key # k
        <5>1. DoneAt(before, mid, key, Once(refs, n, i), action)
          BY <3>1, <3>5, <4>1
        <5>. QED BY <1>4, <3>2, <4>1, <5>1 DEF DoneAt
      <4>2. CASE i \in 1 .. n /\ key = k
        <5>1. DoneAt(before, mid, key, Once(refs, n, i), action) /\ ~ Once(refs, n + 1, i)
          BY <1>4, <3>1, <3>5, <4>2
        <5>. QED BY <3>2, <4>2, <5>1 DEF DoneAt
      <4>3. CASE i = n + 1
        <5>1. key = k
          BY <3>3, <3>5, <4>3
        <5>2. CASE action.type = "delete"
          BY <3>2, <5>1, <5>2 DEF DoneAt
        <5>3. CASE action.type = "replace"
          <6>1. key \in DOMAIN mid.slots
            BY <3>1, <5>3 DEF DoneAt
          <6>. QED BY <3>2, <5>1, <5>3, <6>1 DEF DoneAt
        <5>4. CASE action.type \notin {"delete", "replace"}
          <6>1. ASSUME Once(refs, n + 1, i)
                PROVE  key \in DOMAIN mid.slots /\ mid.slots[key] = before.slots[key]
            <7>1. \A j \in 1 .. n : refs[j] # Place(c, key)
              BY <1>3, <3>5, <4>3, <6>1 DEF Once
            <7>. QED BY <3>1, <7>1
          <6>. QED BY <3>2, <5>1, <5>4, <6>1 DEF DoneAt
        <5>. QED BY <5>2, <5>3, <5>4
      <4>. QED BY <1>3, <4>1, <4>2, <4>3
    <3>. QED BY <3>4, <3>5
  <2>. QED BY <1>6, <2>1, <2>2, <2>3 DEF EffectOn
<1>. QED BY <1>5, <1>6

(* An action throws, or changes just the places its path designates.       *)
LEMMA ActionKeeps ==
    ASSUME NEW h, NEW target, NEW action, IsSeq(action.path),
           NEW ids, Closed(h, ids), Wrapper \notin ids, Within(target, ids)
    PROVE  \/ ApplyAction(h, target, action).thrown
           \/ /\ ~ ParseThrows(action.path)
              /\ Kept(Wrapped(h, target), ApplyAction(h, target, action).heap, ids \cup {Wrapper}, action)
              /\ Effect(Wrapped(h, target), ApplyAction(h, target, action).heap,
                        ResolveRefs(Wrapped(h, target), action.path),
                        Len(ResolveRefs(Wrapped(h, target), action.path)), action)
<1> DEFINE w == Wrapped(h, target)
           inside == ids \cup {Wrapper}
           refs == ResolveRefs(w, action.path)
<1>1. Closed(w, inside) /\ 1 \in DOMAIN w[Wrapper].slots /\ Wrapper \in inside
  BY WrappedClosed
<1>2. w = [id \in DOMAIN w |-> w[id]]
  BY DEF Wrapped
<1> HIDE DEF w
<1>3. CASE ParseThrows(action.path) \/ Endless \in Range(refs)
  <2>1. ApplyAction(h, target, action) = [thrown |-> TRUE, heap |-> h]
    BY <1>3, Zenon DEF ApplyAction, w
  <2>. QED BY <2>1
<1>4. CASE ~ ParseThrows(action.path) /\ Endless \notin Range(refs)
  <2> HIDE DEF inside, refs
  <2>1. refs \in Seq(PlacesIn(w, inside))
    BY <1>1, PathInside DEF refs
  <2>2. IsSeq(refs) /\ DOMAIN refs = 1 .. Len(refs) /\ Len(refs) \in Nat
    BY <2>1, SequenceIs
  <2>3. PICK done : ByPlaces(h, target, action, w, refs, done)
    <3>1. w = Wrapped(h, target) /\ refs = ResolveRefs(w, action.path)
      BY DEF w, refs
    <3>2. ~ ParseThrows(action.path) /\ Endless \notin Range(refs)
      BY <1>4
    <3>. QED BY <2>2, <3>1, <3>2, ActionByPlaces
  <2> DEFINE top == Len(refs)
             Sound(s, n) == /\ s = [thrown |-> s.thrown, heap |-> s.heap]
                            /\ s.thrown \in BOOLEAN /\ Kept(w, s.heap, inside, action)
                            /\ ~ s.thrown => Effect(w, s.heap, refs, n, action)
             P == { n \in 0 .. top : Sound(done[n], n) }
  <2>4. Sound(done[0], 0)
    <3>1. done[0] = [thrown |-> FALSE, heap |-> w]
      BY <2>3 DEF ByPlaces
    <3>2. Kept(w, w, inside, action)
      BY <1>1, <1>2 DEF Kept, Closed, From
    <3>3. Effect(w, w, refs, 0, action)
      BY DEF Effect, EffectOn
    <3>. QED BY <3>1, <3>2, <3>3
  <2>5. ASSUME NEW n \in 0 .. top - 1, Sound(done[n], n) PROVE Sound(done[n + 1], n + 1)
    <3>1. n + 1 \in 1 .. top /\ (n + 1) - 1 = n
      BY <2>2
    <3> DEFINE ref == refs[n + 1]
               before == done[n]
    <3>2. done[n + 1] = ApplyTo(before, ref, action)
      BY <2>3, <3>1 DEF ByPlaces
    <3>3. ref \in PlacesIn(w, inside) /\ ref # Endless
      <4>1. n + 1 \in DOMAIN refs
        BY <2>2, <3>1
      <4>. QED BY <1>4, <2>1, <4>1 DEF Range
    <3> HIDE DEF ref
    <3>4. ref.container \in inside /\ inside \subseteq DOMAIN w
      <4>1. PICK id \in inside : \E key \in DOMAIN w[id].slots : ref = Place(id, key)
        BY <3>3 DEF PlacesIn
      <4>. QED BY <1>1, <4>1 DEF Place, Closed
    <3>5. Kept(w, ApplyActionToRef(before.heap, ref, action), inside, action)
      BY <2>5, <3>4, PlaceKeeps
    <3>6. CASE before.thrown \/ ActionThrows(before.heap, ref, action)
      <4>1. done[n + 1] = [before EXCEPT !.thrown = TRUE]
        BY <3>2, <3>6 DEF ApplyTo
      <4>. QED BY <2>5, <4>1
    <3>7. CASE ~ (before.thrown \/ ActionThrows(before.heap, ref, action))
      <4> DEFINE g == before.heap
                 new == ApplyActionToRef(g, ref, action)
      <4>1. done[n + 1] = [before EXCEPT !.heap = new]
        BY <3>2, <3>7 DEF ApplyTo
      <4>2. /\ DOMAIN g = DOMAIN w /\ g = [id \in DOMAIN g |-> g[id]]
            /\ IsContainer(g[ref.container])
        BY <2>5, <3>4 DEF Kept
      <4>3. Effect(w, g, refs, n, action) /\ n \in Nat
        BY <2>2, <2>5, <3>7
      <4>4. ref = Place(ref.container, ref.key)
        BY <3>3 DEF PlacesIn, Place
      <4>5. ChangedAt(g, new, ref, action)
        BY <3>4, <4>2, PlaceChanges
      <4> HIDE DEF g, new
      <4>6. Effect(w, new, refs, n + 1, action)
        BY <3>4, <4>2, <4>3, <4>4, <4>5, OneMorePlace DEF ref
      <4>. QED BY <2>5, <3>5, <4>1, <4>6 DEF g, new
    <3>. QED BY <3>6, <3>7
  <2> HIDE DEF Sound, top
  <2>6. top \in Nat
    BY <2>2 DEF top
  <2>7. 0 \in P /\ \A n \in 0 .. top - 1 : n \in P => n + 1 \in P
    BY <2>6, <2>4, <2>5
  <2> HIDE DEF P
  <2>8. top \in P
    BY <2>7, <2>6, UpTo
  <2>9. ApplyAction(h, target, action) = done[top]
    BY <2>3 DEF ByPlaces, top
  <2>. QED BY <1>4, <2>8, <2>9 DEF P, Sound, top, refs, w, inside
<1>. QED BY <1>3, <1>4

-----------------------------------------------------------------------------
(* Conditions.                                                             *)

Decided(refs, actual, c) ==
    LET single == Len(refs) = 1
    IN  CASE c.type = "==" -> single /\ actual = c.value
          [] c.type = "!=" -> ~ (single /\ actual = c.value)
          [] c.type = ">=" -> /\ single
                          /\ \/ actual.kind = "number" /\ actual.n >= c.value.n
                             \/ actual = Null /\ 0 >= c.value.n
          [] c.type = "=~" -> single /\ actual \in c.language

(* What a condition reads depends on nothing but the element.              *)
LEMMA ConditionSame ==
    ASSUME NEW h, NEW g, NEW ids, Closed(h, ids), Wrapper \notin ids, ids \subseteq DOMAIN g,
           \A id \in ids : g[id] = h[id],
           NEW element, Within(element, ids), NEW c, IsSeq(c.path)
    PROVE  /\ Readable(g, element, c) <=> Readable(h, element, c)
           /\ Readable(h, element, c) => (Holds(g, element, c) <=> Holds(h, element, c))
<1> DEFINE wh == Wrapped(h, element)
           wg == Wrapped(g, element)
           inside == ids \cup {Wrapper}
           refs == ResolveRefs(wh, c.path)
<1>1. Closed(wh, inside) /\ 1 \in DOMAIN wh[Wrapper].slots /\ Wrapper \in inside
  BY WrappedClosed
<1>2. inside \subseteq DOMAIN wg /\ \A id \in inside : wg[id] = wh[id]
  BY DEF Wrapped, Closed
<1> HIDE DEF wh, wg, inside, refs
<1>3. ResolveRefs(wg, c.path) = ResolveRefs(wh, c.path)
  BY <1>1, <1>2, PathSame
<1>4. ConditionRefs(h, element, c) = refs /\ ConditionRefs(g, element, c) = refs
  BY <1>3 DEF ConditionRefs, wh, wg, refs
<1>5. Readable(g, element, c) <=> Readable(h, element, c)
  BY <1>4 DEF Readable
<1>6. ASSUME Readable(h, element, c) PROVE RefValue(wg, refs[1]) = RefValue(wh, refs[1])
  <2>1. refs \in Seq(PlacesIn(wh, inside))
    BY <1>1, PathInside DEF refs
  <2>2. refs # << >> /\ Endless \notin Range(refs)
    BY <1>4, <1>6 DEF Readable
  <2>3. 1 \in DOMAIN refs
    BY <2>1, <2>2
  <2>4. refs[1] \in PlacesIn(wh, inside) /\ refs[1] # Endless
    BY <2>1, <2>2, <2>3 DEF Range
  <2>5. PICK id \in inside : \E key \in DOMAIN wh[id].slots : refs[1] = Place(id, key)
    BY <2>4 DEF PlacesIn
  <2>. QED BY <1>2, <2>5 DEF RefValue, Place
<1>7. /\ Holds(h, element, c) <=> Decided(refs, RefValue(wh, refs[1]), c)
      /\ Holds(g, element, c) <=> Decided(refs, RefValue(wg, refs[1]), c)
  BY <1>4, Zenon DEF Holds, Decided, wh, wg
<1>. QED BY <1>5, <1>6, <1>7

LEMMA ConditionsSame ==
    ASSUME NEW h, NEW g, NEW ids, Closed(h, ids), Wrapper \notin ids, ids \subseteq DOMAIN g,
           \A id \in ids : g[id] = h[id],
           NEW element, Within(element, ids),
           NEW conditions, IsSeq(conditions), \A i \in DOMAIN conditions : IsSeq(conditions[i].path)
    PROVE  /\ Met(g, element, conditions) <=> Met(h, element, conditions)
           /\ Unmet(g, element, conditions) <=> Unmet(h, element, conditions)
<1>1. ASSUME NEW i \in DOMAIN conditions
      PROVE  /\ Readable(g, element, conditions[i]) <=> Readable(h, element, conditions[i])
             /\ Readable(h, element, conditions[i]) =>
                   (Holds(g, element, conditions[i]) <=> Holds(h, element, conditions[i]))
  BY ConditionSame
<1>2. \A i \in DOMAIN conditions :
         Satisfied(g, element, conditions[i]) <=> Satisfied(h, element, conditions[i])
  BY <1>1 DEF Satisfied
<1>3. \A i \in DOMAIN conditions : \A j \in 1 .. i - 1 : j \in DOMAIN conditions
  BY DEF IsSeq
<1>. QED BY <1>1, <1>2, <1>3 DEF Met, Unmet

(* What `every` returns when nothing throws.                               *)
LEMMA VerdictOf ==
    ASSUME NEW h, NEW element, NEW conditions, IsSeq(conditions)
    PROVE  /\ MeetsConditions(h, element, conditions) = "met" => Met(h, element, conditions)
           /\ MeetsConditions(h, element, conditions) = "unmet" => Unmet(h, element, conditions)
           /\ MeetsConditions(h, element, conditions) \in {"met", "unmet", "throws"}
<1> DEFINE Throws(i) == ConditionThrows(h, element, conditions[i])
           True(i) == Holds(h, element, conditions[i])
           decisive == { i \in DOMAIN conditions : Throws(i) \/ ~ True(i) }
           first == Min(decisive)
<1>1. MeetsConditions(h, element, conditions) =
         IF decisive = {} THEN "met" ELSE IF Throws(first) THEN "throws" ELSE "unmet"
  BY Zenon DEF MeetsConditions
<1>2. DOMAIN conditions = 1 .. Len(conditions) /\ Len(conditions) \in Nat
  BY DEF IsSeq
<1>3. \A i \in DOMAIN conditions : ~ Throws(i) => Readable(h, element, conditions[i])
  BY DEF ConditionThrows, Readable
<1>4. decisive \in SUBSET Nat
  BY <1>2
<1> HIDE DEF Throws, True, first
<1>5. ASSUME decisive = {} PROVE Met(h, element, conditions)
  BY <1>3, <1>5 DEF Met, Satisfied, True
<1>6. ASSUME decisive # {}, ~ Throws(first) PROVE Unmet(h, element, conditions)
  <2>1. first \in decisive /\ \A i \in decisive : first <= i
    BY <1>4, <1>6, LeastOf DEF first
  <2>2. first \in DOMAIN conditions /\ ~ True(first)
    BY <1>6, <2>1
  <2>3. ASSUME NEW j \in 1 .. first - 1 PROVE Satisfied(h, element, conditions[j])
    <3>1. j \in DOMAIN conditions /\ j \notin decisive
      BY <1>2, <2>1, <2>2
    <3>. QED BY <1>3, <3>1 DEF Satisfied, True
  <2>. QED BY <1>3, <1>6, <2>2, <2>3 DEF Unmet, True
<1> HIDE DEF decisive
<1>. QED BY <1>1, <1>5, <1>6

-----------------------------------------------------------------------------
(* The inductive invariant.                                                *)

Owned(owner) == { id \in DOMAIN heap : id[1] = owner }

(* Where the filter is.                                                    *)
Position ==
    /\ value \in Values /\ constraint \in Constraints
    /\ IsSeq(result)
    /\ current \in 1 .. Len(value.elements) + 1
    /\ at \in 0 .. Len(constraint.actions) + 1
    /\ at = 0 => Len(result) = current - 1
    /\ at > 0 => /\ Len(result) = current /\ current \in Elements
                 /\ constraint.type = "filterJsonContent"
    /\ verdict = "returned" => at = 0 /\ current = Len(value.elements) + 1

(* Who owns the containers: what the method returned is as it was, and the *)
(* replacements refer to nothing but each other.                           *)
HeapSound ==
    /\ heap = [id \in DOMAIN heap |-> heap[id]]
    /\ Owned(Raw) = DOMAIN value.nodes
    /\ \A id \in DOMAIN value.nodes : heap[id] = value.nodes[id]
    /\ Owned(Shared) = DOMAIN constraint.nodes
    /\ \A id \in DOMAIN heap \ (Owned(Raw) \cup Owned(Shared)) : << Raw, id[2] >> \in DOMAIN value.nodes
    /\ Closed(heap, Owned(Shared))

(* The copy refers to nothing but itself, and to a replacement only after  *)
(* an action that put one there.                                           *)
PutBefore ==
    \E k \in 1 .. at - 1 : /\ constraint.actions[k].type = "replace"
                           /\ constraint.actions[k].replacement.kind = "node"

Reachable == Owned(current) \cup (IF PutBefore THEN Owned(Shared) ELSE {})

CopySound ==
    at > 0 => Closed(heap, Reachable) /\ Within(result[current], Owned(current))

(* What was decided, of the value as the method returned it.               *)
Judged ==
    /\ \A e \in 1 .. current - 1 : Justified(value.nodes, e)
    /\ at > 0 => /\ Met(value.nodes, Element(current), constraint.conditions)
                 /\ \A k \in 1 .. at - 1 : ~ ParseThrows(constraint.actions[k].path)

IInv == Position /\ HeapSound /\ CopySound /\ Judged

LEMMA Given ==
    ASSUME Position
    PROVE  /\ IsSeq(value.elements) /\ Elements = 1 .. Len(value.elements) /\ Len(value.elements) \in Nat
           /\ \A e \in Elements : Within(Element(e), DOMAIN value.nodes)
           /\ DOMAIN value.nodes \subseteq {Raw} \X (Nat \ {0})
           /\ Closed(value.nodes, DOMAIN value.nodes)
           /\ DOMAIN constraint.nodes \subseteq {Shared} \X (Nat \ {0})
           /\ Closed(constraint.nodes, DOMAIN constraint.nodes)
           /\ IsSeq(constraint.conditions)
           /\ \A i \in DOMAIN constraint.conditions : IsSeq(constraint.conditions[i].path)
           /\ DOMAIN constraint.actions = 1 .. Len(constraint.actions) /\ Len(constraint.actions) \in Nat
           /\ \A k \in DOMAIN constraint.actions :
                 /\ IsSeq(constraint.actions[k].path)
                 /\ Within(constraint.actions[k].replacement, DOMAIN constraint.nodes)
           /\ current \in Nat /\ current # Raw /\ current # Shared
<1>1. value \in Values /\ constraint \in Constraints /\ current \in 1 .. Len(value.elements) + 1
  BY DEF Position
<1>2. /\ Complete(value.nodes, Raw) /\ IsSeq(value.elements)
      /\ \A e \in DOMAIN value.elements : Within(value.elements[e], DOMAIN value.nodes)
  BY <1>1, ValuesAssumption
<1>3. /\ Complete(constraint.nodes, Shared) /\ IsSeq(constraint.conditions) /\ IsSeq(constraint.actions)
      /\ \A i \in DOMAIN constraint.conditions : IsSeq(constraint.conditions[i].path)
      /\ \A i \in DOMAIN constraint.actions :
            /\ IsSeq(constraint.actions[i].path)
            /\ Within(constraint.actions[i].replacement, DOMAIN constraint.nodes)
  BY <1>1, ConstraintsAssumption
<1>4. Len(value.elements) \in Nat /\ DOMAIN value.elements = 1 .. Len(value.elements)
  BY <1>2 DEF IsSeq
<1>5. Len(constraint.actions) \in Nat /\ DOMAIN constraint.actions = 1 .. Len(constraint.actions)
  BY <1>3 DEF IsSeq
<1>6. Closed(value.nodes, DOMAIN value.nodes) /\ DOMAIN value.nodes \subseteq {Raw} \X (Nat \ {0})
  BY <1>2 DEF Complete, Closed
<1>7. Closed(constraint.nodes, DOMAIN constraint.nodes)
      /\ DOMAIN constraint.nodes \subseteq {Shared} \X (Nat \ {0})
  BY <1>3 DEF Complete, Closed
<1>8. current \in Nat /\ current # Raw /\ current # Shared
  BY <1>1, <1>4 DEF Raw, Shared
<1>. QED BY <1>2, <1>3, <1>4, <1>5, <1>6, <1>7, <1>8 DEF Elements, Element

LEMMA NoWrapper ==
    ASSUME Position, HeapSound
    PROVE  Wrapper \notin DOMAIN heap /\ Wrapper \notin DOMAIN value.nodes
<1>1. Wrapper \notin DOMAIN value.nodes
  BY Given DEF Wrapper
<1>2. Wrapper[1] = Raw
  BY DEF Wrapper
<1>. QED BY <1>1, <1>2 DEF HeapSound, Owned

(* The conditions read the same whatever became of the copies.             *)
LEMMA ReadSame ==
    ASSUME Position, HeapSound, NEW e \in Elements
    PROVE  /\ Met(heap, Element(e), constraint.conditions) <=>
                 Met(value.nodes, Element(e), constraint.conditions)
           /\ Unmet(heap, Element(e), constraint.conditions) <=>
                 Unmet(value.nodes, Element(e), constraint.conditions)
<1> DEFINE ids == DOMAIN value.nodes
           element == Element(e)
           conditions == constraint.conditions
           h == value.nodes
<1>1. Closed(h, ids) /\ Wrapper \notin ids
  BY Given, NoWrapper
<1>2. ids \subseteq DOMAIN heap /\ \A id \in ids : heap[id] = h[id]
  BY DEF HeapSound, Owned
<1>3. Within(element, ids) /\ IsSeq(conditions) /\ \A i \in DOMAIN conditions : IsSeq(conditions[i].path)
  BY Given
<1> HIDE DEF ids, element, conditions, h
<1>4. /\ Met(heap, element, conditions) <=> Met(h, element, conditions)
      /\ Unmet(heap, element, conditions) <=> Unmet(h, element, conditions)
  BY <1>1, <1>2, <1>3, ConditionsSame
<1>. QED BY <1>4 DEF element, conditions, h

LEMMA JustifiedSame ==
    ASSUME Position, HeapSound, NEW e \in Elements
    PROVE  Justified(heap, e) <=> Justified(value.nodes, e)
  BY ReadSame DEF Justified

-----------------------------------------------------------------------------
(* The steps.                                                              *)

LEMMA InitSound == Init => IInv
<1> SUFFICES ASSUME Init PROVE IInv
  OBVIOUS
<1>1. IsSeq(value.elements) /\ IsSeq(constraint.actions) /\ IsSeq(<< >>)
  BY ValuesAssumption, ConstraintsAssumption DEF Init, IsSeq
<1>2. Len(value.elements) \in Nat /\ Len(constraint.actions) \in Nat
  BY <1>1 DEF IsSeq
<1>3. Position
  BY <1>1, <1>2 DEF Init, Position
<1> DEFINE vs == DOMAIN value.nodes
           cs == DOMAIN constraint.nodes
<1>4. /\ vs \subseteq {Raw} \X (Nat \ {0}) /\ cs \subseteq {Shared} \X (Nat \ {0})
      /\ Closed(constraint.nodes, cs)
  BY <1>3, Given
<1>5. /\ heap = [id \in DOMAIN heap |-> heap[id]] /\ DOMAIN heap = vs \cup cs
      /\ \A id \in vs : heap[id] = value.nodes[id]
      /\ \A id \in cs \ vs : heap[id] = constraint.nodes[id]
  BY DEF Init
<1>6. (\A id \in vs : id[1] = Raw) /\ (\A id \in cs : id[1] = Shared) /\ Raw # Shared
  BY <1>4 DEF Raw, Shared
<1>7. Owned(Raw) = vs /\ Owned(Shared) = cs
  BY <1>5, <1>6 DEF Owned
<1>8. Closed(heap, cs)
  BY <1>4, <1>5, <1>6 DEF Closed
<1>9. HeapSound
  BY <1>5, <1>7, <1>8 DEF HeapSound
<1>10. CopySound /\ Judged
  BY DEF CopySound, Judged, Init
<1>. QED BY <1>3, <1>9, <1>10 DEF IInv

(* A step that leaves all but the verdict.                                 *)
LEMMA VerdictSound ==
    ASSUME IInv, UNCHANGED << value, constraint, heap, result, current, at >>,
           verdict' = "returned" => at = 0 /\ current = Len(value.elements) + 1
    PROVE  IInv'
<1>1. Position'
  BY DEF IInv, Position, Elements
<1>2. HeapSound'
  BY DEF IInv, HeapSound, Owned
<1>3. CopySound'
  BY DEF IInv, CopySound, Reachable, Owned, PutBefore
<1>4. Judged'
  BY DEF IInv, Judged, Justified, Element
<1>. QED BY <1>1, <1>2, <1>3, <1>4 DEF IInv

LEMMA DenySound ==
    ASSUME IInv, Deny, UNCHANGED << value, constraint >>
    PROVE  IInv'
  BY VerdictSound DEF Deny

(* What was handed on before stays justified.                              *)
LEMMA StillJustified ==
    ASSUME Position, UNCHANGED << value, constraint >>, NEW v, result' = Append(result, v),
           Len(result) = current - 1, \A e \in 1 .. current - 1 : Justified(value.nodes, e)
    PROVE  \A e \in 1 .. current - 1 : Justified(value.nodes, e)'
<1>1. \A e \in 1 .. current - 1 : result'[e] = result[e]
  BY AppendIs DEF Position
<1>. QED BY <1>1 DEF Justified, Element

LEMMA HandOnSound ==
    ASSUME IInv, at = 0, current \in Elements, NEW v, HandOn(v), UNCHANGED << value, constraint >>,
           verdict # "returned", NEW last, last = current, Justified(value.nodes, last)'
    PROVE  IInv'
<1>1. Len(result) = current - 1 /\ IsSeq(result)
  BY DEF IInv, Position
<1>2. IsSeq(result') /\ Len(result') = current
  <2>1. IsSeq(Append(result, v)) /\ Len(Append(result, v)) = Len(result) + 1
    BY <1>1, AppendIs
  <2>2. current \in Nat
    BY Given DEF IInv
  <2>. QED BY <1>1, <2>1, <2>2 DEF HandOn
<1>3. Position'
  <2>1. current' \in 1 .. Len(value.elements) + 1 /\ Len(result') = current' - 1
    BY <1>2, Given DEF IInv, HandOn
  <2>. QED BY <1>2, <2>1 DEF IInv, Position, HandOn
<1>4. HeapSound'
  BY DEF IInv, HeapSound, Owned, HandOn
<1>5. CopySound'
  BY DEF CopySound, HandOn
<1>6. Judged'
  <2>1. \A e \in 1 .. current - 1 : Justified(value.nodes, e)'
    BY <1>1, StillJustified DEF IInv, Judged, HandOn
  <2>2. current \in Nat /\ current' = current + 1 /\ at' = 0
    BY Given DEF IInv, HandOn
  <2>3. ASSUME NEW e \in 1 .. current' - 1 PROVE Justified(value.nodes, e)'
    <3>1. CASE e = last
      BY <3>1
    <3>2. CASE e # last
      <4>1. e \in 1 .. current - 1
        BY <2>2, <3>2
      <4>. QED BY <2>1, <4>1
    <3>. QED BY <3>1, <3>2
  <2>. QED BY <2>2, <2>3 DEF Judged
<1>. QED BY <1>3, <1>4, <1>5, <1>6 DEF IInv

(* jsonContentFilterPredicate and filterJsonContent hand an element on.    *)
LEMMA SelectSound == IInv /\ Select => IInv'
<1> SUFFICES ASSUME IInv, Select PROVE IInv'
  OBVIOUS
<1> DEFINE element == Element(current)
           met == MeetsConditions(heap, element, constraint.conditions)
<1>1. /\ current \in Elements /\ constraint.type = "jsonContentFilterPredicate" /\ verdict = "filtering"
      /\ UNCHANGED << value, constraint >>
  BY DEF Select
<1>2. at = 0
  BY <1>1 DEF IInv, Position
<1>3. PICK last : last = current
  OBVIOUS
<1>4. Len(result) = last - 1 /\ IsSeq(result)
  BY <1>2, <1>3 DEF IInv, Position
<1>5. ASSUME NEW v, HandOn(v) PROVE result'[last] = v
  <2>1. Append(result, v)[Len(result) + 1] = v /\ Len(result) \in Nat
    BY <1>4, AppendIs
  <2>2. Len(result) + 1 = last
    BY <1>3, <1>4, Given DEF IInv
  <2>. QED BY <1>5, <2>1, <2>2 DEF HandOn
<1>6. /\ met = "met" => Met(value.nodes, element, constraint.conditions)
      /\ met = "unmet" => Unmet(value.nodes, element, constraint.conditions)
      /\ met \in {"met", "unmet", "throws"}
  <2>1. IsSeq(constraint.conditions)
    BY Given DEF IInv
  <2>. QED BY <1>1, <2>1, VerdictOf, ReadSame DEF IInv
<1>7. \/ met = "throws" /\ Deny
      \/ HandOn(element) /\ ((element = Null /\ ~ value.array) \/ met = "met")
      \/ met = "unmet" /\ HandOn(IF value.array THEN Dropped ELSE Null)
  BY <1>6 DEF Select
<1> HIDE DEF met
<1>8. CASE met = "throws" /\ Deny
  BY <1>1, <1>8, DenySound
<1>9. CASE HandOn(element) /\ ((element = Null /\ ~ value.array) \/ met = "met")
  <2>1. result'[last] = element
    BY <1>5, <1>9
  <2>2. Justified(value.nodes, last)'
    BY <1>1, <1>3, <1>6, <1>9, <2>1 DEF Justified, Element
  <2>. QED BY <1>1, <1>2, <1>3, <1>9, <2>2, HandOnSound
<1>10. CASE met = "unmet" /\ HandOn(IF value.array THEN Dropped ELSE Null)
  <2>1. result'[last] \in {Dropped, Null}
    BY <1>5, <1>10
  <2>2. Justified(value.nodes, last)'
    BY <1>1, <1>3, <1>6, <1>10, <2>1 DEF Justified, Element
  <2>. QED BY <1>1, <1>2, <1>3, <1>10, <2>2, HandOnSound
<1>. QED BY <1>7, <1>8, <1>9, <1>10

(* The copy is closed, and the rest as it was.                             *)
Cloned(h, own, e) ==
    /\ h = [id \in DOMAIN h |-> h[id]] /\ DOMAIN heap \subseteq DOMAIN h
    /\ own = { id \in DOMAIN h : id[1] = e }
    /\ \A id \in DOMAIN h \ own : id \in DOMAIN heap /\ h[id] = heap[id]
    /\ \A id \in own : << Raw, id[2] >> \in DOMAIN value.nodes
    /\ Closed(h, own)
    /\ \A v : Within(v, DOMAIN value.nodes) => Within(Copied(v, e), own)

LEMMA CloneIs ==
    ASSUME Position, HeapSound, NEW e, e # Raw, e # Shared
    PROVE  \E own : Cloned(StructuredClone(heap, e), own, e)
<1> DEFINE h == StructuredClone(heap, e)
           own == { id \in DOMAIN h : id[1] = e }
<1> HIDE DEF h
<1> DEFINE vs == DOMAIN value.nodes
           copies == { << e, o[2] >> : o \in vs }
           node(id) == heap[<< Raw, id[2] >>]
           slots(id) == [k \in DOMAIN node(id).slots |-> Copied(node(id).slots[k], e)]
<1>1. /\ vs = { id \in DOMAIN heap : id[1] = Raw } /\ vs \subseteq {Raw} \X (Nat \ {0})
      /\ \A id \in vs : heap[id] = value.nodes[id]
      /\ Closed(value.nodes, vs)
  BY Given DEF HeapSound, Owned
<1>2. h = [id \in DOMAIN heap \cup copies |->
             IF id[1] # e THEN heap[id] ELSE [node(id) EXCEPT !.slots = slots(id)]]
  BY <1>1, Zenon DEF StructuredClone, h
<1>3. \A id \in copies : id[1] = e
  OBVIOUS
<1>4. DOMAIN h = DOMAIN heap \cup copies /\ h = [id \in DOMAIN h |-> h[id]]
  <2> HIDE DEF copies
  <2>. QED BY <1>2
<1>5. \A id \in DOMAIN h \ own : id \in DOMAIN heap /\ h[id] = heap[id]
  <2> HIDE DEF copies
  <2>. QED BY <1>2, <1>3, <1>4
<1>6. ASSUME NEW id \in own PROVE << Raw, id[2] >> \in vs
  <2>1. CASE id \in copies
    <3>1. PICK o \in vs : id = << e, o[2] >>
      BY <2>1
    <3>2. o = << Raw, o[2] >> /\ id[2] = o[2]
      BY <1>1, <3>1
    <3>. QED BY <3>1, <3>2
  <2>2. CASE id \in DOMAIN heap
    <3>1. id \in DOMAIN heap \ (Owned(Raw) \cup Owned(Shared))
      BY <2>2 DEF Owned
    <3>. QED BY <3>1 DEF HeapSound
  <2> HIDE DEF copies
  <2>. QED BY <1>4, <2>1, <2>2
<1>7. ASSUME NEW v, Within(v, vs) PROVE Within(Copied(v, e), own)
  <2>1. CASE v.kind = "node"
    <3>1. v.id \in vs
      BY <1>7, <2>1 DEF Within
    <3>2. << e, v.id[2] >> \in copies
      BY <3>1
    <3>3. << e, v.id[2] >> \in own
      BY <1>3, <1>4, <3>2
    <3>. QED BY <2>1, <3>3 DEF Copied, Node, Within
  <2>2. CASE v.kind # "node"
    BY <2>2 DEF Copied, Within
  <2>. QED BY <2>1, <2>2
<1> HIDE DEF copies
<1>8. ASSUME NEW id \in own
      PROVE  IsContainer(h[id]) /\ \A key \in DOMAIN h[id].slots : Within(h[id].slots[key], own)
  <2> DEFINE from == << Raw, id[2] >>
             original == node(id)
             s == slots(id)
  <2>1. from \in vs /\ original = value.nodes[from]
    BY <1>1, <1>6
  <2>2. IsContainer(original) /\ \A key \in DOMAIN original.slots : Within(original.slots[key], vs)
    BY <1>1, <2>1 DEF Closed
  <2>3. h[id] = [original EXCEPT !.slots = s]
    BY <1>2, <1>4
  <2>4. DOMAIN s = DOMAIN original.slots /\ s = [key \in DOMAIN s |-> s[key]]
    OBVIOUS
  <2>5. \A key \in DOMAIN s : Within(s[key], own)
    BY <1>7, <2>2
  <2>6. ASSUME original.kind = "array", IsSeq(original.slots) PROVE IsSeq(s)
    <3>1. DOMAIN s = 1 .. Len(original.slots) /\ Len(original.slots) \in Nat
      BY <2>6 DEF IsSeq
    <3>2. \A i \in 1 .. Len(original.slots) : s[i] \in Range(s)
      BY <3>1 DEF Range
    <3> HIDE DEF s, original
    <3>3. s \in Seq(Range(s))
      BY <2>4, <3>1, <3>2, SeqOfFunction
    <3>. QED BY <3>3, SequenceIs
  <2> HIDE DEF s, original
  <2>7. IsContainer(h[id]) /\ h[id].slots = s
    <3>1. \/ original.kind = "array" /\ IsSeq(s)
          \/ original.kind = "object" /\ IsFiniteSet(DOMAIN s)
      BY <2>2, <2>4, <2>6 DEF IsContainer
    <3>. QED BY <2>2, <2>3, <2>4, <3>1, SlotsReplaced
  <2>. QED BY <2>5, <2>7
<1>9. Closed(h, own)
  BY <1>8 DEF Closed
<1>10. Cloned(h, own, e)
  BY <1>4, <1>5, <1>6, <1>7, <1>9 DEF Cloned
<1>. QED BY <1>10 DEF h

LEMMA EnterSound == IInv /\ EnterElement => IInv'
<1> SUFFICES ASSUME IInv, EnterElement PROVE IInv'
  OBVIOUS
<1> DEFINE element == Element(current)
           met == MeetsConditions(heap, element, constraint.conditions)
<1>1. /\ current \in Elements /\ constraint.type = "filterJsonContent" /\ verdict = "filtering" /\ at = 0
      /\ UNCHANGED << value, constraint >>
  BY DEF EnterElement
<1>2. PICK e : e = current
  OBVIOUS
<1>3. Len(result) = e - 1 /\ IsSeq(result) /\ e \in Nat /\ e # Raw /\ e # Shared
  BY <1>1, <1>2, Given DEF IInv, Position
<1>4. ASSUME NEW v, result' = Append(result, v)
      PROVE  result'[e] = v /\ Len(result') = e /\ IsSeq(result')
  <2>1. Append(result, v)[Len(result) + 1] = v /\ Len(Append(result, v)) = Len(result) + 1
        /\ IsSeq(Append(result, v))
    BY <1>3, AppendIs
  <2>. QED BY <1>3, <1>4, <2>1
<1>5. /\ met = "met" => Met(value.nodes, element, constraint.conditions)
      /\ met = "unmet" => Unmet(value.nodes, element, constraint.conditions)
      /\ met \in {"met", "unmet", "throws"}
  <2>1. IsSeq(constraint.conditions)
    BY Given DEF IInv
  <2>. QED BY <1>1, <2>1, VerdictOf, ReadSame DEF IInv
<1>6. \/ HandOn(element) /\ (element = Null \/ met = "unmet")
      \/ Deny
      \/ /\ met = "met" /\ heap' = StructuredClone(heap, current)
         /\ result' = Append(result, Copied(element, current)) /\ at' = 1
         /\ UNCHANGED << current, verdict >>
  BY <1>5 DEF EnterElement
<1> HIDE DEF met
<1>7. CASE HandOn(element) /\ (element = Null \/ met = "unmet")
  <2>1. result'[e] = element
    BY <1>4, <1>7 DEF HandOn
  <2>2. Justified(value.nodes, e)'
    BY <1>1, <1>2, <1>5, <1>7, <2>1 DEF Justified, Element
  <2>. QED BY <1>1, <1>2, <1>7, <2>2, HandOnSound
<1>8. CASE Deny
  BY <1>1, <1>8, DenySound
<1>9. CASE /\ met = "met" /\ heap' = StructuredClone(heap, current)
           /\ result' = Append(result, Copied(element, current)) /\ at' = 1
           /\ UNCHANGED << current, verdict >>
  <2> DEFINE vs == DOMAIN value.nodes
             cs == DOMAIN constraint.nodes
             own == { id \in DOMAIN heap' : id[1] = e }
  <2>1. /\ heap' = [id \in DOMAIN heap' |-> heap'[id]] /\ DOMAIN heap \subseteq DOMAIN heap'
        /\ \A id \in DOMAIN heap' \ own : id \in DOMAIN heap /\ heap'[id] = heap[id]
        /\ \A id \in own : << Raw, id[2] >> \in vs
        /\ Closed(heap', own)
        /\ \A v : Within(v, vs) => Within(Copied(v, e), own)
    <3>1. Position /\ HeapSound
      BY DEF IInv
    <3>2. PICK mine : Cloned(StructuredClone(heap, e), mine, e)
      BY <1>3, <3>1, CloneIs
    <3>3. Cloned(heap', mine, e)
      BY <1>2, <1>9, <3>2
    <3>. QED BY <3>3 DEF Cloned
  <2>2. result'[e] = Copied(element, e) /\ Len(result') = e /\ IsSeq(result')
    BY <1>2, <1>4, <1>9
  <2>3. Position'
    <3>1. 1 \in 0 .. Len(constraint.actions) + 1
      BY Given DEF IInv
    <3>. QED BY <1>1, <1>2, <1>9, <2>2, <3>1 DEF IInv, Position, Elements
  <2>4. /\ vs = { id \in DOMAIN heap : id[1] = Raw } /\ cs = { id \in DOMAIN heap : id[1] = Shared }
        /\ \A id \in vs : heap[id] = value.nodes[id]
        /\ \A id \in DOMAIN heap \ (vs \cup cs) : << Raw, id[2] >> \in vs
        /\ Closed(heap, cs)
    BY DEF IInv, HeapSound, Owned
  <2>5. vs \cap own = {} /\ cs \cap own = {}
    BY <1>3, <2>4
  <2>6. vs = { id \in DOMAIN heap' : id[1] = Raw } /\ cs = { id \in DOMAIN heap' : id[1] = Shared }
    BY <1>3, <2>1, <2>4
  <2>7. \A id \in vs \cup cs : heap'[id] = heap[id]
    BY <2>1, <2>4, <2>5
  <2>8. HeapSound'
    <3>1. \A id \in DOMAIN heap' \ (vs \cup cs) : << Raw, id[2] >> \in vs
      BY <2>1, <2>4
    <3>2. Closed(heap', cs)
      BY <2>1, <2>4, <2>7 DEF Closed
    <3>3. Owned(Raw)' = vs /\ Owned(Shared)' = cs
      BY <2>6 DEF Owned, Raw, Shared
    <3>4. \A id \in vs : heap'[id] = value.nodes[id]
      BY <2>4, <2>7
    <3>. QED BY <1>1, <2>1, <3>1, <3>2, <3>3, <3>4 DEF HeapSound
  <2>9. CopySound'
    <3>1. ~ PutBefore'
      BY <1>9 DEF PutBefore
    <3>2. Owned(current)' = own
      BY <1>2, <1>9 DEF Owned
    <3>3. Reachable' = own
      BY <3>1, <3>2 DEF Reachable
    <3>4. Within(element, vs)
      BY <1>1, Given DEF IInv
    <3>5. Within(result'[e], own)
      BY <2>1, <2>2, <3>4
    <3>. QED BY <1>2, <1>9, <2>1, <3>2, <3>3, <3>5 DEF CopySound
  <2>10. Judged'
    <3>1. \A i \in 1 .. current - 1 : Justified(value.nodes, i)'
      BY <1>1, <1>2, <1>3, <1>9, StillJustified DEF IInv, Judged
    <3>. QED BY <1>1, <1>5, <1>9, <3>1 DEF Judged, Element
  <2>. QED BY <2>3, <2>8, <2>9, <2>10 DEF IInv
<1>. QED BY <1>6, <1>7, <1>8, <1>9

(* What an action leaves of the heap, the wrapper taken away.              *)
Acted(g, ids, action) ==
    /\ g = [id \in DOMAIN heap |-> g[id]]
    /\ \A id \in DOMAIN heap \ ids : g[id] = heap[id]
    /\ \A more : /\ Closed(heap, more)
                 /\ action.type = "replace" => Within(action.replacement, more)
                 => Closed(g, more)

LEMMA ActIs ==
    ASSUME IInv, Act
    PROVE  \/ Deny
           \/ /\ Acted(heap', Reachable, constraint.actions[at])
              /\ ~ ParseThrows(constraint.actions[at].path)
              /\ at' = at + 1 /\ UNCHANGED << result, current, verdict >>
<1> DEFINE target == result[current]
           action == constraint.actions[at]
           done == ApplyAction(heap, target, action)
           w == Wrapped(heap, target)
           ids == Reachable
           inside == ids \cup {Wrapper}
<1>1. at \in DOMAIN constraint.actions /\ at > 0
  BY Given DEF IInv, Act
<1>2. Closed(heap, ids) /\ Within(target, ids)
  BY <1>1 DEF IInv, CopySound, Within, Reachable
<1>3. IsSeq(action.path)
  BY <1>1, Given DEF IInv
<1>4. Wrapper \notin DOMAIN heap /\ Wrapper \notin ids
  BY <1>2, NoWrapper DEF IInv, Closed
<1>5. \/ done.thrown
      \/ ~ ParseThrows(action.path) /\ Kept(w, done.heap, inside, action)
  <2> HIDE DEF target, action, ids
  <2>. QED BY <1>2, <1>3, <1>4, ActionKeeps DEF target, action, ids
<1>6. CASE done.thrown
  BY <1>6 DEF Act
<1>7. CASE ~ done.thrown
  <2> DEFINE g == done.heap
             h == [id \in DOMAIN g \ {Wrapper} |-> g[id]]
  <2>1. heap' = h /\ at' = at + 1 /\ UNCHANGED << result, current, verdict >>
    BY <1>7 DEF Act
  <2>2. ~ ParseThrows(action.path) /\ Kept(w, g, inside, action)
    BY <1>5, <1>7
  <2> HIDE DEF done, target
  <2>3. DOMAIN w = DOMAIN heap \cup {Wrapper} /\ \A id \in DOMAIN heap : w[id] = heap[id]
    <3>1. DOMAIN w = DOMAIN heap \cup {Wrapper} /\ \A id \in DOMAIN heap \ {Wrapper} : w[id] = heap[id]
      BY WrappedIs
    <3>. QED BY <1>4, <3>1
  <2> HIDE DEF w, g, action, ids
  <2>4. DOMAIN g = DOMAIN w /\ \A id \in DOMAIN w \ inside : g[id] = w[id]
    BY <2>2 DEF Kept
  <2>5. DOMAIN h = DOMAIN heap /\ \A id \in DOMAIN heap : h[id] = g[id]
    BY <1>4, <2>3, <2>4
  <2>6. h = [id \in DOMAIN heap |-> h[id]]
    BY <2>5
  <2>7. \A id \in DOMAIN heap \ ids : h[id] = heap[id]
    BY <1>4, <2>3, <2>4, <2>5
  <2> HIDE DEF h
  <2>8. ASSUME NEW more, Closed(heap, more), action.type = "replace" => Within(action.replacement, more)
        PROVE  Closed(h, more)
    <3>1. Closed(w, more)
      BY <2>3, <2>8 DEF Closed
    <3> HIDE DEF inside
    <3>2. Closed(g, more)
      BY <2>2, <2>8, <3>1, KeptClosed
    <3>. QED BY <2>5, <2>8, <3>2 DEF Closed
  <2>9. Acted(h, ids, action)
    BY <2>6, <2>7, <2>8 DEF Acted
  <2>. QED BY <2>1, <2>2, <2>9 DEF action, ids
<1>. QED BY <1>6, <1>7

LEMMA ActSound == IInv /\ Act => IInv'
<1> SUFFICES ASSUME IInv, Act PROVE IInv'
  OBVIOUS
<1> DEFINE action == constraint.actions[at]
           vs == DOMAIN value.nodes
           cs == DOMAIN constraint.nodes
<1>1. /\ at \in DOMAIN constraint.actions /\ at > 0 /\ at \in Nat /\ verdict = "filtering"
      /\ UNCHANGED << value, constraint >> /\ Within(action.replacement, cs)
      /\ DOMAIN constraint.actions = 1 .. Len(constraint.actions) /\ Len(constraint.actions) \in Nat
  BY Given DEF IInv, Act
<1>2. CASE Deny
  BY <1>1, <1>2, DenySound
<1>3. CASE /\ Acted(heap', Reachable, action) /\ ~ ParseThrows(action.path)
           /\ at' = at + 1 /\ UNCHANGED << result, current, verdict >>
  <2>1. /\ DOMAIN heap' = DOMAIN heap /\ heap' = [id \in DOMAIN heap |-> heap'[id]]
        /\ \A id \in DOMAIN heap \ Reachable : heap'[id] = heap[id]
    BY <1>3 DEF Acted
  <2>2. ASSUME NEW more, Closed(heap, more), action.type = "replace" => Within(action.replacement, more)
        PROVE  Closed(heap', more)
    BY <1>3, <2>2 DEF Acted
  <2>3. \A owner : Owned(owner)' = Owned(owner)
    BY <2>1 DEF Owned
  <2>4. Owned(Raw) = vs /\ Owned(Shared) = cs /\ Closed(heap, cs)
    BY DEF IInv, HeapSound
  <2>5. vs \cap Reachable = {}
    BY <2>4, Given DEF IInv, Reachable, Owned, Raw, Shared
  <2>6. Position'
    <3>1. at' \in 0 .. Len(constraint.actions) + 1 /\ at' # 0
      BY <1>1, <1>3
    <3>. QED BY <1>1, <1>3, <3>1 DEF IInv, Position, Elements
  <2>7. HeapSound'
    <3>1. Closed(heap', cs)
      BY <1>1, <2>2, <2>4
    <3>2. \A id \in vs : heap'[id] = value.nodes[id]
      BY <2>1, <2>4, <2>5 DEF IInv, HeapSound, Owned
    <3>3. \A id \in DOMAIN heap' \ (vs \cup cs) : << Raw, id[2] >> \in vs
      BY <2>1, <2>4 DEF IInv, HeapSound
    <3>4. Owned(Raw)' = vs /\ Owned(Shared)' = cs
      BY <2>3, <2>4 DEF Raw, Shared
    <3>. QED BY <1>1, <2>1, <3>1, <3>2, <3>3, <3>4 DEF HeapSound
  <2>8. CopySound'
    <3>1. Closed(heap, Reachable) /\ Within(result[current], Owned(current))
      BY <1>1 DEF IInv, CopySound
    <3> DEFINE own == Owned(current)
               more == own \cup (IF PutBefore' THEN cs ELSE {})
    <3>2. PutBefore => PutBefore'
      BY <1>1, <1>3 DEF PutBefore
    <3>3. Closed(heap, more)
      <4>1. Reachable = own \cup (IF PutBefore THEN cs ELSE {})
        BY <2>4 DEF Reachable
      <4> HIDE DEF own
      <4>. QED BY <2>4, <3>1, <3>2, <4>1 DEF Closed, Within
    <3>4. action.type = "replace" => Within(action.replacement, more)
      <4>1. ASSUME action.type = "replace", action.replacement.kind = "node" PROVE PutBefore'
        <5>1. at \in 1 .. at' - 1
          BY <1>1, <1>3
        <5>. QED BY <1>1, <4>1, <5>1 DEF PutBefore
      <4>. QED BY <1>1, <4>1 DEF Within
    <3>5. Reachable' = more
      BY <1>3, <2>3, <2>4 DEF Reachable, Shared
    <3>6. Owned(current)' = own
      BY <1>3, <2>3
    <3> HIDE DEF more, own
    <3>7. Closed(heap', more)
      BY <2>2, <3>3, <3>4
    <3>. QED BY <1>3, <3>1, <3>5, <3>6, <3>7 DEF CopySound, own
  <2>9. Judged'
    <3>1. \A k \in 1 .. at' - 1 : k \in 1 .. at - 1 \/ k = at
      BY <1>1, <1>3
    <3>. QED BY <1>1, <1>3, <3>1 DEF IInv, Judged, Justified, Element
  <2>. QED BY <2>6, <2>7, <2>8, <2>9 DEF IInv
<1>. QED BY <1>2, <1>3, ActIs

LEMMA LeaveSound == IInv /\ LeaveElement => IInv'
<1> SUFFICES ASSUME IInv, LeaveElement PROVE IInv'
  OBVIOUS
<1>1. /\ at = Len(constraint.actions) + 1 /\ at' = 0 /\ current' = current + 1 /\ verdict = "filtering"
      /\ UNCHANGED << value, constraint, heap, result, verdict >>
  BY DEF LeaveElement
<1>2. at > 0 /\ DOMAIN constraint.actions = 1 .. at - 1 /\ current \in Nat
      /\ Elements = 1 .. Len(value.elements) /\ Len(value.elements) \in Nat
  BY <1>1, Given DEF IInv
<1>3. Len(result) = current /\ current \in Elements /\ constraint.type = "filterJsonContent"
  BY <1>2 DEF IInv, Position
<1>4. Position'
  <2>1. 0 \in 0 .. Len(constraint.actions) + 1
    BY <1>1, <1>2, Given DEF IInv
  <2>2. current + 1 \in 1 .. Len(value.elements) + 1 /\ (current + 1) - 1 = current
    BY <1>2, <1>3
  <2>. QED BY <1>1, <1>3, <2>1, <2>2 DEF IInv, Position
<1>5. HeapSound'
  BY <1>1 DEF IInv, HeapSound, Owned
<1>6. CopySound'
  BY <1>1 DEF CopySound
<1>7. Judged'
  <2>1. Justified(value.nodes, current)
    BY <1>2, <1>3 DEF IInv, Judged, Justified
  <2>2. \A e \in 1 .. current' - 1 : Justified(value.nodes, e)
    BY <1>1, <1>2, <2>1 DEF IInv, Judged
  <2>. QED BY <1>1, <2>2 DEF Judged, Justified, Element
<1>. QED BY <1>4, <1>5, <1>6, <1>7 DEF IInv

LEMMA Inductive == IInv /\ [Next]_vars => IInv'
<1> SUFFICES ASSUME IInv, [Next]_vars PROVE IInv'
  OBVIOUS
<1>1. CASE Compile
  BY <1>1, VerdictSound DEF Compile
<1>2. CASE Return
  <2>1. at = 0 /\ current = Len(value.elements) + 1
    BY <1>2, Given DEF IInv, Position, Return
  <2>. QED BY <1>2, <2>1, VerdictSound DEF Return
<1>3. CASE UNCHANGED vars
  BY <1>3, VerdictSound DEF vars, IInv, Position
<1>. QED BY <1>1, <1>2, <1>3, EnterSound, ActSound, LeaveSound, SelectSound DEF Next

(* Of every filtering: the handler is where the code can be, the value is  *)
(* as the method returned it, a copy refers to a replacement only after an *)
(* action put one there, and what was decided was decided of that value.   *)
THEOREM FilterSound == Spec => []IInv
<1>1. Init => IInv
  BY InitSound
<1>2. IInv /\ [Next]_vars => IInv'
  BY Inductive
<1>. QED BY <1>1, <1>2, PTL DEF Spec

(* An element is handed on, kept or dropped only on a verdict of conditions*)
(* that could all be read up to the decisive one, however the copies and   *)
(* the replacements were changed before.                                   *)
THEOREM FilterFailsClosed == Spec => []FailsClosed
<1>1. IInv => FailsClosed
  <2> SUFFICES ASSUME IInv, verdict = "returned", NEW e \in Elements PROVE Justified(heap, e)
    BY DEF FailsClosed
  <2>1. current = Len(value.elements) + 1 /\ Elements = 1 .. Len(value.elements)
        /\ Len(value.elements) \in Nat
    BY Given DEF IInv, Position
  <2>2. e \in 1 .. current - 1
    BY <2>1
  <2>3. Justified(value.nodes, e)
    BY <2>2 DEF IInv, Judged
  <2>. QED BY <2>3, JustifiedSame DEF IInv
<1>. QED BY <1>1, FilterSound, PTL

(* Nothing but the copy of the element the filter is at ever changes, and  *)
(* a replacement only once an earlier action put one into that copy.       *)
Isolated ==
    \A id \in DOMAIN heap :
        \/ heap'[id] = heap[id]
        \/ id[1] = current
        \/ /\ id[1] = Shared
           /\ \E k \in 1 .. at - 1 : /\ constraint.actions[k].type = "replace"
                                     /\ constraint.actions[k].replacement.kind = "node"

THEOREM FilterIsolates == Spec => ElementsIsolated
<1>1. IInv /\ [Next]_vars => [Isolated]_vars
  <2> SUFFICES ASSUME IInv, Next PROVE Isolated
    OBVIOUS
  <2>1. ASSUME heap' = heap PROVE Isolated
    BY <2>1 DEF Isolated
  <2>2. CASE EnterElement
    <3>1. heap' = heap \/ heap' = StructuredClone(heap, current)
      BY <2>2 DEF EnterElement, HandOn, Deny
    <3>2. ASSUME heap' = StructuredClone(heap, current) PROVE Isolated
      <4>1. PICK own : Cloned(StructuredClone(heap, current), own, current)
        BY CloneIs, Given DEF IInv
      <4>2. Cloned(heap', own, current)
        BY <3>2, <4>1
      <4>3. \A id \in DOMAIN heap : id \in DOMAIN heap' \ own => heap'[id] = heap[id]
        BY <4>2 DEF Cloned
      <4>4. \A id \in DOMAIN heap : id \in DOMAIN heap' /\ (id \in own => id[1] = current)
        BY <4>2 DEF Cloned
      <4>. QED BY <4>3, <4>4 DEF Isolated
    <3>. QED BY <2>1, <3>1, <3>2
  <2>3. CASE Act
    <3>1. CASE Deny
      BY <2>1, <3>1 DEF Deny
    <3>2. CASE Acted(heap', Reachable, constraint.actions[at])
      BY <3>2 DEF Acted, Reachable, PutBefore, Owned, Isolated
    <3>. QED BY <2>3, <3>1, <3>2, ActIs
  <2>. QED BY <2>1, <2>2, <2>3 DEF Next, Compile, LeaveElement, Select, Return, HandOn, Deny
<1>. QED BY <1>1, FilterSound, PTL DEF Spec, ElementsIsolated, Isolated

(* An action that comes to its end has deleted, replaced or blackened each *)
(* place its path designates, and left every other place as it was: in the *)
(* copy, and in whatever the copy refers to.  An array that loses elements *)
(* closes up, so there only the containers are told apart.                 *)
ActsAtPlaces ==
    at \in DOMAIN constraint.actions /\ at' = at + 1 =>
        LET action == constraint.actions[at]
            refs   == ResolveRefs(Wrapped(heap, result[current]), action.path)
        IN  Effect(heap, heap', refs, Len(refs), action)

(* The step that ends an action.                                           *)
LEMMA ActionEnds ==
    ASSUME IInv, Act, at' = at + 1
    PROVE  ActsAtPlaces
<1> DEFINE target == result[current]
           action == constraint.actions[at]
           done == ApplyAction(heap, target, action)
           w == Wrapped(heap, target)
           refs == ResolveRefs(w, action.path)
           ids == Reachable
<1>1. at \in DOMAIN constraint.actions /\ at > 0 /\ at \in Nat
  BY Given DEF IInv, Act, Position
<1>2. Closed(heap, ids) /\ Within(target, ids)
  BY <1>1 DEF IInv, CopySound, Within, Reachable
<1>3. IsSeq(action.path)
  BY <1>1, Given DEF IInv
<1>4. Wrapper \notin DOMAIN heap /\ Wrapper \notin ids
  BY <1>2, NoWrapper DEF IInv, Closed
<1>5. ~ done.thrown
  <2>1. done.thrown => at' = at
    BY DEF Act, Deny
  <2>. QED BY <1>1, <2>1
<1>6. /\ Kept(w, done.heap, ids \cup {Wrapper}, action)
      /\ Effect(w, done.heap, refs, Len(refs), action)
  <2> HIDE DEF target, action, ids
  <2>. QED BY <1>2, <1>3, <1>4, <1>5, ActionKeeps DEF target, action, ids
<1>7. heap' = [id \in DOMAIN done.heap \ {Wrapper} |-> done.heap[id]]
  BY <1>5 DEF Act
<1> HIDE DEF done, target, action, ids, refs
<1>8. DOMAIN w = DOMAIN heap \cup {Wrapper} /\ \A id \in DOMAIN heap : w[id] = heap[id]
  <2>1. DOMAIN w = DOMAIN heap \cup {Wrapper} /\ \A id \in DOMAIN heap \ {Wrapper} : w[id] = heap[id]
    BY WrappedIs
  <2>. QED BY <1>4, <2>1
<1> HIDE DEF w
<1>9. \A id \in DOMAIN heap : id \in DOMAIN w /\ heap'[id] = done.heap[id]
  <2>1. DOMAIN done.heap = DOMAIN w
    BY <1>6 DEF Kept
  <2>. QED BY <1>4, <1>7, <1>8, <2>1
<1>10. Effect(heap, heap', refs, Len(refs), action)
  BY <1>6, <1>8, <1>9, Zenon DEF Effect
<1>. QED BY <1>10, Zenon DEF ActsAtPlaces, refs, action, w, target

(* Every action that does not throw does its work, at its places only, for *)
(* every document and every constraint.                                    *)
THEOREM FilterActsAtPlaces == Spec => [][ActsAtPlaces]_vars
<1>1. IInv /\ [Next]_vars => [ActsAtPlaces]_vars
  <2> SUFFICES ASSUME IInv, Next, at \in DOMAIN constraint.actions, at' = at + 1
               PROVE  ActsAtPlaces
    BY DEF ActsAtPlaces
  <2>1. at \in Nat /\ at # 0 /\ at' # at /\ at' # 0
    BY Given DEF IInv, Position
  <2>2. Act
    BY <2>1 DEF Next, Compile, EnterElement, LeaveElement, Select, Return, HandOn, Deny
  <2>. QED BY <2>2, ActionEnds
<1>. QED BY <1>1, FilterSound, PTL DEF Spec

=============================================================================

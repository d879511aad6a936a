------------------------- MODULE PdpRequests_proof --------------------------
(***************************************************************************)
(* Proofs about PdpRequests, for any number of callers and tokens: what is *)
(* shared between requests (the token, its refresh) serves all of them.    *)
(***************************************************************************)
EXTENDS PdpRequests, TLAPS, WellFoundedInduction, FiniteSetTheorems, SequenceTheorems

-----------------------------------------------------------------------------
(* Recursion: what holds at every stage is proved by looking at the first  *)
(* stage that lacks it.                                                    *)

(* A non-empty set of naturals has a least member.                         *)
LEMMA LeastNatural ==
    ASSUME NEW T \in SUBSET Nat, T # {}
    PROVE  \E n \in T : \A m \in T : n <= m
<1> DEFINE R == { p \in Nat \X Nat : p[1] < p[2] }
<1>1. R = OpToRel(<, Nat)
  BY Zenon DEF OpToRel
<1>2. IsWellFoundedOn(R, Nat)
  BY <1>1, NatLessThanWellFounded, Zenon
<1> HIDE DEF R
<1>3. PICK n \in T : \A m \in T : ~ (<< m, n >> \in R)
  BY <1>2, WFMin, Zenon
<1>4. ASSUME NEW m \in T PROVE n <= m
  <2>1. << m, n >> \in Nat \X Nat /\ << m, n >>[1] = m /\ << m, n >>[2] = n
    OBVIOUS
  <2>2. ~ (m < n)
    BY <1>3, <2>1 DEF R
  <2>. QED BY <2>2
<1>. QED BY <1>4

(* A set of naturals that holds 0 and with a number its successor, up to a *)
(* limit, holds every number up to the limit.                              *)
LEMMA UpTo ==
    ASSUME NEW limit \in Nat, NEW P, 0 \in P, \A n \in 0 .. limit - 1 : n \in P => n + 1 \in P
    PROVE  \A n \in 0 .. limit : n \in P
<1> DEFINE T == { n \in 0 .. limit : n \notin P }
<1> SUFFICES ASSUME T # {} PROVE FALSE
  OBVIOUS
<1>1. T \in SUBSET Nat
  OBVIOUS
<1>2. PICK n \in T : \A m \in T : n <= m
  BY <1>1, LeastNatural
<1>3. n # 0 /\ n - 1 \in 0 .. limit - 1
  BY <1>2
<1>4. n - 1 \in P
  BY <1>2, <1>3
<1>5. n \in P
  BY <1>3, <1>4, <1>2
<1>. QED BY <1>2, <1>5

-----------------------------------------------------------------------------
(* The text of a snapshot, token by token.                                 *)

(* The sequences of a sequence are appended one after the other.           *)
ByAppending(ss, n, f) ==
    /\ FlattenSeq(ss) = f[n]
    /\ f[1] = ss[1]
    /\ \A i \in 2 .. n : f[i] = f[i - 1] \o ss[i]

LEMMA FlattenedByAppending ==
    ASSUME NEW n \in Nat \ {0}, NEW ss, ss = [i \in 1 .. n |-> ss[i]]
    PROVE  \E f : ByAppending(ss, n, f)
<1> DEFINE Def(f, i) == IF i = 1 THEN ss[i] ELSE f[i - 1] \o ss[i]
           Stage(m) == \E f : f = [i \in 1 .. m |-> Def(f, i)]
           P == { m \in 0 .. n : Stage(m) }
<1>1. Len(ss) = n
  OBVIOUS
<1>2. Stage(0)
  <2>1. [i \in 1 .. 0 |-> 0] = [i \in 1 .. 0 |-> Def([j \in 1 .. 0 |-> 0], i)]
    OBVIOUS
  <2>. QED BY <2>1
<1>3. ASSUME NEW m \in 0 .. n - 1, Stage(m) PROVE Stage(m + 1)
  <2>1. PICK f : f = [i \in 1 .. m |-> Def(f, i)]
    BY <1>3
  <2> DEFINE g == [i \in 1 .. m + 1 |-> IF i <= m THEN f[i] ELSE Def(f, m + 1)]
  <2>2. ASSUME NEW i \in 1 .. m + 1 PROVE g[i] = Def(g, i)
    <3>1. CASE i = m + 1
      BY <3>1
    <3>2. CASE i \in 1 .. m
      <4>1. f[i] = Def(f, i)
        BY <2>1, <3>2
      <4>. QED BY <4>1, <3>2
    <3>. QED BY <3>1, <3>2
  <2> HIDE DEF g
  <2>3. g = [i \in 1 .. m + 1 |-> Def(g, i)]
    <3>1. g = [i \in 1 .. m + 1 |-> g[i]]
      BY DEF g
    <3>. QED BY <3>1, <2>2
  <2>. QED BY <2>3
<1>4. Stage(n)
  <2> HIDE DEF Stage
  <2>1. 0 \in P /\ \A m \in 0 .. n - 1 : m \in P => m + 1 \in P
    BY <1>2, <1>3
  <2> HIDE DEF P
  <2>2. n \in P
    BY <2>1, UpTo
  <2>. QED BY <2>2 DEF P
<1> DEFINE f == CHOOSE f : f = [i \in 1 .. n |-> Def(f, i)]
<1>5. f = [i \in 1 .. n |-> Def(f, i)]
  BY <1>4, Zenon
<1> HIDE DEF f
<1>6. FlattenSeq(ss) = f[n]
  BY <1>1 DEF FlattenSeq, f
<1>7. f[1] = ss[1]
  BY <1>5
<1>8. ASSUME NEW i \in 2 .. n PROVE f[i] = f[i - 1] \o ss[i]
  <2>1. i \in 1 .. n /\ i # 1
    OBVIOUS
  <2>. QED BY <1>5, <2>1, Zenon
<1>. QED BY <1>6, <1>7, <1>8 DEF ByAppending

(* The tokens of a decision, and those of a member.                        *)
LEMMA DecisionTextIs ==
    ASSUME NEW id
    PROVE  \E X : /\ DecisionText(id) \in Seq(X) /\ Len(DecisionText(id)) = 13
                  /\ \A k \in {1, 5, 11} : DecisionText(id)[k].sign = "brace"
                  /\ \A k \in {6, 12, 13} : DecisionText(id)[k].sign = "unbrace"
                  /\ \A k \in {2, 3, 4, 7, 8, 9, 10} : DecisionText(id)[k].sign \notin {"brace", "unbrace"}
<1> DEFINE open == Mark("brace")
           close == Mark("unbrace")
           key == String(id, "plain")
           colon == Mark("colon")
           comma == Mark("comma")
           bracket == Mark("bracket")
           unbracket == Mark("unbracket")
           X == {open, close, key, colon, comma, bracket, unbracket}
           text == << open, key, colon, bracket, open, close, unbracket, comma, key, colon, open, close, close >>
<1>1. DecisionText(id) = text
  BY DEF DecisionText
<1>2. /\ open.sign = "brace" /\ close.sign = "unbrace"
      /\ \A t \in {key, colon, comma, bracket, unbracket} : t.sign \notin {"brace", "unbrace"}
  BY DEF Mark, String
<1>3. open \in X /\ close \in X /\ key \in X /\ colon \in X /\ comma \in X /\ bracket \in X /\ unbracket \in X
  OBVIOUS
<1> HIDE DEF open, close, key, colon, comma, bracket, unbracket, X
<1>4. text \in Seq(X) /\ Len(text) = 13
  BY <1>3
<1>5. /\ \A k \in {1, 5, 11} : text[k] = open
      /\ \A k \in {6, 12, 13} : text[k] = close
      /\ \A k \in {2, 3, 4, 7, 8, 9, 10} : text[k] \in {key, colon, comma, bracket, unbracket}
  OBVIOUS
<1> HIDE DEF text
<1>. QED BY <1>1, <1>2, <1>4, <1>5

LEMMA MemberTextIs ==
    ASSUME NEW member
    PROVE  /\ MemberText(member) \in Seq(Range(MemberText(member))) /\ Len(MemberText(member)) = 15
           /\ MemberText(member)[1] = String(member.id, member.spelling)
           /\ MemberText(member)[2].sign = "colon"
           /\ \A k \in {3, 7, 13} : MemberText(member)[k].sign = "brace"
           /\ \A k \in {8, 14, 15} : MemberText(member)[k].sign = "unbrace"
           /\ \A k \in {4, 5, 6, 9, 10, 11, 12} : MemberText(member)[k].sign \notin {"brace", "unbrace"}
<1> DEFINE key == String(member.id, member.spelling)
           colon == Mark("colon")
           value == DecisionText(member.id)
           text == MemberText(member)
<1>1. PICK Y : /\ value \in Seq(Y) /\ Len(value) = 13
               /\ \A k \in {1, 5, 11} : value[k].sign = "brace"
               /\ \A k \in {6, 12, 13} : value[k].sign = "unbrace"
               /\ \A k \in {2, 3, 4, 7, 8, 9, 10} : value[k].sign \notin {"brace", "unbrace"}
  BY DecisionTextIs
<1>2. text = << key, colon >> \o value
  BY DEF MemberText
<1>3. colon.sign = "colon"
  BY DEF Mark
<1> DEFINE X == Y \cup {key, colon}
<1> HIDE DEF key, colon, value, text
<1>4. value \in Seq(X) /\ key \in X /\ colon \in X
  <2>1. Y \subseteq X
    BY DEF X
  <2>2. value \in Seq(X)
    BY <1>1, <2>1, SeqMonotonic
  <2>. QED BY <2>2 DEF X
<1> HIDE DEF X
<1> DEFINE first == << key, colon >>
<1>5. first \in Seq(X) /\ Len(first) = 2 /\ first[1] = key /\ first[2] = colon
  BY <1>4
<1> HIDE DEF first
<1>6. /\ text \in Seq(X) /\ Len(text) = 15
      /\ \A k \in 1 .. 15 : text[k] = IF k <= 2 THEN first[k] ELSE value[k - 2]
  <2>1. text = first \o value
    BY <1>2 DEF first
  <2>2. /\ first \o value \in Seq(X) /\ Len(first \o value) = Len(first) + Len(value)
        /\ \A k \in 1 .. Len(first) + Len(value) :
             (first \o value)[k] = IF k <= Len(first) THEN first[k] ELSE value[k - Len(first)]
    BY <1>4, <1>5, ConcatProperties
  <2>3. Len(value) = 13 /\ Len(first) = 2
    BY <1>1, <1>5, Zenon
  <2>4. /\ text \in Seq(X) /\ Len(text) = Len(first) + Len(value)
        /\ \A k \in 1 .. Len(first) + Len(value) :
             text[k] = IF k <= Len(first) THEN first[k] ELSE value[k - Len(first)]
    BY <2>1, <2>2, Zenon
  <2>5. Len(first) + Len(value) = 15
    BY <2>3
  <2>6. /\ Len(text) = 15
        /\ \A k \in 1 .. 15 : text[k] = IF k <= 2 THEN first[k] ELSE value[k - 2]
    BY <2>3, <2>4, <2>5, Zenon
  <2>. QED BY <2>4, <2>6
<1>7. text[1] = key /\ text[2] = colon
  BY <1>5, <1>6
<1>8. text \in Seq(Range(text))
  BY <1>6, SeqOfRange DEF Range
<1>9. /\ \A k \in {3, 7, 13} : text[k].sign = "brace"
      /\ \A k \in {8, 14, 15} : text[k].sign = "unbrace"
      /\ \A k \in {4, 5, 6, 9, 10, 11, 12} : text[k].sign \notin {"brace", "unbrace"}
  <2>1. \A k \in 3 .. 15 : text[k] = value[k - 2]
    BY <1>6
  <2>2. text[3] = value[1] /\ text[7] = value[5] /\ text[13] = value[11]
        /\ text[8] = value[6] /\ text[14] = value[12] /\ text[15] = value[13]
    BY <2>1
  <2>3. text[4] = value[2] /\ text[5] = value[3] /\ text[6] = value[4] /\ text[9] = value[7]
        /\ text[10] = value[8] /\ text[11] = value[9] /\ text[12] = value[10]
    BY <2>1
  <2>4. /\ \A k \in {3, 7, 13} : text[k].sign = "brace"
        /\ \A k \in {8, 14, 15} : text[k].sign = "unbrace"
    BY <1>1, <2>2
  <2>5. \A k \in {4, 5, 6, 9, 10, 11, 12} : text[k].sign \notin {"brace", "unbrace"}
    BY <1>1, <2>3
  <2>. QED BY <2>4, <2>5
<1>. QED BY <1>3, <1>6, <1>7, <1>8, <1>9 DEF key, text

-----------------------------------------------------------------------------
(* The first m members of a snapshot, one after the other with a comma     *)
(* between two of them, and the whole text of a snapshot.                  *)
Laid(t, s, m) ==
    /\ Len(t) = 16 * m - 1
    /\ \A i \in 1 .. m : \A j \in 1 .. 15 : t[16 * i - 16 + j] = MemberText(s[i])[j]
    /\ \A i \in 1 .. m - 1 : t[16 * i] = Mark("comma")

Spelled(t, s) ==
    /\ Len(t) = 16 * Len(s) + 1
    /\ t[1] = Mark("brace") /\ t[16 * Len(s) + 1] = Mark("unbrace")
    /\ \A i \in 1 .. Len(s) : \A j \in 1 .. 15 : t[16 * i - 15 + j] = MemberText(s[i])[j]
    /\ \A i \in 1 .. Len(s) - 1 : t[16 * i + 1] = Mark("comma")

(* A sequence of n items after one of m.                                   *)
Follows(c, a, b, m, n) ==
    /\ Len(c) = m + n
    /\ \A k \in 1 .. m : c[k] = a[k]
    /\ \A k \in 1 .. n : c[m + k] = b[k]

LEMMA JoinIs ==
    ASSUME NEW S, NEW a \in Seq(S), NEW b \in Seq(S), NEW m \in Nat, NEW n \in Nat,
           Len(a) = m, Len(b) = n
    PROVE  a \o b \in Seq(S) /\ Follows(a \o b, a, b, m, n)
<1> DEFINE c == a \o b
<1>1. /\ c \in Seq(S) /\ Len(c) = m + n
      /\ \A i \in 1 .. m + n : c[i] = IF i <= m THEN a[i] ELSE b[i - m]
  BY ConcatProperties
<1> HIDE DEF c
<1>2. \A k \in 1 .. n : c[m + k] = b[k]
  <2> TAKE k \in 1 .. n
  <2>1. m + k \in 1 .. m + n /\ ~ (m + k <= m) /\ (m + k) - m = k
    OBVIOUS
  <2>. QED BY <1>1, <2>1
<1>. QED BY <1>1, <1>2 DEF c, Follows

(* One more member is laid after the others.                               *)
LEMMA OneMoreLaid ==
    ASSUME NEW Y, NEW s, NEW m \in Nat, m # 0, NEW t \in Seq(Y), Laid(t, s, m),
           Mark("comma") \in Y, MemberText(s[m + 1]) \in Seq(Y)
    PROVE  LET u == t \o (<< Mark("comma") >> \o MemberText(s[m + 1]))
           IN  u \in Seq(Y) /\ Laid(u, s, m + 1)
<1> DEFINE comma == Mark("comma")
           member == MemberText(s[m + 1])
           piece == << comma >> \o member
           u == t \o piece
<1>1. Len(member) = 15
  BY MemberTextIs
<1>2. Len(t) = 16 * m - 1
  BY DEF Laid
<1>3. /\ \A i \in 1 .. m : \A j \in 1 .. 15 : t[16 * i - 16 + j] = MemberText(s[i])[j]
      /\ \A i \in 1 .. m - 1 : t[16 * i] = comma
  BY DEF Laid
<1> HIDE DEF comma, member
<1>4. member \in Seq(Y) /\ comma \in Y
  BY DEF member, comma
<1>5. /\ piece \in Seq(Y) /\ Len(piece) = 16 /\ piece[1] = comma
      /\ \A j \in 1 .. 15 : piece[1 + j] = member[j]
  <2>1. << comma >> \in Seq(Y) /\ Len(<< comma >>) = 1 /\ << comma >>[1] = comma
    BY <1>4
  <2> DEFINE first == << comma >>
  <2> HIDE DEF first
  <2>2. first \o member \in Seq(Y) /\ Follows(first \o member, first, member, 1, 15)
    <3>1. first \in Seq(Y) /\ member \in Seq(Y) /\ Len(first) = 1 /\ Len(member) = 15
      BY <1>1, <1>4, <2>1 DEF first
    <3>2. 1 \in Nat /\ 15 \in Nat
      OBVIOUS
    <3>. QED BY <3>1, <3>2, JoinIs
  <2>3. piece = first \o member /\ first[1] = comma
    BY <2>1 DEF first
  <2> HIDE DEF piece
  <2>4. /\ piece \in Seq(Y) /\ Len(piece) = 1 + 15 /\ piece[1] = comma
        /\ \A k \in 1 .. 15 : piece[1 + k] = member[k]
    <3>1. 1 \in 1 .. 1
      OBVIOUS
    <3>. QED BY <2>2, <2>3, <3>1, Zenon DEF Follows
  <2>. QED BY <2>4
<1> HIDE DEF piece
<1>6. /\ u \in Seq(Y) /\ Len(u) = 16 * m + 15
      /\ \A k \in 1 .. 16 * m - 1 : u[k] = t[k]
      /\ \A j \in 1 .. 16 : u[16 * m - 1 + j] = piece[j]
  <2>1. 16 * m - 1 \in Nat
    OBVIOUS
  <2>2. u \in Seq(Y) /\ Follows(u, t, piece, 16 * m - 1, 16)
    <3>1. 16 \in Nat
      OBVIOUS
    <3>. QED BY <1>2, <1>5, <2>1, <3>1, JoinIs
  <2> HIDE DEF u
  <2>. QED BY <2>2 DEF Follows
<1> HIDE DEF u
<1>7. u[16 * m] = comma
  BY <1>5, <1>6
<1>8. ASSUME NEW j \in 1 .. 15 PROVE u[16 * m + j] = member[j]
  <2>1. u[16 * m - 1 + (1 + j)] = piece[1 + j]
    <3>1. 1 + j \in 1 .. 16
      OBVIOUS
    <3>. QED BY <1>6, <3>1
  <2>2. 16 * m - 1 + (1 + j) = 16 * m + j
    OBVIOUS
  <2>. QED BY <1>5, <2>1, <2>2
<1>9. ASSUME NEW i \in 1 .. m + 1, NEW j \in 1 .. 15
      PROVE  u[16 * i - 16 + j] = MemberText(s[i])[j]
  <2>1. CASE i = m + 1
    <3>1. 16 * i - 16 + j = 16 * m + j
      BY <2>1
    <3>. QED BY <1>8, <2>1, <3>1 DEF member
  <2>2. CASE i \in 1 .. m
    <3>1. 16 * i - 16 + j \in 1 .. 16 * m - 1
      BY <2>2
    <3>. QED BY <1>3, <1>6, <2>2, <3>1
  <2>. QED BY <2>1, <2>2
<1>10. ASSUME NEW i \in 1 .. (m + 1) - 1 PROVE u[16 * i] = comma
  <2>1. CASE i = m
    BY <1>7, <2>1
  <2>2. CASE i \in 1 .. m - 1
    <3>1. 16 * i \in 1 .. 16 * m - 1
      BY <2>2
    <3>. QED BY <1>3, <1>6, <2>2, <3>1
  <2>. QED BY <2>1, <2>2
<1>11. Len(u) = 16 * (m + 1) - 1
  BY <1>6
<1>12. Laid(u, s, m + 1)
  BY <1>9, <1>10, <1>11 DEF Laid, comma
<1>. QED BY <1>6, <1>12 DEF u, piece, comma, member

LEMMA TextIs ==
    ASSUME NEW s, s \in Seq(Range(s)), Len(s) # 0
    PROVE  Spelled(Text(s), s)
<1> DEFINE n == Len(s)
           comma == Mark("comma")
           Piece(i) == (IF i = 1 THEN << >> ELSE << comma >>) \o MemberText(s[i])
           ss == [i \in 1 .. n |-> Piece(i)]
           Y == {comma, Mark("brace"), Mark("unbrace")} \cup UNION {Range(MemberText(s[i])) : i \in 1 .. n}
<1>1. n \in Nat \ {0} /\ DOMAIN s = 1 .. n
  OBVIOUS
<1>2. Text(s) = << Mark("brace") >> \o FlattenSeq(ss) \o << Mark("unbrace") >>
  BY <1>1, Zenon DEF Text
<1>3. comma \in Y /\ Mark("brace") \in Y /\ Mark("unbrace") \in Y
  OBVIOUS
<1>4. ASSUME NEW i \in 1 .. n PROVE MemberText(s[i]) \in Seq(Y) /\ Len(MemberText(s[i])) = 15
  <2>1. Range(MemberText(s[i])) \subseteq Y
    OBVIOUS
  <2> HIDE DEF Y
  <2>2. MemberText(s[i]) \in Seq(Range(MemberText(s[i]))) /\ Len(MemberText(s[i])) = 15
    BY MemberTextIs
  <2>. QED BY <2>1, <2>2, SeqMonotonic
<1>5. /\ ss = [i \in 1 .. n |-> ss[i]]
      /\ \A i \in 2 .. n : ss[i] = << comma >> \o MemberText(s[i])
  <2>1. \A i \in 2 .. n : i \in 1 .. n /\ i # 1
    BY <1>1
  <2>2. \A i \in 1 .. n : ss[i] = Piece(i)
    OBVIOUS
  <2>3. ss = [i \in 1 .. n |-> ss[i]]
    OBVIOUS
  <2>. QED BY <2>1, <2>2, <2>3, Zenon
<1>6. ss[1] = MemberText(s[1])
  <2>1. 1 \in 1 .. n
    BY <1>1
  <2>2. ss[1] = << >> \o MemberText(s[1])
    BY <2>1
  <2>3. MemberText(s[1]) \in Seq(Y)
    BY <1>4, <2>1
  <2> HIDE DEF Y, ss
  <2>. QED BY <2>2, <2>3
<1> HIDE DEF ss, n, Y
<1>7. PICK f : ByAppending(ss, n, f)
  BY <1>1, <1>5, FlattenedByAppending
<1> DEFINE P == { m \in 0 .. n : m # 0 => f[m] \in Seq(Y) /\ Laid(f[m], s, m) }
<1>8. ASSUME NEW m \in 0 .. n - 1, m \in P PROVE m + 1 \in P
  <2>1. CASE m = 0
    <3> DEFINE t == MemberText(s[1])
    <3>1. f[1] = t
      BY <1>6, <1>7 DEF ByAppending
    <3>2. t \in Seq(Y) /\ Len(t) = 15
      BY <1>1, <1>4
    <3>3. Laid(t, s, 1)
      <4>1. ASSUME NEW i \in 1 .. 1, NEW j \in 1 .. 15 PROVE t[16 * i - 16 + j] = MemberText(s[i])[j]
        <5>1. i = 1 /\ 16 * i - 16 + j = j
          OBVIOUS
        <5>. QED BY <5>1
      <4>2. \A i \in 1 .. 1 - 1 : t[16 * i] = Mark("comma")
        OBVIOUS
      <4>. QED BY <3>2, <4>1, <4>2 DEF Laid
    <3> HIDE DEF t
    <3>. QED BY <1>1, <2>1, <3>1, <3>2, <3>3
  <2>2. CASE m # 0
    <3>1. m \in Nat \ {0} /\ f[m] \in Seq(Y) /\ Laid(f[m], s, m) /\ m + 1 \in 2 .. n /\ m + 1 \in 1 .. n
      BY <1>1, <1>8, <2>2
    <3>2. (m + 1) - 1 = m
      OBVIOUS
    <3>3. f[m + 1] = f[m] \o (<< comma >> \o MemberText(s[m + 1]))
      BY <1>5, <1>7, <3>1, <3>2, Zenon DEF ByAppending
    <3>4. f[m + 1] \in Seq(Y) /\ Laid(f[m + 1], s, m + 1)
      BY <1>3, <1>4, <3>1, <3>3, OneMoreLaid
    <3>. QED BY <1>1, <3>1, <3>4
  <2>. QED BY <2>1, <2>2
<1>9. f[n] \in Seq(Y) /\ Laid(f[n], s, n)
  <2>1. 0 \in P
    BY <1>1
  <2>2. \A m \in 0 .. n - 1 : m \in P => m + 1 \in P
    BY <1>8
  <2> HIDE DEF P
  <2>3. n \in P
    BY <1>1, <2>1, <2>2, UpTo
  <2>. QED BY <1>1, <2>3 DEF P
<1> DEFINE t == f[n]
           open == Mark("brace")
           close == Mark("unbrace")
           text == << open >> \o t \o << close >>
<1>10. Text(s) = text
  BY <1>2, <1>7 DEF ByAppending
<1>11. t \in Seq(Y) /\ open \in Y /\ close \in Y /\ Len(t) = 16 * n - 1 /\ n \in Nat \ {0}
  BY <1>1, <1>3, <1>9 DEF Laid
<1>12. /\ \A i \in 1 .. n : \A j \in 1 .. 15 : t[16 * i - 16 + j] = MemberText(s[i])[j]
       /\ \A i \in 1 .. n - 1 : t[16 * i] = comma
  BY <1>9 DEF Laid
<1> HIDE DEF t, open, close, comma
<1>13. /\ Len(text) = 16 * n + 1 /\ text[1] = open /\ text[16 * n + 1] = close
       /\ \A k \in 1 .. 16 * n - 1 : text[k + 1] = t[k]
  BY <1>11
<1> HIDE DEF text
<1>14. ASSUME NEW i \in 1 .. n, NEW j \in 1 .. 15 PROVE text[16 * i - 15 + j] = MemberText(s[i])[j]
  <2>1. 16 * i - 16 + j \in 1 .. 16 * n - 1 /\ (16 * i - 16 + j) + 1 = 16 * i - 15 + j
    BY <1>11
  <2>. QED BY <1>12, <1>13, <2>1
<1>15. ASSUME NEW i \in 1 .. n - 1 PROVE text[16 * i + 1] = comma
  <2>1. 16 * i \in 1 .. 16 * n - 1
    BY <1>11
  <2>. QED BY <1>12, <1>13, <2>1
<1>. QED BY <1>10, <1>13, <1>14, <1>15 DEF Spelled, n, open, close, comma

-----------------------------------------------------------------------------
(* The scan of that text.                                                  *)

(* Sets of two and three.                                                  *)
LEMMA TwoIs ==
    ASSUME NEW a, NEW b, a # b  PROVE IsFiniteSet({a, b}) /\ Cardinality({a, b}) = 2
<1>1. IsFiniteSet({a}) /\ Cardinality({a}) = 1
  BY FS_Singleton
<1>2. IsFiniteSet({a} \cup {b}) /\ Cardinality({a} \cup {b}) = 2
  BY <1>1, FS_AddElement
<1>3. {a} \cup {b} = {a, b}
  OBVIOUS
<1>. QED BY <1>2, <1>3

LEMMA ThreeIs ==
    ASSUME NEW a, NEW b, NEW c, a # b, a # c, b # c  PROVE Cardinality({a, b, c}) = 3
<1>1. IsFiniteSet({a, b}) /\ Cardinality({a, b}) = 2
  BY TwoIs
<1>2. Cardinality({a, b} \cup {c}) = 3
  BY <1>1, FS_AddElement
<1>3. {a, b} \cup {c} = {a, b, c}
  OBVIOUS
<1>. QED BY <1>2, <1>3

(* The tokens of a sign, from one index to another.                        *)
Signs(t, p, sign, j) == { k \in p .. j : t[k].sign = sign }

(* A decision at p: three objects, opened and closed.                      *)
Decides(t, p) ==
    /\ \A k \in {p, p + 4, p + 10} : t[k].sign = "brace"
    /\ \A k \in {p + 5, p + 11, p + 12} : t[k].sign = "unbrace"
    /\ \A k \in {p + 1, p + 2, p + 3, p + 6, p + 7, p + 8, p + 9} : t[k].sign \notin {"brace", "unbrace"}

(* The value ends where as many braces were closed as opened, and that is  *)
(* not inside of it.                                                       *)
LEMMA BracesOfADecision ==
    ASSUME NEW t, NEW p \in Nat, Decides(t, p), NEW j \in p .. p + 12
    PROVE  Cardinality(Signs(t, p, "brace", j)) = Cardinality(Signs(t, p, "unbrace", j)) <=> j = p + 12
<1> DEFINE opens == Signs(t, p, "brace", j)
           closes == Signs(t, p, "unbrace", j)
<1>1. ASSUME NEW k \in p .. j
      PROVE  /\ t[k].sign = "brace" <=> k \in {p, p + 4, p + 10}
             /\ t[k].sign = "unbrace" <=> k \in {p + 5, p + 11, p + 12}
  <2>1. k \in {p, p + 4, p + 10} \/ k \in {p + 5, p + 11, p + 12}
        \/ k \in {p + 1, p + 2, p + 3, p + 6, p + 7, p + 8, p + 9}
    OBVIOUS
  <2>. QED BY <2>1 DEF Decides
<1>2. opens = {p, p + 4, p + 10} \cap (p .. j) /\ closes = {p + 5, p + 11, p + 12} \cap (p .. j)
  BY <1>1 DEF Signs
<1> HIDE DEF opens, closes
<1>3. /\ Cardinality({p, p + 4}) = 2 /\ Cardinality({p + 5, p + 11}) = 2
      /\ Cardinality({p, p + 4, p + 10}) = 3 /\ Cardinality({p + 5, p + 11, p + 12}) = 3
      /\ Cardinality({p + 5}) = 1 /\ Cardinality({p}) = 1 /\ Cardinality({}) = 0
  <2>1. /\ p # p + 4 /\ p # p + 10 /\ p + 4 # p + 10
        /\ p + 5 # p + 11 /\ p + 5 # p + 12 /\ p + 11 # p + 12
    OBVIOUS
  <2>2. Cardinality({p, p + 4}) = 2 /\ Cardinality({p + 5, p + 11}) = 2
    BY <2>1, TwoIs, Zenon
  <2>3. Cardinality({p, p + 4, p + 10}) = 3 /\ Cardinality({p + 5, p + 11, p + 12}) = 3
    <3>1. Cardinality({p, p + 4, p + 10}) = 3
      BY <2>1, ThreeIs, Zenon
    <3>2. Cardinality({p + 5, p + 11, p + 12}) = 3
      BY <2>1, ThreeIs, Zenon
    <3>. QED BY <3>1, <3>2
  <2>4. Cardinality({p + 5}) = 1 /\ Cardinality({p}) = 1 /\ Cardinality({}) = 0
    BY FS_Singleton, FS_EmptySet, Zenon
  <2>. QED BY <2>2, <2>3, <2>4
<1>4. CASE j \in p .. p + 3
  <2>1. opens = {p} /\ closes = {}
    BY <1>2, <1>4
  <2>. QED BY <1>4, <1>3, <2>1 DEF opens, closes
<1>5. CASE j = p + 4
  <2>1. opens = {p, p + 4} /\ closes = {}
    BY <1>2, <1>5
  <2>. QED BY <1>5, <1>3, <2>1 DEF opens, closes
<1>6. CASE j \in p + 5 .. p + 9
  <2>1. opens = {p, p + 4} /\ closes = {p + 5}
    BY <1>2, <1>6
  <2>. QED BY <1>6, <1>3, <2>1 DEF opens, closes
<1>7. CASE j = p + 10
  <2>1. opens = {p, p + 4, p + 10} /\ closes = {p + 5}
    BY <1>2, <1>7
  <2>. QED BY <1>7, <1>3, <2>1 DEF opens, closes
<1>8. CASE j = p + 11
  <2>1. opens = {p, p + 4, p + 10} /\ closes = {p + 5, p + 11}
    BY <1>2, <1>8
  <2>. QED BY <1>8, <1>3, <2>1 DEF opens, closes
<1>9. CASE j = p + 12
  <2>1. opens = {p, p + 4, p + 10} /\ closes = {p + 5, p + 11, p + 12}
    BY <1>2, <1>9
  <2>. QED BY <1>9, <1>3, <2>1 DEF opens, closes
<1>. QED BY <1>4, <1>5, <1>6, <1>7, <1>8, <1>9

LEMMA SkipsADecision ==
    ASSUME NEW t, Len(t) \in Nat, NEW p \in Nat, Decides(t, p), p + 12 <= Len(t)
    PROVE  SkipJsonValue(t, p) = p + 13
<1> DEFINE balanced == { j \in p .. Len(t) : Cardinality(Signs(t, p, "brace", j))
                                                 = Cardinality(Signs(t, p, "unbrace", j)) }
<1>1. t[p].sign = "brace"
  BY DEF Decides
<1>2. Closing("brace") = "unbrace"
  BY DEF Closing
<1>3. SkipJsonValue(t, p) = 1 + Min(balanced)
  BY <1>1, <1>2 DEF SkipJsonValue, Quantify, Signs
<1>4. p + 12 \in balanced
  BY BracesOfADecision
<1>5. ASSUME NEW j \in balanced PROVE p + 12 <= j
  <2>1. ~ (j \in p .. p + 11)
    BY BracesOfADecision
  <2>. QED BY <2>1
<1>6. balanced \subseteq Nat
  OBVIOUS
<1> HIDE DEF balanced
<1>7. Min(balanced) = p + 12
  <2>1. \A y \in balanced : p + 12 <= y
    BY <1>5
  <2>2. ASSUME NEW x \in balanced, \A y \in balanced : x <= y PROVE x = p + 12
    BY <1>4, <1>5, <1>6, <2>2
  <2>. QED BY <1>4, <2>1, <2>2, Zenon DEF Min
<1>. QED BY <1>3, <1>7

(* The passes of the loop, one after the other.                            *)
ByPasses(t, scan) ==
    /\ TopLevelKeys(t) = scan[Len(t)].keys
    /\ scan[0] = [at |-> 2, keys |-> << >>]
    /\ \A n \in 1 .. Len(t) : scan[n] = ReadKey(t, scan[n - 1])

LEMMA KeysByPasses ==
    ASSUME NEW t, Len(t) \in Nat, t[1].sign = "brace"
    PROVE  \E scan : ByPasses(t, scan)
<1> DEFINE top == Len(t)
           Def(f, n) == IF n = 0 THEN [at |-> 2, keys |-> << >>] ELSE ReadKey(t, f[n - 1])
           Stage(m) == \E f : f = [n \in 0 .. m |-> Def(f, n)]
           P == { m \in 0 .. top : Stage(m) }
<1> HIDE DEF top
<1>0. top \in Nat
  BY DEF top
<1>1. Stage(0)
  <2> DEFINE f == [n \in 0 .. 0 |-> [at |-> 2, keys |-> << >>]]
  <2>1. Def(f, 0) = [at |-> 2, keys |-> << >>]
    OBVIOUS
  <2> HIDE DEF Def
  <2>2. f = [n \in 0 .. 0 |-> Def(f, n)]
    BY <2>1
  <2>. QED BY <2>2
<1>2. ASSUME NEW m \in 0 .. top - 1, Stage(m) PROVE Stage(m + 1)
  <2>1. PICK f : f = [n \in 0 .. m |-> Def(f, n)]
    BY <1>2
  <2> DEFINE g == [n \in 0 .. m + 1 |-> IF n <= m THEN f[n] ELSE Def(f, m + 1)]
  <2>2. ASSUME NEW n \in 0 .. m + 1 PROVE g[n] = Def(g, n)
    <3>1. n = 0 \/ g[n - 1] = f[n - 1]
      BY <1>0
    <3> HIDE DEF g
    <3>2. Def(g, n) = Def(f, n)
      BY <3>1
    <3> HIDE DEF Def
    <3>3. g[n] = IF n <= m THEN f[n] ELSE Def(f, m + 1)
      BY DEF g
    <3>4. n <= m => f[n] = Def(f, n)
      BY <2>1
    <3>5. n <= m \/ n = m + 1
      BY <1>0
    <3>. QED BY <3>2, <3>3, <3>4, <3>5
  <2>3. g = [n \in 0 .. m + 1 |-> g[n]]
    OBVIOUS
  <2> HIDE DEF g, Def
  <2>4. g = [n \in 0 .. m + 1 |-> Def(g, n)]
    BY <2>2, <2>3
  <2>. QED BY <2>4
<1>3. Stage(top)
  <2> HIDE DEF Stage
  <2>1. 0 \in P /\ \A m \in 0 .. top - 1 : m \in P => m + 1 \in P
    BY <1>0, <1>1, <1>2
  <2> HIDE DEF P
  <2>2. top \in P
    <3>1. \A m \in 0 .. top : m \in P
      BY <1>0, <2>1, UpTo, Zenon
    <3>. QED BY <1>0, <3>1
  <2>. QED BY <2>2 DEF P
<1> DEFINE scan == CHOOSE f : f = [n \in 0 .. top |-> Def(f, n)]
<1>4. scan = [n \in 0 .. top |-> Def(scan, n)]
  BY <1>3, Zenon
<1>5. TopLevelKeys(t) = scan[top].keys
  BY Zenon DEF TopLevelKeys, top
<1> HIDE DEF scan
<1>6. \A n \in 0 .. top : scan[n] = Def(scan, n)
  <2> HIDE DEF Def
  <2>. QED BY <1>4, Zenon
<1>7. scan[0] = [at |-> 2, keys |-> << >>]
  <2>1. Def(scan, 0) = [at |-> 2, keys |-> << >>]
    OBVIOUS
  <2> HIDE DEF Def
  <2>. QED BY <1>0, <1>6, <2>1
<1>8. ASSUME NEW n \in 1 .. top PROVE scan[n] = ReadKey(t, scan[n - 1])
  <2>1. n \in 0 .. top /\ n # 0
    BY <1>0
  <2>. QED BY <1>6, <2>1, Zenon
<1>. QED BY <1>5, <1>7, <1>8 DEF ByPasses, top

(* The keys of the first m members, as they are spelled.                   *)
KeysOf(s, m) == [i \in 1 .. m |-> String(s[i].id, s[i].spelling)]

(* Where the loop is after it has read m members and what follows them.    *)
HasRead(t, s, m, scan) == scan = [at |-> 16 * m + 2, keys |-> KeysOf(s, m)]

LEMMA OneMoreKey ==
    ASSUME NEW s, NEW m \in Nat
    PROVE  Append(KeysOf(s, m), String(s[m + 1].id, s[m + 1].spelling)) = KeysOf(s, m + 1)
<1> DEFINE key == String(s[m + 1].id, s[m + 1].spelling)
           a == KeysOf(s, m)
           X == {String(s[i].id, s[i].spelling) : i \in 1 .. m + 1}
<1>1. a \in Seq(X) /\ Len(a) = m
  <2>1. a \in [1 .. m -> X]
    BY DEF KeysOf
  <2> HIDE DEF a, X
  <2>. QED BY <2>1
<1>2. key \in X
  OBVIOUS
<1>3. \A i \in 1 .. m : a[i] = String(s[i].id, s[i].spelling)
  BY DEF KeysOf
<1> HIDE DEF a, X, key
<1>4. /\ Append(a, key) \in Seq(X) /\ Len(Append(a, key)) = m + 1
      /\ \A i \in 1 .. m : Append(a, key)[i] = a[i]
      /\ Append(a, key)[m + 1] = key
  BY <1>1, <1>2, AppendProperties
<1> DEFINE c == Append(a, key)
<1> HIDE DEF c
<1>5. c = [i \in 1 .. m + 1 |-> c[i]]
  <2>1. c \in Seq(X) /\ Len(c) = m + 1
    BY <1>4 DEF c
  <2>2. c \in [1 .. m + 1 -> X]
    BY <2>1
  <2>. QED BY <2>2
<1>6. ASSUME NEW i \in 1 .. m + 1 PROVE c[i] = String(s[i].id, s[i].spelling)
  <2>1. i \in 1 .. m \/ i = m + 1
    OBVIOUS
  <2>. QED BY <1>3, <1>4, <2>1 DEF key, c
<1>7. c = [i \in 1 .. m + 1 |-> String(s[i].id, s[i].spelling)]
  BY <1>5, <1>6
<1>. QED BY <1>7 DEF KeysOf, c, a, key

(* Two passes read one more member and the comma or the end after it.      *)
LEMMA TwoPasses ==
    ASSUME NEW s, NEW t, Spelled(t, s), Len(s) \in Nat, NEW m \in 0 .. Len(s) - 1,
           NEW scan, HasRead(t, s, m, scan)
    PROVE  HasRead(t, s, m + 1, ReadKey(t, ReadKey(t, scan)))
<1> DEFINE n == Len(s)
           at == 16 * m + 2
           member == s[m + 1]
           key == String(member.id, member.spelling)
<1> HIDE DEF n, member
<1>1. n \in Nat /\ m \in Nat /\ m + 1 \in 1 .. n
  BY DEF n
<1>2. Len(t) = 16 * n + 1 /\ t[16 * n + 1] = Mark("unbrace")
  BY <1>1 DEF Spelled, n
<1>10. \A j \in 1 .. 15 : t[16 * (m + 1) - 15 + j] = MemberText(member)[j]
  BY <1>1 DEF Spelled, n, member
<1>11. \A i \in 1 .. n - 1 : t[16 * i + 1] = Mark("comma")
  BY <1>1 DEF Spelled, n
<1>3. ASSUME NEW j \in 1 .. 15 PROVE t[16 * m + 1 + j] = MemberText(member)[j]
  <2>1. 16 * (m + 1) - 15 + j = 16 * m + 1 + j
    BY <1>1
  <2>. QED BY <1>10, <2>1
<1>4. t[at] = key /\ t[at + 1].sign = "colon"
  <2>1. t[16 * m + 1 + 1] = MemberText(member)[1] /\ t[16 * m + 1 + 2] = MemberText(member)[2]
    BY <1>3
  <2>2. 16 * m + 1 + 1 = at /\ 16 * m + 1 + 2 = at + 1
    BY <1>1
  <2>3. MemberText(member)[1] = key /\ MemberText(member)[2].sign = "colon"
    BY MemberTextIs
  <2>. QED BY <2>1, <2>2, <2>3
<1>5. Decides(t, at + 2)
  <2> DEFINE p == at + 2
             v == MemberText(member)
  <2>1. \A j \in 3 .. 15 : t[p + (j - 3)] = v[j]
    <3> TAKE j \in 3 .. 15
    <3>1. p + (j - 3) = 16 * m + 1 + j
      BY <1>1
    <3>2. t[16 * m + 1 + j] = v[j]
      <4>1. j \in 1 .. 15
        OBVIOUS
      <4>. QED BY <1>3, <4>1, Zenon
    <3> HIDE DEF p, v
    <3>. QED BY <3>1, <3>2
  <2>2. /\ \A k \in {3, 7, 13} : v[k].sign = "brace"
        /\ \A k \in {8, 14, 15} : v[k].sign = "unbrace"
        /\ \A k \in {4, 5, 6, 9, 10, 11, 12} : v[k].sign \notin {"brace", "unbrace"}
    BY MemberTextIs
  <2>3. p \in Nat
    BY <1>1
  <2> HIDE DEF p, v
  <2>4. t[p] = v[3] /\ t[p + 4] = v[7] /\ t[p + 10] = v[13]
        /\ t[p + 5] = v[8] /\ t[p + 11] = v[14] /\ t[p + 12] = v[15]
    BY <2>1, <2>3
  <2>5. t[p + 1] = v[4] /\ t[p + 2] = v[5] /\ t[p + 3] = v[6] /\ t[p + 6] = v[9]
        /\ t[p + 7] = v[10] /\ t[p + 8] = v[11] /\ t[p + 9] = v[12]
    BY <2>1, <2>3
  <2>6. /\ \A k \in {p, p + 4, p + 10} : t[k].sign = "brace"
        /\ \A k \in {p + 5, p + 11, p + 12} : t[k].sign = "unbrace"
    BY <2>2, <2>4
  <2>7. \A k \in {p + 1, p + 2, p + 3, p + 6, p + 7, p + 8, p + 9} : t[k].sign \notin {"brace", "unbrace"}
    BY <2>2, <2>5
  <2>8. Decides(t, p)
    BY <2>6, <2>7 DEF Decides
  <2>. QED BY <2>8 DEF p
<1>6. SkipJsonValue(t, at + 2) = 16 * m + 17
  <2>1. at + 2 \in Nat /\ Len(t) \in Nat /\ (at + 2) + 12 <= Len(t)
    BY <1>1, <1>2
  <2>2. SkipJsonValue(t, at + 2) = (at + 2) + 13
    BY <1>5, <2>1, SkipsADecision
  <2>. QED BY <1>1, <2>2
<1> DEFINE next == ReadKey(t, scan)
<1>7. next = [at |-> 16 * m + 17, keys |-> KeysOf(s, m + 1)]
  <2>1. scan.at = at /\ scan.keys = KeysOf(s, m)
    BY DEF HasRead
  <2>2. at <= Len(t) /\ ~ (at > Len(t))
    BY <1>1, <1>2
  <2>3. key.sign = "string"
    BY DEF String
  <2> HIDE DEF at, key
  <2>4. next = [at |-> SkipJsonValue(t, at + 2), keys |-> Append(KeysOf(s, m), key)]
    BY <1>4, <2>1, <2>2, <2>3 DEF ReadKey
  <2>. QED BY <1>1, <1>6, <2>4, OneMoreKey DEF key, member
<1> HIDE DEF next
<1>8. CASE m + 1 < n
  <2>1. 16 * m + 17 <= Len(t) /\ t[16 * (m + 1) + 1] = Mark("comma") /\ 16 * (m + 1) + 1 = 16 * m + 17
    <3>1. m + 1 \in 1 .. n - 1
      BY <1>1, <1>8
    <3>2. 16 * (m + 1) + 1 = 16 * m + 17 /\ 16 * m + 17 <= 16 * n + 1
      BY <1>1, <1>8
    <3>. QED BY <1>2, <1>11, <3>1, <3>2
  <2>2. t[16 * m + 17].sign = "comma"
    BY <2>1 DEF Mark
  <2>3. next.at = 16 * m + 17 /\ next.keys = KeysOf(s, m + 1)
    BY <1>7
  <2>4. ReadKey(t, next) = [next EXCEPT !.at = @ + 1]
    <3>1. ~ (next.at > Len(t))
      BY <1>1, <1>2, <2>1, <2>3
    <3>. QED BY <2>2, <2>3, <3>1 DEF ReadKey
  <2>5. ReadKey(t, next) = [at |-> 16 * m + 18, keys |-> KeysOf(s, m + 1)]
    BY <1>1, <1>7, <2>4
  <2>6. 16 * m + 18 = 16 * (m + 1) + 2
    BY <1>1
  <2>. QED BY <2>5, <2>6 DEF HasRead, next
<1>9. CASE m + 1 = n
  <2>1. Len(t) = 16 * m + 17 /\ 16 * m + 17 = 16 * n + 1
    BY <1>1, <1>2, <1>9
  <2>2. t[16 * m + 17].sign = "unbrace"
    BY <1>2, <2>1 DEF Mark
  <2>3. next.at = 16 * m + 17 /\ next.keys = KeysOf(s, m + 1)
    BY <1>7
  <2>4. ReadKey(t, next) = [next EXCEPT !.at = Len(t) + 1]
    <3>1. ~ (next.at > Len(t))
      BY <1>1, <2>1, <2>3
    <3>. QED BY <2>2, <2>3, <3>1 DEF ReadKey
  <2>5. ReadKey(t, next) = [at |-> 16 * m + 18, keys |-> KeysOf(s, m + 1)]
    BY <1>1, <1>7, <2>1, <2>4
  <2>6. 16 * m + 18 = 16 * (m + 1) + 2
    BY <1>1
  <2>. QED BY <2>5, <2>6 DEF HasRead, next
<1>. QED BY <1>1, <1>8, <1>9

(* The keys of a text are the ids of its members, as they are spelled.     *)
LEMMA KeysAreRead ==
    ASSUME NEW s, s \in Seq(Range(s)), Len(s) # 0
    PROVE  TopLevelKeys(Text(s)) = KeysOf(s, Len(s))
<1> DEFINE t == Text(s)
           n == Len(s)
<1>1. Spelled(t, s) /\ n \in Nat \ {0}
  BY TextIs
<1> HIDE DEF t
<1>2. Len(t) = 16 * n + 1 /\ t[1].sign = "brace"
  BY <1>1 DEF Spelled, Mark
<1>3. PICK scan : ByPasses(t, scan)
  <2>1. Len(t) \in Nat
    BY <1>1, <1>2
  <2>. QED BY <1>2, <2>1, KeysByPasses
<1> DEFINE P == { m \in 0 .. n : HasRead(t, s, m, scan[2 * m]) }
<1>4. 0 \in P
  <2>1. KeysOf(s, 0) = << >> /\ 16 * 0 + 2 = 2 /\ 2 * 0 = 0
    BY DEF KeysOf
  <2>. QED BY <1>1, <1>3, <2>1 DEF ByPasses, HasRead
<1>5. ASSUME NEW m \in 0 .. n - 1, m \in P PROVE m + 1 \in P
  <2>1. 2 * m + 1 \in 1 .. Len(t) /\ 2 * m + 2 \in 1 .. Len(t)
        /\ (2 * m + 1) - 1 = 2 * m /\ (2 * m + 2) - 1 = 2 * m + 1 /\ 2 * (m + 1) = 2 * m + 2
    BY <1>1, <1>2
  <2>2. scan[2 * m + 1] = ReadKey(t, scan[2 * m])
    BY <1>3, <2>1 DEF ByPasses
  <2>3. scan[2 * m + 2] = ReadKey(t, scan[2 * m + 1])
    BY <1>3, <2>1 DEF ByPasses
  <2>4. HasRead(t, s, m + 1, scan[2 * m + 2])
    BY <1>1, <1>5, <2>2, <2>3, TwoPasses
  <2>. QED BY <1>1, <2>1, <2>4
<1>6. HasRead(t, s, n, scan[2 * n])
  <2>1. \A m \in 0 .. n - 1 : m \in P => m + 1 \in P
    BY <1>5
  <2> HIDE DEF P
  <2>2. \A m \in 0 .. n : m \in P
    BY <1>1, <1>4, <2>1, UpTo
  <2>3. n \in P
    BY <1>1, <2>2
  <2>. QED BY <2>3 DEF P
<1> DEFINE rest == 14 * n + 1
           Q == { k \in 0 .. rest : scan[2 * n + k] = scan[2 * n] }
<1>7. ASSUME NEW k \in 0 .. rest - 1, k \in Q PROVE k + 1 \in Q
  <2>1. 2 * n + (k + 1) \in 1 .. Len(t) /\ (2 * n + (k + 1)) - 1 = 2 * n + k /\ k + 1 \in 0 .. rest
    BY <1>1, <1>2
  <2>2. scan[2 * n + (k + 1)] = ReadKey(t, scan[2 * n])
    BY <1>3, <1>7, <2>1 DEF ByPasses
  <2>3. scan[2 * n].at > Len(t)
    BY <1>1, <1>2, <1>6 DEF HasRead
  <2>. QED BY <2>1, <2>2, <2>3 DEF ReadKey
<1>8. scan[Len(t)] = scan[2 * n]
  <2>1. 0 \in Q /\ rest \in Nat /\ 2 * n + rest = Len(t)
    BY <1>1, <1>2
  <2>2. \A k \in 0 .. rest - 1 : k \in Q => k + 1 \in Q
    BY <1>7
  <2> HIDE DEF Q, rest
  <2>3. \A k \in 0 .. rest : k \in Q
    BY <2>1, <2>2, UpTo
  <2>4. rest \in Q
    BY <2>1, <2>3
  <2>. QED BY <2>1, <2>4 DEF Q
<1>. QED BY <1>3, <1>6, <1>8 DEF ByPasses, HasRead, t

-----------------------------------------------------------------------------
(* What is answered from a snapshot.                                       *)

LEMMA LastIndex ==
    ASSUME NEW n \in Nat, NEW S, S \subseteq 1 .. n, NEW i \in S
    PROVE  Max(S) \in S /\ i <= Max(S)
<1> DEFINE T == { n - k : k \in S }
<1>1. T \in SUBSET Nat /\ n - i \in T
  OBVIOUS
<1>2. PICK d \in T : \A e \in T : d <= e
  <2>1. T # {}
    BY <1>1
  <2> HIDE DEF T
  <2>. QED BY <1>1, <2>1, LeastNatural
<1>3. PICK x \in S : d = n - x
  BY <1>2
<1>4. ASSUME NEW y \in S PROVE x >= y
  <2>1. n - y \in T
    OBVIOUS
  <2>2. n - x <= n - y
    BY <1>2, <1>3, <2>1
  <2>. QED BY <2>2
<1>5. Max(S) \in S /\ \A y \in S : Max(S) >= y
  BY <1>3, <1>4, Zenon DEF Max
<1>6. Max(S) >= i
  BY <1>5
<1>. QED BY <1>5, <1>6

(* What an answer owes to its snapshot.                                    *)
Decided(s, a) ==
    /\ DOMAIN a = {s[i].id : i \in DOMAIN s}
    /\ \A i \in DOMAIN s :
         \/ a[s[i].id] = s[i].decision
         \/ s[i].decision = Malformed /\ a[s[i].id] = Indeterminate
         \/ \E j \in i + 1 .. Len(s) : s[j].id = s[i].id

NamedTwice(s) ==
    \E i, j \in DOMAIN s : i # j /\ s[i].id = s[j].id /\ s[i].spelling = s[j].spelling

LEMMA SnapshotIsSeq ==
    ASSUME NEW s \in Snapshots \cup {<< >>}
    PROVE  /\ s \in Seq(Range(s)) /\ Len(s) \in Nat /\ DOMAIN s = 1 .. Len(s)
           /\ \A i \in DOMAIN s : s[i].decision \in Verdicts \cup {Malformed}
<1>1. s \in Seq(Range(s))
  <2>1. CASE s = << >>
    BY <2>1
  <2>2. CASE s \in Snapshots
    BY <2>2, RequestsAssumption
  <2>. QED BY <2>1, <2>2
<1>2. Len(s) \in Nat /\ DOMAIN s = 1 .. Len(s)
  BY <1>1
<1>3. \A i \in DOMAIN s : s[i].decision \in Verdicts \cup {Malformed}
  <2>1. CASE s = << >>
    BY <2>1
  <2>2. CASE s \in Snapshots
    BY <2>2, RequestsAssumption
  <2>. QED BY <2>1, <2>2
<1>. QED BY <1>1, <1>2, <1>3

LEMMA LastMemberDecides ==
    ASSUME NEW s \in Snapshots \cup {<< >>}
    PROVE  Decided(s, [id \in DOMAIN Parsed(s) |-> Validated(Parsed(s)[id])])
<1> DEFINE raw == Parsed(s)
           a == [id \in DOMAIN raw |-> Validated(raw[id])]
<1>1. /\ Len(s) \in Nat /\ DOMAIN s = 1 .. Len(s)
      /\ \A i \in DOMAIN s : s[i].decision \in Verdicts \cup {Malformed}
  BY SnapshotIsSeq
<1>0. DOMAIN a = {s[i].id : i \in DOMAIN s}
  BY DEF Parsed
<1>2. SUFFICES ASSUME NEW i \in DOMAIN s
               PROVE  \/ a[s[i].id] = s[i].decision
                      \/ s[i].decision = Malformed /\ a[s[i].id] = Indeterminate
                      \/ \E j \in i + 1 .. Len(s) : s[j].id = s[i].id
  BY <1>0 DEF Decided
<1> DEFINE same == { j \in DOMAIN s : s[j].id = s[i].id }
           last == Max(same)
<1>3. last \in same /\ i <= last
  <2>1. same \subseteq 1 .. Len(s) /\ i \in same
    BY <1>1
  <2> HIDE DEF same
  <2>. QED BY <1>1, <2>1, LastIndex
<1>4. s[i].id \in DOMAIN raw /\ raw[s[i].id] = s[last].decision
  BY DEF Parsed
<1> HIDE DEF last, raw
<1>5. a[s[i].id] = Validated(s[last].decision)
  BY <1>4
<1>6. CASE last = i
  <2>1. s[i].decision \in Verdicts => a[s[i].id] = s[i].decision
    BY <1>5, <1>6 DEF Validated
  <2>2. s[i].decision = Malformed => a[s[i].id] = Indeterminate
    BY <1>5, <1>6, RequestsAssumption DEF Validated
  <2>. QED BY <1>1, <2>1, <2>2
<1>7. CASE last # i
  <2>1. last \in i + 1 .. Len(s) /\ s[last].id = s[i].id
    BY <1>1, <1>3, <1>7
  <2>. QED BY <2>1
<1>. QED BY <1>6, <1>7

LEMMA EmptyRepeatsNothing == ~ RepeatsAKey(Text(<< >>))
<1> DEFINE t == Text(<< >>)
<1>1. t = << Mark("brace"), Mark("unbrace") >>
  <2> DEFINE pieces == [i \in DOMAIN << >> |->
                          (IF i = 1 THEN << >> ELSE << Mark("comma") >>) \o MemberText(<< >>[i])]
  <2>1. pieces = << >>
    OBVIOUS
  <2> HIDE DEF pieces
  <2>2. FlattenSeq(pieces) = << >>
    BY <2>1 DEF FlattenSeq
  <2>3. t = << Mark("brace") >> \o FlattenSeq(pieces) \o << Mark("unbrace") >>
    BY Zenon DEF Text, pieces
  <2>. QED BY <2>2, <2>3
<1> HIDE DEF t
<1>2. /\ Len(t) = 2 /\ t[1].sign = "brace"
      /\ t[2].sign # "comma" /\ t[2].sign # "string"
  BY <1>1 DEF Mark
<1>3. PICK scan : ByPasses(t, scan)
  BY <1>2, KeysByPasses
<1>4. scan[1] = [at |-> 3, keys |-> << >>]
  <2>1. scan[0] = [at |-> 2, keys |-> << >>] /\ scan[1] = ReadKey(t, scan[0])
    BY <1>2, <1>3 DEF ByPasses
  <2>. QED BY <1>2, <2>1 DEF ReadKey
<1>5. scan[2] = scan[1]
  <2>1. scan[2] = ReadKey(t, scan[1])
    BY <1>2, <1>3 DEF ByPasses
  <2>. QED BY <1>2, <1>4, <2>1 DEF ReadKey
<1>6. TopLevelKeys(t) = << >>
  BY <1>2, <1>3, <1>4, <1>5 DEF ByPasses
<1>. QED BY <1>6 DEF RepeatsAKey, t

(* The scan finds every key that is repeated, and no other.                *)
LEMMA RepeatedIsNamedTwice ==
    ASSUME NEW s \in Snapshots \cup {<< >>}
    PROVE  RepeatsAKey(Text(s)) <=> NamedTwice(s)
<1>1. s \in Seq(Range(s)) /\ Len(s) \in Nat /\ DOMAIN s = 1 .. Len(s)
  BY SnapshotIsSeq
<1>2. CASE Len(s) = 0
  <2>1. s = << >>
    BY <1>1, <1>2
  <2>2. ~ NamedTwice(<< >>)
    BY DEF NamedTwice
  <2>. QED BY <2>1, <2>2, EmptyRepeatsNothing
<1>3. CASE Len(s) # 0
  <2> DEFINE keys == KeysOf(s, Len(s))
  <2>1. TopLevelKeys(Text(s)) = keys
    BY <1>1, <1>3, KeysAreRead
  <2>2. DOMAIN keys = DOMAIN s
    BY <1>1 DEF KeysOf
  <2>3. ASSUME NEW i \in DOMAIN s, NEW j \in DOMAIN s
        PROVE  keys[i] = keys[j] <=> s[i].id = s[j].id /\ s[i].spelling = s[j].spelling
    <3>1. \A id, other, spelling, otherwise :
             String(id, spelling) = String(other, otherwise) <=> id = other /\ spelling = otherwise
      BY DEF String
    <3>2. keys[i] = String(s[i].id, s[i].spelling) /\ keys[j] = String(s[j].id, s[j].spelling)
      BY <1>1 DEF KeysOf
    <3> HIDE DEF keys
    <3>. QED BY <3>1, <3>2
  <2> HIDE DEF keys
  <2>. QED BY <2>1, <2>2, <2>3 DEF RepeatsAKey, NamedTwice
<1>. QED BY <1>2, <1>3

-----------------------------------------------------------------------------
(* The invariant.                                                          *)

(* A request that was given a token carries it, if tokens are in use.      *)
CarriesToken ==
    \A r \in Requests :
        auth = "oauth2" /\ pc[r] \in {"held", "sent", "denied", "erred", "body"} => token[r] # 0

(* The cache does not hold a token that was refused, ...                   *)
CacheNotRefused == cached \notin refused

(* ... nor does a refresh that has yet to hand out its own, which nobody   *)
(* is being refused; ...                                                   *)
NewestNotRefused ==
    refresh = "settling" =>
        /\ granted # 0 /\ granted \notin refused
        /\ \A r \in Requests : pc[r] = "denied" => token[r] # granted

(* ... so the token in a caller's hand was not refused when it asked.      *)
HeldNotBarred ==
    \A r \in Requests : barred[r] \subseteq refused /\ (pc[r] = "held" => token[r] \notin barred[r])

Unrefused == CacheNotRefused /\ NewestNotRefused /\ HeldNotBarred

IInv == TypeOK /\ CarriesToken /\ Unrefused

-----------------------------------------------------------------------------
LEMMA VerdictsAreAnswers ==
    ASSUME NEW S \in SUBSET Ids, NEW a \in [S -> Verdicts]  PROVE a \in Answers
BY DEF Answers

LEMMA ValidatedIsVerdict ==
    ASSUME NEW raw  PROVE Validated(raw) \in Verdicts
BY RequestsAssumption DEF Validated

LEMMA NoAnswerIsAnswer == NoAnswer \in Answers
<1>1. NoAnswer \in [{} -> Verdicts] /\ {} \in SUBSET Ids
  BY DEF NoAnswer
<1> QED BY <1>1, VerdictsAreAnswers

LEMMA NullAnswerIsAnswer ==
    ASSUME NEW r \in Requests  PROVE NullAnswer(r) \in Answers
<1>1. About(Indeterminate) \in Answers
  BY RequestsAssumption, VerdictsAreAnswers DEF About
<1> QED BY <1>1, NoAnswerIsAnswer DEF NullAnswer

(* What a snapshot decides, it decides about the ids of the call.          *)
LEMMA SnapshotIsAnswer ==
    ASSUME NEW snapshot \in Snapshots \cup {<< >>}
    PROVE  LET raw == Parsed(snapshot)
           IN  [id \in DOMAIN raw |-> Validated(raw[id])] \in Answers
<1> DEFINE raw == Parsed(snapshot)
<1>1. DOMAIN raw \in SUBSET Ids
  BY RequestsAssumption DEF Parsed
<1>2. [id \in DOMAIN raw |-> Validated(raw[id])] \in [DOMAIN raw -> Verdicts]
  <2> HIDE DEF raw
  <2> QED BY ValidatedIsVerdict
<1> QED BY <1>1, <1>2, VerdictsAreAnswers

-----------------------------------------------------------------------------
(* A step that sends a request with a token it was barred from.            *)
SendsBarred == \E r \in Requests : pc[r] # "sent" /\ pc'[r] = "sent" /\ token'[r] \in barred[r]

(* A caller that asks for a token gets the one cached, or joins a refresh. *)
LEMMA AcquireKeepsInv ==
    ASSUME IInv, NEW r \in Requests, NEW c \in 0 .. granted, Acquire(r, c),
           c \notin refused', pc[r] \in {"idle", "denied"},
           refused \subseteq refused', refused' \subseteq 1 .. granted,
           refresh = "settling" => granted \notin refused',
           UNCHANGED << auth, stale, configuration, granted, method, body >>,
           retried' \in [Requests -> BOOLEAN], aborted' \in [Requests -> BOOLEAN]
    PROVE  IInv' /\ ~SendsBarred
<1>0. /\ TypeOK /\ CarriesToken /\ CacheNotRefused /\ NewestNotRefused /\ HeldNotBarred
  BY DEF IInv, Unrefused
<1>1. /\ cached' = c /\ pc'[r] \in {"held", "done", "token"}
      /\ token' = [token EXCEPT ![r] = IF HasToken(c) THEN c ELSE 0]
      /\ barred' = [barred EXCEPT ![r] = refused']
      /\ pc'[r] = "held" => HasToken(c)
      /\ \A q \in Requests \ {r} : pc'[q] = pc[q]
      /\ pc' \in [Requests -> Steps]
      /\ answer' \in [Requests -> Answers]
      /\ refresh' \in {"none", "discovering", "granting", "settling"}
      /\ refresh' = "settling" => refresh = "settling"
  <2>1. \E step \in {"held", "done", "token"} :
           pc' = [pc EXCEPT ![r] = step] /\ (step = "held" => HasToken(c))
    BY DEF Acquire, Go
  <2>2. answer' \in {answer, [answer EXCEPT ![r] = NullAnswer(r)]}
    BY DEF Acquire
  <2>3. refresh' \in {refresh, "granting", "discovering"}
    BY DEF Acquire
  <2>4. answer' \in [Requests -> Answers]
    BY <1>0, <2>2, NullAnswerIsAnswer DEF TypeOK
  <2>5. /\ refresh' \in {"none", "discovering", "granting", "settling"}
        /\ refresh' = "settling" => refresh = "settling"
    BY <1>0, <2>3 DEF TypeOK
  <2>6. /\ pc'[r] \in {"held", "done", "token"} /\ (pc'[r] = "held" => HasToken(c))
        /\ pc' \in [Requests -> Steps] /\ \A q \in Requests \ {r} : pc'[q] = pc[q]
    BY <1>0, <2>1 DEF TypeOK, Steps
  <2> QED BY <2>4, <2>5, <2>6 DEF Acquire
<1>2. /\ token'[r] = (IF HasToken(c) THEN c ELSE 0) /\ token' \in [Requests -> 0 .. granted]
      /\ barred'[r] = refused' /\ barred' \in [Requests -> SUBSET (1 .. granted)]
      /\ \A q \in Requests \ {r} : token'[q] = token[q] /\ barred'[q] = barred[q]
  BY <1>0, <1>1 DEF TypeOK
<1>3. TypeOK'
  <2>1. ASSUME NEW q \in Requests, body'[q] # << >>
        PROVE  pc'[q] = "body" /\ method'[q] = "all"
    BY <1>0, <1>1, <2>1 DEF TypeOK
  <2> QED BY <1>0, <1>1, <1>2, <2>1 DEF TypeOK
<1>4. CarriesToken'
  BY <1>0, <1>1, <1>2 DEF CarriesToken, HasToken
<1>5. CacheNotRefused' /\ NewestNotRefused'
  BY <1>0, <1>1, <1>2 DEF CacheNotRefused, NewestNotRefused
<1>6. HeldNotBarred'
  BY <1>0, <1>1, <1>2 DEF HeldNotBarred
<1>7. ~SendsBarred
  BY <1>0, <1>1 DEF SendsBarred
<1> QED BY <1>3, <1>4, <1>5, <1>6, <1>7 DEF IInv, Unrefused

-----------------------------------------------------------------------------
LEMMA InitInv == Init => IInv
<1> SUFFICES ASSUME Init  PROVE IInv
  OBVIOUS
<1>2. "idle" \in Steps
  BY DEF Steps
<1>3. TypeOK
  <2> USE DEF Init
  <2>1. cached \in 0 .. granted /\ granted \in 0 .. MaxTokens /\ refused \subseteq 1 .. granted
    BY RequestsAssumption
  <2>2. pc \in [Requests -> Steps] /\ answer \in [Requests -> Answers]
    BY NoAnswerIsAnswer, <1>2
  <2>3. body \in [Requests -> Snapshots \cup {<< >>}]
    OBVIOUS
  <2>4. token \in [Requests -> 0 .. granted]
    OBVIOUS
  <2> QED BY <2>1, <2>2, <2>3, <2>4 DEF TypeOK
<1>4. CarriesToken /\ Unrefused
  BY DEF Init, CarriesToken, Unrefused, CacheNotRefused, NewestNotRefused, HeldNotBarred
<1> QED BY <1>3, <1>4 DEF IInv

(* The steps of the refresh.                                               *)
LEMMA RefreshFailsKeepsInv ==
    ASSUME IInv, RefreshFails, configuration' \in {"none", "ready", "failed"}
    PROVE  IInv' /\ ~SendsBarred
<1>0. /\ TypeOK /\ CarriesToken /\ CacheNotRefused /\ NewestNotRefused /\ HeldNotBarred
  BY DEF IInv, Unrefused
<1>1. answer' \in [Requests -> Answers]
  BY <1>0, NullAnswerIsAnswer DEF RefreshFails, TypeOK
<1>2. /\ refresh' = "none" /\ pc' \in [Requests -> Steps]
      /\ \A r \in Requests : pc'[r] = pc[r] \/ (pc[r] = "token" /\ pc'[r] = "done")
      /\ UNCHANGED << auth, cached, stale, granted, refused, method, token, retried, aborted, body, barred >>
  BY <1>0 DEF RefreshFails, Waiting, TypeOK, Steps
<1>3. TypeOK'
  BY <1>0, <1>1, <1>2 DEF TypeOK
<1>4. CarriesToken' /\ Unrefused' /\ ~SendsBarred
  BY <1>0, <1>2
     DEF CarriesToken, Unrefused, CacheNotRefused, NewestNotRefused, HeldNotBarred, SendsBarred
<1> QED BY <1>3, <1>4 DEF IInv

LEMMA GrantKeepsInv ==
    ASSUME IInv, GrantSucceeds  PROVE IInv' /\ ~SendsBarred
<1>0. /\ TypeOK /\ CarriesToken /\ CacheNotRefused /\ NewestNotRefused /\ HeldNotBarred
  BY DEF IInv, Unrefused
<1>1. /\ granted \in Nat /\ granted' = granted + 1 /\ granted' \in 0 .. MaxTokens
      /\ cached' = granted' /\ refresh' = "settling" /\ stale' \in BOOLEAN
      /\ UNCHANGED << auth, configuration, refused, pc, method, token, retried, aborted, body,
                     answer, barred >>
  BY <1>0, RequestsAssumption DEF GrantSucceeds, requests, TypeOK
<1>2. /\ token \in [Requests -> 0 .. granted'] /\ refused \subseteq 1 .. granted'
      /\ barred \in [Requests -> SUBSET (1 .. granted')]
      /\ granted' # 0 /\ granted' \notin refused /\ cached' \in 0 .. granted'
      /\ \A r \in Requests : token[r] # granted'
  BY <1>0, <1>1 DEF TypeOK
<1>3. TypeOK'
  BY <1>0, <1>1, <1>2 DEF TypeOK
<1>4. CarriesToken' /\ Unrefused' /\ ~SendsBarred
  BY <1>0, <1>1, <1>2
     DEF CarriesToken, Unrefused, CacheNotRefused, NewestNotRefused, HeldNotBarred, SendsBarred
<1> QED BY <1>3, <1>4 DEF IInv

LEMMA SettlingKeepsInv ==
    ASSUME IInv, RefreshSettles  PROVE IInv' /\ ~SendsBarred
<1>0. /\ TypeOK /\ CarriesToken /\ CacheNotRefused /\ NewestNotRefused /\ HeldNotBarred
  BY DEF IInv, Unrefused
<1>1. /\ refresh = "settling" /\ refresh' = "none"
      /\ UNCHANGED << auth, cached, stale, configuration, granted, refused,
                     method, retried, aborted, body, answer, barred >>
  BY DEF RefreshSettles
<1>2. ASSUME NEW r \in Requests
      PROVE  /\ pc[r] = "token" => pc'[r] = "held" /\ token'[r] = granted
             /\ pc[r] # "token" => pc'[r] = pc[r] /\ token'[r] = token[r]
  BY DEF RefreshSettles, Waiting
<1>3. granted \in 0 .. granted /\ granted # 0 /\ granted \notin refused
  BY <1>0, <1>1, RequestsAssumption DEF NewestNotRefused, TypeOK
<1>4. pc' \in [Requests -> Steps] /\ token' \in [Requests -> 0 .. granted]
  BY <1>0, <1>3 DEF RefreshSettles, TypeOK, Steps
<1>5. TypeOK'
  BY <1>0, <1>1, <1>2, <1>4 DEF TypeOK
<1>6. CarriesToken' /\ Unrefused' /\ ~SendsBarred
  BY <1>0, <1>1, <1>2, <1>3
     DEF CarriesToken, Unrefused, CacheNotRefused, NewestNotRefused, HeldNotBarred, SendsBarred
<1> QED BY <1>5, <1>6 DEF IInv

-----------------------------------------------------------------------------
(* A request that only moves on, settles or is aborted.                    *)
LEMMA QuietStepKeepsInv ==
    ASSUME IInv, NEW r \in Requests, NEW step \in Steps, NEW a \in Answers,
           pc' = [pc EXCEPT ![r] = step],
           answer' = [answer EXCEPT ![r] = a],
           body' \in {body, [body EXCEPT ![r] = << >>]},
           body'[r] # << >> => step = "body" /\ method[r] = "all",
           aborted' \in [Requests -> BOOLEAN],
           step \in {"erred", "body"} => pc[r] = "sent",
           step \notin {"held", "sent", "token", "denied"},
           UNCHANGED << auth, provider, refused, method, token, retried, barred >>
    PROVE  IInv' /\ ~SendsBarred
<1>0. /\ TypeOK /\ CarriesToken /\ CacheNotRefused /\ NewestNotRefused /\ HeldNotBarred
  BY DEF IInv, Unrefused
<1>1. /\ body' \in [Requests -> Snapshots \cup {<< >>}]
      /\ pc'[r] = step /\ \A q \in Requests \ {r} : pc'[q] = pc[q]
  BY <1>0 DEF TypeOK
<1>2. ASSUME NEW q \in Requests, body'[q] # << >>
      PROVE  pc'[q] = "body" /\ method'[q] = "all"
  BY <1>0, <1>2 DEF TypeOK
<1>3. TypeOK'
  BY <1>0, <1>1, <1>2 DEF TypeOK, provider
<1>4. CarriesToken' /\ Unrefused' /\ ~SendsBarred
  BY <1>0, <1>1
     DEF CarriesToken, Unrefused, CacheNotRefused, NewestNotRefused, HeldNotBarred, SendsBarred, provider
<1> QED BY <1>3, <1>4 DEF IInv

LEMMA RefusalIsOfAToken ==
    ASSUME IInv, NEW r \in Requests, RefusalRead(r)
    PROVE  /\ refused' \subseteq 1 .. granted /\ refused \subseteq refused'
           /\ refresh = "settling" /\ granted \notin refused => granted \notin refused'
<1>0. TypeOK /\ CarriesToken /\ NewestNotRefused /\ pc[r] = "denied"
  BY DEF IInv, Unrefused, RefusalRead
<1>1. CASE auth = "oauth2"
  <2>1. refused' = refused \cup {token[r]}
    BY <1>1 DEF RefusalRead
  <2>2. token[r] \in 0 .. granted /\ token[r] # 0 /\ granted \in Nat
    BY <1>0, <1>1, RequestsAssumption DEF TypeOK, CarriesToken
  <2>3. token[r] \in 1 .. granted
    BY <2>2
  <2> QED BY <1>0, <2>1, <2>3 DEF TypeOK, NewestNotRefused
<1>2. CASE auth # "oauth2"
  BY <1>0, <1>2 DEF RefusalRead, TypeOK
<1> QED BY <1>1, <1>2

LEMMA NextKeepsInv ==
    ASSUME IInv, [Next]_vars  PROVE IInv' /\ ~SendsBarred
<1>0. /\ TypeOK /\ CarriesToken /\ CacheNotRefused /\ NewestNotRefused /\ HeldNotBarred
  BY DEF IInv, Unrefused
<1>1. CASE DiscoverySucceeds \/ TokenNearsExpiry
  <2>1. /\ refresh' \in {"none", "discovering", "granting", "settling"}
        /\ configuration' \in {"none", "ready", "failed"} /\ stale' \in BOOLEAN
        /\ refresh' = "settling" => refresh = "settling"
        /\ UNCHANGED << auth, cached, granted, refused, requests >>
    BY <1>0, <1>1 DEF DiscoverySucceeds, TokenNearsExpiry, TypeOK
  <2> QED
    BY <1>0, <2>1 DEF IInv, TypeOK, CarriesToken, Unrefused, CacheNotRefused, NewestNotRefused,
                      HeldNotBarred, SendsBarred, requests
<1>2. CASE DiscoveryFails \/ GrantFails
  BY <1>0, <1>2, RefreshFailsKeepsInv DEF DiscoveryFails, GrantFails, TypeOK
<1>3. CASE GrantSucceeds \/ RefreshSettles
  BY <1>3, GrantKeepsInv, SettlingKeepsInv
<1>6. ASSUME NEW r \in Requests, Call(r)  PROVE IInv' /\ ~SendsBarred
  BY <1>0, <1>6, AcquireKeepsInv DEF Call, TypeOK, CacheNotRefused, NewestNotRefused
<1>7. ASSUME NEW r \in Requests, CallAgain(r)  PROVE IInv' /\ ~SendsBarred
  <2>1. /\ pc[r] = "done" /\ pc' = [pc EXCEPT ![r] = "idle"] /\ "idle" \in Steps
        /\ method' \in [Requests -> {"one", "all"}] /\ \A q \in Requests \ {r} : method'[q] = method[q]
        /\ token' = [token EXCEPT ![r] = 0] /\ barred' = [barred EXCEPT ![r] = {}]
        /\ retried' \in [Requests -> BOOLEAN] /\ aborted' \in [Requests -> BOOLEAN]
        /\ answer' \in [Requests -> Answers]
        /\ UNCHANGED << auth, provider, refused, body >>
    BY <1>0, <1>7, NoAnswerIsAnswer DEF CallAgain, Go, TypeOK, Steps
  <2>2. /\ pc' \in [Requests -> Steps] /\ token' \in [Requests -> 0 .. granted]
        /\ barred' \in [Requests -> SUBSET (1 .. granted)]
        /\ pc'[r] = "idle" /\ barred'[r] = {}
        /\ \A q \in Requests \ {r} : pc'[q] = pc[q] /\ token'[q] = token[q] /\ barred'[q] = barred[q]
    BY <1>0, <2>1 DEF TypeOK
  <2>3. ASSUME NEW q \in Requests, body'[q] # << >>
        PROVE  pc'[q] = "body" /\ method'[q] = "all"
    BY <1>0, <2>1, <2>2, <2>3 DEF TypeOK
  <2>4. TypeOK'
    BY <1>0, <2>1, <2>2, <2>3 DEF TypeOK, provider
  <2>5. CarriesToken' /\ Unrefused' /\ ~SendsBarred
    BY <1>0, <2>1, <2>2
       DEF CarriesToken, Unrefused, CacheNotRefused, NewestNotRefused, HeldNotBarred, SendsBarred, provider
  <2> QED BY <2>4, <2>5 DEF IInv
<1>4. ASSUME NEW r \in Requests, Send(r)  PROVE IInv' /\ ~SendsBarred
  <2>1. CASE aborted[r]
    <3>1. /\ pc[r] = "held" /\ pc' = [pc EXCEPT ![r] = "done"] /\ answer' = [answer EXCEPT ![r] = NullAnswer(r)]
          /\ UNCHANGED << auth, provider, refused, method, token, retried, aborted, body, barred >>
      BY <1>4, <2>1 DEF Send, Go
    <3>2. /\ "done" \in Steps /\ NullAnswer(r) \in Answers /\ aborted' \in [Requests -> BOOLEAN]
          /\ body'[r] = << >>
      BY <1>0, <3>1, NullAnswerIsAnswer DEF TypeOK, Steps
    <3> QED BY <3>1, <3>2, QuietStepKeepsInv
  <2>2. CASE ~aborted[r]
    <3>1. /\ pc[r] = "held" /\ pc' = [pc EXCEPT ![r] = "sent"] /\ "sent" \in Steps
          /\ UNCHANGED << auth, provider, refused, method, token, retried, aborted, body, answer, barred >>
      BY <1>4, <2>2 DEF Send, Go, Steps
    <3>2. pc'[r] = "sent" /\ \A q \in Requests \ {r} : pc'[q] = pc[q]
      BY <1>0, <3>1 DEF TypeOK
    <3>3. TypeOK'
      BY <1>0, <3>1, <3>2 DEF TypeOK, provider
    <3>4. CarriesToken' /\ Unrefused' /\ ~SendsBarred
      BY <1>0, <3>1, <3>2
         DEF CarriesToken, Unrefused, CacheNotRefused, NewestNotRefused, HeldNotBarred, SendsBarred, provider
    <3> QED BY <3>3, <3>4 DEF IInv
  <2> QED BY <2>1, <2>2
<1>8. ASSUME NEW r \in Requests, Responds(r)  PROVE IInv' /\ ~SendsBarred
  <2>1. /\ pc[r] = "sent" /\ (refresh = "settling" => token[r] # granted)
        /\ pc' \in [Requests -> Steps] /\ pc'[r] \in {"body", "denied", "erred"}
        /\ \A q \in Requests \ {r} : pc'[q] = pc[q]
        /\ body' \in [Requests -> Snapshots \cup {<< >>}]
        /\ UNCHANGED << auth, provider, refused, method, token, retried, aborted, answer, barred >>
    BY <1>0, <1>8 DEF Responds, Go, TypeOK, Steps
  <2>2. ASSUME NEW q \in Requests, body'[q] # << >>
        PROVE  pc'[q] = "body" /\ method'[q] = "all"
    BY <1>0, <1>8, <2>2 DEF Responds, Go, TypeOK
  <2>3. TypeOK'
    BY <1>0, <2>1, <2>2 DEF TypeOK, provider
  <2>4. CarriesToken' /\ Unrefused' /\ ~SendsBarred
    BY <1>0, <2>1
       DEF CarriesToken, Unrefused, CacheNotRefused, NewestNotRefused, HeldNotBarred, SendsBarred, provider
  <2> QED BY <2>3, <2>4 DEF IInv
<1>9. ASSUME NEW r \in Requests, TimerFires(r)  PROVE IInv' /\ ~SendsBarred
  BY <1>0, <1>9
     DEF TimerFires, IInv, TypeOK, CarriesToken, Unrefused, CacheNotRefused, NewestNotRefused,
         HeldNotBarred, SendsBarred, provider
<1>10. ASSUME NEW r \in Requests, Fails(r)  PROVE IInv' /\ ~SendsBarred
  BY <1>0, <1>10, NullAnswerIsAnswer, QuietStepKeepsInv
     DEF Fails, Settle, Go, BodyGone, TypeOK, Steps
<1>11. ASSUME NEW r \in Requests, ErrorRead(r)  PROVE IInv' /\ ~SendsBarred
  BY <1>0, <1>11, NullAnswerIsAnswer, QuietStepKeepsInv
     DEF ErrorRead, Settle, Go, TypeOK, Steps
<1>12. ASSUME NEW r \in Requests, RefusalRead(r)  PROVE IInv' /\ ~SendsBarred
  <2> USE <1>12 DEF RefusalRead
  <2>0. /\ refused' \subseteq 1 .. granted /\ refused \subseteq refused'
        /\ refresh = "settling" => granted \notin refused'
    BY <1>0, RefusalIsOfAToken DEF NewestNotRefused
  <2>1. CASE auth = "oauth2" /\ ~retried[r]
    <3>1. Invalidated(cached) \in 0 .. granted /\ Invalidated(cached) \notin refused'
      BY <1>0, <2>0 DEF Invalidated, TypeOK
    <3>2. Acquire(r, Invalidated(cached))
      BY <2>1
    <3>3. retried' \in [Requests -> BOOLEAN] /\ aborted' \in [Requests -> BOOLEAN]
      BY <1>0, <2>1 DEF TypeOK
    <3> QED BY <2>0, <3>1, <3>2, <3>3, AcquireKeepsInv
  <2>2. CASE ~(auth = "oauth2" /\ ~retried[r])
    <3>1. /\ pc' = [pc EXCEPT ![r] = "done"] /\ "done" \in Steps
          /\ answer' = [answer EXCEPT ![r] = NullAnswer(r)] /\ cached' \in {0, cached}
          /\ UNCHANGED << refresh, token, retried, aborted, auth, stale, configuration, granted,
                         method, body, barred >>
      BY <2>2 DEF Settle, Go, Steps, Invalidated
    <3>2. /\ pc' \in [Requests -> Steps] /\ pc'[r] = "done"
          /\ \A q \in Requests \ {r} : pc'[q] = pc[q]
          /\ answer' \in [Requests -> Answers] /\ cached' \in 0 .. granted
      BY <1>0, <3>1, NullAnswerIsAnswer, RequestsAssumption DEF TypeOK
    <3>3. ASSUME NEW q \in Requests, body'[q] # << >>
          PROVE  pc'[q] = "body" /\ method'[q] = "all"
      BY <1>0, <1>12, <3>1, <3>2, <3>3 DEF TypeOK
    <3>4. TypeOK'
      BY <1>0, <2>0, <3>1, <3>2, <3>3 DEF TypeOK
    <3>5. CacheNotRefused'
      <4>1. CASE auth = "oauth2"
        BY <1>0, <2>0, <2>2, <4>1 DEF CacheNotRefused, Invalidated
      <4>2. CASE auth # "oauth2"
        BY <1>0, <4>2 DEF CacheNotRefused
      <4> QED BY <4>1, <4>2
    <3>6. CarriesToken' /\ NewestNotRefused' /\ HeldNotBarred' /\ ~SendsBarred
      BY <1>0, <2>0, <3>1, <3>2 DEF CarriesToken, NewestNotRefused, HeldNotBarred, SendsBarred
    <3> QED BY <3>4, <3>5, <3>6 DEF IInv, Unrefused
  <2> QED BY <2>1, <2>2
<1>13. ASSUME NEW r \in Requests, DecisionRead(r)  PROVE IInv' /\ ~SendsBarred
  <2>1. PICK raw \in Verdicts \cup {Malformed} : Settle(r, About(Validated(raw)))
    BY <1>13 DEF DecisionRead
  <2>2. About(Validated(raw)) \in Answers
    BY RequestsAssumption, ValidatedIsVerdict, VerdictsAreAnswers DEF About
  <2> QED
    BY <1>0, <1>13, <2>1, <2>2, QuietStepKeepsInv DEF DecisionRead, Settle, Go, TypeOK, Steps
<1>14. ASSUME NEW r \in Requests, SnapshotRead(r)  PROVE IInv' /\ ~SendsBarred
  <2>1. PICK a \in Answers : Settle(r, a)
    BY <1>0, <1>14, NullAnswerIsAnswer, SnapshotIsAnswer DEF SnapshotRead, TypeOK
  <2>2. pc' = [pc EXCEPT ![r] = "done"] /\ answer' = [answer EXCEPT ![r] = a]
    BY <2>1 DEF Settle, Go
  <2>3. body' = [body EXCEPT ![r] = << >>] /\ body'[r] = << >>
    BY <1>0, <1>14 DEF SnapshotRead, BodyGone, TypeOK
  <2>4. UNCHANGED << auth, provider, refused, method, token, retried, aborted, barred >>
    BY <1>14 DEF SnapshotRead
  <2>5. aborted' \in [Requests -> BOOLEAN] /\ "done" \in Steps
    BY <1>0, <2>4 DEF TypeOK, Steps
  <2> QED BY <2>2, <2>3, <2>4, <2>5, QuietStepKeepsInv
<1>15. CASE UNCHANGED vars
  BY <1>0, <1>15
     DEF vars, provider, requests, IInv, TypeOK, CarriesToken, Unrefused, CacheNotRefused,
         NewestNotRefused, HeldNotBarred, SendsBarred
<1> QED
  BY <1>1, <1>2, <1>3, <1>4, <1>6, <1>7, <1>8, <1>9, <1>10, <1>11, <1>12, <1>13, <1>14, <1>15
     DEF Next

-----------------------------------------------------------------------------
LEMMA Inductive == Spec => []IInv
<1>1. IInv /\ [Next]_vars => IInv'
  BY NextKeepsInv
<1> QED BY InitInv, <1>1, PTL DEF Spec

(* Type correctness of the requests and of the token they share            *)
(* (HttpPdpClient.ts, fetchOnce; OAuth2TokenProvider.ts).                  *)
THEOREM TypeCorrect == Spec => []TypeOK
<1>1. IInv => TypeOK
  BY DEF IInv
<1> QED BY Inductive, <1>1, PTL

(* No request is sent with a token whose refusal the client had handled    *)
(* when the request asked for one, whichever callers share the token and   *)
(* its refresh, and whatever they do between the asking and the sending    *)
(* (handleAuthFailure, invalidate, getAccessToken).                        *)
THEOREM RefusedTokensAreNotReused == Spec => RefusedTokenNotReused
<1>1. IInv /\ [Next]_vars
      => [\A r \in Requests : pc[r] # "sent" /\ pc'[r] = "sent" => token'[r] \notin barred[r]]_vars
  BY NextKeepsInv DEF SendsBarred
<1> QED BY Inductive, <1>1, PTL DEF Spec, RefusedTokenNotReused

-----------------------------------------------------------------------------
LEMMA SnapshotReadIsUnambiguous ==
    ASSUME TypeOK, NEW r \in Requests, SnapshotRead(r)
    PROVE  IF NamedTwice(body[r]) THEN answer'[r] = NoAnswer ELSE Decided(body[r], answer'[r])
<1> DEFINE s == body[r]
           raw == Parsed(s)
           a == IF RepeatsAKey(Text(s)) THEN NullAnswer(r) ELSE [id \in DOMAIN raw |-> Validated(raw[id])]
<1>1. s \in Snapshots \cup {<< >>} /\ answer \in [Requests -> Answers] /\ method[r] = "all"
  BY DEF TypeOK, SnapshotRead
<1>2. answer'[r] = a
  <2>1. answer' = [answer EXCEPT ![r] = a]
    BY Zenon DEF SnapshotRead, Settle
  <2> HIDE DEF a
  <2>. QED BY <1>1, <2>1
<1>3. RepeatsAKey(Text(s)) <=> NamedTwice(s)
  BY <1>1, RepeatedIsNamedTwice
<1>4. CASE RepeatsAKey(Text(s))
  BY <1>1, <1>2, <1>3, <1>4 DEF NullAnswer
<1>5. CASE ~ RepeatsAKey(Text(s))
  <2>1. answer'[r] = [id \in DOMAIN raw |-> Validated(raw[id])]
    BY <1>2, <1>5
  <2>2. Decided(s, [id \in DOMAIN raw |-> Validated(raw[id])])
    BY <1>1, LastMemberDecides
  <2> HIDE DEF s, raw
  <2>3. ~ NamedTwice(s) /\ Decided(s, answer'[r])
    BY <1>3, <1>5, <2>1, <2>2
  <2>. QED BY <2>3 DEF s
<1>. QED BY <1>4, <1>5

(* A snapshot that is read is refused if it names a subscription twice in  *)
(* the same spelling, and only then, however long it is, whatever its      *)
(* decisions are and wherever the keys of one occur again; the others      *)
(* decide as they say (firstDuplicateTopLevelKey, multiDecideAllOnce).     *)
THEOREM SnapshotsAreUnambiguous == Spec => SnapshotsUnambiguous
<1>1. TypeOK /\ [Next]_vars =>
        [\A r \in Requests : SnapshotRead(r) =>
            IF \E i, j \in DOMAIN body[r] :
                    i # j /\ body[r][i].id = body[r][j].id /\ body[r][i].spelling = body[r][j].spelling
            THEN answer'[r] = NoAnswer
            ELSE /\ DOMAIN answer'[r] = {body[r][i].id : i \in DOMAIN body[r]}
                 /\ \A i \in DOMAIN body[r] :
                       \/ answer'[r][body[r][i].id] = body[r][i].decision
                       \/ body[r][i].decision = Malformed /\ answer'[r][body[r][i].id] = Indeterminate
                       \/ \E j \in i + 1 .. Len(body[r]) : body[r][j].id = body[r][i].id]_vars
  BY SnapshotReadIsUnambiguous, Zenon DEF NamedTwice, Decided
<1>. QED BY TypeCorrect, <1>1, PTL DEF Spec, SnapshotsUnambiguous

=============

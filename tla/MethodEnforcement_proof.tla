----------------------- MODULE MethodEnforcement_proof -----------------------
(***************************************************************************)
(* What a call under @PreEnforce or @PostEnforce promises, for all          *)
(* providers, answers, decisions and outcomes of handlers: neither the     *)
(* number of providers, of obligations, nor of handlers is bounded.        *)
(*                                                                         *)
(* Three arguments are put together.  The loop of Plan.execute, by          *)
(* induction over its turns, calls what a signal's entries ask for and     *)
(* remembers an obligation's failure.  The sort of scheduleBySignal loses   *)
(* no entry, because the rank of an entry in its bucket is a bijection.    *)
(* And the entries of an obligation are, by resolveConstraint, either all   *)
(* that its provider demands or a runner that fails.                       *)
(***************************************************************************)
EXTENDS MethodEnforcement, FiniteSetTheorems, TLAPS

-----------------------------------------------------------------------------
(* Induction on a set of numbers.                                          *)

(* The least number outside the set has a predecessor in it.               *)
LEMMA SetInduction ==
    ASSUME NEW S, 0 \in S, \A n \in Nat : n \in S => n + 1 \in S
    PROVE  \A n \in Nat : n \in S
<1> SUFFICES ASSUME NEW n \in Nat, n \notin S PROVE FALSE
  OBVIOUS
<1> DEFINE T == {k \in Nat : k \notin S}
           R == OpToRel(<, Nat)
<1>1. PICK m \in T : \A y \in T : ~(<<y, m>> \in R)
  <2>1. T \subseteq Nat /\ T # {}
    OBVIOUS
  <2> HIDE DEF T
  <2>. QED BY <2>1, NatLessThanWellFounded, WFMin
<1>2. m - 1 \in Nat /\ m - 1 < m
  OBVIOUS
<1>3. m - 1 \notin T
  BY <1>1, <1>2 DEF OpToRel
<1>. QED BY <1>2, <1>3

(* u is s followed by t.                                                   *)
IsConcat(u, s, t) ==
    /\ Len(s) \in Nat /\ Len(t) \in Nat /\ Len(u) = Len(s) + Len(t)
    /\ DOMAIN s = 1..Len(s) /\ DOMAIN t = 1..Len(t) /\ DOMAIN u = 1..Len(u)
    /\ \A i \in 1..Len(s) : u[i] = s[i]
    /\ \A i \in 1..Len(t) : u[Len(s) + i] = t[i]

LEMMA ConcatIs ==
    ASSUME NEW S, NEW s \in Seq(S), NEW t \in Seq(S)
    PROVE  s \o t \in Seq(S) /\ IsConcat(s \o t, s, t)
BY DEF IsConcat

-----------------------------------------------------------------------------
(* The loop of execute.                                                    *)

IsRun(f, n, entries, start, behaviour) ==
    f = [i \in 0..n |-> IF i = 0 THEN start ELSE Observe(f[i - 1], entries[i], behaviour[i])]

LEMMA RunExists ==
    ASSUME NEW entries, NEW start, NEW behaviour
    PROVE  \A n \in Nat : \E f : IsRun(f, n, entries, start, behaviour)
<1> DEFINE Turn(f, i) == IF i = 0 THEN start ELSE Observe(f[i - 1], entries[i], behaviour[i])
           S == {n \in Nat : \E f : IsRun(f, n, entries, start, behaviour)}
<1>1. 0 \in S
  <2> DEFINE f == [i \in 0..0 |-> start]
  <2>1. f = [i \in 0..0 |-> Turn(f, i)]
    OBVIOUS
  <2>2. IsRun(f, 0, entries, start, behaviour)
    BY <2>1 DEF IsRun
  <2>. QED BY <2>2
<1>2. ASSUME NEW n \in Nat, n \in S PROVE n + 1 \in S
  <2>1. PICK f : f = [i \in 0..n |-> Turn(f, i)]
    BY <1>2 DEF IsRun
  <2> DEFINE g == [i \in 0..(n + 1) |->
                      IF i <= n THEN f[i] ELSE Observe(f[n], entries[i], behaviour[i])]
  <2>2. ASSUME NEW i \in 0..(n + 1) PROVE g[i] = Turn(g, i)
    <3>1. CASE i <= n
      <4>1. g[i] = f[i] /\ f[i] = Turn(f, i)
        BY <2>1, <3>1
      <4>2. i # 0 => g[i - 1] = f[i - 1]
        BY <3>1
      <4>. QED BY <4>1, <4>2
    <3>2. CASE i = n + 1
      <4>1. g[i - 1] = f[n]
        BY <3>2
      <4>. QED BY <3>2, <4>1
    <3>. QED BY <3>1, <3>2
  <2>3. g = [i \in 0..(n + 1) |-> Turn(g, i)]
    BY <2>2
  <2>4. IsRun(g, n + 1, entries, start, behaviour)
    BY <2>3 DEF IsRun
  <2> HIDE DEF g
  <2>. QED BY <2>4
<1> HIDE DEF S
<1>3. \A n \in Nat : n \in S
  BY <1>1, <1>2, SetInduction
<1>. QED BY <1>3 DEF S

LEMMA TurnsRun ==
    ASSUME NEW entries, NEW start, NEW behaviour, Len(entries) \in Nat
    PROVE  IsRun(Turns(entries, start, behaviour), Len(entries), entries, start, behaviour)
<1>1. Turns(entries, start, behaviour)
        = CHOOSE f : IsRun(f, Len(entries), entries, start, behaviour)
  BY DEF Turns, IsRun
<1>2. \E f : IsRun(f, Len(entries), entries, start, behaviour)
  BY RunExists
<1>. QED BY <1>1, <1>2

-----------------------------------------------------------------------------
(* What plans are made of, and what their execution leaves.                *)

(* Only providers' handlers stand for constraints at every signal; the      *)
(* planner's own are a runner that fails and the mapper of the resource.   *)
PlanEntry ==
    { e \in [signal : Signal, priority : Int, shape : DOMAIN ShapeOrder,
             tag : {"obligation", "advice"}, constraint : Constraint \cup {Replacement},
             handler : {"claimed", "fail", "substitute"}] :
        /\ e.handler = "claimed" => e.constraint \in Constraint
        /\ e.handler = "fail" => e.shape = "runner"
        /\ e.handler = "substitute" => e.signal = "output" /\ e.shape = "mapper" }

Outcomes == {"undefined", "returns", "odd", "throws"}

Call(entry, behaviour) == [entry |-> entry, outcome |-> Outcome(entry, behaviour)]

Calls == [entry : PlanEntry, outcome : Outcomes]

Trails == Seq(Constraint \cup {Replacement, Odd})

Values == {Absent} \cup [kind : {"present"}, value : Trails]

Fails(entry, behaviour, value) ==
    IsCalled(entry, value) /\ Outcome(entry, behaviour) = "throws" /\ entry.tag = "obligation"

(* After k turns: no value appears or vanishes, the failure is that of an   *)
(* obligation that threw, and the calls are those of the entries that are  *)
(* called, in their order.                                                 *)
Kept(r, k, entries, value, behaviour) ==
    /\ r = [value |-> r.value, failure |-> r.failure, called |-> r.called]
    /\ r.value \in Values
    /\ r.value.kind = value.kind
    /\ (\A i \in 1..k : entries[i].handler # "substitute") /\ value = Present(Raw)
          => r.value.value \in Seq(Constraint \cup {Odd})

Blamed(r, k, entries, value, failure, behaviour) ==
    /\ r.failure \in BOOLEAN
    /\ r.failure <=> failure \/ \E i \in 1..k : Fails(entries[i], behaviour[i], value)

CallsAll(r, k, entries, value, behaviour) ==
    /\ r.called \in Seq(Calls)
    /\ \A i \in 1..k : IsCalled(entries[i], value) =>
          \E m \in DOMAIN r.called : r.called[m] = Call(entries[i], behaviour[i])
    /\ \A m \in DOMAIN r.called : \E i \in 1..k : r.called[m] = Call(entries[i], behaviour[i])
    /\ \A m, l \in DOMAIN r.called : m < l =>
          \E i, j \in 1..k : /\ i < j
                             /\ r.called[m] = Call(entries[i], behaviour[i])
                             /\ r.called[l] = Call(entries[j], behaviour[j])
    /\ value.kind = "present" => Len(r.called) = k

(* What the handler of entry k does is one of the outcomes there are.       *)
Behaves(entries, behaviour) ==
    \A k \in DOMAIN entries :
        /\ behaviour[k] \in Outcomes
        /\ entries[k].handler = "claimed" => behaviour[k] \in MayDo(entries[k])

LEMMA BehavioursBehave ==
    ASSUME NEW p, NEW signal \in Signal, p[signal] \in Seq(PlanEntry),
           NEW b \in Behaviours(p, signal)
    PROVE  Behaves(p[signal], b)
<1> USE DEF Behaviours
<1>1. SUFFICES ASSUME NEW k \in DOMAIN p[signal]
               PROVE  /\ b[k] \in Outcomes
                      /\ p[signal][k].handler = "claimed" => b[k] \in MayDo(p[signal][k])
  BY DEF Behaves
<1>2. b[k] \in IF p[signal][k].handler = "claimed" THEN MayDo(p[signal][k]) ELSE {"undefined"}
  BY <1>1
<1>. QED BY <1>2 DEF MayDo, Outcomes

LEMMA OutcomeTyped ==
    ASSUME NEW e \in PlanEntry, NEW behaviour \in Outcomes
    PROVE  Outcome(e, behaviour) \in Outcomes
BY Zenon DEF Outcome, Outcomes

LEMMA MappedIs ==
    ASSUME NEW e, NEW how, NEW trail
    PROVE  /\ e.handler = "substitute" => Mapped(e, how, trail) = << Replacement >>
           /\ e.handler # "substitute" =>
                 Mapped(e, how, trail) \in {Append(trail, Odd), Append(trail, e.constraint), trail}
<1>1. CASE e.handler = "substitute"
  BY <1>1, Zenon DEF Mapped
<1>2. CASE e.handler # "substitute" /\ how = "odd"
  BY <1>2, Zenon DEF Mapped
<1>3. CASE e.handler # "substitute" /\ how # "odd" /\ how = "returns"
  BY <1>3, Zenon DEF Mapped
<1>4. CASE e.handler # "substitute" /\ how # "odd" /\ how # "returns"
  BY <1>4, Zenon DEF Mapped
<1>. QED BY <1>1, <1>2, <1>3, <1>4

LEMMA AfterKeeps ==
    ASSUME NEW e \in PlanEntry, NEW how \in Outcomes, NEW v \in Values, IsCalled(e, v)
    PROVE  /\ After(e, how, v) \in Values
           /\ After(e, how, v).kind = v.kind
           /\ v.kind = "present" /\ e.handler # "substitute" /\ v.value \in Seq(Constraint \cup {Odd})
                 => After(e, how, v).value \in Seq(Constraint \cup {Odd})
<1>1. CASE e.shape # "mapper"
  BY <1>1 DEF After
<1>2. CASE e.shape = "mapper"
  <2>1. v.kind = "present" /\ v.value \in Trails
    BY <1>2 DEF IsCalled, Values, Absent
  <2> DEFINE m == Mapped(e, how, v.value)
  <2>2. e.handler # "fail"
    BY <1>2 DEF PlanEntry
  <2>3. e.handler = "substitute" \/ e.constraint \in Constraint
    BY <2>2 DEF PlanEntry
  <2>4. /\ e.handler = "substitute" => m = << Replacement >>
        /\ e.handler # "substitute" => m \in {Append(v.value, Odd), Append(v.value, e.constraint), v.value}
    BY MappedIs
  <2>5. After(e, how, v) = [kind |-> "present", value |-> m]
    BY <1>2 DEF After, Present
  <2> HIDE DEF m
  <2>6. m \in Trails
    <3>1. << Replacement >> \in Trails
      BY DEF Trails
    <3>2. e.handler # "substitute" => m \in Trails
      BY <2>1, <2>3, <2>4 DEF Trails
    <3>. QED BY <2>4, <3>1, <3>2
  <2>7. e.handler # "substitute" /\ v.value \in Seq(Constraint \cup {Odd})
            => m \in Seq(Constraint \cup {Odd})
    BY <2>3, <2>4
  <2>. QED BY <2>1, <2>5, <2>6, <2>7 DEF Values
<1>. QED BY <1>1, <1>2

(* One turn of the loop.                                                   *)
LEMMA TurnKeeps ==
    ASSUME NEW entries \in Seq(PlanEntry), NEW behaviour, Behaves(entries, behaviour),
           NEW value \in Values, NEW failure \in BOOLEAN,
           NEW k \in Nat, k + 1 \in 1..Len(entries), NEW r,
           Kept(r, k, entries, value, behaviour),
           Blamed(r, k, entries, value, failure, behaviour),
           CallsAll(r, k, entries, value, behaviour)
    PROVE  LET s == Observe(r, entries[k + 1], behaviour[k + 1])
           IN  /\ Kept(s, k + 1, entries, value, behaviour)
               /\ Blamed(s, k + 1, entries, value, failure, behaviour)
               /\ CallsAll(s, k + 1, entries, value, behaviour)
<1> DEFINE e == entries[k + 1]
           b == behaviour[k + 1]
           how == Outcome(e, b)
           s == Observe(r, e, b)
<1>1. e \in PlanEntry /\ b \in Outcomes /\ how \in Outcomes
  BY OutcomeTyped DEF Behaves
<1>2. IsCalled(e, r.value) <=> IsCalled(e, value)
  BY DEF IsCalled, Kept
<1>3. 1..(k + 1) = (1..k) \cup {k + 1}
  OBVIOUS
<1>4. CASE ~IsCalled(e, value)
  <2>1. s = r
    BY <1>2, <1>4 DEF Observe
  <2>2. Kept(r, k + 1, entries, value, behaviour)
    BY <1>3 DEF Kept
  <2>3. Blamed(r, k + 1, entries, value, failure, behaviour)
    BY <1>3, <1>4 DEF Blamed, Fails
  <2>4. CallsAll(r, k + 1, entries, value, behaviour)
    <3>1. value.kind # "present"
      BY <1>4 DEF IsCalled
    <3>. QED BY <1>3, <1>4, <3>1 DEF CallsAll
  <2>. QED BY <2>1, <2>2, <2>3, <2>4
<1>5. CASE IsCalled(e, value)
  <2> DEFINE c == Call(e, b)
  <2>1. s = [value   |-> After(e, how, r.value),
             failure |-> r.failure \/ (how = "throws" /\ e.tag = "obligation"),
             called  |-> Append(r.called, c)]
    BY <1>2, <1>5 DEF Observe, Call
  <2>2. c \in Calls
    BY <1>1 DEF Call, Calls
  <2> HIDE DEF s, c, how
  <2>3. Kept(s, k + 1, entries, value, behaviour)
    <3>1. r.value \in Values /\ IsCalled(e, r.value)
      BY <1>2, <1>5 DEF Kept
    <3>2. /\ After(e, how, r.value) \in Values
          /\ After(e, how, r.value).kind = r.value.kind
          /\ r.value.kind = "present" /\ e.handler # "substitute" /\ r.value.value \in Seq(Constraint \cup {Odd})
                => After(e, how, r.value).value \in Seq(Constraint \cup {Odd})
      BY <1>1, <3>1, AfterKeeps
    <3>3. value = Present(Raw) => value.kind = "present"
      BY DEF Present
    <3>. QED BY <1>3, <2>1, <3>2, <3>3 DEF Kept
  <2>4. Blamed(s, k + 1, entries, value, failure, behaviour)
    <3>1. Fails(e, b, value) <=> how = "throws" /\ e.tag = "obligation"
      BY <1>5 DEF Fails, how
    <3>2. s.failure = (r.failure \/ (how = "throws" /\ e.tag = "obligation"))
      BY <2>1
    <3>. QED BY <1>3, <3>1, <3>2 DEF Blamed
  <2>5. CallsAll(s, k + 1, entries, value, behaviour)
    <3> DEFINE old == r.called
    <3>1. old \in Seq(Calls) /\ Len(old) \in Nat /\ s.called = Append(old, c)
      BY <2>1 DEF CallsAll
    <3>2. /\ s.called \in Seq(Calls) /\ Len(s.called) = Len(old) + 1
          /\ DOMAIN s.called = DOMAIN old \cup {Len(old) + 1}
          /\ \A m \in DOMAIN old : s.called[m] = old[m]
          /\ s.called[Len(old) + 1] = Call(entries[k + 1], behaviour[k + 1])
      BY <2>2, <3>1 DEF c
    <3>3. ASSUME NEW i \in 1..(k + 1), IsCalled(entries[i], value)
          PROVE  \E m \in DOMAIN s.called : s.called[m] = Call(entries[i], behaviour[i])
      BY <1>3, <3>2, <3>3 DEF CallsAll
    <3>4. ASSUME NEW m \in DOMAIN s.called
          PROVE  \E i \in 1..(k + 1) : s.called[m] = Call(entries[i], behaviour[i])
      BY <1>3, <3>2 DEF CallsAll
    <3>5. ASSUME NEW m \in DOMAIN s.called, NEW l \in DOMAIN s.called, m < l
          PROVE  \E i, j \in 1..(k + 1) : /\ i < j
                                          /\ s.called[m] = Call(entries[i], behaviour[i])
                                          /\ s.called[l] = Call(entries[j], behaviour[j])
      <4>1. m \in DOMAIN old
        BY <3>1, <3>2, <3>5
      <4>2. CASE l \in DOMAIN old
        BY <1>3, <3>2, <3>5, <4>1, <4>2 DEF CallsAll
      <4>3. CASE l = Len(old) + 1
        <5>1. PICK i \in 1..k : old[m] = Call(entries[i], behaviour[i])
          BY <4>1 DEF CallsAll
        <5>2. i < k + 1 /\ i \in 1..(k + 1) /\ k + 1 \in 1..(k + 1)
          OBVIOUS
        <5>. QED BY <3>2, <4>1, <4>3, <5>1, <5>2
      <4>. QED BY <3>2, <4>2, <4>3
    <3>6. value.kind = "present" => Len(s.called) = k + 1
      BY <3>2 DEF CallsAll
    <3>. QED BY <3>2, <3>3, <3>4, <3>5, <3>6 DEF CallsAll
  <2>. QED BY <2>3, <2>4, <2>5 DEF s
<1>. QED BY <1>4, <1>5

(* The results of raising a signal, turn by turn.                           *)
RunOf(p, signal, value, failure, behaviour) ==
    Turns(p[signal], [value |-> value, failure |-> failure, called |-> << >>], behaviour)

LEMMA RunIs ==
    ASSUME NEW p, NEW signal, Len(p[signal]) \in Nat, NEW value, NEW failure, NEW behaviour
    PROVE  LET run == RunOf(p, signal, value, failure, behaviour) IN
           /\ run[0] = [value |-> value, failure |-> failure, called |-> << >>]
           /\ \A k \in 0..(Len(p[signal]) - 1) :
                 run[k + 1] = Observe(run[k], p[signal][k + 1], behaviour[k + 1])
           /\ run[Len(p[signal])] = Execute(p, signal, value, failure, behaviour)
<1> DEFINE n == Len(p[signal])
           start == [value |-> value, failure |-> failure, called |-> << >>]
           run == RunOf(p, signal, value, failure, behaviour)
<1>1. run = [i \in 0..n |-> IF i = 0 THEN start ELSE Observe(run[i - 1], p[signal][i], behaviour[i])]
  <2>1. IsRun(run, n, p[signal], start, behaviour)
    BY TurnsRun DEF RunOf
  <2>. QED BY <2>1 DEF IsRun
<1>2. run[n] = Execute(p, signal, value, failure, behaviour)
  BY DEF Execute, RunOf
<1> HIDE DEF run, n
<1>3. n \in Nat
  BY DEF n
<1>4. run[0] = start
  BY <1>1, <1>3
<1>5. ASSUME NEW k \in 0..(n - 1)
      PROVE  run[k + 1] = Observe(run[k], p[signal][k + 1], behaviour[k + 1])
  BY <1>1, <1>3
<1>. QED BY <1>2, <1>4, <1>5 DEF run, n

(* What is known after k turns, by induction.                               *)
LEMMA TurnsAre ==
    ASSUME NEW p, NEW signal \in Signal, p[signal] \in Seq(PlanEntry),
           NEW value \in Values, NEW failure \in BOOLEAN, NEW behaviour \in Behaviours(p, signal),
           NEW k \in 0..Len(p[signal])
    PROVE  LET r == RunOf(p, signal, value, failure, behaviour)[k]
           IN  /\ Kept(r, k, p[signal], value, behaviour)
               /\ Blamed(r, k, p[signal], value, failure, behaviour)
               /\ CallsAll(r, k, p[signal], value, behaviour)
<1> DEFINE entries == p[signal]
           n == Len(entries)
           start == [value |-> value, failure |-> failure, called |-> << >>]
           run == RunOf(p, signal, value, failure, behaviour)
           Good(i) == /\ Kept(run[i], i, entries, value, behaviour)
                      /\ Blamed(run[i], i, entries, value, failure, behaviour)
                      /\ CallsAll(run[i], i, entries, value, behaviour)
           S == {i \in Nat : i <= n => Good(i)}
<1>1. n \in Nat /\ entries \in Seq(PlanEntry) /\ Behaves(entries, behaviour)
  BY BehavioursBehave
<1>2. /\ run[0] = start
      /\ \A i \in 0..(n - 1) : run[i + 1] = Observe(run[i], entries[i + 1], behaviour[i + 1])
  BY <1>1, RunIs
<1> HIDE DEF run, entries, n
<1>3. Good(0)
  <2>1. Kept(start, 0, entries, value, behaviour)
    <3>1. value = Present(Raw) => value.value \in Seq(Constraint \cup {Odd})
      BY DEF Present, Raw
    <3>. QED BY <3>1 DEF Kept
  <2>2. Blamed(start, 0, entries, value, failure, behaviour)
    BY DEF Blamed
  <2>3. CallsAll(start, 0, entries, value, behaviour)
    BY DEF CallsAll
  <2>. QED BY <1>2, <2>1, <2>2, <2>3
<1>4. ASSUME NEW i \in Nat, i \in S PROVE i + 1 \in S
  <2>1. SUFFICES ASSUME i + 1 <= n PROVE Good(i + 1)
    OBVIOUS
  <2>2. Good(i) /\ i + 1 \in 1..Len(entries) /\ i \in 0..(n - 1)
    BY <1>1, <1>4, <2>1 DEF n
  <2>3. run[i + 1] = Observe(run[i], entries[i + 1], behaviour[i + 1])
    BY <1>2, <2>2
  <2>. QED BY <1>1, <2>2, <2>3, TurnKeeps
<1>5. 0 \in S
  BY <1>3
<1> HIDE DEF S
<1>6. \A i \in Nat : i \in S
  BY <1>4, <1>5, SetInduction
<1>7. k \in Nat /\ k <= n
  BY <1>1 DEF n, entries
<1>8. Good(k)
  BY <1>6, <1>7 DEF S
<1>. QED BY <1>8 DEF entries, run

(* What execute returns.                                                   *)
LEMMA ExecuteIs ==
    ASSUME NEW p, NEW signal \in Signal, p[signal] \in Seq(PlanEntry),
           NEW value \in Values, NEW failure \in BOOLEAN, NEW behaviour \in Behaviours(p, signal)
    PROVE  LET r == Execute(p, signal, value, failure, behaviour)
               n == Len(p[signal])
           IN  /\ Kept(r, n, p[signal], value, behaviour)
               /\ Blamed(r, n, p[signal], value, failure, behaviour)
               /\ CallsAll(r, n, p[signal], value, behaviour)
<1>1. Len(p[signal]) \in Nat /\ Len(p[signal]) \in 0..Len(p[signal])
  OBVIOUS
<1>2. RunOf(p, signal, value, failure, behaviour)[Len(p[signal])]
        = Execute(p, signal, value, failure, behaviour)
  BY DEF Execute, RunOf
<1>. QED BY <1>1, <1>2, TurnsAre

-----------------------------------------------------------------------------
(* The trail of a value.                                                   *)

(* A call that makes the value of signal s, and the mark it leaves.         *)
Maps(call, s) ==
    /\ call.entry.signal = s
    /\ call.entry.shape = "mapper"
    /\ call.outcome \in {"returns", "odd"}

Mark(call) == IF call.outcome = "odd" THEN Odd ELSE call.entry.constraint

(* g leads from each mark of a trail to the call that left it: the mappers  *)
(* of s among cs, each once and in the order of their calls.               *)
Tracks(g, trail, cs, s) ==
    /\ g \in [DOMAIN trail -> DOMAIN cs]
    /\ \A i \in DOMAIN trail :
          /\ Maps(cs[g[i]], s)
          /\ trail[i] = Mark(cs[g[i]])
          /\ cs[g[i]].outcome = "odd" => s # "output"
    /\ \A i, j \in DOMAIN trail : i < j => g[i] < g[j]
    /\ \A k \in DOMAIN cs : Maps(cs[k], s) => \E i \in DOMAIN trail : g[i] = k

MadeBy(trail, cs, s) == \E g : Tracks(g, trail, cs, s)

LEMMA NoTrail == ASSUME NEW s PROVE MadeBy(<< >>, << >>, s)
<1> DEFINE g == [i \in {} |-> 0]
<1>1. Tracks(g, << >>, << >>, s)
  BY DEF Tracks
<1> HIDE DEF g
<1>. QED BY <1>1 DEF MadeBy

LEMMA TrailIsEmpty ==
    ASSUME NEW trail \in Trails, NEW cs, NEW s, MadeBy(trail, cs, s),
           \A k \in DOMAIN cs : ~Maps(cs[k], s)
    PROVE  trail = << >>
<1>1. DOMAIN trail = {}
  BY DEF MadeBy, Tracks
<1>. QED BY <1>1 DEF Trails

LEMMA TrailStays ==
    ASSUME NEW trail, NEW cs \in Seq(Calls), NEW c \in Calls, NEW s, MadeBy(trail, cs, s), ~Maps(c, s)
    PROVE  MadeBy(trail, Append(cs, c), s)
<1> DEFINE u == Append(cs, c)
<1>1. PICK g : Tracks(g, trail, cs, s)
  BY DEF MadeBy
<1>2. /\ DOMAIN u = DOMAIN cs \cup {Len(cs) + 1}
      /\ \A k \in DOMAIN cs : u[k] = cs[k]
      /\ u[Len(cs) + 1] = c
  OBVIOUS
<1> HIDE DEF u
<1>3. g \in [DOMAIN trail -> DOMAIN cs]
  BY <1>1 DEF Tracks
<1>4. \A i \in DOMAIN trail : u[g[i]] = cs[g[i]]
  BY <1>2, <1>3
<1>5. g \in [DOMAIN trail -> DOMAIN u]
  BY <1>2, <1>3
<1>6. \A k \in DOMAIN u : Maps(u[k], s) => k \in DOMAIN cs /\ Maps(cs[k], s)
  BY <1>2
<1>7. Tracks(g, trail, u, s)
  BY <1>1, <1>4, <1>5, <1>6 DEF Tracks
<1>. QED BY <1>7 DEF MadeBy, u

LEMMA TrailGrows ==
    ASSUME NEW trail \in Trails, NEW cs \in Seq(Calls), NEW c \in Calls, NEW s,
           MadeBy(trail, cs, s), Maps(c, s), c.outcome = "odd" => s # "output"
    PROVE  MadeBy(Append(trail, Mark(c)), Append(cs, c), s)
<1> DEFINE u == Append(cs, c)
           t == Append(trail, Mark(c))
           n == Len(trail)
           l == Len(cs)
<1>1. PICK g : Tracks(g, trail, cs, s)
  BY DEF MadeBy
<1> DEFINE h == [i \in 1..(n + 1) |-> IF i <= n THEN g[i] ELSE l + 1]
<1>2. /\ n \in Nat /\ l \in Nat /\ DOMAIN trail = 1..n /\ DOMAIN cs = 1..l
      /\ DOMAIN u = 1..(l + 1) /\ DOMAIN t = 1..(n + 1)
      /\ \A k \in 1..l : u[k] = cs[k]
      /\ u[l + 1] = c
      /\ \A i \in 1..n : t[i] = trail[i]
      /\ t[n + 1] = Mark(c)
  BY DEF Trails
<1> HIDE DEF u, t, n, l
<1>3. g \in [1..n -> 1..l]
  BY <1>1, <1>2 DEF Tracks
<1>4. /\ DOMAIN h = 1..(n + 1) /\ h[n + 1] = l + 1
      /\ \A i \in 1..n : h[i] = g[i] /\ h[i] \in 1..l
  BY <1>2, <1>3
<1>5. h \in [1..(n + 1) -> 1..(l + 1)]
  BY <1>2, <1>3
<1> HIDE DEF h
<1>6. \A i \in 1..(n + 1) : i \in 1..n \/ i = n + 1
  BY <1>2
<1>7. ASSUME NEW i \in 1..(n + 1)
      PROVE  /\ Maps(u[h[i]], s)
             /\ t[i] = Mark(u[h[i]])
             /\ u[h[i]].outcome = "odd" => s # "output"
  <2>1. CASE i \in 1..n
    <3>1. u[h[i]] = cs[g[i]] /\ t[i] = trail[i]
      BY <1>2, <1>4, <2>1
    <3>. QED BY <1>1, <1>2, <2>1, <3>1 DEF Tracks
  <2>2. CASE i = n + 1
    BY <1>2, <1>4, <2>2
  <2>. QED BY <1>6, <2>1, <2>2
<1>8. ASSUME NEW i \in 1..(n + 1), NEW j \in 1..(n + 1), i < j PROVE h[i] < h[j]
  <2>1. i \in 1..n
    BY <1>2, <1>8
  <2>2. CASE j \in 1..n
    BY <1>1, <1>2, <1>4, <1>8, <2>1, <2>2 DEF Tracks
  <2>3. CASE j = n + 1
    BY <1>2, <1>4, <2>1, <2>3
  <2>. QED BY <1>6, <2>2, <2>3
<1>9. ASSUME NEW k \in 1..(l + 1), Maps(u[k], s) PROVE \E i \in 1..(n + 1) : h[i] = k
  <2>1. CASE k = l + 1
    <3>1. n + 1 \in 1..(n + 1)
      BY <1>2
    <3>. QED BY <1>4, <2>1, <3>1
  <2>2. CASE k \in 1..l
    <3>1. PICK i \in 1..n : g[i] = k
      BY <1>1, <1>2, <1>9, <2>2 DEF Tracks
    <3>2. i \in 1..(n + 1)
      BY <1>2
    <3>. QED BY <1>4, <3>1, <3>2
  <2>. QED BY <1>2, <2>1, <2>2
<1>10. Tracks(h, t, u, s)
  BY <1>2, <1>5, <1>7, <1>8, <1>9 DEF Tracks
<1>. QED BY <1>10 DEF MadeBy, u, t

(* The replacement of the resource is the first mapper, if there is any.    *)
SubstituteFirst(entries) ==
    \A k \in DOMAIN entries : entries[k].handler = "substitute" =>
        /\ entries[k].constraint = Replacement
        /\ \A i \in DOMAIN entries : i < k => entries[i].shape # "mapper"

(* One turn of the loop: a mapper that returns a value leaves its mark.      *)
LEMMA TurnMakes ==
    ASSUME NEW r, NEW e \in PlanEntry, NEW b \in Outcomes,
           e.handler = "claimed" => b \in MayDo(e),
           r.value \in Values, r.value.kind = "present", r.called \in Seq(Calls),
           MadeBy(r.value.value, r.called, e.signal),
           e.handler = "substitute" => /\ e.constraint = Replacement
                                       /\ \A k \in DOMAIN r.called : ~Maps(r.called[k], e.signal)
    PROVE  MadeBy(Observe(r, e, b).value.value, Observe(r, e, b).called, e.signal)
<1> DEFINE how == Outcome(e, b)
           c == Call(e, b)
           v == r.value.value
           s == Observe(r, e, b)
<1>1. IsCalled(e, r.value)
  BY DEF IsCalled
<1>2. s.value = After(e, how, r.value) /\ s.called = Append(r.called, c)
  BY <1>1 DEF Observe, Call
<1>3. c.entry = e /\ c.outcome = how
  BY DEF Call
<1>4. c \in Calls
  BY OutcomeTyped DEF Call, Calls
<1>5. v \in Trails
  BY DEF Values, Absent
<1> HIDE DEF s, c
<1>6. CASE e.shape # "mapper"
  <2>1. s.value = r.value /\ ~Maps(c, e.signal)
    BY <1>2, <1>3, <1>6 DEF After, Maps
  <2>. QED BY <1>2, <1>4, <2>1, TrailStays DEF s
<1>7. CASE e.shape = "mapper"
  <2> DEFINE m == Mapped(e, how, v)
  <2>1. s.value.value = m
    BY <1>2, <1>7 DEF After, Present
  <2>2. e.handler # "fail" /\ e.handler \in {"claimed", "fail", "substitute"}
    BY <1>7 DEF PlanEntry
  <2>3. CASE e.handler = "substitute"
    <3>1. how = "returns"
      BY <2>3, Zenon DEF Outcome
    <3>2. Maps(c, e.signal) /\ Mark(c) = Replacement
      BY <1>3, <1>7, <2>3, <3>1 DEF Maps, Mark
    <3>3. v = << >>
      BY <1>5, <2>3, TrailIsEmpty
    <3>4. m = Append(v, Mark(c))
      BY <2>3, <3>2, <3>3, MappedIs
    <3>5. MadeBy(Append(v, Mark(c)), Append(r.called, c), e.signal)
      BY <1>3, <1>4, <1>5, <3>1, <3>2, TrailGrows
    <3>. QED BY <1>2, <2>1, <3>4, <3>5 DEF s
  <2>4. CASE e.handler = "claimed"
    <3>1. how = b
      BY <2>4, Zenon DEF Outcome
    <3>2. how = "odd" => e.signal # "output"
      BY <2>4, <3>1 DEF MayDo
    <3>3. CASE how \in {"returns", "odd"}
      <4>1. Maps(c, e.signal)
        BY <1>3, <1>7, <3>3 DEF Maps
      <4>2. m = Append(v, Mark(c))
        <5>1. how = "odd" => m = Append(v, Odd)
          BY <2>4, Zenon DEF Mapped
        <5>2. how # "odd" => m = Append(v, e.constraint)
          BY <2>4, <3>3, Zenon DEF Mapped
        <5>. QED BY <1>3, <5>1, <5>2 DEF Mark
      <4>3. MadeBy(Append(v, Mark(c)), Append(r.called, c), e.signal)
        BY <1>3, <1>4, <1>5, <3>2, <4>1, TrailGrows
      <4>. QED BY <1>2, <2>1, <4>2, <4>3 DEF s
    <3>4. CASE how \notin {"returns", "odd"}
      <4>1. ~Maps(c, e.signal)
        BY <1>3, <3>4 DEF Maps
      <4>2. m = v
        BY <2>4, <3>4, Zenon DEF Mapped
      <4>. QED BY <1>2, <1>4, <2>1, <4>1, <4>2, TrailStays DEF s
    <3>. QED BY <3>3, <3>4
  <2>. QED BY <2>2, <2>3, <2>4
<1>. QED BY <1>6, <1>7

(* A value raised raw is what the mappers that were called made of it.      *)
LEMMA ExecuteMakes ==
    ASSUME NEW p, NEW signal \in Signal, p[signal] \in Seq(PlanEntry),
           \A i \in DOMAIN p[signal] : p[signal][i].signal = signal,
           SubstituteFirst(p[signal]),
           NEW failure \in BOOLEAN, NEW behaviour \in Behaviours(p, signal)
    PROVE  LET r == Execute(p, signal, Present(Raw), failure, behaviour)
           IN  MadeBy(r.value.value, r.called, signal)
<1> DEFINE entries == p[signal]
           n == Len(entries)
           value == Present(Raw)
           run == RunOf(p, signal, value, failure, behaviour)
           Good(i) == MadeBy(run[i].value.value, run[i].called, signal)
           S == {i \in Nat : i <= n => Good(i)}
<1>1. /\ n \in Nat /\ entries \in Seq(PlanEntry) /\ DOMAIN entries = 1..n
      /\ Behaves(entries, behaviour)
  BY BehavioursBehave
<1>2. value \in Values /\ value.kind = "present" /\ value.value = << >>
  BY DEF Values, Present, Raw, Trails
<1>3. ASSUME NEW i \in 0..n
      PROVE  Kept(run[i], i, entries, value, behaviour) /\ CallsAll(run[i], i, entries, value, behaviour)
  BY <1>2, TurnsAre
<1>4. /\ run[0] = [value |-> value, failure |-> failure, called |-> << >>]
      /\ \A i \in 0..(n - 1) : run[i + 1] = Observe(run[i], entries[i + 1], behaviour[i + 1])
      /\ run[n] = Execute(p, signal, value, failure, behaviour)
  BY <1>1, RunIs
<1>5. /\ \A i \in 1..n : entries[i].signal = signal
      /\ SubstituteFirst(entries)
  BY <1>1
<1> HIDE DEF run, entries, n, value
<1>6. 0 \in S
  BY <1>2, <1>4, NoTrail
<1>7. ASSUME NEW i \in Nat, i \in S PROVE i + 1 \in S
  <2>1. SUFFICES ASSUME i + 1 <= n PROVE Good(i + 1)
    OBVIOUS
  <2> DEFINE e == entries[i + 1]
             r == run[i]
  <2>2. i \in 0..n /\ i \in 0..(n - 1) /\ i + 1 \in 1..n /\ Good(i)
    BY <1>1, <1>7, <2>1
  <2>3. e \in PlanEntry /\ e.signal = signal
    BY <1>1, <1>5, <2>2
  <2>4. behaviour[i + 1] \in Outcomes /\ (e.handler = "claimed" => behaviour[i + 1] \in MayDo(e))
    BY <1>1, <2>2 DEF Behaves
  <2>5. r.value \in Values /\ r.value.kind = "present" /\ r.called \in Seq(Calls)
    BY <1>2, <1>3, <2>2 DEF Kept, CallsAll
  <2>6. ASSUME e.handler = "substitute", NEW k \in DOMAIN r.called
        PROVE  e.constraint = Replacement /\ ~Maps(r.called[k], signal)
    <3>1. PICK j \in 1..i : r.called[k] = Call(entries[j], behaviour[j])
      BY <1>3, <2>2 DEF CallsAll
    <3>2. j \in 1..n /\ j < i + 1
      BY <1>1, <2>2
    <3>3. entries[j].shape # "mapper" /\ e.constraint = Replacement
      BY <1>1, <1>5, <2>2, <2>6, <3>2 DEF SubstituteFirst
    <3>. QED BY <3>1, <3>3 DEF Maps, Call
  <2>7. e.handler = "substitute" => e.constraint = Replacement
    BY <1>1, <1>5, <2>2 DEF SubstituteFirst
  <2>8. run[i + 1] = Observe(r, e, behaviour[i + 1])
    BY <1>4, <2>2
  <2>9. MadeBy(r.value.value, r.called, e.signal)
    BY <2>2, <2>3
  <2> HIDE DEF e, r
  <2>10. MadeBy(Observe(r, e, behaviour[i + 1]).value.value, Observe(r, e, behaviour[i + 1]).called, e.signal)
    BY <2>3, <2>4, <2>5, <2>6, <2>7, <2>9, TurnMakes
  <2>. QED BY <2>3, <2>8, <2>10
<1> HIDE DEF S
<1>8. \A i \in Nat : i \in S
  BY <1>6, <1>7, SetInduction
<1>9. Good(n)
  BY <1>1, <1>8 DEF S
<1>. QED BY <1>4, <1>9 DEF value

-----------------------------------------------------------------------------
(* The sort of a bucket.                                                   *)

Resolutions == Seq(Seq(PlanEntry))

LEMMA BucketFinite ==
    ASSUME NEW rs \in Resolutions, NEW signal
    PROVE  /\ IsFiniteSet(Bucket(rs, signal))
           /\ \A p \in Bucket(rs, signal) :
                 /\ p = << p[1], p[2] >>
                 /\ p[1] \in DOMAIN rs /\ p[2] \in DOMAIN rs[p[1]]
                 /\ p[1] \in Nat /\ p[2] \in Nat
                 /\ At(rs, p) \in PlanEntry
                 /\ At(rs, p).signal = signal
<1> USE DEF Resolutions
<1> DEFINE Row(i) == {i} \X DOMAIN rs[i]
           rows == { Row(i) : i \in DOMAIN rs }
<1>1. ASSUME NEW i \in DOMAIN rs PROVE IsFiniteSet(Row(i))
  <2>1. DOMAIN rs[i] = 1..Len(rs[i]) /\ Len(rs[i]) \in Nat
    OBVIOUS
  <2>2. IsFiniteSet({i})
    BY FS_Singleton
  <2>3. IsFiniteSet(1..Len(rs[i]))
    BY <2>1, FS_Interval
  <2>4. IsFiniteSet(DOMAIN rs[i])
    BY <2>1, <2>3
  <2>. QED BY <2>2, <2>4, FS_Product
<1>2. IsFiniteSet(rows)
  <2>1. DOMAIN rs = 1..Len(rs) /\ Len(rs) \in Nat
    OBVIOUS
  <2>2. IsFiniteSet(DOMAIN rs)
    BY <2>1, FS_Interval
  <2> DEFINE f == [i \in DOMAIN rs |-> Row(i)]
  <2>3. f \in Surjection(DOMAIN rs, rows)
    BY DEF Surjection
  <2>. QED BY <2>2, <2>3, FS_Surjection
<1>3. IsFiniteSet(UNION rows)
  <2>1. \A T \in rows : IsFiniteSet(T)
    BY <1>1
  <2> HIDE DEF rows
  <2>. QED BY <1>2, <2>1, FS_UNION
<1>4. Bucket(rs, signal) \subseteq UNION rows
  BY DEF Bucket, Places
<1>5. IsFiniteSet(Bucket(rs, signal))
  <2> HIDE DEF rows
  <2>. QED BY <1>3, <1>4, FS_Subset
<1>6. ASSUME NEW p \in Bucket(rs, signal)
      PROVE  /\ p = << p[1], p[2] >>
             /\ p[1] \in DOMAIN rs /\ p[2] \in DOMAIN rs[p[1]]
             /\ p[1] \in Nat /\ p[2] \in Nat
             /\ At(rs, p) \in PlanEntry
             /\ At(rs, p).signal = signal
  <2>1. PICK i \in DOMAIN rs : p \in {i} \X DOMAIN rs[i]
    BY <1>6 DEF Bucket, Places
  <2>2. p = << p[1], p[2] >> /\ p[1] = i /\ p[2] \in DOMAIN rs[i]
    BY <2>1
  <2>3. rs[i] \in Seq(PlanEntry)
    OBVIOUS
  <2>. QED BY <1>6, <2>2, <2>3 DEF Bucket, At
<1>. QED BY <1>5, <1>6

(* By priority, then by shape, then by the order of arrival: a strict total *)
(* order on the places of a bucket.                                        *)
LEMMA BeforeIsOrder ==
    ASSUME NEW rs \in Resolutions, NEW signal,
           NEW p \in Bucket(rs, signal), NEW q \in Bucket(rs, signal), NEW r \in Bucket(rs, signal)
    PROVE  /\ ~RunsBefore(rs, p, p)
           /\ RunsBefore(rs, p, q) /\ RunsBefore(rs, q, r) => RunsBefore(rs, p, r)
           /\ p # q => RunsBefore(rs, p, q) \/ RunsBefore(rs, q, p)
<1>1. \A x \in {p, q, r} : /\ x = << x[1], x[2] >> /\ x[1] \in Nat /\ x[2] \in Nat
                           /\ At(rs, x) \in PlanEntry
  BY BucketFinite
<1>2. \A s \in DOMAIN ShapeOrder : ShapeOrder[s] \in Nat
  BY DEF ShapeOrder
<1>3. \A s, t \in DOMAIN ShapeOrder : ShapeOrder[s] = ShapeOrder[t] => s = t
  BY DEF ShapeOrder
<1> DEFINE a == At(rs, p)  b == At(rs, q)  c == At(rs, r)
<1>4. /\ a.priority \in Int /\ b.priority \in Int /\ c.priority \in Int
      /\ a.shape \in DOMAIN ShapeOrder /\ b.shape \in DOMAIN ShapeOrder /\ c.shape \in DOMAIN ShapeOrder
  BY <1>1 DEF PlanEntry
<1> HIDE DEF a, b, c
<1>5. p # q => p[1] # q[1] \/ p[2] # q[2]
  BY <1>1
<1>. QED BY <1>1, <1>2, <1>3, <1>4, <1>5 DEF RunsBefore, a, b, c

(* An entry's rank is its place in the sorted bucket: every entry has one   *)
(* of its own, and every place has an entry.                               *)
LEMMA RankIsPlace ==
    ASSUME NEW rs \in Resolutions, NEW signal
    PROVE  LET B == Bucket(rs, signal)
               N == Cardinality(B)
           IN  /\ N \in Nat
               /\ \A p \in B : Rank(rs, B, p) \in 0..(N - 1)
               /\ \A p, q \in B : RunsBefore(rs, p, q) => Rank(rs, B, p) < Rank(rs, B, q)
               /\ \A p, q \in B : p # q => Rank(rs, B, p) # Rank(rs, B, q)
               /\ \A k \in 0..(N - 1) : \E p \in B : Rank(rs, B, p) = k
<1> DEFINE B == Bucket(rs, signal)
           N == Cardinality(B)
           Lower(p) == { q \in B : RunsBefore(rs, q, p) }
<1>1. IsFiniteSet(B) /\ N \in Nat
  BY BucketFinite, FS_CardinalityType
<1>2. \A p, q, r \in B : /\ ~RunsBefore(rs, p, p)
                         /\ RunsBefore(rs, p, q) /\ RunsBefore(rs, q, r) => RunsBefore(rs, p, r)
                         /\ p # q => RunsBefore(rs, p, q) \/ RunsBefore(rs, q, p)
  BY BeforeIsOrder
<1>3. \A p \in B : Rank(rs, B, p) = Cardinality(Lower(p))
  BY DEF Rank
<1> HIDE DEF B
<1>4. ASSUME NEW p \in B PROVE IsFiniteSet(Lower(p)) /\ Cardinality(Lower(p)) \in Nat
  <2>1. Lower(p) \in SUBSET B
    OBVIOUS
  <2> HIDE DEF Lower
  <2>. QED BY <1>1, <2>1, FS_Subset, FS_CardinalityType
<1>5. ASSUME NEW p \in B PROVE Rank(rs, B, p) \in 0..(N - 1)
  <2>1. Lower(p) \in SUBSET B /\ Lower(p) # B
    BY <1>2
  <2> HIDE DEF Lower
  <2>2. Cardinality(Lower(p)) <= N /\ Cardinality(Lower(p)) # N
    BY <1>1, <2>1, FS_Subset
  <2>. QED BY <1>1, <1>3, <1>4, <2>2
<1>6. ASSUME NEW p \in B, NEW q \in B, RunsBefore(rs, p, q)
      PROVE  Rank(rs, B, p) < Rank(rs, B, q)
  <2>1. Lower(p) \in SUBSET Lower(q)
    BY <1>2, <1>6
  <2>2. p \in Lower(q) /\ p \notin Lower(p)
    BY <1>2, <1>6
  <2> HIDE DEF Lower
  <2>3. Cardinality(Lower(p)) <= Cardinality(Lower(q)) /\ Cardinality(Lower(p)) # Cardinality(Lower(q))
    BY <1>4, <2>1, <2>2, FS_Subset
  <2>. QED BY <1>3, <1>4, <2>3
<1>7. ASSUME NEW p \in B, NEW q \in B, p # q PROVE Rank(rs, B, p) # Rank(rs, B, q)
  <2>1. Rank(rs, B, p) \in Nat /\ Rank(rs, B, q) \in Nat
    BY <1>3, <1>4
  <2>. QED BY <1>2, <1>6, <1>7, <2>1
<1>8. ASSUME NEW k \in 0..(N - 1) PROVE \E p \in B : Rank(rs, B, p) = k
  <2> DEFINE f == [p \in B |-> Rank(rs, B, p)]
             T == 0..(N - 1)
  <2>1. f \in Injection(B, T)
    BY <1>5, <1>7 DEF Injection, IsInjective
  <2>2. IsFiniteSet(T) /\ Cardinality(T) = N
    BY <1>1, FS_Interval
  <2>3. f \in Surjection(B, T)
    <3> HIDE DEF f, T
    <3>. QED BY <2>1, <2>2, FS_Injection
  <2>. QED BY <2>3 DEF Surjection
<1>. QED BY <1>1, <1>5, <1>6, <1>7, <1>8 DEF B

(* So the sorted bucket holds every entry of the bucket, each in its place, *)
(* and nothing else.                                                       *)
LEMMA SortedIs ==
    ASSUME NEW rs \in Resolutions, NEW signal
    PROVE  LET B == Bucket(rs, signal)
               s == Sorted(rs, B)
           IN  /\ s \in Seq(PlanEntry)
               /\ \A n \in DOMAIN s :
                     \E p \in B : Rank(rs, B, p) = n - 1 /\ s[n] = At(rs, p)
               /\ \A p \in B : /\ Rank(rs, B, p) + 1 \in DOMAIN s
                               /\ s[Rank(rs, B, p) + 1] = At(rs, p)
<1> DEFINE B == Bucket(rs, signal)
           N == Cardinality(B)
           s == Sorted(rs, B)
           at(n) == CHOOSE p \in B : Rank(rs, B, p) = n - 1
<1>1. /\ N \in Nat
      /\ \A p \in B : Rank(rs, B, p) \in 0..(N - 1)
      /\ \A p, q \in B : p # q => Rank(rs, B, p) # Rank(rs, B, q)
      /\ \A k \in 0..(N - 1) : \E p \in B : Rank(rs, B, p) = k
  BY RankIsPlace
<1>2. \A p \in B : At(rs, p) \in PlanEntry
  BY BucketFinite
<1>3. s = [n \in 1..N |-> At(rs, at(n))]
  BY DEF Sorted
<1> HIDE DEF B, N, s
<1>4. ASSUME NEW n \in 1..N PROVE at(n) \in B /\ Rank(rs, B, at(n)) = n - 1
  <2>1. \E p \in B : Rank(rs, B, p) = n - 1
    <3>1. n - 1 \in 0..(N - 1)
      BY <1>1
    <3>. QED BY <1>1, <3>1
  <2>. QED BY <2>1
<1>5. s \in Seq(PlanEntry) /\ DOMAIN s = 1..N
  <2>1. \A n \in 1..N : At(rs, at(n)) \in PlanEntry
    BY <1>2, <1>4
  <2> HIDE DEF at
  <2>. QED BY <1>1, <1>3, <2>1
<1>6. ASSUME NEW n \in DOMAIN s
      PROVE  \E p \in B : Rank(rs, B, p) = n - 1 /\ s[n] = At(rs, p)
  BY <1>3, <1>4, <1>5
<1>7. ASSUME NEW p \in B
      PROVE  Rank(rs, B, p) + 1 \in DOMAIN s /\ s[Rank(rs, B, p) + 1] = At(rs, p)
  <2> DEFINE n == Rank(rs, B, p) + 1
  <2>1. n \in 1..N /\ n - 1 = Rank(rs, B, p)
    BY <1>1
  <2>2. at(n) \in B /\ Rank(rs, B, at(n)) = n - 1
    BY <1>4, <2>1
  <2>3. at(n) = p
    BY <1>1, <2>1, <2>2
  <2> HIDE DEF at
  <2>. QED BY <1>3, <1>5, <2>1, <2>3
<1>. QED BY <1>5, <1>6, <1>7 DEF s, B

(* Two mappers of one priority collide: the planner puts failing runners in *)
(* their places.                                                           *)
Collides(rs, B, p) ==
    /\ At(rs, p).shape = "mapper"
    /\ \E q \in B \ {p} :
          At(rs, q).shape = "mapper" /\ At(rs, q).priority = At(rs, p).priority

Placed(rs, B, p) == IF Collides(rs, B, p) THEN NonCommuting(At(rs, p)) ELSE At(rs, p)

LEMMA NonCommutingIs ==
    ASSUME NEW e \in PlanEntry
    PROVE  NonCommuting(e) = [signal |-> e.signal, priority |-> e.priority, shape |-> "runner",
                              tag |-> "obligation", constraint |-> e.constraint, handler |-> "fail"]
<1> DEFINE r == SyntheticFailureRunner(e.constraint, "obligation")
<1>1. r = [signal |-> "decision", priority |-> SyntheticPriority, shape |-> "runner",
           tag |-> "obligation", constraint |-> e.constraint, handler |-> "fail"]
  BY DEF SyntheticFailureRunner
<1>2. NonCommuting(e) = [r EXCEPT !.signal = e.signal, !.priority = e.priority]
  BY DEF NonCommuting
<1> HIDE DEF r
<1>. QED BY <1>1, <1>2

LEMMA PlacedIs ==
    ASSUME NEW rs \in Resolutions, NEW signal, NEW p \in Bucket(rs, signal)
    PROVE  LET e == Placed(rs, Bucket(rs, signal), p) IN
           /\ e \in PlanEntry
           /\ e.signal = signal
           /\ e.priority = At(rs, p).priority
           /\ Collides(rs, Bucket(rs, signal), p) =>
                 /\ e.shape = "runner" /\ e.handler = "fail"
                 /\ e.tag = "obligation" /\ e.constraint = At(rs, p).constraint
           /\ ~Collides(rs, Bucket(rs, signal), p) => e = At(rs, p)
<1> DEFINE a == At(rs, p)
<1>1. a \in PlanEntry /\ a.signal = signal
  BY BucketFinite
<1>2. NonCommuting(a) = [signal |-> a.signal, priority |-> a.priority, shape |-> "runner",
                         tag |-> "obligation", constraint |-> a.constraint, handler |-> "fail"]
  BY <1>1, NonCommutingIs
<1> HIDE DEF a
<1>3. NonCommuting(a) \in PlanEntry
  BY <1>1, <1>2 DEF PlanEntry, ShapeOrder
<1>. QED BY <1>1, <1>2, <1>3 DEF Placed, a

LEMMA ScheduleIs ==
    ASSUME NEW rs \in Resolutions, NEW signal \in Signal
    PROVE  LET B == Bucket(rs, signal)
               t == ScheduleBySignal(rs)[signal]
           IN  /\ t \in Seq(PlanEntry)
               /\ \A n \in DOMAIN t :
                     \E p \in B : Rank(rs, B, p) = n - 1 /\ t[n] = Placed(rs, B, p)
               /\ \A p \in B : /\ Rank(rs, B, p) + 1 \in DOMAIN t
                               /\ t[Rank(rs, B, p) + 1] = Placed(rs, B, p)
<1> DEFINE B == Bucket(rs, signal)
           s == Sorted(rs, B)
           t == ScheduleBySignal(rs)[signal]
           place(p) == Rank(rs, B, p) + 1
<1>1. t = [n \in DOMAIN s |-> IF SharesPriority(s, n) THEN NonCommuting(s[n]) ELSE s[n]]
  BY DEF ScheduleBySignal, ReplaceNonCommutingMappers
<1>2. /\ s \in Seq(PlanEntry)
      /\ \A n \in DOMAIN s : \E p \in B : place(p) = n /\ s[n] = At(rs, p)
      /\ \A p \in B : place(p) \in DOMAIN s /\ s[place(p)] = At(rs, p)
  <2>1. /\ s \in Seq(PlanEntry)
        /\ \A n \in DOMAIN s : \E p \in B : Rank(rs, B, p) = n - 1 /\ s[n] = At(rs, p)
        /\ \A p \in B : place(p) \in DOMAIN s /\ s[place(p)] = At(rs, p)
    BY SortedIs
  <2>2. \A n \in DOMAIN s : n \in Int
    BY <2>1
  <2> HIDE DEF B, s
  <2>. QED BY <2>1, <2>2
<1>3. \A p, q \in B : p # q => place(p) # place(q)
  <2>1. \A p \in B : Rank(rs, B, p) \in 0..(Cardinality(B) - 1)
    BY RankIsPlace
  <2>2. \A p, q \in B : p # q => Rank(rs, B, p) # Rank(rs, B, q)
    BY RankIsPlace
  <2> HIDE DEF B
  <2>. QED BY <2>1, <2>2
<1>4. \A p \in B : Placed(rs, B, p) \in PlanEntry
  BY PlacedIs
<1>5. \A p \in B : Rank(rs, B, p) \in Int
  BY RankIsPlace
<1> HIDE DEF B, s, t
<1>6. ASSUME NEW p \in B PROVE SharesPriority(s, place(p)) <=> Collides(rs, B, p)
  <2>1. ASSUME NEW j \in DOMAIN s \ {place(p)},
               s[j].shape = "mapper" /\ s[j].priority = s[place(p)].priority
        PROVE  \E q \in B \ {p} : At(rs, q).shape = "mapper" /\ At(rs, q).priority = At(rs, p).priority
    BY <1>2, <2>1
  <2>2. ASSUME NEW q \in B \ {p},
               At(rs, q).shape = "mapper" /\ At(rs, q).priority = At(rs, p).priority
        PROVE  \E j \in DOMAIN s \ {place(p)} : s[j].shape = "mapper" /\ s[j].priority = s[place(p)].priority
    BY <1>2, <1>3, <2>2
  <2> HIDE DEF place
  <2>. QED BY <1>2, <2>1, <2>2 DEF SharesPriority, Collides
<1>7. ASSUME NEW p \in B PROVE place(p) \in DOMAIN t /\ t[place(p)] = Placed(rs, B, p)
  BY <1>1, <1>2, <1>6 DEF Placed
<1>8. ASSUME NEW n \in DOMAIN t PROVE \E p \in B : place(p) = n /\ t[n] = Placed(rs, B, p)
  BY <1>1, <1>2, <1>7
<1>9. t \in Seq(PlanEntry)
  <2>1. DOMAIN t = DOMAIN s /\ \A n \in DOMAIN t : t[n] \in PlanEntry
    BY <1>1, <1>4, <1>8
  <2>2. DOMAIN s = 1..Len(s) /\ Len(s) \in Nat
    BY <1>2
  <2>3. t = [n \in 1..Len(s) |-> t[n]]
    BY <1>1, <2>1, <2>2
  <2>. QED BY <2>1, <2>2, <2>3
<1>10. ASSUME NEW n \in DOMAIN t
       PROVE  \E p \in B : Rank(rs, B, p) = n - 1 /\ t[n] = Placed(rs, B, p)
  BY <1>5, <1>8
<1>. QED BY <1>7, <1>9, <1>10 DEF B, t

(* The order in which a signal's entries run.                              *)
LEMMA ScheduleInOrder ==
    ASSUME NEW rs \in Resolutions, NEW signal \in Signal,
           NEW k \in DOMAIN ScheduleBySignal(rs)[signal],
           NEW l \in DOMAIN ScheduleBySignal(rs)[signal], k < l
    PROVE  InOrder(ScheduleBySignal(rs)[signal][k], ScheduleBySignal(rs)[signal][l])
<1> DEFINE B == Bucket(rs, signal)
           t == ScheduleBySignal(rs)[signal]
<1>1. PICK p \in B : Rank(rs, B, p) = k - 1 /\ t[k] = Placed(rs, B, p)
  BY ScheduleIs
<1>2. PICK q \in B : Rank(rs, B, q) = l - 1 /\ t[l] = Placed(rs, B, q)
  BY ScheduleIs
<1>3. k \in Int /\ l \in Int
  BY ScheduleIs
<1>4. RunsBefore(rs, p, q)
  <2>1. p # q
    BY <1>1, <1>2, <1>3
  <2>2. ~RunsBefore(rs, q, p)
    BY <1>1, <1>2, <1>3, RankIsPlace
  <2>. QED BY <2>1, <2>2, BeforeIsOrder
<1> DEFINE a == At(rs, p)  b == At(rs, q)
<1>5. /\ a.priority \in Int /\ b.priority \in Int
      /\ a.shape \in DOMAIN ShapeOrder /\ b.shape \in DOMAIN ShapeOrder
  BY BucketFinite DEF PlanEntry
<1>6. p # q
  BY <1>1, <1>2, <1>3
<1>7. /\ t[k].priority = a.priority /\ t[l].priority = b.priority
      /\ Collides(rs, B, p) => t[k].shape = "runner"
      /\ Collides(rs, B, q) => t[l].shape = "runner"
      /\ ~Collides(rs, B, p) => t[k].shape = a.shape
      /\ ~Collides(rs, B, q) => t[l].shape = b.shape
  BY <1>1, <1>2, PlacedIs
<1>8. a.priority = b.priority /\ a.shape = "mapper" /\ b.shape = "mapper"
        => Collides(rs, B, p) /\ Collides(rs, B, q)
  BY <1>6 DEF Collides
<1>9. a.priority = b.priority /\ Collides(rs, B, p) => (b.shape = "mapper" <=> Collides(rs, B, q))
  BY <1>6 DEF Collides
<1>10. (Collides(rs, B, p) => a.shape = "mapper") /\ (Collides(rs, B, q) => b.shape = "mapper")
  BY DEF Collides
<1>11. a.priority < b.priority \/ (a.priority = b.priority /\ ShapeOrder[a.shape] <= ShapeOrder[b.shape])
  BY <1>4, <1>5 DEF RunsBefore, ShapeOrder
<1> HIDE DEF a, b, t, B
<1>. QED BY <1>5, <1>7, <1>8, <1>9, <1>10, <1>11 DEF InOrder, ShapeOrder, t

-----------------------------------------------------------------------------
(* The entries of a constraint.                                            *)

ClaimsTyped ==
    /\ pep \in {"pre", "post"}
    /\ \A p \in Provider, c \in Constraint : claims[p][c] \in Seq(Handler) \cup {Throws}

LEMMA ThrowsIsNoClaim == Throws \notin Seq(Handler) /\ Throws # << >>
<1>1. Throws[1].signal = "none" /\ 1 \in DOMAIN Throws
  BY DEF Throws
<1>2. \A h \in Handler : h.signal # "none"
  BY DEF Handler, Signal
<1>. QED BY <1>1, <1>2

(* One provider answers for c, and all it answers is admissible for tag.    *)
Sole(c, tag, supported, p) ==
    /\ Responsible(claims, c) = {p}
    /\ \A i \in DOMAIN claims[p][c] : IsWellFormed(claims[p][c][i], tag, supported)

LEMMA SoleIs ==
    ASSUME ClaimsTyped, NEW c \in Constraint, NEW tag, NEW supported, NEW p,
           Sole(c, tag, supported, p)
    PROVE  /\ p \in Provider
           /\ claims[p][c] \in Seq(Handler)
           /\ ClaimHandlers(claims, p, c) = claims[p][c]
<1>1. p \in Provider /\ ClaimHandlers(claims, p, c) # << >>
  BY DEF Sole, Responsible
<1>2. claims[p][c] # Throws
  BY <1>1 DEF ClaimHandlers
<1>. QED BY <1>1, <1>2 DEF ClaimsTyped, ClaimHandlers

(* What resolveConstraint returns: all that the sole provider demands, or a *)
(* runner that fails.                                                      *)
LEMMA ResolveIs ==
    ASSUME ClaimsTyped, NEW c \in Constraint, NEW tag, NEW supported
    PROVE  LET es == ResolveConstraint(claims, supported, c, tag) IN
           /\ \A p : Sole(c, tag, supported, p) =>
                 es = [i \in DOMAIN claims[p][c] |-> Scheduled(claims[p][c][i], tag, c)]
           /\ (\A p : ~Sole(c, tag, supported, p)) => es = << SyntheticFailureRunner(c, tag) >>
<1> DEFINE R == Responsible(claims, c)
           chosen == CHOOSE p \in R : TRUE
           claim == ClaimHandlers(claims, chosen, c)
           wellFormed == \A i \in DOMAIN claim : IsWellFormed(claim[i], tag, supported)
           es == ResolveConstraint(claims, supported, c, tag)
<1>1. es = IF Cardinality(R) = 1 /\ wellFormed
           THEN [i \in DOMAIN claim |-> Scheduled(claim[i], tag, c)]
           ELSE << SyntheticFailureRunner(c, tag) >>
  BY DEF ResolveConstraint
<1>2. Cardinality(R) = 1 <=> \E p : R = {p}
  <2>1. R \in SUBSET Provider
    BY DEF Responsible
  <2>2. IsFiniteSet(R)
    <3> HIDE DEF R
    <3>. QED BY <2>1, FS_Subset, AnswersAssumption
  <2> HIDE DEF R
  <2>. QED BY <2>2, FS_Singleton
<1>3. ASSUME NEW p, R = {p} PROVE chosen = p
  BY <1>3
<1>4. ASSUME NEW p, Sole(c, tag, supported, p)
      PROVE  es = [i \in DOMAIN claims[p][c] |-> Scheduled(claims[p][c][i], tag, c)]
  <2>1. R = {p} /\ chosen = p
    BY <1>3, <1>4 DEF Sole
  <2>2. claim = claims[p][c]
    BY <1>4, <2>1, SoleIs
  <2>3. wellFormed
    <3> HIDE DEF claim
    <3>. QED BY <1>4, <2>2 DEF Sole
  <2> HIDE DEF claim, es, R, wellFormed
  <2>. QED BY <1>1, <1>2, <2>1, <2>2, <2>3
<1>5. ASSUME \A p : ~Sole(c, tag, supported, p)
      PROVE  es = << SyntheticFailureRunner(c, tag) >>
  <2>1. SUFFICES ASSUME NEW p, R = {p}, wellFormed PROVE FALSE
    BY <1>1, <1>2
  <2>2. p \in Provider /\ ClaimHandlers(claims, p, c) # << >>
    BY <2>1 DEF Responsible
  <2>3. ClaimHandlers(claims, p, c) = claims[p][c]
    BY <2>2 DEF ClaimHandlers
  <2>4. chosen = p
    BY <1>3, <2>1
  <2>5. claim = claims[p][c]
    BY <2>3, <2>4
  <2>6. Sole(c, tag, supported, p)
    <3> HIDE DEF claim
    <3>. QED BY <2>1, <2>5 DEF Sole
  <2>. QED BY <1>5, <2>6
<1>. QED BY <1>4, <1>5

LEMMA ScheduledTyped ==
    ASSUME NEW h \in Handler, NEW tag \in {"obligation", "advice"}, NEW c \in Constraint
    PROVE  Scheduled(h, tag, c) \in PlanEntry
<1>1. h.signal \in Signal /\ h.priority \in Int /\ h.shape \in DOMAIN ShapeOrder
  BY DEF Handler
<1>. QED BY <1>1 DEF Scheduled, PlanEntry

LEMMA ResolveTyped ==
    ASSUME ClaimsTyped, NEW c \in Constraint, NEW tag \in {"obligation", "advice"}, NEW supported
    PROVE  ResolveConstraint(claims, supported, c, tag) \in Seq(PlanEntry)
<1>1. CASE \E p : Sole(c, tag, supported, p)
  <2>1. PICK p : Sole(c, tag, supported, p)
    BY <1>1
  <2>2. claims[p][c] \in Seq(Handler)
    BY <2>1, SoleIs
  <2>3. \A i \in DOMAIN claims[p][c] : Scheduled(claims[p][c][i], tag, c) \in PlanEntry
    BY <2>2, ScheduledTyped
  <2>4. [i \in DOMAIN claims[p][c] |-> Scheduled(claims[p][c][i], tag, c)] \in Seq(PlanEntry)
    BY <2>2, <2>3
  <2>. QED BY <2>1, <2>4, ResolveIs
<1>2. CASE \A p : ~Sole(c, tag, supported, p)
  <2>1. SyntheticFailureRunner(c, tag) \in PlanEntry
    BY DEF SyntheticFailureRunner, PlanEntry, SyntheticPriority, Signal, ShapeOrder
  <2>2. << SyntheticFailureRunner(c, tag) >> \in Seq(PlanEntry)
    BY <2>1
  <2>. QED BY <1>2, <2>2, ResolveIs
<1>. QED BY <1>1, <1>2

(* Where the entries of a plan come from.                                  *)
LEMMA ResolvedIs ==
    ASSUME ClaimsTyped, NEW d \in Decision, NEW supported
    PROVE  LET rs == Resolved(claims, d, supported) IN
           /\ rs \in Resolutions
           /\ \A c \in Range(d.obligations) : c \in Constraint
           /\ \A c \in Range(d.obligations) :
                 \E i \in DOMAIN rs : rs[i] = ResolveConstraint(claims, supported, c, "obligation")
           /\ \A i \in DOMAIN rs :
                 \/ \E c \in Range(d.obligations) : rs[i] = ResolveConstraint(claims, supported, c, "obligation")
                 \/ \E c \in Constraint : rs[i] = ResolveConstraint(claims, supported, c, "advice")
                 \/ i = Len(rs) /\ rs[i] = ResourceSubstitutionEntries(supported)
<1> DEFINE os == [i \in DOMAIN d.obligations |->
                    ResolveConstraint(claims, supported, d.obligations[i], "obligation")]
           as == [i \in DOMAIN d.advice |->
                    ResolveConstraint(claims, supported, d.advice[i], "advice")]
           res == IF d.resource THEN << ResourceSubstitutionEntries(supported) >> ELSE << >>
           rs == Resolved(claims, d, supported)
<1>1. rs = (os \o as) \o res
  BY DEF Resolved
<1>2. d.obligations \in Seq(Constraint) /\ d.advice \in Seq(Constraint)
  BY AnswersAssumption DEF Decision
<1>3. os \in Seq(Seq(PlanEntry)) /\ Len(os) = Len(d.obligations) /\ DOMAIN os = DOMAIN d.obligations
  <2>1. \A i \in DOMAIN d.obligations :
            ResolveConstraint(claims, supported, d.obligations[i], "obligation") \in Seq(PlanEntry)
    BY <1>2, ResolveTyped
  <2>. QED BY <1>2, <2>1
<1>4. as \in Seq(Seq(PlanEntry)) /\ Len(as) = Len(d.advice) /\ DOMAIN as = DOMAIN d.advice
  <2>1. \A i \in DOMAIN d.advice :
            ResolveConstraint(claims, supported, d.advice[i], "advice") \in Seq(PlanEntry)
    BY <1>2, ResolveTyped
  <2>. QED BY <1>2, <2>1
<1>5. res \in Seq(Seq(PlanEntry)) /\ Len(res) \in {0, 1}
      /\ (Len(res) = 1 => res[1] = ResourceSubstitutionEntries(supported))
  <2>1. ResourceSubstitutionEntries(supported) \in Seq(PlanEntry)
    <3>1. SyntheticFailureRunner(Replacement, "obligation") \in PlanEntry
      BY DEF SyntheticFailureRunner, PlanEntry, SyntheticPriority, Signal, ShapeOrder
    <3>2. [signal |-> "output", priority |-> ResourceSubstitutionPriority, shape |-> "mapper",
           tag |-> "obligation", constraint |-> Replacement, handler |-> "substitute"] \in PlanEntry
      BY DEF PlanEntry, ResourceSubstitutionPriority, Signal, ShapeOrder
    <3>. QED BY <3>1, <3>2 DEF ResourceSubstitutionEntries
  <2>. QED BY <2>1
<1>6. \A i \in DOMAIN os : \E c \in Range(d.obligations) :
          os[i] = ResolveConstraint(claims, supported, c, "obligation")
  BY <1>3 DEF Range
<1>7. \A c \in Range(d.obligations) : c \in Constraint /\ \E i \in DOMAIN os :
          os[i] = ResolveConstraint(claims, supported, c, "obligation")
  BY <1>2, <1>3 DEF Range
<1>8. \A i \in DOMAIN as : \E c \in Constraint :
          as[i] = ResolveConstraint(claims, supported, c, "advice")
  BY <1>2, <1>4
<1> HIDE DEF os, as, res, rs
<1> DEFINE o == Len(os)  a == Len(as)
<1>9. /\ rs \in Seq(Seq(PlanEntry)) /\ Len(rs) = o + a + Len(res)
      /\ o \in Nat /\ a \in Nat /\ DOMAIN os = 1..o /\ DOMAIN as = 1..a /\ DOMAIN rs = 1..Len(rs)
      /\ \A i \in 1..o : rs[i] = os[i]
      /\ \A i \in 1..a : rs[o + i] = as[i]
      /\ Len(res) = 1 => rs[o + a + 1] = res[1]
  <2> DEFINE T == Seq(PlanEntry)
             oa == os \o as
  <2> HIDE DEF T, oa
  <2>1. os \in Seq(T) /\ as \in Seq(T) /\ res \in Seq(T)
    BY <1>3, <1>4, <1>5 DEF T
  <2>2. oa \in Seq(T) /\ IsConcat(oa, os, as)
    BY <2>1, ConcatIs DEF oa
  <2>3. oa \o res \in Seq(T) /\ IsConcat(oa \o res, oa, res)
    BY <2>1, <2>2, ConcatIs
  <2>4. rs \in Seq(T) /\ IsConcat(rs, oa, res)
    BY <1>1, <2>3 DEF oa
  <2>5. /\ Len(oa) = o + a /\ o \in Nat /\ a \in Nat
        /\ DOMAIN os = 1..o /\ DOMAIN as = 1..a
        /\ \A i \in 1..o : oa[i] = os[i]
        /\ \A i \in 1..a : oa[o + i] = as[i]
    BY <2>2 DEF IsConcat
  <2> HIDE DEF o, a
  <2>6. \A i \in 1..(o + a) : rs[i] = oa[i]
    BY <2>4, <2>5 DEF IsConcat
  <2>7. \A i \in 1..o : rs[i] = os[i]
    BY <2>5, <2>6
  <2>8. ASSUME NEW i \in 1..a PROVE rs[o + i] = as[i]
    <3>1. o + i \in 1..(o + a)
      BY <2>5
    <3>. QED BY <2>5, <2>6, <3>1
  <2>9. Len(res) = 1 => rs[o + a + 1] = res[1]
    BY <2>4, <2>5 DEF IsConcat
  <2>10. Len(rs) = o + a + Len(res) /\ DOMAIN rs = 1..Len(rs)
    BY <2>4, <2>5 DEF IsConcat
  <2>11. rs \in Seq(Seq(PlanEntry))
    BY <2>4 DEF T
  <2>. QED BY <2>5, <2>7, <2>8, <2>9, <2>10, <2>11
<1> HIDE DEF o, a
<1>10. ASSUME NEW c \in Range(d.obligations)
       PROVE  \E i \in DOMAIN rs : rs[i] = ResolveConstraint(claims, supported, c, "obligation")
  <2>1. PICK i \in DOMAIN os : os[i] = ResolveConstraint(claims, supported, c, "obligation")
    BY <1>7
  <2>2. i \in DOMAIN rs /\ rs[i] = os[i]
    BY <1>5, <1>9
  <2>. QED BY <2>1, <2>2
<1>11. ASSUME NEW i \in DOMAIN rs
       PROVE  \/ \E c \in Range(d.obligations) : rs[i] = ResolveConstraint(claims, supported, c, "obligation")
              \/ \E c \in Constraint : rs[i] = ResolveConstraint(claims, supported, c, "advice")
              \/ i = Len(rs) /\ rs[i] = ResourceSubstitutionEntries(supported)
  <2>0. i \in Nat /\ 1 <= i /\ i <= o + a + Len(res)
    BY <1>5, <1>9
  <2>1. CASE i <= o
    <3>1. i \in DOMAIN os /\ rs[i] = os[i]
      BY <1>9, <2>0, <2>1
    <3>. QED BY <1>6, <3>1
  <2>2. CASE i > o /\ i <= o + a
    <3> DEFINE j == i - o
    <3>1. j \in 1..a /\ i = o + j
      BY <1>9, <2>0, <2>2
    <3> HIDE DEF j
    <3>2. j \in DOMAIN as /\ rs[i] = as[j]
      BY <1>9, <3>1
    <3>. QED BY <1>8, <3>2
  <2>3. CASE i > o + a
    <3>1. Len(res) = 1 /\ i = o + a + 1 /\ i = Len(rs)
      <4>1. Len(res) = 0 \/ Len(res) = 1
        BY <1>5
      <4>2. o \in Nat /\ a \in Nat /\ Len(rs) = o + a + Len(res)
        BY <1>9
      <4> DEFINE n == Len(res)
      <4> HIDE DEF n
      <4>3. n \in Nat /\ (n = 0 \/ n = 1) /\ i \in Nat /\ i <= o + a + n /\ o \in Nat /\ a \in Nat /\ i > o + a
        BY <4>1, <4>2, <2>0, <2>3 DEF n
      <4>4. n = 1 /\ i = o + a + 1
        BY <4>3
      <4>. QED BY <4>2, <4>4 DEF n
    <3>2. rs[i] = res[1] /\ res[1] = ResourceSubstitutionEntries(supported)
      BY <1>5, <1>9, <3>1
    <3>. QED BY <3>1, <3>2
  <2>. QED BY <1>9, <2>0, <2>1, <2>2, <2>3
<1>. QED BY <1>7, <1>9, <1>10, <1>11 DEF rs, Resolutions

-----------------------------------------------------------------------------
(* What a plan says of the obligations of its decision.                    *)

LEMMA AdmissibleIsSole ==
    ASSUME ClaimsTyped, NEW c \in Constraint
    PROVE  Admissible(c) <=> \E p : Sole(c, "obligation", Supported, p)
<1>1. Responsible(claims, c) = { q \in Provider : claims[q][c] \notin { << >>, Throws } }
  BY ThrowsIsNoClaim DEF Responsible, ClaimHandlers
<1>2. ASSUME NEW p, claims[p][c] \in Seq(Handler)
      PROVE  (\A h \in Range(claims[p][c]) :
                 h.signal \in Supported /\ (h.signal \in DataCarryingSignals \/ h.shape = "runner"))
             <=> \A i \in DOMAIN claims[p][c] : IsWellFormed(claims[p][c][i], "obligation", Supported)
  BY DEF Range, IsWellFormed
<1>3. ASSUME NEW p, Sole(c, "obligation", Supported, p) PROVE Admissible(c)
  <2>1. p \in Provider /\ claims[p][c] \in Seq(Handler)
    BY <1>3, SoleIs
  <2>. QED BY <1>1, <1>2, <1>3, <2>1 DEF Sole, Admissible
<1>4. ASSUME Admissible(c) PROVE \E p : Sole(c, "obligation", Supported, p)
  <2>1. PICK p \in Provider :
            /\ Responsible(claims, c) = {p}
            /\ \A h \in Range(claims[p][c]) :
                  h.signal \in Supported /\ (h.signal \in DataCarryingSignals \/ h.shape = "runner")
    BY <1>1, <1>4 DEF Admissible
  <2>2. claims[p][c] \in Seq(Handler)
    BY <2>1 DEF Responsible, ClaimHandlers, ClaimsTyped
  <2>. QED BY <1>2, <2>1, <2>2 DEF Sole
<1>. QED BY <1>3, <1>4

LEMMA SoleDemands ==
    ASSUME ClaimsTyped, NEW c \in Constraint, NEW p, Sole(c, "obligation", Supported, p)
    PROVE  /\ \A h \in Demanded(c) : \E i \in DOMAIN claims[p][c] : claims[p][c][i] = h
           /\ \A i \in DOMAIN claims[p][c] : claims[p][c][i] \in Demanded(c)
           /\ Demanded(c) \subseteq Handler
<1>1. p \in Provider /\ claims[p][c] \in Seq(Handler)
  BY SoleIs
<1>2. claims[p][c] # Throws
  BY <1>1, ThrowsIsNoClaim
<1>3. ASSUME NEW q \in Provider, q # p, claims[q][c] # Throws PROVE claims[q][c] = << >>
  BY <1>3 DEF Sole, Responsible, ClaimHandlers
<1>4. Demanded(c) = Range(claims[p][c])
  <2>1. \A q \in Provider : claims[q][c] # Throws /\ q # p => Range(claims[q][c]) = {}
    BY <1>3 DEF Range
  <2>. QED BY <1>1, <1>2, <2>1 DEF Demanded
<1>. QED BY <1>1, <1>4 DEF Range

(* A runner of the planner that fails when its signal is raised.            *)
FailingRunner(e) == e.shape = "runner" /\ e.handler = "fail" /\ e.tag = "obligation"

PlanOf(d) == Plan(claims, d, Supported)

(* Every entry of every constraint is in the plan, as itself or, a mapper   *)
(* that collides, as a failing runner.                                     *)
LEMMA EntryPlanned ==
    ASSUME ClaimsTyped, NEW d \in Decision, NEW rs, rs = Resolved(claims, d, Supported),
           NEW i \in DOMAIN rs, NEW j \in DOMAIN rs[i], NEW e, e = rs[i][j]
    PROVE  /\ e \in PlanEntry
           /\ \E n \in DOMAIN PlanOf(d)[e.signal] :
                 PlanOf(d)[e.signal][n] = e \/ FailingRunner(PlanOf(d)[e.signal][n])
<1> DEFINE p == << i, j >>
           B == Bucket(rs, e.signal)
           n == Rank(rs, B, p) + 1
<1>1. rs \in Resolutions
  BY ResolvedIs
<1>2. e \in PlanEntry /\ e.signal \in Signal
  BY <1>1 DEF Resolutions, PlanEntry
<1>3. p \in B /\ At(rs, p) = e
  BY DEF Bucket, Places, At
<1>4. PlanOf(d) = ScheduleBySignal(rs)
  BY DEF PlanOf, Plan
<1>5. n \in DOMAIN PlanOf(d)[e.signal] /\ PlanOf(d)[e.signal][n] = Placed(rs, B, p)
  BY <1>1, <1>2, <1>3, <1>4, ScheduleIs
<1>6. Placed(rs, B, p) = e \/ FailingRunner(Placed(rs, B, p))
  BY <1>1, <1>3, PlacedIs DEF FailingRunner
<1>. QED BY <1>2, <1>5, <1>6

(* For an obligation there is a failing runner at the decision signal, or   *)
(* it is admissible and each handler it demands is in the plan or has a    *)
(* failing runner in its place.                                            *)
LEMMA ObligationPlanned ==
    ASSUME ClaimsTyped, NEW d \in Decision, NEW c \in Range(d.obligations)
    PROVE  \/ \E n \in DOMAIN PlanOf(d)["decision"] : FailingRunner(PlanOf(d)["decision"][n])
           \/ /\ Admissible(c)
              /\ \A h \in Demanded(c) : \E n \in DOMAIN PlanOf(d)[h.signal] :
                    \/ PlanOf(d)[h.signal][n] = Scheduled(h, "obligation", c)
                    \/ FailingRunner(PlanOf(d)[h.signal][n])
<1> DEFINE rs == Resolved(claims, d, Supported)
           es == ResolveConstraint(claims, Supported, c, "obligation")
<1>1. c \in Constraint
  BY ResolvedIs
<1>2. PICK i \in DOMAIN rs : rs[i] = es
  BY ResolvedIs
<1> HIDE DEF rs
<1>3. ASSUME NEW j \in DOMAIN es
      PROVE  \E n \in DOMAIN PlanOf(d)[es[j].signal] :
                PlanOf(d)[es[j].signal][n] = es[j] \/ FailingRunner(PlanOf(d)[es[j].signal][n])
  BY <1>2, EntryPlanned DEF rs
<1>4. CASE \E p : Sole(c, "obligation", Supported, p)
  <2>1. PICK p : Sole(c, "obligation", Supported, p)
    BY <1>4
  <2>2. es = [k \in DOMAIN claims[p][c] |-> Scheduled(claims[p][c][k], "obligation", c)]
    BY <1>1, <2>1, ResolveIs
  <2> HIDE DEF es
  <2>3. ASSUME NEW h \in Demanded(c)
        PROVE  \E n \in DOMAIN PlanOf(d)[h.signal] :
                  \/ PlanOf(d)[h.signal][n] = Scheduled(h, "obligation", c)
                  \/ FailingRunner(PlanOf(d)[h.signal][n])
    <3>1. PICK k \in DOMAIN claims[p][c] : claims[p][c][k] = h
      BY <1>1, <2>1, SoleDemands
    <3>2. k \in DOMAIN es /\ es[k] = Scheduled(h, "obligation", c)
      BY <2>2, <3>1
    <3>3. Scheduled(h, "obligation", c).signal = h.signal
      BY DEF Scheduled
    <3>. QED BY <1>3, <3>2, <3>3
  <2>4. Admissible(c)
    BY <1>1, <2>1, AdmissibleIsSole
  <2>. QED BY <2>3, <2>4
<1>5. CASE \A p : ~Sole(c, "obligation", Supported, p)
  <2> DEFINE f == SyntheticFailureRunner(c, "obligation")
  <2>1. es = << f >>
    BY <1>1, <1>5, ResolveIs
  <2>2. f.signal = "decision" /\ FailingRunner(f)
    BY DEF SyntheticFailureRunner, FailingRunner
  <2> HIDE DEF es, f
  <2>3. 1 \in DOMAIN es /\ es[1] = f
    BY <2>1
  <2>4. \E n \in DOMAIN PlanOf(d)["decision"] :
            PlanOf(d)["decision"][n] = f \/ FailingRunner(PlanOf(d)["decision"][n])
    BY <1>3, <2>2, <2>3
  <2>. QED BY <2>2, <2>4
<1>. QED BY <1>4, <1>5

(* The four kinds of entries.                                              *)
LEMMA EntryKinds ==
    ASSUME ClaimsTyped, NEW d \in Decision, NEW rs, rs = Resolved(claims, d, Supported),
           NEW i \in DOMAIN rs, NEW j \in DOMAIN rs[i], NEW e, e = rs[i][j]
    PROVE  \/ \E c \in Range(d.obligations) : \E h \in Demanded(c) : e = Scheduled(h, "obligation", c)
           \/ e.shape = "runner" /\ \E c \in Range(d.obligations) : ~Admissible(c)
           \/ e.tag = "advice" /\ e.shape # "mapper"
           \/ /\ e.handler = "substitute" /\ i = Len(rs) /\ j = 1 /\ e.tag = "obligation"
              /\ e.priority = ResourceSubstitutionPriority /\ e.constraint = Replacement
<1>1. CASE \E c \in Range(d.obligations) : rs[i] = ResolveConstraint(claims, Supported, c, "obligation")
  <2>1. PICK c \in Range(d.obligations) : rs[i] = ResolveConstraint(claims, Supported, c, "obligation")
    BY <1>1
  <2>2. c \in Constraint
    BY ResolvedIs
  <2>3. CASE \E p : Sole(c, "obligation", Supported, p)
    <3>1. PICK p : Sole(c, "obligation", Supported, p)
      BY <2>3
    <3>2. rs[i] = [k \in DOMAIN claims[p][c] |-> Scheduled(claims[p][c][k], "obligation", c)]
      BY <2>1, <2>2, <3>1, ResolveIs
    <3>3. j \in DOMAIN claims[p][c] /\ e = Scheduled(claims[p][c][j], "obligation", c)
      BY <3>2
    <3>4. claims[p][c][j] \in Demanded(c)
      BY <2>2, <3>1, <3>3, SoleDemands
    <3>. QED BY <3>3, <3>4
  <2>4. CASE \A p : ~Sole(c, "obligation", Supported, p)
    <3>1. rs[i] = << SyntheticFailureRunner(c, "obligation") >>
      BY <2>1, <2>2, <2>4, ResolveIs
    <3>2. e = SyntheticFailureRunner(c, "obligation")
      BY <3>1
    <3>3. e.shape = "runner"
      BY <3>2 DEF SyntheticFailureRunner
    <3>. QED BY <2>2, <2>4, <3>3, AdmissibleIsSole
  <2>. QED BY <2>3, <2>4
<1>2. CASE \E c \in Constraint : rs[i] = ResolveConstraint(claims, Supported, c, "advice")
  <2>1. PICK c \in Constraint : rs[i] = ResolveConstraint(claims, Supported, c, "advice")
    BY <1>2
  <2>2. CASE \E p : Sole(c, "advice", Supported, p)
    <3>1. PICK p : Sole(c, "advice", Supported, p)
      BY <2>2
    <3>2. rs[i] = [k \in DOMAIN claims[p][c] |-> Scheduled(claims[p][c][k], "advice", c)]
      BY <2>1, <3>1, ResolveIs
    <3>3. j \in DOMAIN claims[p][c] /\ e = Scheduled(claims[p][c][j], "advice", c)
      BY <3>2
    <3>4. claims[p][c][j].shape # "mapper"
      BY <3>1, <3>3 DEF Sole, IsWellFormed
    <3>. QED BY <3>3, <3>4 DEF Scheduled
  <2>3. CASE \A p : ~Sole(c, "advice", Supported, p)
    <3>1. rs[i] = << SyntheticFailureRunner(c, "advice") >>
      BY <2>1, <2>3, ResolveIs
    <3>2. e = SyntheticFailureRunner(c, "advice")
      BY <3>1
    <3>. QED BY <3>2 DEF SyntheticFailureRunner
  <2>. QED BY <2>2, <2>3
<1>3. CASE i = Len(rs) /\ rs[i] = ResourceSubstitutionEntries(Supported)
  <2>1. "output" \in Supported
    BY DEF Supported, PreSignals, PostSignals
  <2> DEFINE substitute == [signal |-> "output", priority |-> ResourceSubstitutionPriority,
                            shape |-> "mapper", tag |-> "obligation",
                            constraint |-> Replacement, handler |-> "substitute"]
  <2>2. /\ rs[i] = << substitute >> /\ substitute.handler = "substitute"
        /\ substitute.priority = ResourceSubstitutionPriority /\ substitute.tag = "obligation"
        /\ substitute.constraint = Replacement
    BY <1>3, <2>1 DEF ResourceSubstitutionEntries
  <2> HIDE DEF substitute
  <2>3. j = 1 /\ e = substitute
    BY <2>2
  <2>. QED BY <1>3, <2>2, <2>3
<1>. QED BY <1>1, <1>2, <1>3, ResolvedIs

(* An entry whose failure denies is of an obligation that is not            *)
(* admissible, is a handler an obligation demands, or stands in the place  *)
(* of a mapper an obligation demands, and then no mapper of that priority  *)
(* is left.                                                                *)
LEMMA FailurePlanned ==
    ASSUME ClaimsTyped, NEW d \in Decision, NEW signal \in Signal,
           NEW n \in DOMAIN PlanOf(d)[signal], NEW e, e = PlanOf(d)[signal][n],
           e.tag = "obligation", e.handler # "substitute"
    PROVE  \/ \E c \in Range(d.obligations) : ~Admissible(c)
           \/ \E c \in Range(d.obligations) : \E h \in Demanded(c) : e = Scheduled(h, "obligation", c)
           \/ \E c \in Range(d.obligations) : \E h \in Demanded(c) :
                 /\ h.shape = "mapper" /\ h.signal = signal
                 /\ \A m \in DOMAIN PlanOf(d)[signal] :
                       ~(/\ PlanOf(d)[signal][m].shape = "mapper"
                         /\ PlanOf(d)[signal][m].priority = h.priority)
<1> DEFINE rs == Resolved(claims, d, Supported)
           B == Bucket(rs, signal)
           t == PlanOf(d)[signal]
<1>1. rs \in Resolutions /\ PlanOf(d) = ScheduleBySignal(rs)
  BY ResolvedIs DEF PlanOf, Plan
<1>2. PICK p \in B : e = Placed(rs, B, p)
  BY <1>1, ScheduleIs
<1>3. ASSUME NEW q \in B
      PROVE  \/ \E c \in Range(d.obligations) : \E h \in Demanded(c) : At(rs, q) = Scheduled(h, "obligation", c)
             \/ At(rs, q).shape = "runner" /\ \E c \in Range(d.obligations) : ~Admissible(c)
             \/ At(rs, q).tag = "advice" /\ At(rs, q).shape # "mapper"
             \/ At(rs, q).handler = "substitute" /\ q = << Len(rs), 1 >>
  <2>1. /\ q = << q[1], q[2] >> /\ q[1] \in DOMAIN rs /\ q[2] \in DOMAIN rs[q[1]]
        /\ At(rs, q) = rs[q[1]][q[2]]
    BY <1>1, BucketFinite DEF At
  <2> HIDE DEF rs, B
  <2>. QED BY <2>1, EntryKinds DEF rs
<1>4. CASE ~Collides(rs, B, p)
  <2>1. e = At(rs, p)
    BY <1>1, <1>2, <1>4, PlacedIs
  <2> HIDE DEF rs, B
  <2>. QED BY <1>3, <2>1
<1>5. CASE Collides(rs, B, p)
  <2>1. PICK q \in B \ {p} : At(rs, q).shape = "mapper" /\ At(rs, q).priority = At(rs, p).priority
    BY <1>5 DEF Collides
  <2>2. At(rs, p).shape = "mapper"
    BY <1>5 DEF Collides
  <2>3. PICK r \in {p, q} : At(rs, r).handler # "substitute" \/ r # << Len(rs), 1 >>
    BY <2>1
  <2>4. r \in B /\ At(rs, r).shape = "mapper" /\ At(rs, r).priority = At(rs, p).priority
    BY <2>1, <2>2, <2>3
  <2>5. PICK c \in Range(d.obligations) : \E h \in Demanded(c) : At(rs, r) = Scheduled(h, "obligation", c)
    BY <1>3, <2>3, <2>4
  <2>6. PICK h \in Demanded(c) : At(rs, r) = Scheduled(h, "obligation", c)
    BY <2>5
  <2>7. At(rs, r).signal = signal
    BY <1>1, <2>4, BucketFinite
  <2>8. h.shape = "mapper" /\ h.signal = signal /\ h.priority = At(rs, p).priority
    BY <2>4, <2>6, <2>7 DEF Scheduled
  <2>9. ASSUME NEW m \in DOMAIN t, t[m].shape = "mapper", t[m].priority = h.priority PROVE FALSE
    <3>1. PICK x \in B : t[m] = Placed(rs, B, x)
      BY <1>1, ScheduleIs
    <3>2. ~Collides(rs, B, x) /\ t[m] = At(rs, x)
      BY <1>1, <2>9, <3>1, PlacedIs
    <3> HIDE DEF B, rs, t
    <3>3. \E y \in {p, q} : y # x
      BY <2>1
    <3>. QED BY <2>1, <2>2, <2>8, <2>9, <3>2, <3>3 DEF Collides
  <2>. QED BY <2>8, <2>9
<1>. QED BY <1>4, <1>5

-----------------------------------------------------------------------------
(* What the execution of a plan at a signal leaves in `called`.             *)

FinePlan(p) ==
    /\ DOMAIN p = Signal
    /\ \A s \in Signal :
          /\ p[s] \in Seq(PlanEntry)
          /\ \A n \in DOMAIN p[s] : p[s][n].signal = s
          /\ \A k, l \in DOMAIN p[s] : k < l => InOrder(p[s][k], p[s][l])

(* Calls of entries of the plan, in the order of the plan.                  *)
Trace(cs, p) ==
    /\ cs \in Seq(Calls)
    /\ \A k \in DOMAIN cs : \E n \in DOMAIN p[cs[k].entry.signal] :
          cs[k].entry = p[cs[k].entry.signal][n]
    /\ \A k, l \in DOMAIN cs : k < l => InOrder(cs[k].entry, cs[l].entry)

RaisedOnly(cs, signals) == \A k \in DOMAIN cs : cs[k].entry.signal \in signals

Count(cs, s) == Cardinality({ k \in DOMAIN cs : cs[k].entry.signal = s })

(* Signal s passed: no entry is a failing runner, and those of obligations  *)
(* were called and did not throw; without a value only runners are.        *)
Passed(cs, p, s, void) ==
    \A n \in DOMAIN p[s] : p[s][n].shape = "runner" \/ ~void =>
        /\ ~FailingRunner(p[s][n])
        /\ p[s][n].tag = "obligation" =>
              \E k \in DOMAIN cs : cs[k].entry = p[s][n] /\ cs[k].outcome # "throws"

(* An obligation's handler threw.                                          *)
Blames(call) ==
    call.outcome = "throws" /\ call.entry.tag = "obligation" /\ call.entry.handler # "substitute"

SomeBlamed(cs) == \E k \in DOMAIN cs : Blames(cs[k])

LEMMA PlanIsFine ==
    ASSUME ClaimsTyped, NEW d \in Decision, NEW supported
    PROVE  FinePlan(Plan(claims, d, supported)) /\ Plan(claims, d, supported) # NoPlan
<1> DEFINE rs == Resolved(claims, d, supported)
           p == Plan(claims, d, supported)
<1>1. rs \in Resolutions /\ p = ScheduleBySignal(rs)
  BY ResolvedIs DEF Plan
<1> HIDE DEF rs, p
<1>2. DOMAIN p = Signal
  BY <1>1 DEF ScheduleBySignal
<1>3. ASSUME NEW s \in Signal
      PROVE  /\ p[s] \in Seq(PlanEntry)
             /\ \A n \in DOMAIN p[s] : p[s][n].signal = s
             /\ \A k, l \in DOMAIN p[s] : k < l => InOrder(p[s][k], p[s][l])
  <2>1. p[s] \in Seq(PlanEntry)
    BY <1>1, ScheduleIs
  <2>2. ASSUME NEW n \in DOMAIN p[s] PROVE p[s][n].signal = s
    <3>1. PICK q \in Bucket(rs, s) : p[s][n] = Placed(rs, Bucket(rs, s), q)
      BY <1>1, ScheduleIs
    <3>. QED BY <1>1, <3>1, PlacedIs
  <2>3. ASSUME NEW k \in DOMAIN p[s], NEW l \in DOMAIN p[s], k < l
        PROVE  InOrder(p[s][k], p[s][l])
    BY <1>1, <2>3, ScheduleInOrder
  <2>. QED BY <2>1, <2>2, <2>3
<1>4. p # NoPlan
  <2>1. DOMAIN NoPlan = {} /\ "decision" \in Signal
    BY DEF NoPlan, Signal
  <2>. QED BY <1>2, <2>1
<1>. QED BY <1>2, <1>3, <1>4 DEF FinePlan, p

(* No provider's handler runs before the replacement of the resource.        *)
ClaimsFollow ==
    \A p \in Provider, c \in Constraint : \A i \in DOMAIN claims[p][c] :
        claims[p][c][i].priority >= ResourceSubstitutionPriority

(* Only obligations have mappers.                                          *)
LEMMA MappersPlanned ==
    ASSUME ClaimsTyped, ClaimsFollow, NEW d \in Decision, NEW s \in Signal,
           NEW n \in DOMAIN PlanOf(d)[s], NEW e, e = PlanOf(d)[s][n], e.shape = "mapper"
    PROVE  /\ e.tag = "obligation"
           /\ e.priority >= ResourceSubstitutionPriority
           /\ e.handler = "substitute" => /\ e.priority = ResourceSubstitutionPriority
                                          /\ e.constraint = Replacement
<1> DEFINE rs == Resolved(claims, d, Supported)
           B == Bucket(rs, s)
<1>1. rs \in Resolutions /\ PlanOf(d) = ScheduleBySignal(rs)
  BY ResolvedIs DEF PlanOf, Plan
<1>2. PICK q \in B : e = Placed(rs, B, q)
  BY <1>1, ScheduleIs
<1>3. e = At(rs, q)
  BY <1>1, <1>2, PlacedIs
<1>4. /\ q[1] \in DOMAIN rs /\ q[2] \in DOMAIN rs[q[1]]
      /\ e = rs[q[1]][q[2]]
  BY <1>1, <1>3, BucketFinite DEF At
<1> HIDE DEF rs, B
<1>5. \/ \E c \in Range(d.obligations) : \E h \in Demanded(c) : e = Scheduled(h, "obligation", c)
      \/ e.shape = "runner" \/ (e.tag = "advice" /\ e.shape # "mapper")
      \/ /\ e.handler = "substitute" /\ e.tag = "obligation"
         /\ e.priority = ResourceSubstitutionPriority /\ e.constraint = Replacement
  BY <1>4, EntryKinds DEF rs
<1>6. ASSUME NEW c \in Range(d.obligations), NEW h \in Demanded(c), e = Scheduled(h, "obligation", c)
      PROVE  /\ e.tag = "obligation" /\ e.handler # "substitute"
             /\ e.priority >= ResourceSubstitutionPriority
  <2>1. c \in Constraint
    BY ResolvedIs
  <2>2. PICK p \in Provider : claims[p][c] # Throws /\ h \in Range(claims[p][c])
    BY DEF Demanded
  <2>3. h.priority >= ResourceSubstitutionPriority
    BY <2>1, <2>2 DEF ClaimsFollow, Range
  <2>. QED BY <1>6, <2>3 DEF Scheduled
<1>. QED BY <1>5, <1>6 DEF ResourceSubstitutionPriority

LEMMA PlanSubstitutesFirst ==
    ASSUME ClaimsTyped, ClaimsFollow, NEW d \in Decision, NEW s \in Signal
    PROVE  SubstituteFirst(PlanOf(d)[s])
<1> DEFINE es == PlanOf(d)[s]
<1>1. /\ es \in Seq(PlanEntry) /\ \A n \in DOMAIN es : es[n].signal = s
      /\ \A k, l \in DOMAIN es : k < l => InOrder(es[k], es[l])
  BY PlanIsFine DEF FinePlan, PlanOf
<1>2. \A n \in DOMAIN es : es[n].shape = "mapper" =>
        /\ es[n].priority >= ResourceSubstitutionPriority
        /\ es[n].handler = "substitute" => /\ es[n].priority = ResourceSubstitutionPriority
                                           /\ es[n].constraint = Replacement
  BY MappersPlanned
<1> HIDE DEF es
<1>3. ASSUME NEW k \in DOMAIN es, es[k].handler = "substitute"
      PROVE  /\ es[k].constraint = Replacement
             /\ \A i \in DOMAIN es : i < k => es[i].shape # "mapper"
  <2>1. es[k].shape = "mapper"
    BY <1>1, <1>3 DEF PlanEntry
  <2>2. ASSUME NEW i \in DOMAIN es, i < k, es[i].shape = "mapper" PROVE FALSE
    <3>1. es[i].priority < es[k].priority
      BY <1>1, <2>1, <2>2 DEF InOrder
    <3>2. es[i].priority \in Int
      BY <1>1 DEF PlanEntry
    <3>. QED BY <1>2, <1>3, <2>1, <2>2, <3>1, <3>2 DEF ResourceSubstitutionPriority
  <2>. QED BY <1>2, <1>3, <2>1, <2>2
<1>. QED BY <1>3 DEF SubstituteFirst, es

(* What is known of the result r of raising signal s with a value.          *)
Executed(r, p, s, value, failure) ==
    /\ r = [value |-> r.value, failure |-> r.failure, called |-> r.called]
    /\ r.value \in Values /\ r.value.kind = value.kind
    /\ value = Present(Raw) /\ s # "output" => r.value.value \in Seq(Constraint \cup {Odd})
    /\ r.failure \in BOOLEAN
    /\ Trace(r.called, p)
    /\ RaisedOnly(r.called, {s})
    /\ value.kind = "present" => Len(r.called) = Len(p[s])
    /\ ~r.failure => /\ failure = FALSE /\ Passed(r.called, p, s, TRUE)
                     /\ value.kind = "present" => Passed(r.called, p, s, FALSE)
    /\ r.failure => failure \/ SomeBlamed(r.called)

LEMMA ExecuteTraces ==
    ASSUME NEW p, FinePlan(p), NEW s \in Signal, NEW value \in Values, NEW failure \in BOOLEAN,
           NEW b \in Behaviours(p, s)
    PROVE  Executed(Execute(p, s, value, failure, b), p, s, value, failure)
<1> DEFINE es == p[s]
           n == Len(es)
           r == Execute(p, s, value, failure, b)
           cs == r.called
<1>1. /\ es \in Seq(PlanEntry) /\ n \in Nat /\ DOMAIN es = 1..n
      /\ \A i \in 1..n : es[i].signal = s
      /\ \A i, j \in 1..n : i < j => InOrder(es[i], es[j])
  BY DEF FinePlan
<1>2. /\ Kept(r, n, es, value, b)
      /\ Blamed(r, n, es, value, failure, b)
      /\ CallsAll(r, n, es, value, b)
  BY <1>1, ExecuteIs
<1>3. Behaves(es, b)
  BY <1>1, BehavioursBehave
<1> HIDE DEF es, n, r
<1>4. /\ r = [value |-> r.value, failure |-> r.failure, called |-> r.called]
      /\ r.value \in Values /\ r.value.kind = value.kind
      /\ value = Present(Raw) /\ s # "output" => r.value.value \in Seq(Constraint \cup {Odd})
  <2>1. s # "output" => \A i \in 1..n : es[i].handler # "substitute"
    BY <1>1 DEF PlanEntry
  <2>. QED BY <1>2, <2>1 DEF Kept
<1>5. /\ cs \in Seq(Calls)
      /\ \A k \in DOMAIN cs : \E i \in 1..n : cs[k] = Call(es[i], b[i])
      /\ \A k, l \in DOMAIN cs : k < l =>
            \E i, j \in 1..n : i < j /\ cs[k] = Call(es[i], b[i]) /\ cs[l] = Call(es[j], b[j])
      /\ \A i \in 1..n : IsCalled(es[i], value) => \E k \in DOMAIN cs : cs[k] = Call(es[i], b[i])
  BY <1>2 DEF CallsAll
<1>6. \A i \in 1..n : Call(es[i], b[i]).entry = es[i]
                      /\ Call(es[i], b[i]).outcome = Outcome(es[i], b[i])
  BY DEF Call
<1>7. Trace(cs, p)
  <2>1. ASSUME NEW k \in DOMAIN cs
        PROVE  \E m \in DOMAIN p[cs[k].entry.signal] : cs[k].entry = p[cs[k].entry.signal][m]
    <3>1. PICK i \in 1..n : cs[k].entry = es[i]
      BY <1>5, <1>6
    <3>2. p[cs[k].entry.signal] = es
      BY <1>1, <3>1 DEF es
    <3>. QED BY <1>1, <3>1, <3>2
  <2>2. ASSUME NEW k \in DOMAIN cs, NEW l \in DOMAIN cs, k < l
        PROVE  InOrder(cs[k].entry, cs[l].entry)
    <3>1. PICK i \in 1..n, j \in 1..n : i < j /\ cs[k].entry = es[i] /\ cs[l].entry = es[j]
      BY <1>5, <1>6, <2>2
    <3>. QED BY <1>1, <3>1
  <2>. QED BY <1>5, <2>1, <2>2 DEF Trace
<1>8. RaisedOnly(cs, {s})
  BY <1>1, <1>5, <1>6 DEF RaisedOnly
<1>9. value.kind = "present" => Len(cs) = n
  BY <1>2 DEF CallsAll
<1>10. ASSUME NEW i \in 1..n, FailingRunner(es[i]) PROVE Outcome(es[i], b[i]) = "throws" /\ IsCalled(es[i], value)
  BY <1>10, Zenon DEF FailingRunner, Outcome, IsCalled
<1>11. ASSUME ~r.failure
       PROVE  /\ ~failure /\ Passed(cs, p, s, TRUE)
              /\ value.kind = "present" => Passed(cs, p, s, FALSE)
  <2>1. ~failure /\ \A i \in 1..n : ~Fails(es[i], b[i], value)
    BY <1>2, <1>11 DEF Blamed
  <2>2. ASSUME NEW i \in 1..n, es[i].shape = "runner" \/ value.kind = "present"
        PROVE  /\ ~FailingRunner(es[i])
               /\ es[i].tag = "obligation" =>
                     \E k \in DOMAIN cs : cs[k].entry = es[i] /\ cs[k].outcome # "throws"
    <3>1. IsCalled(es[i], value)
      BY <2>2 DEF IsCalled
    <3>2. es[i].tag = "obligation" => Outcome(es[i], b[i]) # "throws"
      BY <2>1, <3>1 DEF Fails
    <3>3. ~FailingRunner(es[i])
      BY <1>10, <3>2 DEF FailingRunner
    <3>. QED BY <1>5, <1>6, <3>1, <3>2, <3>3
  <2>. QED BY <1>1, <2>1, <2>2 DEF Passed, es
<1>12. ASSUME r.failure, ~failure PROVE SomeBlamed(cs)
  <2>1. PICK i \in 1..n : Fails(es[i], b[i], value)
    BY <1>2, <1>12 DEF Blamed
  <2>2. es[i].handler = "substitute" => Outcome(es[i], b[i]) = "returns"
    BY Zenon DEF Outcome
  <2>3. PICK k \in DOMAIN cs : cs[k] = Call(es[i], b[i])
    BY <1>5, <2>1 DEF Fails
  <2>. QED BY <1>6, <2>1, <2>2, <2>3 DEF Fails, SomeBlamed, Blames
<1>13. /\ RaisedOnly(cs, {s}) /\ Trace(cs, p)
       /\ value.kind = "present" => Len(cs) = Len(p[s])
  BY <1>7, <1>8, <1>9 DEF es, n
<1>14. r.failure \in BOOLEAN /\ (r.failure => failure \/ SomeBlamed(cs))
  BY <1>2, <1>12 DEF Blamed
<1>15. Executed(r, p, s, value, failure)
  BY <1>4, <1>11, <1>13, <1>14 DEF Executed
<1>. QED BY <1>15 DEF r

LEMMA CallsConcat ==
    ASSUME NEW p, NEW s, NEW t, Trace(s, p), Trace(t, p),
           NEW raised, RaisedOnly(s, raised), NEW sig, sig \notin raised, RaisedOnly(t, {sig})
    PROVE  LET u == s \o t IN
           /\ Trace(u, p)
           /\ RaisedOnly(u, raised \cup {sig})
           /\ \A x : x # sig => Count(u, x) = Count(s, x)
           /\ Count(u, sig) = Len(t)
           /\ \A x, void : Passed(s, p, x, void) \/ Passed(t, p, x, void) => Passed(u, p, x, void)
           /\ SomeBlamed(s) \/ SomeBlamed(t) => SomeBlamed(u)
<1> DEFINE u == s \o t
           n == Len(s)
           l == Len(t)
<1>1. u \in Seq(Calls) /\ IsConcat(u, s, t)
  BY ConcatIs DEF Trace
<1> HIDE DEF u
<1>2. /\ n \in Nat /\ l \in Nat /\ DOMAIN s = 1..n /\ DOMAIN t = 1..l /\ DOMAIN u = 1..(n + l)
      /\ \A i \in 1..n : u[i] = s[i]
      /\ \A i \in 1..l : u[n + i] = t[i]
  BY <1>1 DEF IsConcat
<1> HIDE DEF n, l
<1>3. ASSUME NEW k \in DOMAIN u
      PROVE  \/ k \in 1..n /\ u[k] = s[k] /\ u[k].entry.signal \in raised
             \/ k \in (n + 1)..(n + l) /\ u[k].entry.signal = sig /\ \E i \in 1..l : k = n + i /\ u[k] = t[i]
  <2>1. CASE k <= n
    BY <1>2, <2>1 DEF RaisedOnly
  <2>2. CASE k > n
    <3> DEFINE i == k - n
    <3>1. i \in 1..l /\ k = n + i /\ k \in (n + 1)..(n + l)
      BY <1>2, <2>2
    <3> HIDE DEF i
    <3>2. u[k] = t[i] /\ u[k].entry.signal = sig
      BY <1>2, <3>1 DEF RaisedOnly
    <3>. QED BY <3>1, <3>2
  <2>. QED BY <1>2, <2>1, <2>2
<1>4. /\ \A i \in DOMAIN s : \E k \in DOMAIN u : u[k] = s[i]
      /\ \A i \in DOMAIN t : \E k \in DOMAIN u : u[k] = t[i]
  <2>1. ASSUME NEW i \in 1..l PROVE n + i \in DOMAIN u
    BY <1>2
  <2>. QED BY <1>2, <2>1
<1>5. Trace(u, p)
  <2>1. ASSUME NEW k \in DOMAIN u
        PROVE  \E m \in DOMAIN p[u[k].entry.signal] : u[k].entry = p[u[k].entry.signal][m]
    <3>1. (\E i \in DOMAIN s : u[k] = s[i]) \/ (\E i \in DOMAIN t : u[k] = t[i])
      BY <1>2, <1>3
    <3>. QED BY <3>1 DEF Trace
  <2>2. ASSUME NEW k \in DOMAIN u, NEW m \in DOMAIN u, k < m
        PROVE  InOrder(u[k].entry, u[m].entry)
    <3>1. CASE m \in 1..n
      <4>1. k \in 1..n /\ u[k] = s[k] /\ u[m] = s[m]
        BY <1>2, <2>2, <3>1
      <4>. QED BY <1>2, <2>2, <3>1, <4>1 DEF Trace
    <3>2. CASE k \in 1..n /\ m \notin 1..n
      <4>1. u[k].entry.signal \in raised /\ u[m].entry.signal = sig
        BY <1>2, <1>3, <3>2 DEF RaisedOnly
      <4>. QED BY <4>1 DEF InOrder
    <3>3. CASE k \notin 1..n
      <4>1. PICK i \in 1..l : k = n + i /\ u[k] = t[i]
        BY <1>3, <3>3
      <4>2. m \notin 1..n
        BY <1>2, <2>2, <3>3
      <4>3. PICK j \in 1..l : m = n + j /\ u[m] = t[j]
        BY <1>3, <4>2
      <4>4. i < j
        BY <1>2, <2>2, <4>1, <4>3
      <4>. QED BY <1>2, <4>1, <4>3, <4>4 DEF Trace
    <3>. QED BY <3>1, <3>2, <3>3
  <2>. QED BY <1>1, <2>1, <2>2 DEF Trace
<1>6. RaisedOnly(u, raised \cup {sig})
  BY <1>3 DEF RaisedOnly
<1>7. ASSUME NEW x, x # sig PROVE Count(u, x) = Count(s, x)
  <2>1. { k \in DOMAIN u : u[k].entry.signal = x } = { k \in DOMAIN s : s[k].entry.signal = x }
    BY <1>2, <1>3, <1>7
  <2>. QED BY <2>1 DEF Count
<1>8. Count(u, sig) = l
  <2>1. ASSUME NEW k \in (n + 1)..(n + l) PROVE k \in DOMAIN u /\ u[k].entry.signal = sig
    <3>1. k \in DOMAIN u /\ k \notin 1..n
      BY <1>2
    <3>. QED BY <1>3, <3>1
  <2>2. { k \in DOMAIN u : u[k].entry.signal = sig } = (n + 1)..(n + l)
    BY <1>3, <2>1
  <2>3. Cardinality((n + 1)..(n + l)) = l
    BY <1>2, FS_Interval
  <2>. QED BY <2>2, <2>3 DEF Count
<1>9. ASSUME NEW x, NEW void, Passed(s, p, x, void) \/ Passed(t, p, x, void)
      PROVE  Passed(u, p, x, void)
  BY <1>4, <1>9 DEF Passed
<1>10. SomeBlamed(s) \/ SomeBlamed(t) => SomeBlamed(u)
  BY <1>4 DEF SomeBlamed
<1>. QED BY <1>5, <1>6, <1>7, <1>8, <1>9, <1>10 DEF u, l

LEMMA NothingCalled ==
    ASSUME NEW p
    PROVE  Trace(<< >>, p) /\ RaisedOnly(<< >>, {}) /\ \A t \in Seq(Calls) : << >> \o t = t
BY DEF Trace, RaisedOnly

(* Calls at other signals, before or after, make nothing of the value.      *)
LEMMA MadeBefore ==
    ASSUME NEW trail, NEW cs \in Seq(Calls), NEW s, MadeBy(trail, cs, s),
           NEW w \in Seq(Calls), NEW raised, RaisedOnly(w, raised), s \notin raised
    PROVE  MadeBy(trail, w \o cs, s)
<1> DEFINE u == w \o cs
           n == Len(w)
           l == Len(cs)
<1>1. PICK g : Tracks(g, trail, cs, s)
  BY DEF MadeBy
<1> DEFINE h == [i \in DOMAIN trail |-> n + g[i]]
<1>2. IsConcat(u, w, cs)
  BY ConcatIs
<1> HIDE DEF u
<1>3. /\ n \in Nat /\ l \in Nat /\ DOMAIN w = 1..n /\ DOMAIN cs = 1..l /\ DOMAIN u = 1..(n + l)
      /\ \A i \in 1..n : u[i] = w[i]
      /\ \A i \in 1..l : u[n + i] = cs[i]
  BY <1>2 DEF IsConcat
<1> HIDE DEF n, l
<1>4. g \in [DOMAIN trail -> 1..l]
  BY <1>1, <1>3 DEF Tracks
<1>5. \A i \in DOMAIN trail : g[i] \in 1..l /\ h[i] = n + g[i] /\ h[i] \in 1..(n + l)
  BY <1>3, <1>4
<1>6. h \in [DOMAIN trail -> DOMAIN u]
  BY <1>3, <1>5
<1> HIDE DEF h
<1>7. \A i \in DOMAIN trail : u[h[i]] = cs[g[i]]
  BY <1>3, <1>5
<1>8. \A i, j \in DOMAIN trail : i < j => h[i] < h[j]
  BY <1>1, <1>3, <1>5 DEF Tracks
<1>9. ASSUME NEW k \in DOMAIN u, Maps(u[k], s) PROVE \E i \in DOMAIN trail : h[i] = k
  <2>1. k \notin 1..n
    BY <1>3, <1>9 DEF RaisedOnly, Maps
  <2> DEFINE m == k - n
  <2>2. m \in 1..l /\ k = n + m
    BY <1>3, <2>1
  <2> HIDE DEF m
  <2>3. PICK i \in DOMAIN trail : g[i] = m
    BY <1>1, <1>3, <1>9, <2>2 DEF Tracks
  <2>. QED BY <1>5, <2>2, <2>3
<1>10. Tracks(h, trail, u, s)
  BY <1>1, <1>6, <1>7, <1>8, <1>9 DEF Tracks
<1>. QED BY <1>10 DEF MadeBy, u

LEMMA MadeAfter ==
    ASSUME NEW trail, NEW cs \in Seq(Calls), NEW s, MadeBy(trail, cs, s),
           NEW w \in Seq(Calls), NEW raised, RaisedOnly(w, raised), s \notin raised
    PROVE  MadeBy(trail, cs \o w, s)
<1> DEFINE u == cs \o w
           n == Len(cs)
           l == Len(w)
<1>1. PICK g : Tracks(g, trail, cs, s)
  BY DEF MadeBy
<1>2. IsConcat(u, cs, w)
  BY ConcatIs
<1> HIDE DEF u
<1>3. /\ n \in Nat /\ l \in Nat /\ DOMAIN cs = 1..n /\ DOMAIN w = 1..l /\ DOMAIN u = 1..(n + l)
      /\ \A i \in 1..n : u[i] = cs[i]
      /\ \A i \in 1..l : u[n + i] = w[i]
  BY <1>2 DEF IsConcat
<1> HIDE DEF n, l
<1>4. g \in [DOMAIN trail -> 1..n]
  BY <1>1, <1>3 DEF Tracks
<1>5. \A i \in DOMAIN trail : u[g[i]] = cs[g[i]] /\ g[i] \in 1..(n + l)
  BY <1>3, <1>4
<1>6. g \in [DOMAIN trail -> DOMAIN u]
  BY <1>3, <1>4, <1>5
<1>7. ASSUME NEW k \in DOMAIN u, Maps(u[k], s) PROVE \E i \in DOMAIN trail : g[i] = k
  <2>1. CASE k \in 1..n
    BY <1>1, <1>3, <1>7, <2>1 DEF Tracks
  <2>2. CASE k \notin 1..n
    <3> DEFINE m == k - n
    <3>1. m \in 1..l /\ k = n + m
      BY <1>3, <2>2
    <3> HIDE DEF m
    <3>2. u[k] = w[m] /\ u[k].entry.signal \in raised
      BY <1>3, <3>1 DEF RaisedOnly
    <3>. QED BY <1>7, <3>2 DEF Maps
  <2>. QED BY <2>1, <2>2
<1>8. Tracks(g, trail, u, s)
  BY <1>1, <1>5, <1>6, <1>7 DEF Tracks
<1>. QED BY <1>8 DEF MadeBy, u

(* What the method is given, or the caller of the error.                    *)
Used(trail) == IF Usable(trail) THEN trail ELSE Raw

Uses(value, cs, s) == \E trail \in Trails : MadeBy(trail, cs, s) /\ value = Used(trail)

-----------------------------------------------------------------------------
(* The inductive invariant.                                                *)

PlanFor(d) == Plan(claims, d, IF d.verdict = "PERMIT" THEN Supported ELSE DenySignals)

Permitted == decision # NoDecision /\ decision.verdict = "PERMIT"

(* What is known where the aspect waits, and at the end.                    *)
Stages ==
    /\ transactional \in BOOLEAN
    /\ pc = "decide" => /\ decision = NoDecision
                        /\ pep = "pre" => method = "uncalled"
                        /\ pep = "post" => method \in {"value", "void"}
    /\ pc = "method" => /\ method = "running"
                        /\ pep = "pre" => Permitted
                        /\ pep = "post" => decision = NoDecision
    /\ pc = "done" => method # "running"
    /\ pep = "pre" /\ method # "uncalled" => Permitted
    /\ pep = "post" => method # "uncalled"
    /\ outcome = "denied" => decision # NoDecision
    /\ outcome = "returned" => Permitted /\ method # "uncalled"
    /\ pep = "pre" /\ outcome = "failed" => method = "error"
    /\ pep = "pre" /\ outcome # "pending" => decision # NoDecision

(* The calls are those of the plan in force, in its order.                  *)
Traced ==
    /\ decision = NoDecision => called = << >>
    /\ decision # NoDecision => plan = PlanFor(decision) /\ Trace(called, plan)
    /\ pc = "method" => RaisedOnly(called, {"decision", "input"})

(* Every entry of a signal that was raised with a value was called.         *)
Counted ==
    decision # NoDecision =>
        /\ Count(called, "decision") = Len(plan["decision"])
        /\ pep = "pre" /\ decision.verdict = "PERMIT" =>
              /\ Count(called, "input") = Len(plan["input"])
              /\ method = "value" => Count(called, "output") = Len(plan["output"])
              /\ method = "error" => Count(called, "error") = Len(plan["error"])

(* The method was not invoked, nor its value or error passed, before the    *)
(* signals on the way had passed.                                          *)
SignalsPassed ==
    /\ pep = "pre" /\ method # "uncalled" =>
          Passed(called, plan, "decision", FALSE) /\ Passed(called, plan, "input", FALSE)
    /\ outcome = "returned" =>
          /\ Passed(called, plan, "decision", FALSE)
          /\ Passed(called, plan, "output", pep = "pre" /\ method = "void")
    /\ pep = "pre" /\ outcome = "failed" => Passed(called, plan, "error", FALSE)

BlameFound == outcome = "denied" => decision.verdict # "PERMIT" \/ SomeBlamed(called)

(* The transaction is open while the method's effects may still be undone.  *)
Transacted ==
    /\ ~transactional => transaction = "none"
    /\ transactional /\ pc # "done" /\ method # "uncalled" => transaction = "open"
    /\ method = "uncalled" => transaction = "none"

MInv ==
    /\ TypeOK /\ ClaimsTyped /\ Stages /\ Traced /\ Counted
    /\ SignalsPassed /\ BlameFound /\ Transacted /\ EffectsOnlyIfReturned

-----------------------------------------------------------------------------
(* What the invariant says of the obligations.                              *)

LEMMA PassedDischarges ==
    ASSUME ClaimsTyped, NEW d \in Decision, NEW cs, Passed(cs, PlanOf(d), "decision", FALSE),
           NEW c \in Range(d.obligations)
    PROVE  /\ Admissible(c)
           /\ \A h \in Demanded(c) : h \in Handler /\ h.signal \in Supported
           /\ \A h \in Demanded(c), void \in BOOLEAN : Passed(cs, PlanOf(d), h.signal, void) =>
                 \/ void /\ h.shape # "runner"
                 \/ \E k \in DOMAIN cs : /\ cs[k].entry = Scheduled(h, "obligation", c)
                                         /\ cs[k].outcome # "throws"
<1>1. \A n \in DOMAIN PlanOf(d)["decision"] : ~FailingRunner(PlanOf(d)["decision"][n])
  BY DEF Passed
<1>2. /\ Admissible(c)
      /\ \A h \in Demanded(c) : \E n \in DOMAIN PlanOf(d)[h.signal] :
            \/ PlanOf(d)[h.signal][n] = Scheduled(h, "obligation", c)
            \/ FailingRunner(PlanOf(d)[h.signal][n])
  BY <1>1, ObligationPlanned
<1>3. c \in Constraint
  BY ResolvedIs
<1>4. PICK p : Sole(c, "obligation", Supported, p)
  BY <1>2, <1>3, AdmissibleIsSole
<1>5. ASSUME NEW h \in Demanded(c) PROVE h \in Handler /\ h.signal \in Supported
  <2>1. PICK i \in DOMAIN claims[p][c] : claims[p][c][i] = h
    BY <1>3, <1>4, SoleDemands
  <2>2. h \in Handler
    BY <1>3, <1>4, SoleDemands
  <2>. QED BY <1>4, <2>1, <2>2 DEF Sole, IsWellFormed
<1>6. ASSUME NEW h \in Demanded(c), NEW void \in BOOLEAN, Passed(cs, PlanOf(d), h.signal, void),
             ~(void /\ h.shape # "runner")
      PROVE  \E k \in DOMAIN cs : /\ cs[k].entry = Scheduled(h, "obligation", c)
                                  /\ cs[k].outcome # "throws"
  <2> DEFINE es == PlanOf(d)[h.signal]
  <2>1. PICK n \in DOMAIN es : es[n] = Scheduled(h, "obligation", c) \/ FailingRunner(es[n])
    BY <1>2
  <2>2. es[n].shape = "runner" \/ ~void
    BY <1>6, <2>1 DEF FailingRunner, Scheduled
  <2>3. /\ ~FailingRunner(es[n])
        /\ es[n].tag = "obligation" =>
              \E k \in DOMAIN cs : cs[k].entry = es[n] /\ cs[k].outcome # "throws"
    BY <1>6, <2>2 DEF Passed
  <2>4. Scheduled(h, "obligation", c).tag = "obligation"
    BY DEF Scheduled
  <2>. QED BY <2>1, <2>3, <2>4
<1>. QED BY <1>2, <1>5, <1>6

(* A call of the entry a demanded handler has in the plan.                  *)
LEMMA CallOfEntry ==
    ASSUME called \in Seq(Calls), NEW h, NEW c, NEW k \in DOMAIN called, NEW outcomes,
           called[k].entry = Scheduled(h, "obligation", c), called[k].outcome \in outcomes
    PROVE  Called(h, c, outcomes)
<1>1. /\ called[k].entry.handler = "claimed"
      /\ called[k].entry.constraint = c
      /\ called[k].entry.signal = h.signal
      /\ called[k].entry.priority = h.priority
      /\ called[k].entry.shape = h.shape
  BY DEF Scheduled
<1>. QED BY <1>1 DEF Called

LEMMA AllDischargedIf ==
    ASSUME MInv, Permitted, NEW signals, Passed(called, plan, "decision", FALSE),
           \A s \in signals \cap Supported :
              Passed(called, plan, s, FALSE)
              \/ (s = "output" /\ Passed(called, plan, s, TRUE) /\ pep = "pre" /\ method = "void")
    PROVE  AllDischarged(signals)
<1>1. ClaimsTyped /\ decision \in Decision /\ plan = PlanOf(decision) /\ called \in Seq(Calls)
  BY DEF MInv, TypeOK, Traced, Permitted, PlanFor, PlanOf, Trace
<1>2. SUFFICES ASSUME NEW c \in Range(decision.obligations)
               PROVE  Discharged(c, signals)
  BY DEF AllDischarged
<1>3. Admissible(c) /\ \A h \in Demanded(c) : h.signal \in Supported
  BY <1>1, PassedDischarges
<1>4. ASSUME NEW h \in Demanded(c), h.signal \in signals
      PROVE  \/ Called(h, c, {"returns", "odd", "undefined"})
             \/ pep = "pre" /\ method = "void" /\ h.signal = "output" /\ h.shape # "runner"
  <2>1. PICK void \in BOOLEAN :
            /\ Passed(called, plan, h.signal, void)
            /\ void => pep = "pre" /\ method = "void" /\ h.signal = "output"
    BY <1>3, <1>4
  <2>2. CASE void /\ h.shape # "runner"
    BY <2>1, <2>2
  <2>3. CASE \E k \in DOMAIN called : /\ called[k].entry = Scheduled(h, "obligation", c)
                                      /\ called[k].outcome # "throws"
    <3>1. PICK k \in DOMAIN called : /\ called[k].entry = Scheduled(h, "obligation", c)
                                     /\ called[k].outcome # "throws"
      BY <2>3
    <3>2. called[k] \in Calls
      BY <1>1
    <3>3. called[k].outcome \in {"returns", "odd", "undefined"}
      BY <3>1, <3>2 DEF Calls, Outcomes
    <3>. QED BY <1>1, <3>1, <3>3, CallOfEntry
  <2>. QED BY <1>1, <2>1, <2>2, <2>3, PassedDischarges
<1>. QED BY <1>3, <1>4 DEF Discharged

LEMMA InvariantDischarges ==
    ASSUME MInv
    PROVE  MethodRunsOnlyIfPermitted /\ ReturnsOnlyIfDischarged
<1> USE DEF MInv
<1>1. ASSUME pep = "pre", method # "uncalled"
      PROVE  decision.verdict = "PERMIT" /\ AllDischarged({"decision", "input"})
  BY <1>1, AllDischargedIf DEF Stages, SignalsPassed, Permitted
<1>2. ASSUME outcome = "returned"
      PROVE  decision.verdict = "PERMIT" /\ AllDischarged({"decision", "input", "output"})
  <2>1. Permitted
    BY <1>2 DEF Stages
  <2>2. Passed(called, plan, "decision", FALSE)
    BY <1>2 DEF SignalsPassed
  <2>3. "input" \in Supported => Passed(called, plan, "input", FALSE)
    <3>1. "input" \in Supported => pep = "pre" /\ method # "uncalled"
      BY <1>2 DEF Supported, PreSignals, PostSignals, Stages
    <3>. QED BY <3>1 DEF SignalsPassed
  <2>4. Passed(called, plan, "output", FALSE)
        \/ (Passed(called, plan, "output", TRUE) /\ pep = "pre" /\ method = "void")
    BY <1>2 DEF SignalsPassed
  <2>. QED BY <2>1, <2>2, <2>3, <2>4, AllDischargedIf DEF Permitted
<1>3. ASSUME pep = "pre", outcome = "failed"
      PROVE  AllDischarged({"decision", "input", "error"})
  <2>1. method # "uncalled" /\ Permitted
    BY <1>3 DEF Stages
  <2>2. \A s \in {"decision", "input", "error"} : Passed(called, plan, s, FALSE)
    BY <1>3, <2>1 DEF SignalsPassed
  <2>. QED BY <2>1, <2>2, AllDischargedIf
<1>. QED BY <1>1, <1>2, <1>3 DEF MethodRunsOnlyIfPermitted, ReturnsOnlyIfDischarged

(* The invariant finds the reason of a denial.                              *)
LEMMA InvariantBlames ==
    ASSUME MInv
    PROVE  DeniedForAReason
<1>1. SUFFICES ASSUME outcome = "denied", decision.verdict = "PERMIT"
               PROVE  \E c \in Range(decision.obligations) :
                         \/ ~Admissible(c)
                         \/ \E h \in Demanded(c) : Called(h, c, {"throws"})
                         \/ \E h \in Demanded(c) : h.shape = "mapper" /\ ~Called(h, c, MayDo(h))
  BY DEF DeniedForAReason
<1>2. decision # NoDecision /\ SomeBlamed(called)
  BY <1>1 DEF MInv, Stages, BlameFound
<1>3. ClaimsTyped /\ decision \in Decision /\ plan = PlanOf(decision) /\ Trace(called, plan)
  BY <1>1, <1>2 DEF MInv, TypeOK, Traced, PlanFor, PlanOf
<1>4. PICK k \in DOMAIN called : Blames(called[k])
  BY <1>2 DEF SomeBlamed
<1> DEFINE e == called[k].entry
           s == e.signal
<1>5. PICK n \in DOMAIN plan[s] : e = plan[s][n]
  BY <1>3 DEF Trace
<1>6. e \in PlanEntry /\ s \in Signal /\ called \in Seq(Calls)
  <2>1. called \in Seq(Calls) /\ called[k] \in Calls
    BY <1>3 DEF Trace
  <2>2. e \in PlanEntry
    BY <2>1 DEF Calls
  <2>. QED BY <2>1, <2>2 DEF PlanEntry
<1>7. e.tag = "obligation" /\ e.handler # "substitute" /\ called[k].outcome = "throws"
  BY <1>4 DEF Blames
<1> HIDE DEF e, s
<1>8. CASE \E c \in Range(decision.obligations) : ~Admissible(c)
  BY <1>8
<1>9. CASE \E c \in Range(decision.obligations) : \E h \in Demanded(c) : e = Scheduled(h, "obligation", c)
  <2>1. PICK c \in Range(decision.obligations) : \E h \in Demanded(c) : e = Scheduled(h, "obligation", c)
    BY <1>9
  <2>3. PICK h \in Demanded(c) : e = Scheduled(h, "obligation", c)
    BY <2>1
  <2>2. Called(h, c, {"throws"})
    BY <1>6, <1>7, <2>3, CallOfEntry DEF e
  <2>. QED BY <2>2
<1>10. CASE \E c \in Range(decision.obligations) : \E h \in Demanded(c) :
               /\ h.shape = "mapper" /\ h.signal = s
               /\ \A m \in DOMAIN plan[s] : ~(plan[s][m].shape = "mapper" /\ plan[s][m].priority = h.priority)
  <2>1. PICK c \in Range(decision.obligations) : \E h \in Demanded(c) :
               /\ h.shape = "mapper" /\ h.signal = s
               /\ \A m \in DOMAIN plan[s] : ~(plan[s][m].shape = "mapper" /\ plan[s][m].priority = h.priority)
    BY <1>10
  <2>2. PICK h \in Demanded(c) :
               /\ h.shape = "mapper" /\ h.signal = s
               /\ \A m \in DOMAIN plan[s] : ~(plan[s][m].shape = "mapper" /\ plan[s][m].priority = h.priority)
    BY <2>1
  <2>3. ~Called(h, c, MayDo(h))
    BY <1>3, <2>2 DEF Called, Trace
  <2>. QED BY <2>2, <2>3
<1>. QED BY <1>3, <1>5, <1>6, <1>7, <1>8, <1>9, <1>10, FailurePlanned

LEMMA InvariantIsBestEffort ==
    ASSUME MInv
    PROVE  BestEffort
<1>1. \A k, l \in DOMAIN called : k < l => InOrder(called[k].entry, called[l].entry)
  <2>1. CASE decision = NoDecision
    BY <2>1 DEF MInv, Traced
  <2>2. CASE decision # NoDecision
    BY <2>2 DEF MInv, Traced, Trace
  <2>. QED BY <2>1, <2>2
<1>2. \A x : CalledAt(x) = Count(called, x)
  BY DEF CalledAt, Count
<1>. QED BY <1>1, <1>2 DEF BestEffort, MInv, Counted

-----------------------------------------------------------------------------
(* The handlers.                                                           *)

LEMMA PresentRaw == Present(Raw) \in Values /\ Present(Raw).kind = "present"
<1>1. Raw \in Trails
  BY DEF Raw, Trails
<1>. QED BY <1>1 DEF Present, Values

Raised(r, p, s, failure) == Executed(r, p, s, Present(Raw), failure)

LEMMA RaisedRaw ==
    ASSUME NEW p, FinePlan(p), NEW s \in Signal, NEW failure \in BOOLEAN, NEW b \in Behaviours(p, s)
    PROVE  Raised(Execute(p, s, Present(Raw), failure, b), p, s, failure)
BY PresentRaw, ExecuteTraces DEF Raised

(* What a signal raised with the raw value gives.                           *)
LEMMA RaisedGives ==
    ASSUME NEW r, NEW p, NEW s, NEW failure, Raised(r, p, s, failure)
    PROVE  /\ r \in [value : Values, failure : BOOLEAN, called : Seq(Calls)]
           /\ r.value \in Values /\ r.value.kind = "present" /\ r.value.value \in Trails
           /\ s # "output" => r.value.value \in Seq(Constraint \cup {Odd})
           /\ r.failure \in BOOLEAN
           /\ Trace(r.called, p)
           /\ RaisedOnly(r.called, {s})
           /\ Len(r.called) = Len(p[s])
           /\ ~r.failure => failure = FALSE /\ Passed(r.called, p, s, FALSE)
           /\ r.failure => failure \/ SomeBlamed(r.called)
<1>1. r.value \in Values /\ r.value.kind = "present"
  BY PresentRaw DEF Raised, Executed
<1>2. r.value.value \in Trails
  BY <1>1 DEF Values, Absent
<1>3. r \in [value : Values, failure : BOOLEAN, called : Seq(Calls)]
  BY DEF Raised, Executed, Trace
<1>. QED BY <1>1, <1>2, <1>3, PresentRaw DEF Raised, Executed

(* What is known of the calls u made of s followed by t, at a new signal.   *)
Joined(u, s, t, p, raised, sig) ==
    /\ Trace(u, p)
    /\ RaisedOnly(u, raised \cup {sig})
    /\ \A x : x # sig => Count(u, x) = Count(s, x)
    /\ Count(u, sig) = Len(t)
    /\ \A x, void : Passed(s, p, x, void) \/ Passed(t, p, x, void) => Passed(u, p, x, void)
    /\ SomeBlamed(s) \/ SomeBlamed(t) => SomeBlamed(u)

LEMMA CallsJoin ==
    ASSUME NEW p, NEW s, NEW t, Trace(s, p), Trace(t, p),
           NEW raised, RaisedOnly(s, raised), NEW sig, sig \notin raised, RaisedOnly(t, {sig})
    PROVE  Joined(s \o t, s, t, p, raised, sig)
<1> DEFINE u == s \o t
<1>1. /\ Trace(u, p)
      /\ RaisedOnly(u, raised \cup {sig})
      /\ \A x : x # sig => Count(u, x) = Count(s, x)
      /\ Count(u, sig) = Len(t)
      /\ \A x, void : Passed(s, p, x, void) \/ Passed(t, p, x, void) => Passed(u, p, x, void)
      /\ SomeBlamed(s) \/ SomeBlamed(t) => SomeBlamed(u)
  BY CallsConcat
<1> HIDE DEF u
<1>2. Joined(u, s, t, p, raised, sig)
  BY <1>1 DEF Joined
<1>. QED BY <1>2 DEF u

(* Nothing was called before: the calls of the signal are all there are.    *)
LEMMA CallsBegin ==
    ASSUME NEW p, NEW t, Trace(t, p), NEW sig, RaisedOnly(t, {sig})
    PROVE  << >> \o t = t /\ Count(t, sig) = Len(t)
<1>1. << >> \o t = t
  BY NothingCalled DEF Trace
<1>2. Joined(<< >> \o t, << >>, t, p, {}, sig)
  BY NothingCalled, CallsJoin
<1>. QED BY <1>1, <1>2 DEF Joined

(* HandleDeny raises the decision signal.                                  *)
LEMMA DenyStep ==
    ASSUME ClaimsTyped, NEW d \in Decision, called = << >>, HandleDeny(d)
    PROVE  /\ plan' = Plan(claims, d, DenySignals) /\ plan' # NoPlan
           /\ Trace(called', plan')
           /\ Count(called', "decision") = Len(plan'["decision"])
           /\ End("denied", Absent)
<1>1. plan' = Plan(claims, d, DenySignals) /\ End("denied", Absent)
  BY DEF HandleDeny
<1>2. PICK b \in Behaviours(plan', "decision") :
          called' = called \o Execute(plan', "decision", Present(Raw), FALSE, b).called
  BY DEF HandleDeny
<1> DEFINE p == plan'
           r == Execute(p, "decision", Present(Raw), FALSE, b)
<1>3. FinePlan(p) /\ p # NoPlan
  BY <1>1, PlanIsFine
<1>4. "decision" \in Signal
  BY DEF Signal
<1>5. Raised(r, p, "decision", FALSE)
  BY <1>2, <1>3, <1>4, RaisedRaw
<1>6. called' = << >> \o r.called
  BY <1>2
<1> HIDE DEF r, p
<1>7. Trace(r.called, p) /\ RaisedOnly(r.called, {"decision"}) /\ Len(r.called) = Len(p["decision"])
  BY <1>5, RaisedGives
<1>8. called' = r.called /\ Count(r.called, "decision") = Len(r.called)
  BY <1>6, <1>7, CallsBegin
<1>. QED BY <1>1, <1>3, <1>7, <1>8 DEF p

(* The decision signal and the one after it.                                *)
LEMMA TwoSignals ==
    ASSUME NEW p, NEW s, s # "decision", NEW f, NEW r, NEW prior,
           Raised(f, p, "decision", FALSE), Raised(r, p, s, prior),
           prior \in {FALSE, f.failure}
    PROVE  LET cs == f.called \o r.called IN
           /\ f.called \in Seq(Calls) /\ cs \in Seq(Calls)
           /\ Trace(cs, p)
           /\ RaisedOnly(cs, {"decision", s})
           /\ Count(f.called, "decision") = Len(p["decision"])
           /\ Count(cs, "decision") = Len(p["decision"])
           /\ Count(cs, s) = Len(p[s])
           /\ ~f.failure => Passed(cs, p, "decision", FALSE)
           /\ ~r.failure => Passed(cs, p, s, FALSE)
           /\ f.failure => SomeBlamed(f.called) /\ SomeBlamed(cs)
           /\ r.failure => SomeBlamed(cs)
<1> DEFINE cs == f.called \o r.called
<1>1. /\ Trace(f.called, p) /\ RaisedOnly(f.called, {"decision"})
      /\ Len(f.called) = Len(p["decision"])
      /\ ~f.failure => Passed(f.called, p, "decision", FALSE)
      /\ f.failure => SomeBlamed(f.called)
  BY RaisedGives
<1>2. /\ Trace(r.called, p) /\ RaisedOnly(r.called, {s})
      /\ Len(r.called) = Len(p[s])
      /\ ~r.failure => Passed(r.called, p, s, FALSE)
      /\ r.failure => f.failure \/ SomeBlamed(r.called)
  BY RaisedGives
<1>3. Count(f.called, "decision") = Len(f.called)
  BY <1>1, CallsBegin
<1>4. Joined(cs, f.called, r.called, p, {"decision"}, s)
  BY <1>1, <1>2, CallsJoin
<1>5. {"decision"} \cup {s} = {"decision", s}
  OBVIOUS
<1> HIDE DEF cs
<1>6. f.called \in Seq(Calls) /\ cs \in Seq(Calls)
  BY <1>1, <1>4 DEF Trace, Joined
<1>. QED BY <1>1, <1>2, <1>3, <1>4, <1>5, <1>6 DEF cs, Joined

(* HandlePermitPre raises decision and input.                              *)
LEMMA PermitPreStep ==
    ASSUME ClaimsTyped, NEW d \in Decision, called = << >>, HandlePermitPre(d)
    PROVE  /\ plan' = Plan(claims, d, PreSignals) /\ plan' # NoPlan
           /\ Trace(called', plan')
           /\ RaisedOnly(called', {"decision", "input"})
           /\ Count(called', "decision") = Len(plan'["decision"])
           /\ Count(called', "input") = Len(plan'["input"])
           /\ \/ /\ SomeBlamed(called')
                 /\ End("denied", Absent) /\ UNCHANGED << args, method >>
              \/ /\ Passed(called', plan', "decision", FALSE)
                 /\ Passed(called', plan', "input", FALSE)
                 /\ args' \in Seq(Constraint \cup {Odd})
                 /\ method' = "running"
                 /\ pc' = "method"
                 /\ transaction' = IF transactional THEN "open" ELSE "none"
                 /\ UNCHANGED << outcome, result >>
                 /\ SubstituteFirst(plan'["input"]) => Uses(args', called', "input")
<1> DEFINE p == plan'
<1>1. p = Plan(claims, d, PreSignals)
  BY DEF HandlePermitPre
<1>2. PICK b \in Behaviours(p, "decision"), c \in Behaviours(p, "input") :
          LET before == BeforeInvocation(p, b, c) IN
          /\ called' = called \o before.called
          /\ IF before.failure
             THEN End("denied", Absent) /\ UNCHANGED << args, method >>
             ELSE /\ args' = IF Usable(before.value.value) THEN before.value.value ELSE Raw
                  /\ method' = "running"
                  /\ pc' = "method"
                  /\ transaction' = IF transactional THEN "open" ELSE "none"
                  /\ UNCHANGED << outcome, result >>
  BY DEF HandlePermitPre
<1> DEFINE f == Execute(p, "decision", Present(Raw), FALSE, b)
           r == Execute(p, "input", Present(Raw), f.failure, c)
           before == BeforeInvocation(p, b, c)
           cs == f.called \o r.called
<1>3. FinePlan(p) /\ p # NoPlan
  BY <1>1, PlanIsFine
<1>4. "input" \in Signal /\ "decision" \in Signal
  BY DEF Signal
<1>5. Raised(f, p, "decision", FALSE)
  BY <1>3, <1>4, RaisedRaw
<1>6. f.failure \in BOOLEAN
  BY <1>5, RaisedGives
<1>7. Raised(r, p, "input", f.failure)
  BY <1>3, <1>4, <1>6, RaisedRaw
<1>8. before = [r EXCEPT !.called = cs]
  BY DEF BeforeInvocation
<1> HIDE DEF p, r, f, before
<1>9. /\ cs \in Seq(Calls) /\ Trace(cs, p)
      /\ RaisedOnly(cs, {"decision", "input"})
      /\ Count(cs, "decision") = Len(p["decision"])
      /\ Count(cs, "input") = Len(p["input"])
      /\ ~f.failure => Passed(cs, p, "decision", FALSE)
      /\ ~r.failure => Passed(cs, p, "input", FALSE)
      /\ r.failure => SomeBlamed(cs)
  BY <1>5, <1>7, TwoSignals
<1> HIDE DEF cs
<1>10. /\ r \in [value : Values, failure : BOOLEAN, called : Seq(Calls)]
       /\ r.failure \in BOOLEAN
       /\ r.value.value \in Seq(Constraint \cup {Odd})
       /\ ~r.failure => ~f.failure
  <2>1. r \in [value : Values, failure : BOOLEAN, called : Seq(Calls)]
    BY <1>7, RaisedGives
  <2>2. r.failure \in BOOLEAN
    BY <1>7, RaisedGives
  <2>3. r.value.value \in Seq(Constraint \cup {Odd})
    BY <1>7, RaisedGives
  <2>4. ~r.failure => ~f.failure
    BY <1>7, RaisedGives
  <2>. QED BY <2>1, <2>2, <2>3, <2>4
<1>11. before.called = cs /\ before.failure = r.failure /\ before.value = r.value
  BY <1>8, <1>10
<1>12. called' = cs
  BY <1>2, <1>9, <1>11, NothingCalled DEF before
<1>13. CASE r.failure
  <2>1. End("denied", Absent) /\ UNCHANGED << args, method >>
    BY <1>2, <1>11, <1>13 DEF before
  <2>. QED BY <1>1, <1>3, <1>9, <1>12, <1>13, <2>1 DEF p
<1>14. CASE ~r.failure
  <2>1. /\ args' = IF Usable(r.value.value) THEN r.value.value ELSE Raw
        /\ method' = "running"
        /\ pc' = "method"
        /\ transaction' = IF transactional THEN "open" ELSE "none"
        /\ UNCHANGED << outcome, result >>
    BY <1>2, <1>11, <1>14 DEF before
  <2>2. args' \in Seq(Constraint \cup {Odd})
    BY <1>10, <2>1 DEF Raw
  <2>3. ASSUME SubstituteFirst(p["input"]) PROVE Uses(args', cs, "input")
    <3>1. MadeBy(r.value.value, r.called, "input")
      BY <1>2, <1>3, <1>4, <1>6, <2>3, ExecuteMakes DEF FinePlan, r
    <3>2. f.called \in Seq(Calls) /\ RaisedOnly(f.called, {"decision"})
      BY <1>5, RaisedGives DEF Trace
    <3>3. r.called \in Seq(Calls) /\ r.value.value \in Trails
      BY <1>7, RaisedGives DEF Trace
    <3>4. MadeBy(r.value.value, cs, "input")
      BY <3>1, <3>2, <3>3, MadeBefore DEF cs
    <3>. QED BY <2>1, <3>3, <3>4 DEF Uses, Used
  <2>. QED BY <1>1, <1>3, <1>9, <1>10, <1>12, <1>14, <2>1, <2>2, <2>3 DEF p
<1>. QED BY <1>13, <1>14

(* HandlePermitPost raises decision, and output if decision passed.        *)
LEMMA PermitPostStep ==
    ASSUME ClaimsTyped, NEW d \in Decision, called = << >>, HandlePermitPost(d)
    PROVE  /\ plan' = Plan(claims, d, PostSignals) /\ plan' # NoPlan
           /\ Trace(called', plan')
           /\ Count(called', "decision") = Len(plan'["decision"])
           /\ \/ SomeBlamed(called') /\ End("denied", Absent)
              \/ /\ Passed(called', plan', "decision", FALSE)
                 /\ Passed(called', plan', "output", FALSE)
                 /\ \E value \in Values :
                       /\ End("returned", value) /\ value.kind = "present"
                       /\ SubstituteFirst(plan'["output"]) => MadeBy(value.value, called', "output")
<1> DEFINE p == plan'
<1>1. p = Plan(claims, d, PostSignals)
  BY DEF HandlePermitPost
<1>2. PICK b \in Behaviours(p, "decision"), c \in Behaviours(p, "output") :
          LET first  == Execute(p, "decision", Present(Raw), FALSE, b)
              output == Execute(p, "output", Present(Raw), FALSE, c)
          IN  IF first.failure
              THEN called' = called \o first.called /\ End("denied", Absent)
              ELSE /\ called' = called \o first.called \o output.called
                   /\ IF output.failure THEN End("denied", Absent)
                                        ELSE End("returned", output.value)
  BY DEF HandlePermitPost
<1> DEFINE f == Execute(p, "decision", Present(Raw), FALSE, b)
           r == Execute(p, "output", Present(Raw), FALSE, c)
           cs == f.called \o r.called
<1>3. FinePlan(p) /\ p # NoPlan
  BY <1>1, PlanIsFine
<1>4. "output" \in Signal /\ "decision" \in Signal
  BY DEF Signal
<1>5. Raised(f, p, "decision", FALSE) /\ Raised(r, p, "output", FALSE)
  BY <1>3, <1>4, RaisedRaw
<1> HIDE DEF p, r, f
<1>6. /\ cs \in Seq(Calls) /\ Trace(cs, p)
      /\ Count(f.called, "decision") = Len(p["decision"])
      /\ Count(cs, "decision") = Len(p["decision"])
      /\ ~f.failure => Passed(cs, p, "decision", FALSE)
      /\ ~r.failure => Passed(cs, p, "output", FALSE)
      /\ f.failure => SomeBlamed(f.called)
      /\ r.failure => SomeBlamed(cs)
  BY <1>5, TwoSignals
<1> HIDE DEF cs
<1>7. Trace(f.called, p) /\ RaisedOnly(f.called, {"decision"})
  BY <1>5, RaisedGives
<1>8. called \o f.called = f.called
  BY <1>7, CallsBegin
<1>9. CASE f.failure
  <2>1. called' = f.called /\ End("denied", Absent)
    BY <1>2, <1>8, <1>9 DEF f
  <2>. QED BY <1>1, <1>3, <1>6, <1>7, <1>9, <2>1 DEF p
<1>10. CASE ~f.failure
  <2>1. /\ called' = cs
        /\ IF r.failure THEN End("denied", Absent) ELSE End("returned", r.value)
    BY <1>2, <1>8, <1>10 DEF f, r, cs
  <2>2. r.value \in Values /\ r.value.kind = "present"
    BY <1>5, RaisedGives
  <2>3. ASSUME SubstituteFirst(p["output"]) PROVE MadeBy(r.value.value, cs, "output")
    <3>1. MadeBy(r.value.value, r.called, "output")
      BY <1>2, <1>3, <1>4, <2>3, ExecuteMakes DEF FinePlan, r
    <3>2. r.called \in Seq(Calls)
      BY <1>5, RaisedGives DEF Trace
    <3>3. f.called \in Seq(Calls) /\ RaisedOnly(f.called, {"decision"})
      BY <1>7 DEF Trace
    <3>. QED BY <3>1, <3>2, <3>3, MadeBefore DEF cs
  <2>. QED BY <1>1, <1>3, <1>6, <1>10, <2>1, <2>2, <2>3 DEF p
<1>. QED BY <1>9, <1>10

(* What is known of the calls cs after signal s, raised after the method    *)
(* with a value or without, had result r.                                  *)
Late(r, cs, s, value) ==
    /\ r.failure \in BOOLEAN /\ r.value \in Values /\ r.value.kind = value.kind
    /\ Trace(cs, plan)
    /\ \A x \in {"decision", "input"} : Count(cs, x) = Count(called, x)
    /\ value.kind = "present" => Count(cs, s) = Len(plan[s])
    /\ \A x, void : Passed(called, plan, x, void) => Passed(cs, plan, x, void)
    /\ ~r.failure => /\ Passed(cs, plan, s, TRUE)
                     /\ value.kind = "present" => Passed(cs, plan, s, FALSE)
    /\ r.failure => SomeBlamed(cs)

LEMMA LateSignal ==
    ASSUME FinePlan(plan), Trace(called, plan), RaisedOnly(called, {"decision", "input"}),
           NEW s, s \notin {"decision", "input"}, NEW value, NEW r,
           Executed(r, plan, s, value, FALSE)
    PROVE  Late(r, called \o r.called, s, value)
<1> DEFINE cs == called \o r.called
<1>1. /\ r.failure \in BOOLEAN /\ r.value \in Values /\ r.value.kind = value.kind
      /\ Trace(r.called, plan) /\ RaisedOnly(r.called, {s})
      /\ value.kind = "present" => Len(r.called) = Len(plan[s])
      /\ ~r.failure => /\ Passed(r.called, plan, s, TRUE)
                       /\ value.kind = "present" => Passed(r.called, plan, s, FALSE)
      /\ r.failure => SomeBlamed(r.called)
  BY DEF Executed
<1>2. Joined(cs, called, r.called, plan, {"decision", "input"}, s)
  BY <1>1, CallsJoin
<1> HIDE DEF cs
<1>3. Late(r, cs, s, value)
  BY <1>1, <1>2 DEF Joined, Late
<1>. QED BY <1>3 DEF cs

-----------------------------------------------------------------------------
(* Every step keeps the invariant.                                         *)

LEMMA MethodInit ==
    ASSUME Init
    PROVE  MInv
<1>1. /\ pep \in {"pre", "post"} /\ transactional \in BOOLEAN
      /\ pc = IF pep = "pre" THEN "decide" ELSE "method"
      /\ method = IF pep = "pre" THEN "uncalled" ELSE "running"
      /\ decision = NoDecision /\ plan = NoPlan /\ args = Raw /\ outcome = "pending"
      /\ result = Absent /\ called = << >>
      /\ transaction = IF pep = "post" /\ transactional THEN "open" ELSE "none"
  BY DEF Init
<1>2. ClaimsTyped
  <2>1. ASSUME NEW p \in Provider, NEW c \in Constraint
        PROVE  claims[p][c] \in Seq(Handler) \cup {Throws}
    <3>1. claims[p][c] \in Answers[p][c]
      BY DEF Init
    <3>. QED BY <3>1, AnswersAssumption
  <2>. QED BY <1>1, <2>1 DEF ClaimsTyped
<1>3. TypeOK
  BY <1>1 DEF TypeOK, NoPlan, Raw, Absent
<1>4. RaisedOnly(<< >>, {"decision", "input"})
  BY DEF RaisedOnly
<1>5. Stages /\ Traced
  BY <1>1, <1>4 DEF Stages, Traced
<1>6. Counted /\ SignalsPassed /\ BlameFound
  BY <1>1 DEF Counted, SignalsPassed, BlameFound
<1>7. Transacted /\ EffectsOnlyIfReturned
  BY <1>1 DEF Transacted, EffectsOnlyIfReturned
<1>. QED BY <1>2, <1>3, <1>5, <1>6, <1>7 DEF MInv

(* What End does to the transaction.                                       *)
LEMMA EndTransacts ==
    ASSUME Transacted, transactional \in BOOLEAN, pc # "done", transactional' = transactional,
           NEW end, NEW value, end \in {"returned", "denied", "failed"}, End(end, value),
           method' = "uncalled" <=> method = "uncalled"
    PROVE  /\ Transacted' /\ EffectsOnlyIfReturned'
           /\ transaction' \in {"none", "open", "committed", "rolledBack"}
BY DEF Transacted, EffectsOnlyIfReturned, End, TransactionAfter

LEMMA DecideDenied ==
    ASSUME MInv, pc = "decide", NEW d \in Decision, decision' = d, d.verdict # "PERMIT",
           HandleDeny(d), UNCHANGED << config, args, method >>
    PROVE  MInv'
<1>1. ClaimsTyped /\ called = << >> /\ decision = NoDecision /\ outcome = "pending"
      /\ d # NoDecision
  <2>1. d # NoDecision
    BY DEF Decision, NoDecision
  <2>. QED BY <2>1 DEF MInv, Stages, Traced, TypeOK
<1>2. /\ plan' = Plan(claims, d, DenySignals) /\ plan' # NoPlan
      /\ Trace(called', plan')
      /\ Count(called', "decision") = Len(plan'["decision"])
      /\ End("denied", Absent)
  BY <1>1, DenyStep
<1>3. Transacted' /\ EffectsOnlyIfReturned' /\ transaction' \in {"none", "open", "committed", "rolledBack"}
  BY <1>2, EndTransacts DEF MInv, Stages, config
<1>4. TypeOK'
  BY <1>1, <1>2, <1>3 DEF MInv, TypeOK, End, Absent
<1>5. ClaimsTyped'
  BY <1>1 DEF ClaimsTyped, config
<1>6. Stages'
  BY <1>1, <1>2 DEF MInv, Stages, End, config, ClaimsTyped
<1>7. Traced' /\ Counted'
  BY <1>1, <1>2 DEF Traced, Counted, End, PlanFor, config
<1>8. SignalsPassed' /\ BlameFound'
  BY <1>2 DEF MInv, Stages, SignalsPassed, BlameFound, End, config
<1>. QED BY <1>3, <1>4, <1>5, <1>6, <1>7, <1>8 DEF MInv

LEMMA PrePermitted ==
    ASSUME MInv, pep = "pre", pc = "decide", NEW d \in Decision, decision' = d, d.verdict = "PERMIT",
           HandlePermitPre(d), UNCHANGED config
    PROVE  MInv'
<1>1. /\ ClaimsTyped /\ called = << >> /\ decision = NoDecision /\ outcome = "pending"
      /\ method = "uncalled" /\ d # NoDecision /\ transactional \in BOOLEAN /\ Transacted
      /\ TypeOK
  <2>1. d # NoDecision
    BY DEF Decision, NoDecision
  <2>. QED BY <2>1 DEF MInv, Stages, Traced, TypeOK
<1>2. /\ plan' = Plan(claims, d, PreSignals) /\ plan' # NoPlan
      /\ Trace(called', plan')
      /\ RaisedOnly(called', {"decision", "input"})
      /\ Count(called', "decision") = Len(plan'["decision"])
      /\ Count(called', "input") = Len(plan'["input"])
  BY <1>1, PermitPreStep
<1>3. \/ SomeBlamed(called') /\ End("denied", Absent) /\ UNCHANGED << args, method >>
      \/ /\ Passed(called', plan', "decision", FALSE)
         /\ Passed(called', plan', "input", FALSE)
         /\ args' \in Seq(Constraint \cup {Odd})
         /\ method' = "running" /\ pc' = "method"
         /\ transaction' = IF transactional THEN "open" ELSE "none"
         /\ UNCHANGED << outcome, result >>
  BY <1>1, PermitPreStep
<1>4. ClaimsTyped' /\ pep' = "pre" /\ transactional' = transactional /\ claims' = claims
  BY <1>1 DEF ClaimsTyped, config
<1>5. plan' = PlanFor(decision)'
  BY <1>1, <1>2, <1>4 DEF PlanFor, Supported
<1>6. CASE SomeBlamed(called') /\ End("denied", Absent) /\ UNCHANGED << args, method >>
  <2>1. Transacted' /\ EffectsOnlyIfReturned' /\ transaction' \in {"none", "open", "committed", "rolledBack"}
    BY <1>1, <1>4, <1>6, EndTransacts
  <2>2. TypeOK'
    BY <1>1, <1>2, <1>6, <2>1 DEF TypeOK, End, Absent
  <2>3. Stages' /\ BlameFound'
    BY <1>1, <1>4, <1>6 DEF Stages, BlameFound, End
  <2>4. Traced' /\ Counted' /\ SignalsPassed'
    BY <1>1, <1>2, <1>4, <1>5, <1>6 DEF Traced, Counted, SignalsPassed, End
  <2>. QED BY <1>4, <2>1, <2>2, <2>3, <2>4 DEF MInv
<1>7. CASE /\ Passed(called', plan', "decision", FALSE)
           /\ Passed(called', plan', "input", FALSE)
           /\ args' \in Seq(Constraint \cup {Odd})
           /\ method' = "running" /\ pc' = "method"
           /\ transaction' = IF transactional THEN "open" ELSE "none"
           /\ UNCHANGED << outcome, result >>
  <2>1. TypeOK'
    BY <1>1, <1>2, <1>7 DEF TypeOK
  <2>2. Stages' /\ BlameFound'
    BY <1>1, <1>4, <1>7 DEF Stages, BlameFound, Permitted
  <2>3. Traced' /\ Counted' /\ SignalsPassed'
    BY <1>1, <1>2, <1>4, <1>5, <1>7 DEF Traced, Counted, SignalsPassed
  <2>4. Transacted' /\ EffectsOnlyIfReturned'
    BY <1>1, <1>4, <1>7 DEF Transacted, EffectsOnlyIfReturned
  <2>. QED BY <1>4, <2>1, <2>2, <2>3, <2>4 DEF MInv
<1>. QED BY <1>3, <1>6, <1>7

LEMMA PostPermitted ==
    ASSUME MInv, pep = "post", pc = "decide", NEW d \in Decision, decision' = d, d.verdict = "PERMIT",
           HandlePermitPost(d), UNCHANGED << config, args, method >>
    PROVE  MInv'
<1>1. /\ ClaimsTyped /\ called = << >> /\ decision = NoDecision /\ outcome = "pending"
      /\ method \in {"value", "void"} /\ d # NoDecision /\ transactional \in BOOLEAN /\ Transacted
      /\ TypeOK
  <2>1. d # NoDecision
    BY DEF Decision, NoDecision
  <2>. QED BY <2>1 DEF MInv, Stages, Traced, TypeOK
<1>2. /\ plan' = Plan(claims, d, PostSignals) /\ plan' # NoPlan
      /\ Trace(called', plan')
      /\ Count(called', "decision") = Len(plan'["decision"])
  BY <1>1, PermitPostStep
<1>3. \/ SomeBlamed(called') /\ End("denied", Absent)
      \/ /\ Passed(called', plan', "decision", FALSE)
         /\ Passed(called', plan', "output", FALSE)
         /\ \E value \in Values : End("returned", value)
  BY <1>1, PermitPostStep
<1>4. ClaimsTyped' /\ pep' = "post" /\ transactional' = transactional /\ claims' = claims
      /\ args' = args /\ method' = method
  BY <1>1 DEF ClaimsTyped, config
<1>5. plan' = PlanFor(decision)'
  BY <1>1, <1>2, <1>4 DEF PlanFor, Supported
<1>6. ASSUME NEW end \in {"denied", "returned"}, NEW value \in Values, End(end, value)
      PROVE  /\ Transacted' /\ EffectsOnlyIfReturned' /\ TypeOK'
             /\ Stages' /\ Traced' /\ Counted'
             /\ pc' = "done" /\ outcome' = end
  <2>1. Transacted' /\ EffectsOnlyIfReturned' /\ transaction' \in {"none", "open", "committed", "rolledBack"}
    BY <1>1, <1>4, <1>6, EndTransacts
  <2>2. TypeOK'
    BY <1>1, <1>2, <1>4, <1>6, <2>1 DEF TypeOK, End, Absent, Values, Trails
  <2>3. Stages'
    BY <1>1, <1>4, <1>6 DEF Stages, End, Permitted
  <2>4. Traced' /\ Counted'
    BY <1>1, <1>2, <1>4, <1>5, <1>6 DEF Traced, Counted, End
  <2>. QED BY <1>6, <2>1, <2>2, <2>3, <2>4 DEF End
<1>7. CASE SomeBlamed(called') /\ End("denied", Absent)
  <2>1. Absent \in Values
    BY DEF Values
  <2>2. SignalsPassed' /\ BlameFound'
    BY <1>4, <1>6, <1>7, <2>1 DEF SignalsPassed, BlameFound
  <2>. QED BY <1>4, <1>6, <1>7, <2>1, <2>2 DEF MInv
<1>8. CASE /\ Passed(called', plan', "decision", FALSE)
           /\ Passed(called', plan', "output", FALSE)
           /\ \E value \in Values : End("returned", value)
  <2>1. PICK value \in Values : End("returned", value)
    BY <1>8
  <2>2. (pep' = "pre" /\ method' = "void") = FALSE
    BY <1>4
  <2>3. BlameFound'
    BY <1>6, <2>1 DEF BlameFound
  <2>4. SignalsPassed'
    BY <1>4, <1>6, <1>8, <2>1, <2>2 DEF SignalsPassed
  <2>. QED BY <1>4, <1>6, <2>1, <2>3, <2>4 DEF MInv
<1>. QED BY <1>3, <1>7, <1>8

(* What is known while the permitted method of @PreEnforce runs.           *)
LEMMA WhileRunning ==
    ASSUME MInv, pep = "pre", pc = "method"
    PROVE  /\ ClaimsTyped /\ TypeOK /\ Transacted /\ transactional \in BOOLEAN
           /\ outcome = "pending" /\ method = "running"
           /\ decision # NoDecision /\ decision.verdict = "PERMIT"
           /\ plan = PlanFor(decision) /\ plan # NoPlan /\ FinePlan(plan)
           /\ Trace(called, plan) /\ RaisedOnly(called, {"decision", "input"})
           /\ Count(called, "decision") = Len(plan["decision"])
           /\ Count(called, "input") = Len(plan["input"])
           /\ Passed(called, plan, "decision", FALSE)
           /\ Passed(called, plan, "input", FALSE)
<1>1. /\ ClaimsTyped /\ TypeOK /\ Transacted /\ transactional \in BOOLEAN
      /\ outcome = "pending" /\ method = "running"
      /\ decision # NoDecision /\ decision.verdict = "PERMIT"
  BY DEF MInv, Stages, Permitted, TypeOK
<1>2. /\ plan = PlanFor(decision) /\ Trace(called, plan) /\ RaisedOnly(called, {"decision", "input"})
      /\ Count(called, "decision") = Len(plan["decision"])
      /\ Count(called, "input") = Len(plan["input"])
      /\ Passed(called, plan, "decision", FALSE)
      /\ Passed(called, plan, "input", FALSE)
  BY <1>1 DEF MInv, Traced, Counted, SignalsPassed
<1>3. decision \in Decision
  BY <1>1 DEF TypeOK
<1>4. plan # NoPlan /\ FinePlan(plan)
  BY <1>1, <1>2, <1>3, PlanIsFine DEF PlanFor
<1>. QED BY <1>1, <1>2, <1>4

(* The end of a call whose method was permitted to run.                     *)
LEMMA PreEnds ==
    ASSUME MInv, pep = "pre", pc = "method", NEW end \in {"returned", "denied", "failed"},
           NEW value \in Values, End(end, value), method' \in {"value", "void", "error"},
           UNCHANGED << config, decision, plan, args >>,
           Trace(called', plan),
           \A x \in {"decision", "input"} : Count(called', x) = Count(called, x),
           \A x, void : Passed(called, plan, x, void) => Passed(called', plan, x, void),
           method' = "value" => Count(called', "output") = Len(plan["output"]),
           method' = "error" => Count(called', "error") = Len(plan["error"]),
           end = "denied" => SomeBlamed(called'),
           end = "returned" => /\ method' = "value" => Passed(called', plan, "output", FALSE)
                               /\ method' = "void" => Passed(called', plan, "output", TRUE)
                               /\ method' # "error",
           end = "failed" => method' = "error" /\ Passed(called', plan, "error", FALSE)
    PROVE  MInv'
<1>1. /\ ClaimsTyped /\ TypeOK /\ Transacted /\ transactional \in BOOLEAN
      /\ outcome = "pending" /\ method = "running"
      /\ decision # NoDecision /\ decision.verdict = "PERMIT"
      /\ plan = PlanFor(decision)
      /\ Count(called, "decision") = Len(plan["decision"])
      /\ Count(called, "input") = Len(plan["input"])
      /\ Passed(called, plan, "decision", FALSE)
      /\ Passed(called, plan, "input", FALSE)
  BY WhileRunning
<1>2. /\ ClaimsTyped' /\ pep' = "pre" /\ transactional' = transactional /\ claims' = claims
      /\ decision' = decision /\ plan' = plan /\ args' = args
  BY <1>1 DEF ClaimsTyped, config
<1>3. Transacted' /\ EffectsOnlyIfReturned' /\ transaction' \in {"none", "open", "committed", "rolledBack"}
  BY <1>1, <1>2, EndTransacts
<1>4. TypeOK'
  BY <1>1, <1>2, <1>3 DEF TypeOK, End, Absent, Values, Trails
<1>5. Stages'
  BY <1>1, <1>2 DEF Stages, End, Permitted
<1>6. plan' = PlanFor(decision)'
  BY <1>1, <1>2 DEF PlanFor, Supported
<1>7. Traced' /\ Counted'
  BY <1>1, <1>2, <1>6 DEF Traced, Counted, End
<1>8. BlameFound'
  BY DEF BlameFound, End
<1>9. SignalsPassed'
  <2>1. outcome' = end
    BY DEF End
  <2>2. CASE method' = "void"
    <3>1. (pep' = "pre" /\ method' = "void") = TRUE
      BY <1>2, <2>2
    <3>. QED BY <1>1, <1>2, <2>1, <2>2, <3>1 DEF SignalsPassed
  <2>3. CASE method' # "void"
    <3>1. (pep' = "pre" /\ method' = "void") = FALSE
      BY <2>3
    <3>. QED BY <1>1, <1>2, <2>1, <2>3, <3>1 DEF SignalsPassed
  <2>. QED BY <2>2, <2>3
<1>. QED BY <1>2, <1>3, <1>4, <1>5, <1>7, <1>8, <1>9 DEF MInv

LEMMA OutputStep ==
    ASSUME MInv, pep = "pre", pc = "method", UNCHANGED << config, decision, plan, args >>,
           NEW value \in Values, ApplyOutput(value),
           \/ method' = "value" /\ value.kind = "present"
           \/ method' = "void"
    PROVE  MInv'
<1>1. PICK b \in Behaviours(plan, "output") :
          LET output == Execute(plan, "output", value, FALSE, b) IN
          /\ called' = called \o output.called
          /\ IF output.failure THEN End("denied", Absent) ELSE End("returned", output.value)
  BY DEF ApplyOutput
<1> DEFINE r == Execute(plan, "output", value, FALSE, b)
<1>2. called' = called \o r.called
  BY <1>1
<1>3. IF r.failure THEN End("denied", Absent) ELSE End("returned", r.value)
  BY <1>1
<1>4. "output" \in Signal /\ "output" \notin {"decision", "input"}
  BY DEF Signal
<1>5. /\ FinePlan(plan) /\ Trace(called, plan) /\ RaisedOnly(called, {"decision", "input"})
  BY WhileRunning
<1>6. Executed(r, plan, "output", value, FALSE)
  BY <1>4, <1>5, PresentRaw, ExecuteTraces
<1> HIDE DEF r
<1>7. /\ r.failure \in BOOLEAN /\ r.value \in Values /\ r.value.kind = value.kind
      /\ Trace(called', plan)
      /\ \A x \in {"decision", "input"} : Count(called', x) = Count(called, x)
      /\ value.kind = "present" => Count(called', "output") = Len(plan["output"])
      /\ \A x, void : Passed(called, plan, x, void) => Passed(called', plan, x, void)
      /\ ~r.failure => /\ Passed(called', plan, "output", TRUE)
                       /\ value.kind = "present" => Passed(called', plan, "output", FALSE)
      /\ r.failure => SomeBlamed(called')
  <2>1. Late(r, called', "output", value)
    BY <1>2, <1>4, <1>5, <1>6, LateSignal
  <2>. QED BY <2>1 DEF Late
<1>8. CASE r.failure
  <2>1. Absent \in Values
    BY DEF Values
  <2>. QED BY <1>3, <1>7, <1>8, <2>1, PreEnds
<1>9. CASE ~r.failure
  BY <1>3, <1>7, <1>9, PreEnds
<1>. QED BY <1>8, <1>9

LEMMA ErrorStep ==
    ASSUME MInv, PreThrows
    PROVE  MInv'
<1> USE DEF PreThrows
<1>1. PICK b \in Behaviours(plan, "error") :
          LET error == Execute(plan, "error", Present(Raw), FALSE, b) IN
          /\ called' = called \o error.called
          /\ End(IF error.failure THEN "denied" ELSE "failed",
                 ErrorShown(error.failure, error.value.value))
  OBVIOUS
<1> DEFINE r == Execute(plan, "error", Present(Raw), FALSE, b)
           value == ErrorShown(r.failure, r.value.value)
<1>2. called' = called \o r.called
  BY <1>1
<1>3. End(IF r.failure THEN "denied" ELSE "failed", value)
  BY <1>1
<1>4. "error" \in Signal /\ "error" \notin {"decision", "input"}
  BY DEF Signal
<1>5. /\ FinePlan(plan) /\ Trace(called, plan) /\ RaisedOnly(called, {"decision", "input"})
  BY WhileRunning
<1>6. Executed(r, plan, "error", Present(Raw), FALSE)
  BY <1>4, <1>5, PresentRaw, ExecuteTraces
<1> HIDE DEF r
<1>7. /\ r.failure \in BOOLEAN /\ r.value \in Values /\ r.value.kind = "present"
      /\ Trace(called', plan)
      /\ \A x \in {"decision", "input"} : Count(called', x) = Count(called, x)
      /\ Count(called', "error") = Len(plan["error"])
      /\ \A x, void : Passed(called, plan, x, void) => Passed(called', plan, x, void)
      /\ ~r.failure => Passed(called', plan, "error", FALSE)
      /\ r.failure => SomeBlamed(called')
  <2>1. Late(r, called', "error", Present(Raw))
    BY <1>2, <1>4, <1>5, <1>6, LateSignal
  <2>. QED BY <2>1, PresentRaw DEF Late
<1>8. value \in Values
  <2>1. r.value.value \in Trails
    BY <1>7 DEF Values, Absent
  <2>. QED BY <2>1, PresentRaw DEF ErrorShown, Values, Present
<1> HIDE DEF value
<1>9. CASE r.failure
  <2>1. End("denied", value)
    BY <1>3, <1>9
  <2>. QED BY <1>7, <1>8, <1>9, <2>1, PreEnds
<1>10. CASE ~r.failure
  <2>1. End("failed", value)
    BY <1>3, <1>10
  <2>. QED BY <1>7, <1>8, <1>10, <2>1, PreEnds
<1>. QED BY <1>9, <1>10

LEMMA PostMethodStep ==
    ASSUME MInv, PostMethodReturns \/ PostMethodThrows
    PROVE  MInv'
<1>1. /\ ClaimsTyped /\ TypeOK /\ Transacted /\ EffectsOnlyIfReturned /\ transactional \in BOOLEAN
      /\ outcome = "pending" /\ method = "running" /\ decision = NoDecision
      /\ called = << >> /\ pep = "post" /\ pc = "method"
  BY DEF MInv, Stages, Traced, TypeOK, PostMethodReturns, PostMethodThrows
<1>2. /\ pep' = pep /\ transactional' = transactional /\ claims' = claims
      /\ decision' = decision /\ plan' = plan /\ args' = args /\ called' = called
  BY DEF PostMethodReturns, PostMethodThrows, config
<1>3. ClaimsTyped'
  BY <1>1, <1>2 DEF ClaimsTyped
<1>4. Counted'
  BY <1>1, <1>2 DEF Counted
<1>5. CASE PostMethodReturns
  <2>1. /\ method' \in {"value", "void"} /\ pc' = "decide"
        /\ UNCHANGED << outcome, result, transaction >>
    BY <1>5 DEF PostMethodReturns
  <2>2. TypeOK' /\ Transacted' /\ EffectsOnlyIfReturned'
    BY <1>1, <1>2, <2>1 DEF TypeOK, Transacted, EffectsOnlyIfReturned
  <2>3. Stages' /\ Traced' /\ SignalsPassed' /\ BlameFound'
    BY <1>1, <1>2, <2>1 DEF Stages, Traced, SignalsPassed, BlameFound
  <2>. QED BY <1>3, <1>4, <2>2, <2>3 DEF MInv
<1>6. CASE PostMethodThrows
  <2>1. method' = "error" /\ End("failed", Present(Raw))
    BY <1>6 DEF PostMethodThrows
  <2>2. Transacted' /\ EffectsOnlyIfReturned' /\ transaction' \in {"none", "open", "committed", "rolledBack"}
    BY <1>1, <1>2, <2>1, EndTransacts
  <2>3. TypeOK'
    BY <1>1, <1>2, <2>1, <2>2, PresentRaw DEF TypeOK, End, Values, Absent, Trails
  <2>4. Stages' /\ Traced' /\ SignalsPassed' /\ BlameFound'
    BY <1>1, <1>2, <2>1 DEF Stages, Traced, SignalsPassed, BlameFound, End
  <2>. QED BY <1>3, <1>4, <2>2, <2>3, <2>4 DEF MInv
<1>. QED BY <1>5, <1>6

LEMMA MethodStep ==
    ASSUME MInv, [Next]_vars
    PROVE  MInv'
<1>1. CASE PreDecide
  <2>1. PICK d \in Decision :
           /\ decision' = d
           /\ IF d.verdict = "PERMIT"
              THEN HandlePermitPre(d)
              ELSE HandleDeny(d) /\ UNCHANGED << args, method >>
    BY <1>1 DEF PreDecide
  <2>2. pep = "pre" /\ pc = "decide" /\ UNCHANGED config
    BY <1>1 DEF PreDecide
  <2>3. CASE d.verdict = "PERMIT"
    BY <2>1, <2>2, <2>3, PrePermitted
  <2>4. CASE d.verdict # "PERMIT"
    BY <2>1, <2>2, <2>4, DecideDenied
  <2>. QED BY <2>3, <2>4
<1>2. CASE PreReturns
  <2>1. pep = "pre" /\ pc = "method" /\ UNCHANGED << config, decision, plan, args >>
    BY <1>2 DEF PreReturns
  <2>2. CASE method' = "value" /\ ApplyOutput(Present(Raw))
    BY <2>1, <2>2, PresentRaw, OutputStep
  <2>3. CASE method' = "void" /\ ApplyOutput(Absent)
    <3>1. Absent \in Values
      BY DEF Values
    <3>. QED BY <2>1, <2>3, <3>1, OutputStep
  <2>. QED BY <1>2, <2>2, <2>3 DEF PreReturns
<1>3. CASE PreThrows
  BY <1>3, ErrorStep
<1>4. CASE PostMethodReturns \/ PostMethodThrows
  BY <1>4, PostMethodStep
<1>5. CASE PostDecide
  <2>1. PICK d \in Decision :
           /\ decision' = d
           /\ IF d.verdict = "PERMIT" THEN HandlePermitPost(d) ELSE HandleDeny(d)
    BY <1>5 DEF PostDecide
  <2>2. pep = "post" /\ pc = "decide" /\ UNCHANGED << config, args, method >>
    BY <1>5 DEF PostDecide
  <2>3. CASE d.verdict = "PERMIT"
    BY <2>1, <2>2, <2>3, PostPermitted
  <2>4. CASE d.verdict # "PERMIT"
    BY <2>1, <2>2, <2>4, DecideDenied
  <2>. QED BY <2>3, <2>4
<1>6. CASE UNCHANGED vars
  BY <1>6 DEF vars, config, MInv, TypeOK, ClaimsTyped, Stages, Traced, Counted, SignalsPassed,
              BlameFound, Transacted, EffectsOnlyIfReturned, Permitted, PlanFor, Supported
<1>. QED BY <1>1, <1>2, <1>3, <1>4, <1>5, <1>6 DEF Next

LEMMA MethodInvariant == Spec => []MInv
<1>1. Init => MInv
  BY MethodInit
<1>2. MInv /\ [Next]_vars => MInv'
  BY MethodStep
<1>. QED BY <1>1, <1>2, PTL DEF Spec

-----------------------------------------------------------------------------
(* What the mappers make.                                                  *)

(* The arguments, the result and the error are the trails that the calls of  *)
(* their signals left.                                                     *)
Mapping ==
    /\ ClaimsFollow
    /\ pep = "pre" /\ method # "uncalled" => Uses(args, called, "input")
    /\ outcome = "returned" /\ result.kind = "present" => MadeBy(result.value, called, "output")
    /\ pep = "pre" /\ outcome = "failed" => Uses(result.value, called, "error")

(* In a trail the last mapper's mark is the last.                           *)
LEMMA LastMark ==
    ASSUME NEW trail \in Trails, trail # << >>, NEW cs \in Seq(Calls), NEW s, NEW g, Tracks(g, trail, cs, s)
    PROVE  LET mappers == { k \in DOMAIN cs : Maps(cs[k], s) }
               last    == CHOOSE k \in mappers : \A l \in mappers : l <= k
           IN  /\ mappers # {}
               /\ last \in mappers /\ last = g[Len(trail)]
               /\ Last(trail) = Mark(cs[last])
<1> DEFINE mappers == { k \in DOMAIN cs : Maps(cs[k], s) }
           last == CHOOSE k \in mappers : \A l \in mappers : l <= k
           n == Len(trail)
<1>1. n \in Nat /\ n # 0 /\ DOMAIN trail = 1..n
  BY DEF Trails
<1>2. n \in 1..n
  BY <1>1
<1>3. g[n] \in mappers
  BY <1>1, <1>2 DEF Tracks
<1>4. \A k \in mappers : k \in Int
  OBVIOUS
<1>5. \A i \in 1..n : i = n \/ i < n
  <2>1. n \in Nat
    BY <1>1
  <2> HIDE DEF n
  <2>. QED BY <2>1
<1>6. ASSUME NEW k \in mappers PROVE k <= g[n]
  <2>1. PICK i \in 1..n : g[i] = k
    BY <1>1 DEF Tracks
  <2>2. CASE i = n
    <3>1. k = g[n] /\ k \in Int
      BY <1>4, <2>1, <2>2
    <3>. QED BY <3>1
  <2>3. CASE i < n
    <3>1. g[i] < g[n]
      BY <1>1, <1>2, <2>3 DEF Tracks
    <3>2. k < g[n] /\ k \in Int /\ g[n] \in Int
      BY <1>3, <1>4, <2>1, <3>1
    <3>. QED BY <3>2
  <2>. QED BY <1>5, <2>1, <2>2, <2>3
<1>7. last \in mappers /\ \A l \in mappers : l <= last
  BY <1>3, <1>6
<1>8. last = g[n]
  BY <1>3, <1>4, <1>6, <1>7
<1>9. Last(trail) = trail[n]
  BY DEF Last
<1>10. trail[n] = Mark(cs[g[n]])
  BY <1>1, <1>2 DEF Tracks
<1>. QED BY <1>3, <1>7, <1>8, <1>9, <1>10

(* A trail that is used is as long as there are mappers, and in the order   *)
(* of their priorities.                                                    *)
LEMMA TrailMaps ==
    ASSUME NEW p, Trace(called, p), NEW s, NEW trail \in Trails, NEW g, Tracks(g, trail, called, s),
           \A k \in DOMAIN called : Maps(called[k], s) => called[k].entry.tag = "obligation"
    PROVE  /\ Len(trail) = Cardinality(Mappers(s))
           /\ \A k \in Mappers(s) : called[k].entry.tag = "obligation"
           /\ \E f \in [DOMAIN trail -> Mappers(s)] :
                 \A i \in DOMAIN trail :
                    /\ trail[i] \in {called[f[i]].entry.constraint, Odd}
                    /\ \A j \in 1..(i - 1) :
                          called[f[j]].entry.priority < called[f[i]].entry.priority
<1> DEFINE mappers == { k \in DOMAIN called : Maps(called[k], s) }
           n == Len(trail)
<1>1. Mappers(s) = mappers
  BY DEF Mappers, Maps
<1>2. n \in Nat /\ DOMAIN trail = 1..n
  BY DEF Trails
<1>3. called \in Seq(Calls) /\ \A k \in DOMAIN called : k \in Int
  BY DEF Trace
<1>4. g \in [1..n -> mappers]
  BY <1>2 DEF Tracks
<1>5. /\ \A i, j \in 1..n : i < j => g[i] < g[j]
      /\ \A k \in mappers : \E i \in 1..n : g[i] = k
      /\ \A i \in 1..n : trail[i] = Mark(called[g[i]])
  BY <1>2 DEF Tracks
<1> HIDE DEF n
<1>6. n = Cardinality(mappers)
  <2>1. \A i, j \in 1..n : i # j => g[i] # g[j]
    <3>1. \A i, j \in 1..n : i < j => g[i] # g[j]
      BY <1>3, <1>4, <1>5
    <3>2. \A i, j \in 1..n : i # j => i < j \/ j < i
      BY <1>2
    <3>. QED BY <3>1, <3>2
  <2> HIDE DEF mappers
  <2>2. g \in Bijection(1..n, mappers)
    BY <1>4, <1>5, <2>1 DEF Bijection, Injection, Surjection, IsInjective
  <2>3. IsFiniteSet(1..n) /\ Cardinality(1..n) = n
    BY <1>2, FS_Interval
  <2>4. ExistsBijection(1..n, mappers)
    BY <2>2 DEF ExistsBijection
  <2>. QED BY <2>3, <2>4, FS_Bijection
<1>7. ASSUME NEW i \in 1..n PROVE trail[i] \in {called[g[i]].entry.constraint, Odd}
  BY <1>5 DEF Mark
<1>8. ASSUME NEW i \in 1..n, NEW j \in 1..(i - 1)
      PROVE  called[g[j]].entry.priority < called[g[i]].entry.priority
  <2>1. j \in 1..n /\ j < i
    BY <1>2
  <2>2. g[j] < g[i] /\ g[j] \in mappers /\ g[i] \in mappers
    BY <1>4, <1>5, <2>1
  <2>3. InOrder(called[g[j]].entry, called[g[i]].entry)
    BY <2>2 DEF Trace
  <2>. QED BY <2>2, <2>3 DEF InOrder, Maps
<1> HIDE DEF mappers
<1>. QED BY <1>1, <1>2, <1>4, <1>6, <1>7, <1>8 DEF n, mappers

LEMMA TrailIsMapped ==
    ASSUME Odd \notin Constraint,
           NEW p, Trace(called, p), NEW s, NEW trail \in Trails, MadeBy(trail, called, s),
           \A k \in DOMAIN called : Maps(called[k], s) => called[k].entry.tag = "obligation",
           NEW value, value = Used(trail) \/ (s = "output" /\ value = trail)
    PROVE  MappedBy(value, s)
<1> DEFINE mappers == Mappers(s)
           last == CHOOSE k \in mappers : \A l \in mappers : l <= k
<1>1. PICK g : Tracks(g, trail, called, s)
  BY DEF MadeBy
<1>2. called \in Seq(Calls)
  BY DEF Trace
<1>3. mappers = { k \in DOMAIN called : Maps(called[k], s) }
  BY DEF Mappers, Maps
<1>4. CASE mappers # {} /\ called[last].outcome = "odd"
  <2>1. trail # << >>
    BY <1>1, <1>3, <1>4 DEF Tracks
  <2>2. last = g[Len(trail)] /\ Last(trail) = Mark(called[last])
    BY <1>1, <1>2, <1>3, <2>1, LastMark
  <2>3. Len(trail) \in DOMAIN trail
    BY <2>1 DEF Trails
  <2>4. s # "output"
    BY <1>1, <1>4, <2>2, <2>3 DEF Tracks
  <2>5. ~Usable(trail)
    BY <1>4, <2>1, <2>2 DEF Usable, Raw, Mark
  <2>. QED BY <1>4, <2>4, <2>5 DEF MappedBy, Used
<1>5. CASE ~(mappers # {} /\ called[last].outcome = "odd")
  <2>1. value = trail
    <3>1. CASE trail = << >>
      BY <3>1 DEF Used, Usable, Raw
    <3>2. CASE trail # << >>
      <4>1. mappers # {} /\ last \in mappers /\ Last(trail) = Mark(called[last])
        BY <1>1, <1>2, <1>3, <3>2, LastMark
      <4>2. last \in DOMAIN called /\ Maps(called[last], s)
        BY <1>3, <4>1
      <4> HIDE DEF last
      <4>3. called[last] \in Calls
        BY <1>2, <4>2
      <4>4. called[last].entry.constraint \in Constraint \cup {Replacement}
        BY <4>3 DEF Calls, PlanEntry
      <4>5. Last(trail) # Odd
        BY <1>5, <4>1, <4>4 DEF Mark, Odd, Replacement
      <4>. QED BY <4>5 DEF Used, Usable
    <3>. QED BY <3>1, <3>2
  <2>2. /\ Len(trail) = Cardinality(mappers)
        /\ \A k \in mappers : called[k].entry.tag = "obligation"
        /\ \E f \in [DOMAIN trail -> mappers] :
              \A i \in DOMAIN trail :
                 /\ trail[i] \in {called[f[i]].entry.constraint, Odd}
                 /\ \A j \in 1..(i - 1) :
                       called[f[j]].entry.priority < called[f[i]].entry.priority
    BY <1>1, TrailMaps
  <2> HIDE DEF mappers
  <2>. QED BY <1>5, <2>1, <2>2 DEF MappedBy, mappers
<1>. QED BY <1>4, <1>5

LEMMA MappingApplies ==
    ASSUME Odd \notin Constraint, MInv, Mapping
    PROVE  MappersApply
<1>1. ASSUME Permitted, NEW s, NEW trail \in Trails, MadeBy(trail, called, s),
             NEW value, value = Used(trail) \/ (s = "output" /\ value = trail)
      PROVE  MappedBy(value, s)
  <2>1. decision \in Decision /\ plan = PlanOf(decision) /\ Trace(called, plan) /\ ClaimsTyped
    BY <1>1 DEF MInv, TypeOK, Traced, Permitted, PlanFor, PlanOf
  <2>2. ASSUME NEW k \in DOMAIN called, Maps(called[k], s) PROVE called[k].entry.tag = "obligation"
    <3>1. called[k] \in Calls
      BY <2>1 DEF Trace
    <3>2. called[k].entry.signal \in Signal
      BY <3>1 DEF Calls, PlanEntry
    <3>. QED BY <2>1, <2>2, <3>2, MappersPlanned DEF Mapping, Trace, Maps
  <2>. QED BY <1>1, <2>1, <2>2, TrailIsMapped
<1>2. ASSUME pep = "pre", method # "uncalled" PROVE MappedBy(args, "input")
  <2>1. Permitted /\ Uses(args, called, "input")
    BY <1>2 DEF MInv, Stages, Mapping
  <2>. QED BY <1>1, <2>1 DEF Uses
<1>3. ASSUME outcome = "returned", result.kind = "present" PROVE MappedBy(result.value, "output")
  <2>1. Permitted /\ MadeBy(result.value, called, "output") /\ result.value \in Trails
    BY <1>3 DEF MInv, Stages, Mapping, TypeOK, Trails
  <2>. QED BY <1>1, <2>1
<1>4. ASSUME pep = "pre", outcome = "failed" PROVE MappedBy(result.value, "error")
  <2>1. Permitted /\ Uses(result.value, called, "error")
    BY <1>4 DEF MInv, Stages, Mapping
  <2>. QED BY <1>1, <2>1 DEF Uses
<1>. QED BY <1>2, <1>3, <1>4 DEF MappersApply

(* Every step keeps it.                                                    *)
LEMMA MappingBeforeMethod ==
    ASSUME MInv, Mapping, PreDecide
    PROVE  Mapping'
<1>1. PICK d \in Decision :
         /\ decision' = d
         /\ IF d.verdict = "PERMIT"
            THEN HandlePermitPre(d)
            ELSE HandleDeny(d) /\ UNCHANGED << args, method >>
  BY DEF PreDecide
<1>2. /\ pep = "pre" /\ method = "uncalled" /\ outcome = "pending" /\ called = << >> /\ ClaimsTyped
      /\ pep' = pep /\ claims' = claims
  BY DEF PreDecide, MInv, Stages, Traced, TypeOK, config
<1>3. ClaimsFollow /\ ClaimsFollow'
  BY <1>2 DEF Mapping, ClaimsFollow
<1>4. CASE End("denied", Absent) /\ UNCHANGED << args, method >>
  BY <1>2, <1>3, <1>4 DEF Mapping, End
<1>5. CASE d.verdict # "PERMIT"
  BY <1>1, <1>4, <1>5 DEF HandleDeny
<1>6. CASE d.verdict = "PERMIT"
  <2>1. plan' = PlanOf(d)
    BY <1>1, <1>2, <1>6, PermitPreStep DEF PlanOf, Supported
  <2>2. "input" \in Signal
    BY DEF Signal
  <2>3. SubstituteFirst(plan'["input"])
    BY <1>2, <1>3, <2>1, <2>2, PlanSubstitutesFirst
  <2>4. \/ End("denied", Absent) /\ UNCHANGED << args, method >>
        \/ Uses(args', called', "input") /\ UNCHANGED << outcome, result >>
    BY <1>1, <1>2, <1>6, <2>3, PermitPreStep
  <2>5. CASE Uses(args', called', "input") /\ UNCHANGED << outcome, result >>
    BY <1>2, <1>3, <2>5 DEF Mapping
  <2>. QED BY <1>4, <2>4, <2>5
<1>. QED BY <1>5, <1>6

LEMMA MappingAfterPost ==
    ASSUME MInv, Mapping, PostDecide
    PROVE  Mapping'
<1>1. PICK d \in Decision :
         /\ decision' = d
         /\ IF d.verdict = "PERMIT" THEN HandlePermitPost(d) ELSE HandleDeny(d)
  BY DEF PostDecide
<1>2. /\ pep = "post" /\ called = << >> /\ ClaimsTyped /\ pep' = pep /\ claims' = claims
  BY DEF PostDecide, MInv, Stages, Traced, TypeOK, config
<1>3. ClaimsFollow /\ ClaimsFollow'
  BY <1>2 DEF Mapping, ClaimsFollow
<1>4. CASE End("denied", Absent)
  BY <1>2, <1>3, <1>4 DEF Mapping, End
<1>5. CASE d.verdict # "PERMIT"
  BY <1>1, <1>4, <1>5 DEF HandleDeny
<1>6. CASE d.verdict = "PERMIT"
  <2>1. plan' = PlanOf(d)
    BY <1>1, <1>2, <1>6, PermitPostStep DEF PlanOf, Supported
  <2>2. "output" \in Signal
    BY DEF Signal
  <2>3. SubstituteFirst(plan'["output"])
    BY <1>2, <1>3, <2>1, <2>2, PlanSubstitutesFirst
  <2>4. \/ End("denied", Absent)
        \/ \E value \in Values : End("returned", value) /\ MadeBy(value.value, called', "output")
    BY <1>1, <1>2, <1>6, <2>3, PermitPostStep
  <2>5. CASE \E value \in Values : End("returned", value) /\ MadeBy(value.value, called', "output")
    BY <1>2, <1>3, <2>5 DEF Mapping, End
  <2>. QED BY <1>4, <2>4, <2>5
<1>. QED BY <1>5, <1>6

(* What was made of the arguments is not touched by later signals, and the  *)
(* later signal's calls make the value that is passed on.                   *)
MadeLater(r, cs, s, value) ==
    /\ r.value \in Values /\ r.value.kind = value.kind
    /\ Uses(args, cs, "input")
    /\ value = Present(Raw) => MadeBy(r.value.value, cs, s)

LEMMA MappingLater ==
    ASSUME MInv, Mapping, pep = "pre", pc = "method", NEW s \in {"output", "error"},
           NEW b \in Behaviours(plan, s), NEW value \in Values, NEW r,
           r = Execute(plan, s, value, FALSE, b)
    PROVE  MadeLater(r, called \o r.called, s, value)
<1>1. /\ FinePlan(plan) /\ Trace(called, plan) /\ RaisedOnly(called, {"decision", "input"})
      /\ method = "running" /\ decision # NoDecision /\ decision.verdict = "PERMIT"
      /\ plan = PlanFor(decision) /\ ClaimsTyped /\ TypeOK
  BY WhileRunning
<1>2. s \in Signal /\ s \notin {"decision", "input"}
  BY DEF Signal
<1>3. Executed(r, plan, s, value, FALSE)
  BY <1>1, <1>2, ExecuteTraces
<1>4. /\ r.value \in Values /\ r.value.kind = value.kind
      /\ called \in Seq(Calls) /\ r.called \in Seq(Calls) /\ RaisedOnly(r.called, {s})
  BY <1>1, <1>3 DEF Executed, Trace
<1>5. Uses(args, called \o r.called, "input")
  <2>1. PICK trail \in Trails : MadeBy(trail, called, "input") /\ args = Used(trail)
    BY <1>1 DEF Mapping, Uses
  <2>2. "input" \notin {s}
    BY <1>2
  <2>3. MadeBy(trail, called \o r.called, "input")
    BY <1>4, <2>1, <2>2, MadeAfter
  <2>. QED BY <2>1, <2>3 DEF Uses
<1>6. ASSUME value = Present(Raw) PROVE MadeBy(r.value.value, called \o r.called, s)
  <2>1. decision \in Decision
    BY <1>1 DEF TypeOK
  <2>2. SubstituteFirst(plan[s])
    BY <1>1, <1>2, <2>1, PlanSubstitutesFirst DEF PlanFor, PlanOf, Mapping
  <2>3. MadeBy(r.value.value, r.called, s)
    BY <1>1, <1>2, <1>6, <2>2, ExecuteMakes DEF FinePlan
  <2>. QED BY <1>1, <1>2, <1>4, <2>3, MadeBefore
<1>. QED BY <1>4, <1>5, <1>6 DEF MadeLater

LEMMA MappingAfterMethod ==
    ASSUME MInv, Mapping, PreReturns \/ PreThrows
    PROVE  Mapping'
<1>1. /\ pep = "pre" /\ pc = "method" /\ pep' = pep /\ claims' = claims /\ args' = args
  BY DEF PreReturns, PreThrows, config
<1>2. ClaimsFollow'
  BY <1>1 DEF Mapping, ClaimsFollow
<1>3. ASSUME NEW value \in {Absent, Present(Raw)}, ApplyOutput(value) PROVE Mapping'
  <2>1. PICK b \in Behaviours(plan, "output") :
            LET output == Execute(plan, "output", value, FALSE, b) IN
            /\ called' = called \o output.called
            /\ IF output.failure THEN End("denied", Absent) ELSE End("returned", output.value)
    BY <1>3 DEF ApplyOutput
  <2> DEFINE r == Execute(plan, "output", value, FALSE, b)
  <2>2. called' = called \o r.called /\ (End("denied", Absent) \/ End("returned", r.value))
    BY <2>1
  <2>3. r = Execute(plan, "output", value, FALSE, b)
    BY DEF r
  <2>4. value \in Values
    BY PresentRaw DEF Values
  <2>5. value.kind = "present" => value = Present(Raw)
    BY DEF Absent
  <2> HIDE DEF r
  <2>6. b \in Behaviours(plan, "output")
    BY <2>1
  <2>7. MadeLater(r, called \o r.called, "output", value)
    BY <1>1, <2>3, <2>4, <2>6, MappingLater
  <2>. QED BY <1>1, <1>2, <2>2, <2>5, <2>7 DEF Mapping, End, MadeLater
<1>4. CASE PreReturns
  BY <1>3, <1>4 DEF PreReturns
<1>5. CASE PreThrows
  <2>1. PICK b \in Behaviours(plan, "error") :
            LET error == Execute(plan, "error", Present(Raw), FALSE, b) IN
            /\ called' = called \o error.called
            /\ End(IF error.failure THEN "denied" ELSE "failed",
                   ErrorShown(error.failure, error.value.value))
    BY <1>5 DEF PreThrows
  <2> DEFINE r == Execute(plan, "error", Present(Raw), FALSE, b)
  <2>2. /\ called' = called \o r.called
        /\ End(IF r.failure THEN "denied" ELSE "failed", ErrorShown(r.failure, r.value.value))
    BY <2>1
  <2>6. r = Execute(plan, "error", Present(Raw), FALSE, b)
    BY DEF r
  <2> HIDE DEF r
  <2>3. /\ r.value \in Values /\ r.value.kind = "present"
        /\ Uses(args, called', "input")
        /\ MadeBy(r.value.value, called', "error")
    BY <1>1, <2>1, <2>2, <2>6, PresentRaw, MappingLater DEF MadeLater
  <2>4. outcome' # "returned" /\ (outcome' = "failed" => ~r.failure)
    BY <2>2 DEF End
  <2>5. ASSUME ~r.failure PROVE Uses(result'.value, called', "error")
    <3>1. r.value.value \in Trails
      BY <2>3 DEF Values, Absent
    <3>2. result' = Present(Used(r.value.value))
      BY <2>2, <2>5 DEF End, ErrorShown, Used
    <3>3. result'.value = Used(r.value.value)
      BY <3>2 DEF Present
    <3>. QED BY <2>3, <3>1, <3>3 DEF Uses
  <2>. QED BY <1>1, <1>2, <2>3, <2>4, <2>5 DEF Mapping
<1>. QED BY <1>4, <1>5

LEMMA MappingStep ==
    ASSUME MInv, Mapping, [Next]_vars
    PROVE  Mapping'
<1>1. CASE PostMethodReturns
  BY <1>1 DEF PostMethodReturns, config, Mapping, ClaimsFollow
<1>2. CASE PostMethodThrows
  BY <1>2 DEF PostMethodThrows, End, config, Mapping, ClaimsFollow
<1>3. CASE UNCHANGED vars
  BY <1>3 DEF vars, config, Mapping, ClaimsFollow
<1>. QED BY <1>1, <1>2, <1>3, MappingBeforeMethod, MappingAfterPost, MappingAfterMethod DEF Next

-----------------------------------------------------------------------------
(* The theorems.                                                           *)

(* The variables of a call have their types, whatever providers, handlers   *)
(* and decisions there are.                                                *)
THEOREM TypeCorrect == Spec => []TypeOK
<1>1. MInv => TypeOK
  BY DEF MInv
<1>. QED BY <1>1, MethodInvariant, PTL

(* A method under @PreEnforce is invoked only on a PERMIT, all of whose     *)
(* obligations at the decision and input signals were carried out.         *)
THEOREM MethodsRunIfPermitted == Spec => []MethodRunsOnlyIfPermitted
<1>1. MInv => MethodRunsOnlyIfPermitted
  BY InvariantDischarges
<1>. QED BY <1>1, MethodInvariant, PTL

(* The caller gets a value, or the error of a permitted method, only when   *)
(* every obligation of the PERMIT was carried out at every signal on the    *)
(* way.                                                                    *)
THEOREM ReturnsAreDischarged == Spec => []ReturnsOnlyIfDischarged
<1>1. MInv => ReturnsOnlyIfDischarged
  BY InvariantDischarges
<1>. QED BY <1>1, MethodInvariant, PTL

(* Access is denied for the verdict or for an obligation, never for an      *)
(* advice that failed.                                                     *)
THEOREM DenialsAreJustified == Spec => []DeniedForAReason
<1>1. MInv => DeniedForAReason
  BY InvariantBlames
<1>. QED BY <1>1, MethodInvariant, PTL

(* Every handler planned for a signal that is raised is called, in the      *)
(* order of priorities and shapes, whichever failed before.                *)
THEOREM EveryHandlerIsTried == Spec => []BestEffort
<1>1. MInv => BestEffort
  BY InvariantIsBestEffort
<1>. QED BY <1>1, MethodInvariant, PTL

(* A transaction commits only if the caller got its value, and none is left *)
(* open.                                                                   *)
THEOREM EffectsFollowOutcome == Spec => []EffectsOnlyIfReturned
<1>1. MInv => EffectsOnlyIfReturned
  BY DEF MInv
<1>. QED BY <1>1, MethodInvariant, PTL

(* What the method is given and what the caller gets is what the mappers of *)
(* the obligations made of it, each once and in the order of their          *)
(* priorities, if no handler has a priority below that of the replacement   *)
(* of the resource (Number.MIN_SAFE_INTEGER in the code).                   *)
THEOREM MappersMake ==
    ASSUME Odd \notin Constraint,
           \A p \in Provider, c \in Constraint : \A answer \in Answers[p][c] :
              \A i \in DOMAIN answer : answer[i].priority >= ResourceSubstitutionPriority
    PROVE  Spec => []MappersApply
<1>1. Init => Mapping
  <2>1. SUFFICES ASSUME Init PROVE Mapping
    OBVIOUS
  <2>2. \A p \in Provider, c \in Constraint : claims[p][c] \in Answers[p][c]
    BY <2>1 DEF Init
  <2>3. ClaimsFollow
    BY <2>2 DEF ClaimsFollow
  <2>4. outcome = "pending" /\ (pep = "pre" => method = "uncalled")
    BY <2>1 DEF Init
  <2>. QED BY <2>3, <2>4 DEF Mapping
<1>2. MInv /\ Mapping /\ [Next]_vars => Mapping'
  BY MappingStep
<1>3. MInv /\ Mapping => MappersApply
  BY MappingApplies
<1>. QED BY <1>1, <1>2, <1>3, MethodInvariant, PTL DEF Spec

=============================================================================

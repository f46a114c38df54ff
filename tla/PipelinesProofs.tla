---------------------------- MODULE PipelinesProofs ----------------------------
(***************************************************************************)
(* The traversal of a sequence delivers what the lists make of it, calls    *)
(* the lambdas as they do and stops where it may, for every pipeline of any *)
(* length over a source of any length, whatever the lambdas answer.         *)
(***************************************************************************)
EXTENDS Pipelines, TLAPS, SequenceTheorems, WellFoundedInduction

(* ---- the inductive invariant ---------------------------------------------------------- *)

\* The cursor of the traversal, and the stage that has the element (0: none).
cursor == IF pull = None THEN heap.cursor ELSE pull.cursor
level == IF pull = None THEN 0 ELSE pull.i

\* While stage `at` has element n, the stages from there on have seen only what is before it.
Seen(n, at, i) == IF 0 < at /\ at <= i THEN n - 1 ELSE n

\* g[i] is what has entered stage i and been dealt with there; with the element
\* that waits at the stage it is all that came out of the stage before.
Reached(g, n, at, i) == IF i = at THEN Append(g[i], n) ELSE g[i]

\* What a stage that dealt with s has left of its budget, or whether it stopped dropping.
Left(stage, S, s, n) ==
  /\ stage.k \in Budgets => n = (IF Len(s) < stage.n THEN stage.n - Len(s) ELSE 0)
  /\ stage.k = "dropWhile" => ((n = 1) <=> (Leading(S, s) < Len(s)))

\* Stage `at` of p (0: none) has element n of the source; now are the cursor's stages.
Flow(p, Y, n, at, now, g) ==
  /\ g \in [1..Len(p) + 1 -> Seq(Nat)]
  /\ Reached(g, n, at, 1) = [j \in 1..n |-> j]
  /\ \A i \in 1..Len(p) + 1 : g[i] \in Seq(1..Seen(n, at, i))
  /\ \A i \in 1..Len(p) :
       /\ Y[i] \subseteq 1..Seen(n, at, i)
       /\ Through(p[i], Y[i], g[i]) = Reached(g, n, at, i + 1)
       /\ Left(p[i], Y[i], g[i], now[i].n)

\* A take has let its last element pass, a takeWhile has answered false.
Full(p, g, i) == p[i].k = "take" /\ Len(g[i]) >= p[i].n
Stopped(p, Y, g, i) == p[i].k = "takeWhile" /\ Leading(Y[i], g[i]) < Len(g[i])

\* What the lambda of each stage was called on.
Arguments(calls) == [j \in DOMAIN calls |-> calls[j].x]
Calls(p, Y, s, g) ==
  \A i \in 1..Len(p) : p[i].k \in Lambdas => Arguments(s[i]) = Called(p[i], Y[i], g[i])

\* An element is on its way only in a traversal that goes on.
Carried ==
  level > 0 => /\ cursor.at > 0 /\ ~cursor.finished /\ asked = cursor.at
               /\ pull.v = cursor.at \/ pull.v = Undef

Counted ==
  /\ cursor.at <= length
  /\ asked = cursor.at \/ (cursor.finished /\ asked = cursor.at + 1 /\ (cursor.at = length \/ pending))

\* The traversal is finished when, and only when, there is a reason for it.
Finishing(g) ==
  /\ ~cursor.finished => (\A i \in DOMAIN stages : ~Stopped(stages, Yes, g, i))
  /\ level > 0 => (pull.spent <=> (\E i \in DOMAIN stages : i < level /\ Full(stages, g, i)))
  /\ cursor.finished /\ ~pending =>
       \/ asked > length
       \/ \E i \in DOMAIN stages : Full(stages, g, i) \/ Stopped(stages, Yes, g, i)

Delivered(g) ==
  ~pending => out \o (IF heap.ahead = None THEN <<>> ELSE <<heap.ahead>>) = g[Len(stages) + 1]

\* Of a pipeline that is Passing: no take is full while the traversal goes on.
Sparing(g) ==
  Passing(stages) => /\ ~cursor.finished => \A i \in DOMAIN stages : level <= i => ~Full(stages, g, i)
                     /\ AsksNoFurther

Moving(g) ==
  /\ Flow(stages, Yes, cursor.at, level, cursor.stages, g)
  /\ ~pending => Calls(stages, Yes, said, g)
  /\ Finishing(g)
  /\ Delivered(g)
  /\ Sparing(g)

(* ---- smallest numbers, and functions defined by recursion ------------------------------ *)

\* A set of numbers that is not empty has a smallest one.
LEMMA Smallest ==
  ASSUME NEW hits \in SUBSET Nat, hits # {}
  PROVE  \E x \in hits : \A y \in hits : x <= y
<1>1. \E x \in hits : \A y \in hits : <<y, x>> \notin OpToRel(<, Nat)
  BY NatLessThanWellFounded, WFMin
<1>2. PICK x \in hits : \A y \in hits : ~(y < x)
  BY <1>1 DEF OpToRel
<1>3. \A y \in hits : x <= y
  BY <1>2
<1> QED BY <1>3

\* Min of a pair.
LEMMA MinOf ==
  ASSUME NEW a \in Nat, NEW b \in Nat
  PROVE  Min({a, b}) = IF a <= b THEN a ELSE b
<1> DEFINE m == IF a <= b THEN a ELSE b
<1>1. m \in {a, b} /\ \A y \in {a, b} : m =< y
  OBVIOUS
<1>2. \A x \in {a, b} : (\A y \in {a, b} : x =< y) => x = m
  OBVIOUS
<1> HIDE DEF m
<1>3. Min({a, b}) = m
  BY <1>1, <1>2 DEF Min
<1> QED BY <1>3 DEF m

\* Two functions that agree at 0, and at a number when they agree before it, agree.
LEMMA SameAll ==
  ASSUME NEW N \in Nat, NEW f, NEW g, f[0] = g[0],
         \A i \in 1..N : f[i - 1] = g[i - 1] => f[i] = g[i]
  PROVE  \A i \in 0..N : f[i] = g[i]
<1> DEFINE odd == {i \in 0..N : f[i] # g[i]}
<1> SUFFICES ASSUME odd # {} PROVE FALSE
  OBVIOUS
<1>1. PICK i \in odd : \A j \in odd : i <= j
  <2>1. odd \in SUBSET Nat
    OBVIOUS
  <2> HIDE DEF odd
  <2> QED BY <2>1, Smallest
<1>2. i \in 1..N /\ i - 1 \in 0..N /\ i - 1 \notin odd
  BY <1>1
<1>3. f[i - 1] = g[i - 1]
  BY <1>2
<1> QED BY <1>1, <1>2, <1>3

\* f is the function whose value at i is G[i] of its value at i - 1.
Steps(T, N, G) == \A i \in 1..N : G[i] \in [T -> T]
Recursive(T, a, N, G, f) == f \in [0..N -> T] /\ f[0] = a /\ \A i \in 1..N : f[i] = G[i][f[i - 1]]

\* There is one.
LEMMA Recursion ==
  ASSUME NEW T, NEW a \in T, NEW N \in Nat, NEW G, Steps(T, N, G)
  PROVE  \E f : Recursive(T, a, N, G, f)
<1> DEFINE Up(n) == \E f \in [0..n -> T] : f[0] = a /\ \A i \in 1..n : f[i] = G[i][f[i - 1]]
           short == {n \in 0..N : ~Up(n)}
<1> USE DEF Steps
<1> SUFFICES ASSUME short # {} PROVE FALSE
  BY DEF Recursive
<1>1. PICK n \in short : \A m \in short : n <= m
  <2>1. short \in SUBSET Nat
    OBVIOUS
  <2> HIDE DEF short
  <2> QED BY <2>1, Smallest
<1>2. Up(0)
  <2>1. [i \in 0..0 |-> a] \in [0..0 -> T] /\ [i \in 0..0 |-> a][0] = a
    OBVIOUS
  <2>2. \A i \in 1..0 : [j \in 0..0 |-> a][i] = G[i][[j \in 0..0 |-> a][i - 1]]
    OBVIOUS
  <2> QED BY <2>1, <2>2
<1>3. n \in 0..N /\ ~Up(n) /\ \A m \in 0..N : ~Up(m) => n <= m
  <2> HIDE DEF Up
  <2> QED BY <1>1
<1>4. n \in 1..N /\ n - 1 \in 0..N /\ Up(n - 1)
  <2> HIDE DEF Up
  <2>1. n # 0
    BY <1>2, <1>3
  <2> QED BY <2>1, <1>3
<1>5. PICK f \in [0..(n - 1) -> T] : f[0] = a /\ \A i \in 1..(n - 1) : f[i] = G[i][f[i - 1]]
  BY <1>4
<1> DEFINE g == [i \in 0..n |-> IF i < n THEN f[i] ELSE G[n][f[n - 1]]]
<1>6. G[n][f[n - 1]] \in T
  BY <1>4, <1>5
<1>7. g \in [0..n -> T] /\ g[0] = a
  BY <1>4, <1>5, <1>6
<1>8. \A i \in 1..n : g[i] = G[i][g[i - 1]]
  BY <1>4, <1>5
<1>9. Up(n)
  <2> HIDE DEF g
  <2> QED BY <1>7, <1>8
<1> QED BY <1>3, <1>9

(* ---- lists, and what the stages make of them ---------------------------------------------- *)

LEMMA AppendIs ==
  ASSUME NEW T, NEW s \in Seq(T), NEW x \in T
  PROVE  /\ Append(s, x) \in Seq(T) /\ Len(Append(s, x)) = Len(s) + 1 /\ Len(s) \in Nat
         /\ DOMAIN s = 1..Len(s) /\ DOMAIN Append(s, x) = 1..(Len(s) + 1)
         /\ \A i \in 1..Len(s) : Append(s, x)[i] = s[i]
         /\ Append(s, x)[Len(s) + 1] = x
BY LenProperties, AppendProperties

\* Leading counts the elements before the first one outside S.
LEMMA LeadingIs ==
  ASSUME NEW S, NEW T, NEW s \in Seq(T)
  PROVE  /\ Leading(S, s) \in 0..Len(s)
         /\ \A j \in 1..Leading(S, s) : s[j] \in S
         /\ Leading(S, s) = Len(s) \/ s[Leading(S, s) + 1] \notin S
<1> DEFINE hits == {n \in 0..Len(s) : n = Len(s) \/ s[n + 1] \notin S}
<1>1. Len(s) \in Nat
  BY LenProperties
<1>2. PICK n \in hits : \A m \in hits : n <= m
  <2>1. hits \in SUBSET Nat /\ Len(s) \in hits
    BY <1>1
  <2> HIDE DEF hits
  <2> QED BY <2>1, Smallest
<1>3. \A j \in 1..n : s[j] \in S
  <2> TAKE j \in 1..n
  <2>0. n \in 0..Len(s) /\ \A m \in 0..Len(s) : m \in hits => n <= m
    BY <1>2
  <2>1. j - 1 \notin hits /\ j - 1 \in 0..Len(s) /\ j - 1 # Len(s)
    <3> HIDE DEF hits
    <3> QED BY <1>1, <2>0
  <2>2. s[(j - 1) + 1] \in S
    BY <2>1
  <2> QED BY <2>2
<1>4. \E m \in 0..Len(s) : (\A j \in 1..m : s[j] \in S) /\ (m = Len(s) \/ s[m + 1] \notin S)
  BY <1>2, <1>3
<1> QED BY <1>4 DEF Leading

LEMMA LeadingUnique ==
  ASSUME NEW S, NEW T, NEW s \in Seq(T), NEW n \in 0..Len(s),
         \A j \in 1..n : s[j] \in S, n = Len(s) \/ s[n + 1] \notin S
  PROVE  Leading(S, s) = n
<1>1. Len(s) \in Nat
  BY LenProperties
<1>2. /\ Leading(S, s) \in 0..Len(s)
      /\ \A j \in 1..Leading(S, s) : s[j] \in S
      /\ Leading(S, s) = Len(s) \/ s[Leading(S, s) + 1] \notin S
  BY LeadingIs
<1>3. ~(n < Leading(S, s))
  <2> SUFFICES ASSUME n < Leading(S, s) PROVE FALSE
    OBVIOUS
  <2>1. n + 1 \in 1..Leading(S, s) /\ n # Len(s)
    BY <1>1, <1>2
  <2> QED BY <2>1, <1>2
<1>4. ~(Leading(S, s) < n)
  <2> SUFFICES ASSUME Leading(S, s) < n PROVE FALSE
    OBVIOUS
  <2>1. Leading(S, s) + 1 \in 1..n /\ Leading(S, s) # Len(s)
    BY <1>1, <1>2
  <2> QED BY <2>1, <1>2
<1> QED BY <1>1, <1>2, <1>3, <1>4

LEMMA LeadingAppend ==
  ASSUME NEW S, NEW T, NEW s \in Seq(T), NEW x \in T
  PROVE  Leading(S, Append(s, x)) = IF Leading(S, s) = Len(s) /\ x \in S THEN Len(s) + 1 ELSE Leading(S, s)
<1> DEFINE t == Append(s, x)
           n == IF Leading(S, s) = Len(s) /\ x \in S THEN Len(s) + 1 ELSE Leading(S, s)
<1>1. /\ t \in Seq(T) /\ Len(t) = Len(s) + 1 /\ Len(s) \in Nat
      /\ \A i \in 1..Len(s) : t[i] = s[i]
      /\ t[Len(s) + 1] = x
  BY AppendIs
<1>2. /\ Leading(S, s) \in 0..Len(s)
      /\ \A j \in 1..Leading(S, s) : s[j] \in S
      /\ Leading(S, s) = Len(s) \/ s[Leading(S, s) + 1] \notin S
  BY LeadingIs
<1> HIDE DEF t
<1>3. n \in 0..Len(t)
  BY <1>1, <1>2
<1>4. \A j \in 1..n : t[j] \in S
  <2> TAKE j \in 1..n
  <2>1. j \in 1..Leading(S, s) \/ (j = Len(s) + 1 /\ x \in S)
    BY <1>1, <1>2
  <2> QED BY <2>1, <1>1, <1>2
<1>5. n = Len(t) \/ t[n + 1] \notin S
  <2>1. CASE Leading(S, s) = Len(s)
    BY <2>1, <1>1, <1>2
  <2>2. CASE Leading(S, s) # Len(s)
    <3>1. n = Leading(S, s) /\ n + 1 \in 1..Len(s) /\ s[n + 1] \notin S
      BY <2>2, <1>1, <1>2
    <3> HIDE DEF n
    <3> QED BY <3>1, <1>1
  <2> QED BY <2>1, <2>2
<1>6. Leading(S, t) = n
  <2> HIDE DEF n
  <2> QED BY <1>1, <1>3, <1>4, <1>5, LeadingUnique
<1> QED BY <1>6 DEF t

\* Two sets that agree on the elements of s.
Agree(S, U, s) == \A j \in 1..Len(s) : s[j] \in S <=> s[j] \in U

LEMMA LeadingSame ==
  ASSUME NEW S, NEW U, NEW T, NEW s \in Seq(T), Agree(S, U, s)
  PROVE  Leading(U, s) = Leading(S, s)
<1> DEFINE n == Leading(S, s)
<1>1. Len(s) \in Nat
  BY LenProperties
<1>2. n \in 0..Len(s) /\ (\A j \in 1..n : s[j] \in S) /\ (n = Len(s) \/ s[n + 1] \notin S)
  BY LeadingIs
<1> HIDE DEF n
<1>3. \A j \in 1..n : s[j] \in U
  BY <1>1, <1>2 DEF Agree
<1>4. n = Len(s) \/ s[n + 1] \notin U
  BY <1>1, <1>2 DEF Agree
<1>5. Leading(U, s) = n
  BY <1>2, <1>3, <1>4, LeadingUnique
<1> QED BY <1>5 DEF n

\* The lists that Only builds on its way.
OnlyBy(S, s, f) ==
  /\ f[0] = <<>>
  /\ \A n \in 1..Len(s) : f[n] = IF s[n] \in S THEN Append(f[n - 1], s[n]) ELSE f[n - 1]

LEMMA OnlyGiven ==
  ASSUME NEW S, NEW T, NEW s \in Seq(T), NEW f, OnlyBy(S, s, f)
  PROVE  Only(S, s) = f[Len(s)]
<1> DEFINE E(g) == g = [n \in 0..Len(s) |->
                          IF n = 0 THEN <<>>
                          ELSE IF s[n] \in S THEN Append(g[n - 1], s[n]) ELSE g[n - 1]]
           kept == CHOOSE g : E(g)
           h == [n \in 0..Len(s) |-> f[n]]
<1>1. Len(s) \in Nat
  BY LenProperties
<1>2. E(h)
  <2>1. \A n \in 0..Len(s) :
          h[n] = IF n = 0 THEN <<>>
                 ELSE IF s[n] \in S THEN Append(h[n - 1], s[n]) ELSE h[n - 1]
    <3> TAKE n \in 0..Len(s)
    <3>1. CASE n = 0
      BY <3>1, <1>1 DEF OnlyBy
    <3>2. CASE n # 0
      <4>1. n \in 1..Len(s) /\ n - 1 \in 0..Len(s) /\ h[n - 1] = f[n - 1] /\ h[n] = f[n]
        BY <3>2, <1>1, SMTT(30)
      <4> HIDE DEF h
      <4> QED BY <4>1, <3>2 DEF OnlyBy
    <3> QED BY <3>1, <3>2
  <2> QED BY <2>1
<1>3. E(kept)
  BY <1>2
<1>4. kept[0] = f[0]
  <2> HIDE DEF kept
  <2>1. kept[0] = <<>>
    BY <1>1, <1>3
  <2> QED BY <2>1 DEF OnlyBy
<1>5. \A n \in 1..Len(s) : kept[n - 1] = f[n - 1] => kept[n] = f[n]
  <2> TAKE n \in 1..Len(s)
  <2> HIDE DEF kept
  <2>1. n \in 0..Len(s) /\ n # 0
    BY <1>1
  <2>2. kept[n] = IF s[n] \in S THEN Append(kept[n - 1], s[n]) ELSE kept[n - 1]
    BY <2>1, <1>3
  <2>3. f[n] = IF s[n] \in S THEN Append(f[n - 1], s[n]) ELSE f[n - 1]
    BY DEF OnlyBy
  <2> QED BY <2>2, <2>3
<1>6. \A n \in 0..Len(s) : kept[n] = f[n]
  <2> HIDE DEF kept
  <2> QED BY <1>1, <1>4, <1>5, SameAll
<1>7. Only(S, s) = kept[Len(s)]
  BY DEF Only
<1> QED BY <1>1, <1>6, <1>7

LEMMA OnlyIs ==
  ASSUME NEW S, NEW T, NEW s \in Seq(T)
  PROVE  \E f \in [0..Len(s) -> Seq(T)] : OnlyBy(S, s, f)
<1> DEFINE G == [n \in 1..Len(s) |->
                   [l \in Seq(T) |-> IF s[n] \in S THEN Append(l, s[n]) ELSE l]]
<1>1. Len(s) \in Nat /\ \A n \in 1..Len(s) : s[n] \in T
  BY LenProperties
<1>2. \A n \in 1..Len(s) : G[n] \in [Seq(T) -> Seq(T)]
  BY <1>1, AppendProperties
<1>3. <<>> \in Seq(T)
  BY EmptySeq
<1>4. PICK f : Recursive(Seq(T), <<>>, Len(s), G, f)
  <2>1. Steps(Seq(T), Len(s), G)
    BY <1>2 DEF Steps
  <2> HIDE DEF G
  <2> QED BY <1>1, <1>3, <2>1, Recursion
<1> USE <1>4 DEF Recursive
<1>5. \A n \in 1..Len(s) : f[n] = IF s[n] \in S THEN Append(f[n - 1], s[n]) ELSE f[n - 1]
  <2> TAKE n \in 1..Len(s)
  <2>1. n - 1 \in 0..Len(s)
    BY <1>1
  <2>2. f[n - 1] \in Seq(T)
    BY <2>1
  <2> QED BY <1>4, <2>2
<1> QED BY <1>4, <1>5 DEF OnlyBy

LEMMA OnlyIn ==
  ASSUME NEW S, NEW T, NEW s \in Seq(T)
  PROVE  Only(S, s) \in Seq(T)
<1>1. PICK f \in [0..Len(s) -> Seq(T)] : OnlyBy(S, s, f)
  BY OnlyIs
<1>2. Only(S, s) = f[Len(s)] /\ Len(s) \in Nat
  BY <1>1, OnlyGiven, LenProperties
<1> QED BY <1>2

LEMMA OnlyAppend ==
  ASSUME NEW S, NEW T, NEW s \in Seq(T), NEW x \in T
  PROVE  Only(S, Append(s, x)) =
           IF x \in S THEN Append(Only(S, s), x) ELSE Only(S, s)
<1> DEFINE t == Append(s, x)
<1>1. /\ t \in Seq(T) /\ Len(t) = Len(s) + 1 /\ Len(s) \in Nat
      /\ \A i \in 1..Len(s) : t[i] = s[i]
      /\ t[Len(s) + 1] = x
  BY AppendIs
<1>2. PICK f \in [0..Len(s) -> Seq(T)] : OnlyBy(S, s, f)
  BY OnlyIs
<1>3. Only(S, s) = f[Len(s)]
  BY <1>2, OnlyGiven
<1> DEFINE last == IF x \in S THEN Append(f[Len(s)], x) ELSE f[Len(s)]
           g == [n \in 0..Len(t) |-> IF n <= Len(s) THEN f[n] ELSE last]
<1> HIDE DEF t
<1>4. OnlyBy(S, t, g)
  <2>1. g[0] = <<>>
    BY <1>1, <1>2 DEF OnlyBy
  <2>2. ASSUME NEW n \in 1..Len(t)
        PROVE  g[n] = IF t[n] \in S THEN Append(g[n - 1], t[n]) ELSE g[n - 1]
    <3>1. CASE n <= Len(s)
      <4>1. n \in 1..Len(s) /\ g[n] = f[n] /\ g[n - 1] = f[n - 1] /\ t[n] = s[n]
        BY <3>1, <1>1
      <4> HIDE DEF g
      <4> QED BY <4>1, <1>2 DEF OnlyBy
    <3>2. CASE ~(n <= Len(s))
      <4>1. n = Len(s) + 1 /\ g[n] = last /\ g[n - 1] = f[Len(s)] /\ t[n] = x
        BY <3>2, <1>1
      <4> HIDE DEF g
      <4> QED BY <4>1
    <3> QED BY <3>1, <3>2
  <2> HIDE DEF g
  <2> QED BY <2>1, <2>2 DEF OnlyBy
<1>5. Only(S, t) = g[Len(t)]
  <2> HIDE DEF g
  <2> QED BY <1>1, <1>4, OnlyGiven
<1>6. g[Len(t)] = last
  BY <1>1
<1> QED BY <1>3, <1>5, <1>6 DEF t

LEMMA OnlySame ==
  ASSUME NEW S, NEW U, NEW T, NEW s \in Seq(T), Agree(S, U, s)
  PROVE  Only(U, s) = Only(S, s)
<1>1. PICK f \in [0..Len(s) -> Seq(T)] : OnlyBy(S, s, f)
  BY OnlyIs
<1>2. OnlyBy(U, s, f)
  BY <1>1 DEF OnlyBy, Agree
<1> QED BY <1>1, <1>2, OnlyGiven

(* ---- one stage -------------------------------------------------------------------------- *)

\* The stage, having dealt with s, lets x pass.
Lets(stage, S, s, x) ==
  CASE stage.k = "map" -> TRUE
    [] stage.k = "filter" -> x \in S
    [] stage.k = "filterNot" -> x \notin S
    [] stage.k = "takeWhile" -> Leading(S, s) = Len(s) /\ x \in S
    [] stage.k = "dropWhile" -> ~(Leading(S, s) = Len(s) /\ x \in S)
    [] stage.k = "take" -> Len(s) < stage.n
    [] stage.k = "drop" -> Len(s) >= stage.n

LEMMA Kinds ==
  ASSUME NEW stage \in Stage
  PROVE  stage.k \in {"map", "filter", "filterNot", "takeWhile", "dropWhile", "take", "drop"} /\ stage.n \in Nat
BY DEF Stage, Lambdas, Budgets

\* A prefix of s, and what follows it.
LEMMA Parts ==
  ASSUME NEW T, NEW s \in Seq(T), NEW n \in Nat
  PROVE  /\ n <= Len(s) => SubSeq(s, 1, n) \in Seq(T) /\ Len(SubSeq(s, 1, n)) = n
         /\ SubSeq(s, n + 1, Len(s)) \in Seq(T)
         /\ Len(SubSeq(s, n + 1, Len(s))) = IF n <= Len(s) THEN Len(s) - n ELSE 0
         /\ n <= Len(s) => \A i \in 1..n : SubSeq(s, 1, n)[i] = s[i]
         /\ \A i \in 1..Len(s) - n : SubSeq(s, n + 1, Len(s))[i] = s[n + i]
<1>1. Len(s) \in Nat /\ \A i \in 1..Len(s) : s[i] \in T
  BY LenProperties
<1>2. ASSUME n <= Len(s)
      PROVE  /\ SubSeq(s, 1, n) \in Seq(T) /\ Len(SubSeq(s, 1, n)) = n
             /\ \A i \in 1..n : SubSeq(s, 1, n)[i] = s[i]
  <2>1. \A i \in 1..n : s[i] \in T
    BY <1>1, <1>2
  <2>2. /\ SubSeq(s, 1, n) \in Seq(T)
        /\ Len(SubSeq(s, 1, n)) = IF 1 <= n THEN n - 1 + 1 ELSE 0
        /\ \A i \in 1..n - 1 + 1 : SubSeq(s, 1, n)[i] = s[1 + i - 1]
    BY <2>1, SubSeqProperties
  <2> QED BY <2>2
<1>3. /\ SubSeq(s, n + 1, Len(s)) \in Seq(T)
      /\ Len(SubSeq(s, n + 1, Len(s))) = IF n + 1 <= Len(s) THEN Len(s) - (n + 1) + 1 ELSE 0
      /\ \A i \in 1..Len(s) - (n + 1) + 1 : SubSeq(s, n + 1, Len(s))[i] = s[(n + 1) + i - 1]
  <2>1. \A i \in n + 1..Len(s) : s[i] \in T
    BY <1>1
  <2> QED BY <2>1, <1>1, SubSeqProperties
<1>4. \A i \in 1..Len(s) - n : SubSeq(s, n + 1, Len(s))[i] = s[n + i]
  <2> TAKE i \in 1..Len(s) - n
  <2>1. i \in 1..Len(s) - (n + 1) + 1 /\ (n + 1) + i - 1 = n + i
    BY <1>1
  <2> QED BY <2>1, <1>3
<1> QED BY <1>1, <1>2, <1>3, <1>4

\* A prefix does not see what is appended; what follows it ends with it.
LEMMA PartsAppend ==
  ASSUME NEW T, NEW s \in Seq(T), NEW x \in T, NEW n \in Nat
  PROVE  /\ n <= Len(s) => SubSeq(Append(s, x), 1, n) = SubSeq(s, 1, n)
         /\ SubSeq(s, 1, Len(s)) = s
         /\ SubSeq(Append(s, x), 1, Len(s) + 1) = Append(s, x)
         /\ n <= Len(s) => SubSeq(Append(s, x), n + 1, Len(s) + 1) = Append(SubSeq(s, n + 1, Len(s)), x)
         /\ n > Len(s) => SubSeq(Append(s, x), n + 1, Len(s) + 1) = SubSeq(s, n + 1, Len(s))
<1> DEFINE t == Append(s, x)
<1>1. /\ t \in Seq(T) /\ Len(t) = Len(s) + 1 /\ Len(s) \in Nat
      /\ \A i \in 1..Len(s) : t[i] = s[i]
      /\ t[Len(s) + 1] = x
  BY AppendIs
<1> HIDE DEF t
<1>2. SubSeq(s, 1, Len(s)) = s /\ SubSeq(t, 1, Len(s) + 1) = t
  BY <1>1, SubSeqFull
<1>3. ASSUME n <= Len(s) PROVE SubSeq(t, 1, n) = SubSeq(s, 1, n)
  <2> DEFINE u == SubSeq(t, 1, n)
             v == SubSeq(s, 1, n)
  <2>1. u \in Seq(T) /\ Len(u) = n /\ \A i \in 1..n : u[i] = t[i]
    BY <1>1, <1>3, Parts
  <2>2. v \in Seq(T) /\ Len(v) = n /\ \A i \in 1..n : v[i] = s[i]
    BY <1>1, <1>3, Parts
  <2> HIDE DEF u, v
  <2>3. \A i \in 1..Len(u) : u[i] = v[i]
    BY <1>1, <1>3, <2>1, <2>2
  <2>4. u = v
    BY <2>1, <2>2, <2>3, SeqEqual
  <2> QED BY <2>4 DEF u, v
<1>4. ASSUME n <= Len(s) PROVE SubSeq(t, n + 1, Len(s) + 1) = Append(SubSeq(s, n + 1, Len(s)), x)
  <2> DEFINE u == SubSeq(t, n + 1, Len(s) + 1)
             r == SubSeq(s, n + 1, Len(s))
             v == Append(r, x)
  <2>1. u \in Seq(T) /\ Len(u) = Len(s) + 1 - n /\ \A i \in 1..Len(s) + 1 - n : u[i] = t[n + i]
    <3>1. /\ SubSeq(t, n + 1, Len(t)) \in Seq(T)
          /\ Len(SubSeq(t, n + 1, Len(t))) = IF n <= Len(t) THEN Len(t) - n ELSE 0
          /\ \A i \in 1..Len(t) - n : SubSeq(t, n + 1, Len(t))[i] = t[n + i]
      BY <1>1, Parts
    <3> QED BY <3>1, <1>1, <1>4
  <2>2. r \in Seq(T) /\ Len(r) = Len(s) - n /\ \A i \in 1..Len(s) - n : r[i] = s[n + i]
    BY <1>1, <1>4, Parts
  <2> HIDE DEF u, r
  <2>3. v \in Seq(T) /\ Len(v) = Len(r) + 1 /\ (\A i \in 1..Len(r) : v[i] = r[i]) /\ v[Len(r) + 1] = x
    BY <2>2, AppendIs
  <2> HIDE DEF v
  <2>4. \A i \in 1..Len(u) : u[i] = v[i]
    <3> TAKE i \in 1..Len(u)
    <3>1. u[i] = t[n + i]
      BY <1>1, <1>4, <2>1
    <3>2. CASE i <= Len(s) - n
      <4>1. i \in 1..Len(s) - n /\ n + i \in 1..Len(s) /\ i \in 1..Len(r)
        BY <3>2, <1>1, <1>4, <2>1, <2>2
      <4> QED BY <4>1, <3>1, <1>1, <2>2, <2>3
    <3>3. CASE ~(i <= Len(s) - n)
      <4>1. i = Len(r) + 1 /\ n + i = Len(s) + 1
        BY <3>3, <1>1, <1>4, <2>1, <2>2
      <4> QED BY <4>1, <3>1, <1>1, <2>3
    <3> QED BY <3>2, <3>3
  <2>5. Len(u) = Len(v)
    BY <1>1, <1>4, <2>1, <2>2, <2>3
  <2>6. u = v
    BY <2>1, <2>3, <2>4, <2>5, SeqEqual
  <2> QED BY <2>6 DEF u, v, r
<1>5. ASSUME n > Len(s) PROVE SubSeq(t, n + 1, Len(s) + 1) = SubSeq(s, n + 1, Len(s))
  <2>1. SubSeq(t, n + 1, Len(s) + 1) = <<>> /\ SubSeq(s, n + 1, Len(s)) = <<>>
    BY <1>1, <1>5, SubSeqEmpty
  <2> QED BY <2>1
<1> QED BY <1>2, <1>3, <1>4, <1>5 DEF t

LEMMA ThroughIn ==
  ASSUME NEW stage \in Stage, NEW S, NEW T \in SUBSET Nat, NEW s \in Seq(T)
  PROVE  Through(stage, S, s) \in Seq(T)
<1>1. Len(s) \in Nat
  BY LenProperties
<1>2. CASE stage.k = "map"
  BY <1>2 DEF Through
<1>3. CASE stage.k \in {"filter", "filterNot"}
  <2>1. Only(S, s) \in Seq(T) /\ Only(Nat \ S, s) \in Seq(T)
    BY OnlyIn
  <2> QED BY <2>1, <1>3 DEF Through
<1>4. CASE stage.k \in {"takeWhile", "dropWhile"}
  <2>1. Leading(S, s) \in Nat /\ Leading(S, s) <= Len(s)
    BY <1>1, LeadingIs
  <2>2. SubSeq(s, 1, Leading(S, s)) \in Seq(T) /\ SubSeq(s, Leading(S, s) + 1, Len(s)) \in Seq(T)
    BY <2>1, Parts
  <2> QED BY <2>2, <1>4 DEF Through
<1>5. CASE stage.k \in {"take", "drop"}
  <2>1. stage.n \in Nat
    BY Kinds
  <2>2. Min({stage.n, Len(s)}) = IF stage.n <= Len(s) THEN stage.n ELSE Len(s)
    BY <1>1, <2>1, MinOf
  <2>3. Min({stage.n, Len(s)}) \in Nat /\ Min({stage.n, Len(s)}) <= Len(s)
    BY <1>1, <2>1, <2>2
  <2>4. SubSeq(s, 1, Min({stage.n, Len(s)})) \in Seq(T) /\ SubSeq(s, stage.n + 1, Len(s)) \in Seq(T)
    BY <2>1, <2>3, Parts
  <2> QED BY <2>4, <1>5 DEF Through
<1> QED BY <1>2, <1>3, <1>4, <1>5, Kinds

\* The stages make nothing of nothing.
LEMMA ThroughNothing ==
  ASSUME NEW stage \in Stage, NEW S
  PROVE  Leading(S, <<>>) = 0 /\ Through(stage, S, <<>>) = <<>> /\ Called(stage, S, <<>>) = <<>>
<1> DEFINE e == <<>>
<1>1. e \in Seq(Nat) /\ Len(e) = 0
  BY EmptySeq
<1>2. Leading(S, e) = 0
  <2> HIDE DEF e
  <2>1. Leading(S, e) \in 0..Len(e)
    BY <1>1, LeadingIs
  <2> QED BY <2>1, <1>1
<1>3. \A n \in Nat : SubSeq(e, 1, 0) = <<>> /\ SubSeq(e, n + 1, 0) = <<>>
  <2> TAKE n \in Nat
  <2> HIDE DEF e
  <2> QED BY SubSeqEmpty
<1>4. ASSUME NEW U PROVE Only(U, e) = <<>>
  <2>1. OnlyBy(U, e, [n \in 0..0 |-> <<>>])
    BY <1>1 DEF OnlyBy
  <2>2. Only(U, e) = [n \in 0..0 |-> <<>>][Len(e)]
    BY <1>1, <2>1, OnlyGiven
  <2> QED BY <2>2, <1>1
<1>5. stage.n \in Nat /\ Min({stage.n, Len(e)}) = 0
  <2>1. stage.n \in Nat /\ 0 \in Nat
    BY Kinds
  <2>2. Min({stage.n, 0}) = IF stage.n <= 0 THEN stage.n ELSE 0
    BY <2>1, MinOf
  <2> QED BY <2>1, <2>2, <1>1
<1>6. Min({Leading(S, e) + 1, Len(e)}) = 0
  <2>1. Min({1, 0}) = 0
    BY MinOf
  <2> QED BY <2>1, <1>1, <1>2
<1> HIDE DEF e
<1>7. Through(stage, S, e) = <<>>
  <2>1. CASE stage.k = "map"
    BY <2>1 DEF Through, e
  <2>2. CASE stage.k \in {"filter", "filterNot"}
    BY <1>4, <2>2 DEF Through
  <2>3. CASE stage.k \in {"takeWhile", "dropWhile"}
    <3>1. Through(stage, S, e) = SubSeq(e, 1, 0) \/ Through(stage, S, e) = SubSeq(e, 0 + 1, 0)
      BY <2>3, <1>1, <1>2 DEF Through
    <3> QED BY <3>1, <1>3
  <2>4. CASE stage.k \in {"take", "drop"}
    <3>1. Through(stage, S, e) = SubSeq(e, 1, 0) \/ Through(stage, S, e) = SubSeq(e, stage.n + 1, 0)
      BY <2>4, <1>1, <1>5 DEF Through
    <3> QED BY <3>1, <1>3, <1>5
  <2> QED BY <2>1, <2>2, <2>3, <2>4, Kinds
<1>8. Called(stage, S, e) = <<>>
  BY <1>3, <1>6 DEF Called, e
<1> QED BY <1>2, <1>7, <1>8 DEF e

\* What comes out of a stage grows by the element it lets pass, and by that one only.
LEMMA ThroughAppend ==
  ASSUME NEW stage \in Stage, NEW S, NEW T \in SUBSET Nat, NEW s \in Seq(T), NEW x \in T
  PROVE  Through(stage, S, Append(s, x)) =
           IF Lets(stage, S, s, x) THEN Append(Through(stage, S, s), x) ELSE Through(stage, S, s)
<1> DEFINE t == Append(s, x)
           L == Len(s)
           n == Leading(S, s)
<1>1. t \in Seq(T) /\ Len(t) = L + 1 /\ L \in Nat
  BY AppendIs
<1>2. n \in 0..L /\ Leading(S, t) = IF n = L /\ x \in S THEN L + 1 ELSE n
  BY LeadingIs, LeadingAppend
<1>3. ASSUME NEW m \in Nat
      PROVE  /\ m <= L => SubSeq(t, 1, m) = SubSeq(s, 1, m)
             /\ SubSeq(s, 1, L) = s /\ SubSeq(t, 1, L + 1) = t
             /\ m <= L => SubSeq(t, m + 1, L + 1) = Append(SubSeq(s, m + 1, L), x)
             /\ m > L => SubSeq(t, m + 1, L + 1) = SubSeq(s, m + 1, L)
  <2>1. /\ m <= Len(s) => SubSeq(Append(s, x), 1, m) = SubSeq(s, 1, m)
        /\ SubSeq(s, 1, Len(s)) = s
        /\ SubSeq(Append(s, x), 1, Len(s) + 1) = Append(s, x)
        /\ m <= Len(s) => SubSeq(Append(s, x), m + 1, Len(s) + 1) = Append(SubSeq(s, m + 1, Len(s)), x)
        /\ m > Len(s) => SubSeq(Append(s, x), m + 1, Len(s) + 1) = SubSeq(s, m + 1, Len(s))
    <3> HIDE DEF t, n, L
    <3> QED BY PartsAppend, ZenonT(60)
  <2> QED BY <2>1
<1>4. SubSeq(s, L + 1, L) = <<>> /\ SubSeq(t, (L + 1) + 1, L + 1) = <<>>
  BY <1>1, SubSeqEmpty
<1>5. CASE stage.k = "map"
  BY <1>5 DEF Through, Lets
<1>6. CASE stage.k \in {"filter", "filterNot"}
  <2>1. Only(S, t) = IF x \in S THEN Append(Only(S, s), x) ELSE Only(S, s)
    BY OnlyAppend
  <2>2. Only(Nat \ S, t) = IF x \in Nat \ S THEN Append(Only(Nat \ S, s), x) ELSE Only(Nat \ S, s)
    BY OnlyAppend
  <2>3. x \in Nat \ S <=> x \notin S
    OBVIOUS
  <2> HIDE DEF t, L, n
  <2>4. CASE stage.k = "filter"
    BY <2>1, <2>4 DEF Through, Lets, t
  <2>5. CASE stage.k = "filterNot"
    BY <2>2, <2>3, <2>5 DEF Through, Lets, t
  <2> QED BY <1>6, <2>4, <2>5
<1> HIDE DEF t, L, n
<1>7. CASE stage.k = "takeWhile"
  <2>1. Through(stage, S, s) = SubSeq(s, 1, n) /\ Through(stage, S, t) = SubSeq(t, 1, Leading(S, t))
    BY <1>7 DEF Through, n
  <2>2. Lets(stage, S, s, x) <=> n = L /\ x \in S
    BY <1>7 DEF Lets, n, L
  <2>3. n \in Nat /\ n <= L
    BY <1>1, <1>2
  <2>4. CASE n = L /\ x \in S
    <3>1. SubSeq(s, 1, n) = s /\ SubSeq(t, 1, Leading(S, t)) = t
      BY <2>4, <1>2, <1>3, <2>3
    <3> QED BY <3>1, <2>1, <2>2, <2>4 DEF t
  <2>5. CASE ~(n = L /\ x \in S)
    <3>1. SubSeq(t, 1, Leading(S, t)) = SubSeq(s, 1, n)
      BY <2>5, <1>2, <1>3, <2>3
    <3> QED BY <3>1, <2>1, <2>2, <2>5 DEF t
  <2> QED BY <2>4, <2>5
<1>8. CASE stage.k = "dropWhile"
  <2>1. /\ Through(stage, S, s) = SubSeq(s, n + 1, L)
        /\ Through(stage, S, t) = SubSeq(t, Leading(S, t) + 1, L + 1)
    BY <1>8, <1>1 DEF Through, n, L
  <2>2. Lets(stage, S, s, x) <=> ~(n = L /\ x \in S)
    BY <1>8 DEF Lets, n, L
  <2>3. n \in Nat /\ n <= L
    BY <1>1, <1>2
  <2>4. CASE n = L /\ x \in S
    <3>1. SubSeq(s, n + 1, L) = <<>> /\ SubSeq(t, Leading(S, t) + 1, L + 1) = <<>>
      BY <2>4, <1>2, <1>4
    <3> QED BY <3>1, <2>1, <2>2, <2>4 DEF t
  <2>5. CASE ~(n = L /\ x \in S)
    <3>1. SubSeq(t, Leading(S, t) + 1, L + 1) = Append(SubSeq(s, n + 1, L), x)
      BY <2>5, <1>2, <1>3, <2>3
    <3> QED BY <3>1, <2>1, <2>2, <2>5 DEF t
  <2> QED BY <2>4, <2>5
<1>9. CASE stage.k = "take"
  <2> DEFINE m == stage.n
  <2>1. m \in Nat
    BY Kinds
  <2> HIDE DEF m
  <2>2. Min({m, L}) = (IF m <= L THEN m ELSE L) /\ Min({m, L + 1}) = IF m <= L + 1 THEN m ELSE L + 1
    <3>1. L + 1 \in Nat
      BY <1>1
    <3> QED BY <3>1, <1>1, <2>1, MinOf
  <2>3. Through(stage, S, s) = SubSeq(s, 1, Min({m, L})) /\ Through(stage, S, t) = SubSeq(t, 1, Min({m, L + 1}))
    BY <1>9, <1>1 DEF Through, L, m
  <2>4. Lets(stage, S, s, x) <=> L < m
    BY <1>9 DEF Lets, L, m
  <2>5. CASE L < m
    <3>1. Min({m, L}) = L /\ Min({m, L + 1}) = L + 1
      BY <2>5, <2>1, <2>2, <1>1
    <3>2. SubSeq(s, 1, L) = s /\ SubSeq(t, 1, L + 1) = t
      BY <1>3, <2>1
    <3> QED BY <3>1, <3>2, <2>3, <2>4, <2>5 DEF t
  <2>6. CASE ~(L < m)
    <3>1. m <= L /\ Min({m, L}) = m /\ Min({m, L + 1}) = m
      BY <2>6, <2>1, <2>2, <1>1
    <3>2. SubSeq(t, 1, m) = SubSeq(s, 1, m)
      BY <3>1, <1>3, <2>1
    <3> QED BY <3>1, <3>2, <2>3, <2>4, <2>6 DEF t
  <2> QED BY <2>5, <2>6
<1>10. CASE stage.k = "drop"
  <2> DEFINE m == stage.n
  <2>1. m \in Nat
    BY Kinds
  <2> HIDE DEF m
  <2>2. Through(stage, S, s) = SubSeq(s, m + 1, L) /\ Through(stage, S, t) = SubSeq(t, m + 1, L + 1)
    BY <1>10, <1>1 DEF Through, L, m
  <2>3. Lets(stage, S, s, x) <=> L >= m
    BY <1>10 DEF Lets, L, m
  <2>4. CASE L >= m
    BY <2>1, <2>2, <2>3, <2>4, <1>1, <1>3 DEF t
  <2>5. CASE ~(L >= m)
    BY <2>1, <2>2, <2>3, <2>5, <1>1, <1>3 DEF t
  <2> QED BY <2>4, <2>5
<1> QED BY <1>5, <1>6, <1>7, <1>8, <1>9, <1>10, Kinds DEF t

LEMMA ThroughSame ==
  ASSUME NEW stage \in Stage, NEW S, NEW U, NEW T \in SUBSET Nat, NEW s \in Seq(T), Agree(S, U, s)
  PROVE  /\ Through(stage, U, s) = Through(stage, S, s)
         /\ Called(stage, U, s) = Called(stage, S, s)
         /\ Leading(U, s) = Leading(S, s)
<1>1. Leading(U, s) = Leading(S, s)
  BY LeadingSame
<1>2. Only(U, s) = Only(S, s) /\ Only(Nat \ U, s) = Only(Nat \ S, s)
  <2>1. \A j \in 1..Len(s) : s[j] \in Nat
    BY LenProperties
  <2>2. Agree(Nat \ S, Nat \ U, s)
    BY <2>1 DEF Agree
  <2> QED BY <2>2, OnlySame
<1>3. Called(stage, U, s) = Called(stage, S, s)
  BY <1>1 DEF Called
<1>4. Through(stage, U, s) = Through(stage, S, s)
  <2>1. CASE stage.k \in {"filter", "filterNot"}
    BY <1>2, <2>1 DEF Through
  <2>2. CASE stage.k \in {"takeWhile", "dropWhile"}
    BY <1>1, <2>2 DEF Through
  <2>3. CASE stage.k \in {"map", "take", "drop"}
    BY <2>3 DEF Through
  <2> QED BY <2>1, <2>2, <2>3, Kinds
<1> QED BY <1>1, <1>3, <1>4

\* A stage that goes on calls its lambda on the element that comes.
LEMMA CalledAppend ==
  ASSUME NEW stage \in Stage, NEW S, NEW T \in SUBSET Nat, NEW s \in Seq(T), NEW x \in T
  PROVE  /\ stage.k \notin {"takeWhile", "dropWhile"} => Called(stage, S, s) = s /\ Called(stage, S, Append(s, x)) = Append(s, x)
         /\ Leading(S, s) = Len(s) => Called(stage, S, s) = s /\ Called(stage, S, Append(s, x)) = Append(s, x)
         /\ stage.k = "dropWhile" /\ Leading(S, s) < Len(s) => Called(stage, S, Append(s, x)) = Called(stage, S, s)
<1> DEFINE t == Append(s, x)
           n == Leading(S, s)
           L == Len(s)
<1>1. t \in Seq(T) /\ Len(t) = L + 1 /\ L \in Nat
  BY AppendIs
<1>2. n \in 0..L /\ Leading(S, t) = IF n = L /\ x \in S THEN L + 1 ELSE n
  BY LeadingIs, LeadingAppend
<1>3. SubSeq(s, 1, L) = s /\ SubSeq(t, 1, L + 1) = t
  BY <1>1, SubSeqFull
<1>4. \A m \in Nat : m <= L => SubSeq(t, 1, m) = SubSeq(s, 1, m)
  BY PartsAppend, ZenonT(60)
<1>5. stage.k \notin {"takeWhile", "dropWhile"} => Called(stage, S, s) = s /\ Called(stage, S, t) = t
  BY DEF Called
<1>6. stage.k \in {"takeWhile", "dropWhile"} =>
         /\ Called(stage, S, s) = SubSeq(s, 1, Min({n + 1, L}))
         /\ Called(stage, S, t) = SubSeq(t, 1, Min({Leading(S, t) + 1, L + 1}))
  BY <1>1 DEF Called
<1> HIDE DEF t, n, L
<1>7. Min({n + 1, L}) = IF n + 1 <= L THEN n + 1 ELSE L
  <2>1. n + 1 \in Nat
    BY <1>1, <1>2
  <2> QED BY <2>1, <1>1, MinOf
<1>8. Min({Leading(S, t) + 1, L + 1}) = IF Leading(S, t) + 1 <= L + 1 THEN Leading(S, t) + 1 ELSE L + 1
  <2>1. Leading(S, t) + 1 \in Nat /\ L + 1 \in Nat
    BY <1>1, <1>2
  <2> QED BY <2>1, MinOf
<1>9. ASSUME n = L, stage.k \in {"takeWhile", "dropWhile"} PROVE Called(stage, S, s) = s /\ Called(stage, S, t) = t
  <2>1. Min({n + 1, L}) = L /\ Min({Leading(S, t) + 1, L + 1}) = L + 1
    BY <1>1, <1>2, <1>7, <1>8, <1>9
  <2> QED BY <2>1, <1>3, <1>6, <1>9
<1>10. ASSUME stage.k = "dropWhile", n < L PROVE Called(stage, S, t) = Called(stage, S, s)
  <2>1. Min({n + 1, L}) = n + 1 /\ Min({Leading(S, t) + 1, L + 1}) = n + 1 /\ n + 1 \in Nat /\ n + 1 <= L
    BY <1>1, <1>2, <1>7, <1>8, <1>10
  <2> QED BY <2>1, <1>4, <1>6, <1>10
<1> QED BY <1>5, <1>9, <1>10 DEF t, n, L

(* ---- the lists between the stages ---------------------------------------------------------- *)

\* h[i] is what comes out of stage i.
Chain(p, Y, h, n) ==
  /\ h \in [0..Len(p) -> Seq(1..n)]
  /\ h[0] = [j \in 1..n |-> j]
  /\ \A i \in 1..Len(p) : h[i] = Through(p[i], Y[i], h[i - 1])

LEMMA Numbers ==
  ASSUME NEW n \in Nat
  PROVE  /\ [j \in 1..n |-> j] \in Seq(1..n) /\ Len([j \in 1..n |-> j]) = n
         /\ Append([j \in 1..n |-> j], n + 1) = [j \in 1..n + 1 |-> j]
<1> DEFINE s == [j \in 1..n |-> j]
           t == [j \in 1..n + 1 |-> j]
<1>1. s \in Seq(1..n) /\ Len(s) = n
  OBVIOUS
<1>2. t \in Seq(1..n + 1) /\ Len(t) = n + 1
  OBVIOUS
<1>3. Append(s, n + 1) = t
  <2> DEFINE u == Append(s, n + 1)
  <2>1. s \in Seq(1..n + 1) /\ n + 1 \in 1..n + 1
    BY <1>1
  <2>2. u \in Seq(1..n + 1) /\ Len(u) = n + 1 /\ (\A i \in 1..n : u[i] = s[i]) /\ u[n + 1] = n + 1
    <3> HIDE DEF s
    <3> QED BY <1>1, <2>1, AppendIs
  <2>3. \A i \in 1..Len(u) : u[i] = t[i]
    <3> HIDE DEF u
    <3> QED BY <2>2
  <2> HIDE DEF u, t
  <2>4. u = t
    BY <1>2, <2>2, <2>3, SeqEqual
  <2> QED BY <2>4 DEF u
<1> QED BY <1>1, <1>3

LEMMA EagerUnique ==
  ASSUME NEW p, Len(p) \in Nat, NEW Y, NEW n \in Nat, NEW h, Chain(p, Y, h, n)
  PROVE  \A i \in 0..Len(p) : Eager(p, Y, n)[i] = h[i]
<1> DEFINE E(g) == g = [i \in 0..Len(p) |->
                          IF i = 0 THEN [j \in 1..n |-> j] ELSE Through(p[i], Y[i], g[i - 1])]
           list == CHOOSE g : E(g)
<1>1. E(h)
  <2>1. \A i \in 0..Len(p) : h[i] = IF i = 0 THEN [j \in 1..n |-> j] ELSE Through(p[i], Y[i], h[i - 1])
    BY DEF Chain
  <2>2. h = [i \in 0..Len(p) |-> h[i]]
    BY DEF Chain
  <2> QED BY <2>1, <2>2
<1>2. E(list)
  BY <1>1
<1> HIDE DEF list
<1>3. list[0] = h[0]
  BY <1>2 DEF Chain
<1>4. \A i \in 1..Len(p) : list[i - 1] = h[i - 1] => list[i] = h[i]
  <2> TAKE i \in 1..Len(p)
  <2>1. i \in 0..Len(p) /\ i # 0
    OBVIOUS
  <2>2. list[i] = Through(p[i], Y[i], list[i - 1])
    BY <2>1, <1>2
  <2> QED BY <2>2 DEF Chain
<1>5. \A i \in 0..Len(p) : list[i] = h[i]
  BY <1>3, <1>4, SameAll, ZenonT(60)
<1> QED BY <1>5 DEF Eager, list

LEMMA ChainIs ==
  ASSUME NEW p \in Seq(Stage), NEW Y, NEW n \in Nat
  PROVE  \E h : Chain(p, Y, h, n)
<1> DEFINE L == Seq(1..n)
           a == [j \in 1..n |-> j]
           G == [i \in 1..Len(p) |-> [s \in L |-> Through(p[i], Y[i], s)]]
<1>1. Len(p) \in Nat /\ (\A i \in 1..Len(p) : p[i] \in Stage) /\ a \in L
  BY LenProperties, Numbers
<1>2. Steps(L, Len(p), G)
  <2>1. \A i \in 1..Len(p) : \A s \in L : Through(p[i], Y[i], s) \in L
    BY <1>1, ThroughIn
  <2> HIDE DEF L
  <2> QED BY <2>1 DEF Steps
<1>3. PICK h : Recursive(L, a, Len(p), G, h)
  <2> HIDE DEF L, a, G
  <2> QED BY <1>1, <1>2, Recursion
<1>4. \A i \in 1..Len(p) : h[i] = Through(p[i], Y[i], h[i - 1])
  <2> TAKE i \in 1..Len(p)
  <2> HIDE DEF L, a
  <2>1. i - 1 \in 0..Len(p) /\ h[i - 1] \in L /\ h[i] = G[i][h[i - 1]]
    BY <1>1, <1>3 DEF Recursive
  <2> QED BY <2>1
<1>5. Chain(p, Y, h, n)
  BY <1>3, <1>4 DEF Recursive, Chain
<1> QED BY <1>5

\* Answers on elements that have not come yet change nothing.
AlikeTo(p, Y, Y2, n) == \A i \in 1..Len(p) : \A x \in 1..n : x \in Y[i] <=> x \in Y2[i]
EagerAlike(p, Y, Y2, n) ==
  /\ \A i \in 0..Len(p) : Eager(p, Y2, n)[i] = Eager(p, Y, n)[i]
  /\ \A i \in 1..Len(p) : Leading(Y2[i], Eager(p, Y, n)[i - 1]) = Leading(Y[i], Eager(p, Y, n)[i - 1])

LEMMA EagerSame ==
  ASSUME NEW p \in Seq(Stage), NEW Y, NEW Y2, NEW n \in Nat, AlikeTo(p, Y, Y2, n)
  PROVE  EagerAlike(p, Y, Y2, n)
<1>1. Len(p) \in Nat /\ \A i \in 1..Len(p) : p[i] \in Stage
  BY LenProperties
<1>2. PICK h : Chain(p, Y, h, n)
  BY ChainIs
<1>3. \A i \in 0..Len(p) : Eager(p, Y, n)[i] = h[i]
  BY <1>1, <1>2, EagerUnique
<1>4. ASSUME NEW i \in 1..Len(p)
      PROVE  /\ Through(p[i], Y2[i], h[i - 1]) = Through(p[i], Y[i], h[i - 1])
             /\ Leading(Y2[i], h[i - 1]) = Leading(Y[i], h[i - 1])
  <2>1. i - 1 \in 0..Len(p)
    BY <1>1
  <2>2. h[i - 1] \in Seq(1..n)
    BY <1>2, <2>1 DEF Chain
  <2>3. \A j \in 1..Len(h[i - 1]) : h[i - 1][j] \in 1..n
    BY <2>2, LenProperties
  <2>4. Agree(Y[i], Y2[i], h[i - 1])
    BY <2>3 DEF Agree, AlikeTo
  <2>5. 1..n \in SUBSET Nat /\ p[i] \in Stage
    BY <1>1
  <2> QED BY <2>2, <2>4, <2>5, ThroughSame
<1>5. Chain(p, Y2, h, n)
  BY <1>2, <1>4 DEF Chain
<1>6. \A i \in 0..Len(p) : Eager(p, Y2, n)[i] = h[i]
  BY <1>1, <1>5, EagerUnique
<1>7. \A i \in 1..Len(p) : i - 1 \in 0..Len(p)
  BY <1>1
<1> QED BY <1>2, <1>3, <1>4, <1>6, <1>7 DEF EagerAlike

(* ---- an element on its way ------------------------------------------------------------------- *)

\* The sets agree on what the stages from `at` on have seen.
LEMMA SeenAgree ==
  ASSUME NEW n \in Nat, n > 0, NEW s \in Seq(1..n - 1), NEW S, NEW U, U = S \/ U = S \cup {n}
  PROVE  Agree(S, U, s)
<1>1. \A j \in 1..Len(s) : s[j] \in 1..n - 1
  BY LenProperties
<1> QED BY <1>1 DEF Agree

\* Stage `at` deals with element n.
Dealt(p, Y, Y2, n, at, now, now2, g, to) ==
  /\ \A i \in 1..Len(p) : i # at => Y2[i] = Y[i] /\ now2[i].n = now[i].n
  /\ Y2[at] = Y[at] \/ Y2[at] = Y[at] \cup {n}
  /\ Left(p[at], Y2[at], Append(g[at], n), now2[at].n)
  /\ to = IF Lets(p[at], Y2[at], g[at], n) THEN at + 1 ELSE 0

LEMMA FlowStep ==
  ASSUME NEW p \in Seq(Stage), NEW Y, NEW Y2, NEW n \in Nat, n > 0, NEW at \in 1..Len(p),
         NEW now, NEW now2, NEW g, NEW to, Flow(p, Y, n, at, now, g),
         Dealt(p, Y, Y2, n, at, now, now2, g, to)
  PROVE  Flow(p, Y2, n, to, now2, [g EXCEPT ![at] = Append(g[at], n)])
<1> USE DEF Dealt
<1> DEFINE g2 == [g EXCEPT ![at] = Append(g[at], n)]
<1>1. Len(p) \in Nat /\ \A i \in 1..Len(p) : p[i] \in Stage
  BY LenProperties
<1>2. g \in [1..Len(p) + 1 -> Seq(Nat)] /\ \A i \in 1..Len(p) + 1 : g[i] \in Seq(1..Seen(n, at, i))
  BY DEF Flow
<1>3. g[at] \in Seq(1..n - 1) /\ g[at] \in Seq(1..n)
  <2>1. g[at] \in Seq(1..n - 1)
    BY <1>1, <1>2 DEF Seen
  <2> QED BY <2>1, SeqMonotonic
<1>4. Append(g[at], n) \in Seq(1..n) /\ Append(g[at], n) \in Seq(Nat)
  <2>1. Append(g[at], n) \in Seq(1..n)
    BY <1>3, AppendIs
  <2> QED BY <2>1, SeqMonotonic
<1>5. /\ g2 \in [1..Len(p) + 1 -> Seq(Nat)] /\ g2[at] = Append(g[at], n)
      /\ \A i \in 1..Len(p) + 1 : i # at => g2[i] = g[i]
  BY <1>1, <1>2, <1>4
<1>6. \A i \in 1..Len(p) + 1 : Seen(n, to, i) \in Nat /\ (i # at => Seen(n, at, i) <= Seen(n, to, i)) /\ (i = at => Seen(n, to, i) = n)
  BY <1>1 DEF Seen
<1> HIDE DEF g2
<1>7. \A i \in 1..Len(p) + 1 : g2[i] \in Seq(1..Seen(n, to, i))
  <2> TAKE i \in 1..Len(p) + 1
  <2>1. CASE i = at
    BY <2>1, <1>4, <1>5, <1>6
  <2>2. CASE i # at
    <3>1. Seen(n, at, i) <= Seen(n, to, i) /\ Seen(n, at, i) \in Int
      BY <2>2, <1>1, <1>6 DEF Seen
    <3>2. 1..Seen(n, at, i) \subseteq 1..Seen(n, to, i)
      BY <3>1, <1>6
    <3>3. g2[i] \in Seq(1..Seen(n, at, i))
      BY <2>2, <1>2, <1>5
    <3> DEFINE A == 1..Seen(n, at, i)
               B == 1..Seen(n, to, i)
               s == g2[i]
    <3>4. A \subseteq B /\ s \in Seq(A)
      BY <3>2, <3>3
    <3> HIDE DEF A, B, s
    <3>5. s \in Seq(B)
      BY <3>4, SeqMonotonic
    <3> QED BY <3>5 DEF B, s
  <2> QED BY <2>1, <2>2
<1>8. Reached(g2, n, to, 1) = [j \in 1..n |-> j]
  <2>1. Reached(g, n, at, 1) = [j \in 1..n |-> j]
    BY DEF Flow
  <2>2. CASE at = 1
    <3>1. to # 1
      BY <2>2, <1>1
    <3> QED BY <3>1, <2>1, <2>2, <1>5 DEF Reached
  <2>3. CASE at # 1
    <3>1. to # 1 /\ 1 \in 1..Len(p) + 1
      BY <2>3, <1>1
    <3> QED BY <3>1, <2>1, <2>3, <1>5 DEF Reached
  <2> QED BY <2>2, <2>3
<1>9. ASSUME NEW i \in 1..Len(p)
      PROVE  /\ Y2[i] \subseteq 1..Seen(n, to, i)
             /\ Through(p[i], Y2[i], g2[i]) = Reached(g2, n, to, i + 1)
             /\ Left(p[i], Y2[i], g2[i], now2[i].n)
  <2>1. /\ Y[i] \subseteq 1..Seen(n, at, i)
        /\ Through(p[i], Y[i], g[i]) = Reached(g, n, at, i + 1)
        /\ Left(p[i], Y[i], g[i], now[i].n)
    BY DEF Flow
  <2>2. i \in 1..Len(p) + 1 /\ i + 1 \in 1..Len(p) + 1 /\ at + 1 # at /\ at # 0
    BY <1>1
  <2>3. CASE i # at
    <3>1. Y2[i] = Y[i] /\ g2[i] = g[i] /\ now2[i].n = now[i].n
      BY <2>2, <2>3, <1>5
    <3>2. Y2[i] \subseteq 1..Seen(n, to, i)
      <4>1. Seen(n, at, i) <= Seen(n, to, i) /\ Seen(n, at, i) \in Int /\ Seen(n, to, i) \in Int
        BY <2>2, <2>3, <1>1, <1>6 DEF Seen
      <4> QED BY <3>1, <2>1, <4>1
    <3>3. Reached(g, n, at, i + 1) = Reached(g2, n, to, i + 1)
      <4>1. to # i + 1
        BY <2>3, <1>1
      <4>2. CASE i + 1 = at
        BY <4>1, <4>2, <1>5 DEF Reached
      <4>3. CASE i + 1 # at
        BY <4>1, <4>3, <2>2, <1>5 DEF Reached
      <4> QED BY <4>2, <4>3
    <3> QED BY <2>1, <3>1, <3>2, <3>3
  <2>4. CASE i = at
    <3>0. Seen(n, at, at) = n - 1
      BY <1>1 DEF Seen
    <3>1. Y[at] \subseteq 1..n - 1
      BY <2>1, <2>4, <3>0
    <3>2. Y2[at] \subseteq 1..Seen(n, to, at)
      BY <3>1, <2>2, <2>4, <1>6
    <3>3. Agree(Y[at], Y2[at], g[at])
      BY <1>3, SeenAgree
    <3>4. Through(p[at], Y2[at], g[at]) = Through(p[at], Y[at], g[at])
      <4>1. 1..n \in SUBSET Nat
        OBVIOUS
      <4> QED BY <4>1, <1>1, <1>3, <3>3, ThroughSame
    <3>5. Through(p[at], Y[at], g[at]) = g[at + 1]
      BY <2>1, <2>2, <2>4 DEF Reached
    <3>6. Through(p[at], Y2[at], Append(g[at], n)) = IF Lets(p[at], Y2[at], g[at], n) THEN Append(g[at + 1], n) ELSE g[at + 1]
      <4> DEFINE T == 1..n
                 s == g[at]
      <4>1. T \in SUBSET Nat /\ n \in T /\ s \in Seq(T) /\ p[at] \in Stage
        BY <1>1, <1>3
      <4> HIDE DEF T, s
      <4>2. Through(p[at], Y2[at], Append(s, n)) =
              IF Lets(p[at], Y2[at], s, n) THEN Append(Through(p[at], Y2[at], s), n) ELSE Through(p[at], Y2[at], s)
        BY <4>1, ThroughAppend, ZenonT(60)
      <4> QED BY <4>2, <3>4, <3>5 DEF s
    <3>7. Reached(g2, n, to, at + 1) = IF Lets(p[at], Y2[at], g[at], n) THEN Append(g[at + 1], n) ELSE g[at + 1]
      BY <2>2, <2>4, <1>5 DEF Reached
    <3> QED BY <2>4, <3>2, <3>6, <3>7, <1>5
  <2> QED BY <2>3, <2>4
<1>10. Flow(p, Y2, n, to, now2, g2)
  BY <1>5, <1>7, <1>8, <1>9 DEF Flow
<1> QED BY <1>10 DEF g2

\* The element has come through all stages.
LEMMA FlowOut ==
  ASSUME NEW p \in Seq(Stage), NEW Y, NEW n \in Nat, n > 0, NEW now, NEW g,
         Flow(p, Y, n, Len(p) + 1, now, g)
  PROVE  Flow(p, Y, n, 0, now, [g EXCEPT ![Len(p) + 1] = Append(g[Len(p) + 1], n)])
<1> DEFINE N == Len(p) + 1
           g2 == [g EXCEPT ![N] = Append(g[N], n)]
<1>1. Len(p) \in Nat
  BY LenProperties
<1>2. g \in [1..N -> Seq(Nat)] /\ \A i \in 1..N : g[i] \in Seq(1..Seen(n, N, i))
  BY DEF Flow
<1>3. Append(g[N], n) \in Seq(1..n) /\ Append(g[N], n) \in Seq(Nat)
  <2>1. g[N] \in Seq(1..n - 1)
    BY <1>1, <1>2 DEF Seen
  <2>2. g[N] \in Seq(1..n)
    BY <2>1, SeqMonotonic
  <2>3. Append(g[N], n) \in Seq(1..n)
    BY <2>2, AppendIs
  <2> QED BY <2>3, SeqMonotonic
<1>4. /\ g2 \in [1..N -> Seq(Nat)] /\ g2[N] = Append(g[N], n)
      /\ \A i \in 1..N : i # N => g2[i] = g[i]
  BY <1>1, <1>2, <1>3
<1> HIDE DEF g2
<1>5. \A i \in 1..N : g2[i] \in Seq(1..Seen(n, 0, i))
  <2> TAKE i \in 1..N
  <2>1. CASE i = N
    BY <2>1, <1>3, <1>4 DEF Seen
  <2>2. CASE i # N
    <3>1. Seen(n, 0, i) = n /\ Seen(n, N, i) = n
      BY <2>2, <1>1 DEF Seen
    <3> QED BY <2>2, <3>1, <1>2, <1>4
  <2> QED BY <2>1, <2>2
<1>6. \A i \in 1..N : Reached(g2, n, 0, i) = Reached(g, n, N, i)
  <2> TAKE i \in 1..N
  <2>1. i # 0
    BY <1>1
  <2>2. CASE i = N
    BY <2>1, <2>2, <1>4 DEF Reached
  <2>3. CASE i # N
    BY <2>1, <2>3, <1>4 DEF Reached
  <2> QED BY <2>2, <2>3
<1>7. Reached(g2, n, 0, 1) = [j \in 1..n |-> j]
  BY <1>1, <1>6 DEF Flow
<1>8. ASSUME NEW i \in 1..Len(p)
      PROVE  /\ Y[i] \subseteq 1..Seen(n, 0, i)
             /\ Through(p[i], Y[i], g2[i]) = Reached(g2, n, 0, i + 1)
             /\ Left(p[i], Y[i], g2[i], now[i].n)
  <2>1. i \in 1..N /\ i # N /\ i + 1 \in 1..N
    BY <1>1
  <2>2. g2[i] = g[i] /\ Seen(n, 0, i) = n /\ Seen(n, N, i) = n
    BY <2>1, <1>1, <1>4 DEF Seen
  <2> QED BY <2>1, <2>2, <1>6 DEF Flow
<1>9. Flow(p, Y, n, 0, now, g2)
  BY <1>4, <1>5, <1>7, <1>8 DEF Flow
<1> QED BY <1>9 DEF g2

\* The next element sets out.
LEMMA FlowIn ==
  ASSUME NEW p \in Seq(Stage), NEW Y, NEW n \in Nat, NEW now, NEW g, Flow(p, Y, n, 0, now, g)
  PROVE  Flow(p, Y, n + 1, 1, now, g)
<1>1. Len(p) \in Nat
  BY LenProperties
<1>2. \A i \in 1..Len(p) + 1 : Seen(n, 0, i) = n /\ Seen(n + 1, 1, i) = n
  BY <1>1 DEF Seen
<1>3. \A i \in 1..Len(p) : i + 1 # 1 /\ i + 1 # 0 /\ i \in 1..Len(p) + 1
  BY <1>1
<1>4. Reached(g, n + 1, 1, 1) = [j \in 1..n + 1 |-> j]
  <2>1. Reached(g, n, 0, 1) = g[1] /\ Reached(g, n + 1, 1, 1) = Append(g[1], n + 1)
    BY DEF Reached
  <2>2. g[1] = [j \in 1..n |-> j]
    BY <2>1 DEF Flow
  <2> QED BY <2>1, <2>2, Numbers
<1>5. \A i \in 1..Len(p) : Reached(g, n + 1, 1, i + 1) = Reached(g, n, 0, i + 1)
  BY <1>3 DEF Reached
<1> QED BY <1>2, <1>3, <1>4, <1>5 DEF Flow

\* Between two elements the flow is the chain of the eager lists.
LEMMA FlowIsEager ==
  ASSUME NEW p \in Seq(Stage), NEW Y, NEW n \in Nat, NEW now, NEW g, Flow(p, Y, n, 0, now, g)
  PROVE  \A i \in 0..Len(p) : Eager(p, Y, n)[i] = g[i + 1]
<1> DEFINE h == [i \in 0..Len(p) |-> g[i + 1]]
<1>1. Len(p) \in Nat
  BY LenProperties
<1>2. \A i \in 1..Len(p) + 1 : g[i] \in Seq(1..n) /\ Reached(g, n, 0, i) = g[i]
  BY DEF Flow, Reached, Seen
<1>3. h \in [0..Len(p) -> Seq(1..n)] /\ h[0] = [j \in 1..n |-> j]
  <2>1. \A i \in 0..Len(p) : i + 1 \in 1..Len(p) + 1
    BY <1>1
  <2>2. g[1] = [j \in 1..n |-> j]
    <3>1. Reached(g, n, 0, 1) = g[1]
      BY <1>1, <1>2
    <3> QED BY <3>1 DEF Flow
  <2> QED BY <2>1, <2>2, <1>1, <1>2
<1>4. \A i \in 1..Len(p) : h[i] = Through(p[i], Y[i], h[i - 1])
  <2> TAKE i \in 1..Len(p)
  <2>1. i \in 0..Len(p) /\ i - 1 \in 0..Len(p) /\ (i - 1) + 1 = i /\ i + 1 \in 1..Len(p) + 1
    BY <1>1
  <2>2. h[i] = g[i + 1] /\ h[i - 1] = g[i]
    BY <2>1
  <2>3. Through(p[i], Y[i], g[i]) = g[i + 1]
    BY <2>1, <1>2 DEF Flow
  <2> QED BY <2>2, <2>3
<1>5. Chain(p, Y, h, n)
  <2> HIDE DEF h
  <2> QED BY <1>3, <1>4 DEF Chain
<1>6. \A i \in 0..Len(p) : Eager(p, Y, n)[i] = h[i]
  <2> HIDE DEF h
  <2> QED BY <1>1, <1>5, EagerUnique
<1> QED BY <1>6

(* ---- types ------------------------------------------------------------------------------------ *)

\* A cursor over the stages of the pipeline.
Kept(c) == c \in Cursor /\ Len(c.stages) = Len(stages) /\ \A i \in 1..Len(stages) : c.stages[i].k = stages[i].k

Call == [x : Nat, yes : BOOLEAN]

TInv ==
  /\ stages \in Pipelines /\ length \in Lengths /\ source \in {"items", "step", "function"}
  /\ heap = [cursor |-> heap.cursor, ahead |-> heap.ahead] /\ Kept(heap.cursor)
  /\ heap.ahead \in Elements \cup {None} \cup (IF pending THEN {Undef} ELSE {})
  /\ pull = None \/ /\ pull \in Pull /\ Kept(pull.cursor) /\ pull.i \in 0..(Len(stages) + 1)
                    /\ pull.v \in Elements \cup {None, Undef} /\ (pull.v = Undef => pending)
                    /\ heap.ahead = None
  /\ pending \in BOOLEAN /\ asked \in Nat /\ out \in Seq(Elements)
  /\ said \in [1..Len(stages) -> Seq(Call)]
  /\ Carried
  /\ Counted

LEMMA PipelineIs ==
  ASSUME NEW p \in Pipelines
  PROVE  /\ p \in Seq(Stage) /\ Len(p) \in Nat /\ DOMAIN p = 1..Len(p)
         /\ \A i \in 1..Len(p) : p[i] \in Stage /\ (p[i].k \in Lambdas => p[i].n = 0)
<1>1. p \in Seq(Stage)
  BY PipelineAssumption
<1>2. Len(p) \in Nat /\ DOMAIN p = 1..Len(p) /\ \A i \in 1..Len(p) : p[i] \in Stage
  BY <1>1, LenProperties
<1> QED BY <1>1, <1>2, PipelineAssumption

LEMMA LengthIs ==
  ASSUME length \in Lengths
  PROVE  length \in Nat /\ Elements = 1..length
BY PipelineAssumption DEF Elements

\* A budget is written in the cursor.
Budgeted(q, i, m) == [q EXCEPT !.cursor.stages[i].n = m]

BudgetSet(q, i, m, r) ==
  /\ r \in Pull /\ r.i = q.i /\ r.v = q.v /\ r.spent = q.spent /\ r.take = q.take
  /\ r.cursor.at = q.cursor.at /\ r.cursor.finished = q.cursor.finished
  /\ Len(r.cursor.stages) = Len(q.cursor.stages)
  /\ r.cursor.stages[i].k = q.cursor.stages[i].k /\ r.cursor.stages[i].n = m
  /\ \A j \in 1..Len(q.cursor.stages) : j # i => r.cursor.stages[j] = q.cursor.stages[j]

LEMMA SetBudget ==
  ASSUME NEW q \in Pull, NEW i, i \in 1..Len(q.cursor.stages), NEW m \in Nat
  PROVE  BudgetSet(q, i, m, Budgeted(q, i, m))
<1> DEFINE r == Budgeted(q, i, m)
<1> DEFINE c == q.cursor
           s == c.stages
           t == [s[i] EXCEPT !.n = m]
           u == [s EXCEPT ![i] = t]
           d == [c EXCEPT !.stages = u]
<1>1. c \in Cursor /\ s \in Seq(Stage) /\ s[i] \in Stage
  <2>1. c \in Cursor
    BY DEF Pull
  <2>2. s \in Seq(Stage)
    BY <2>1 DEF Cursor
  <2> QED BY <2>1, <2>2, LenProperties
<1>2. t \in Stage /\ t.k = s[i].k /\ t.n = m
  BY <1>1 DEF Stage
<1>3. r = [q EXCEPT !.cursor = d]
  BY DEF Pull, Budgeted
<1> HIDE DEF t, r
<1>4. u \in Seq(Stage) /\ Len(u) = Len(s) /\ \A j \in 1..Len(s) : u[j] = IF j = i THEN t ELSE s[j]
  BY <1>1, <1>2, ExceptSeq
<1> HIDE DEF u
<1>5. d \in Cursor /\ d.at = c.at /\ d.finished = c.finished /\ d.stages = u
  BY <1>1, <1>4 DEF Cursor
<1> HIDE DEF d
<1>6. r \in Pull /\ r.cursor = d /\ r.i = q.i /\ r.v = q.v /\ r.spent = q.spent /\ r.take = q.take
  BY <1>3, <1>5 DEF Pull
<1>7. BudgetSet(q, i, m, r)
  BY <1>2, <1>4, <1>5, <1>6 DEF BudgetSet
<1> QED BY <1>7 DEF r

LEMMA TypesInit == Init => TInv
<1> SUFFICES ASSUME Init PROVE TInv
  OBVIOUS
<1> USE DEF Init
<1>1. stages \in Seq(Stage) /\ Len(stages) \in Nat /\ DOMAIN stages = 1..Len(stages) /\ length \in Nat
  BY PipelineIs, LengthIs
<1>2. open(stages) \in Cursor /\ open(stages).stages = stages /\ open(stages).at = 0
  BY <1>1 DEF open, Cursor
<1>3. Kept(heap.cursor)
  BY <1>1, <1>2 DEF Kept
<1>4. said \in [1..Len(stages) -> Seq(Call)]
  BY <1>1
<1>5. Carried /\ Counted
  BY <1>1, <1>2 DEF Carried, Counted, level, cursor
<1>6. heap = [cursor |-> heap.cursor, ahead |-> heap.ahead] /\ heap.ahead = None
  OBVIOUS
<1>7. out \in Seq(Elements) /\ asked \in Nat /\ pending \in BOOLEAN
  BY EmptySeq
<1>8. stages \in Pipelines /\ length \in Lengths /\ source \in {"items", "step", "function"} /\ pull = None
  OBVIOUS
<1> HIDE DEF Init
<1> QED BY <1>3, <1>4, <1>5, <1>6, <1>7, <1>8 DEF TInv

\* An element goes on within the traversal.
LEMMA TypesGoOn ==
  ASSUME TInv, pull # None, NEW r \in Pull, pull' = r, UNCHANGED <<built, heap, out>>,
         Kept(r.cursor), r.i \in 0..(Len(stages) + 1), r.v \in Elements \cup {None, Undef},
         r.v = Undef => pending', pending' \in BOOLEAN, pending => pending', asked' \in Nat,
         said' \in [1..Len(stages) -> Seq(Call)],
         r.i > 0 => r.cursor.at > 0 /\ ~r.cursor.finished /\ asked' = r.cursor.at /\ (r.v = r.cursor.at \/ r.v = Undef),
         r.cursor.at <= length,
         asked' = r.cursor.at \/ (r.cursor.finished /\ asked' = r.cursor.at + 1 /\ (r.cursor.at = length \/ pending'))
  PROVE  TInv'
<1>1. r # None
  BY PipelineAssumption
<1>2. Kept(pull.cursor)' /\ Kept(heap.cursor)' /\ Elements' = Elements
  <2>1. pull'.cursor = r.cursor /\ heap' = heap /\ stages' = stages /\ length' = length /\ Kept(heap.cursor)
    BY DEF built, TInv
  <2> QED BY <2>1 DEF Kept, Elements
<1>3. cursor' = r.cursor /\ level' = r.i
  BY <1>1 DEF cursor, level
<1>4. Carried' /\ Counted'
  BY <1>3 DEF Carried, Counted, built
<1>5. /\ stages \in Pipelines /\ length \in Lengths /\ source \in {"items", "step", "function"}
      /\ heap = [cursor |-> heap.cursor, ahead |-> heap.ahead]
      /\ heap.ahead = None /\ out \in Seq(Elements)
  BY DEF TInv
<1>6. /\ pull' \in Pull /\ pull'.i \in 0..(Len(stages) + 1)
      /\ pull'.v \in Elements \cup {None, Undef} /\ (pull'.v = Undef => pending')
  OBVIOUS
<1> QED BY <1>2, <1>4, <1>5, <1>6 DEF TInv, built

\* The traversal answers.
LEMMA TypesAnswer ==
  ASSUME TInv, pull # None, UNCHANGED built, NEW c, Kept(c), NEW v \in Elements \cup {None, Undef},
         Answer(c, v), v = Undef => pending', pending' \in BOOLEAN, pending => pending', asked' \in Nat,
         said' \in [1..Len(stages) -> Seq(Call)], c.at <= length,
         asked' = c.at \/ (c.finished /\ asked' = c.at + 1 /\ (c.at = length \/ pending'))
  PROVE  TInv'
<1>1. /\ heap' = [cursor |-> c, ahead |-> IF pull.take THEN None ELSE v] /\ pull' = None
      /\ out' = IF pull.take /\ v # None /\ ~pending' THEN Append(out, v) ELSE out
  BY DEF Answer
<1>2. heap'.cursor = c /\ heap'.ahead = (IF pull.take THEN None ELSE v) /\ heap' = [cursor |-> heap'.cursor, ahead |-> heap'.ahead]
  BY <1>1
<1>3. Kept(heap.cursor)' /\ Elements' = Elements
  BY <1>2 DEF Kept, built, Elements
<1>4. heap'.ahead \in Elements' \cup {None} \cup (IF pending' THEN {Undef} ELSE {})
  BY <1>2, <1>3
<1>5. out' \in Seq(Elements')
  <2>1. out \in Seq(Elements)
    BY DEF TInv
  <2>2. CASE pull.take /\ v # None /\ ~pending'
    <3>1. v \in Elements
      BY <2>2
    <3> QED BY <2>1, <2>2, <3>1, <1>1, <1>3, AppendProperties
  <2>3. CASE ~(pull.take /\ v # None /\ ~pending')
    BY <2>1, <2>3, <1>1, <1>3
  <2> QED BY <2>2, <2>3
<1>6. cursor' = c /\ level' = 0
  BY <1>1, <1>2 DEF cursor, level
<1>7. Carried' /\ Counted'
  BY <1>6 DEF Carried, Counted, built
<1> QED BY <1>1, <1>2, <1>3, <1>4, <1>5, <1>7 DEF TInv, built

LEMMA Under ==
  ASSUME TInv, pull # None
  PROVE  /\ pull \in Pull /\ Kept(pull.cursor) /\ pull.i \in 0..(Len(stages) + 1)
         /\ pull.v \in Elements \cup {None, Undef} /\ (pull.v = Undef => pending)
         /\ heap.ahead = None
         /\ pull.cursor.at \in Nat /\ pull.cursor.finished \in BOOLEAN /\ pull.cursor.at <= length
         /\ pull.spent \in BOOLEAN /\ pull.take \in BOOLEAN
         /\ asked = pull.cursor.at \/ (pull.cursor.finished /\ asked = pull.cursor.at + 1 /\ (pull.cursor.at = length \/ pending))
         /\ pull.i > 0 => pull.cursor.at > 0 /\ ~pull.cursor.finished /\ asked = pull.cursor.at
                          /\ (pull.v = pull.cursor.at \/ pull.v = Undef)
         /\ cursor = pull.cursor /\ level = pull.i
<1>1. cursor = pull.cursor /\ level = pull.i
  BY DEF cursor, level
<1>2. pull \in Pull /\ pull.cursor \in Cursor
  BY DEF TInv, Kept
<1>3. pull.cursor.at \in Nat /\ pull.cursor.finished \in BOOLEAN /\ pull.spent \in BOOLEAN /\ pull.take \in BOOLEAN
  BY <1>2 DEF Pull, Cursor
<1>4. /\ asked = pull.cursor.at \/ (pull.cursor.finished /\ asked = pull.cursor.at + 1 /\ (pull.cursor.at = length \/ pending))
      /\ pull.cursor.at <= length
      /\ pull.i > 0 => pull.cursor.at > 0 /\ ~pull.cursor.finished /\ asked = pull.cursor.at
                       /\ (pull.v = pull.cursor.at \/ pull.v = Undef)
  BY <1>1 DEF TInv, Carried, Counted
<1>5. /\ Kept(pull.cursor) /\ pull.i \in 0..(Len(stages) + 1)
      /\ pull.v \in Elements \cup {None, Undef} /\ (pull.v = Undef => pending)
      /\ heap.ahead = None
  BY DEF TInv
<1> QED BY <1>1, <1>2, <1>3, <1>4, <1>5

LEMMA Cursors ==
  ASSUME NEW c, Kept(c), stages \in Pipelines, NEW f \in BOOLEAN
  PROVE  /\ c.stages \in Seq(Stage) /\ DOMAIN c.stages = 1..Len(stages)
         /\ \A i \in 1..Len(stages) : c.stages[i] \in Stage /\ c.stages[i].n \in Nat
         /\ Kept([c EXCEPT !.finished = f]) /\ [c EXCEPT !.finished = f].stages = c.stages
         /\ [c EXCEPT !.finished = f].at = c.at /\ [c EXCEPT !.finished = f].finished = f
<1>1. c \in Cursor /\ Len(stages) \in Nat
  BY PipelineIs DEF Kept
<1>2. c.stages \in Seq(Stage) /\ Len(c.stages) = Len(stages)
  BY <1>1 DEF Kept, Cursor
<1>3. DOMAIN c.stages = 1..Len(stages) /\ \A i \in 1..Len(stages) : c.stages[i] \in Stage
  BY <1>2, LenProperties
<1>4. \A i \in 1..Len(stages) : c.stages[i].n \in Nat
  BY <1>3 DEF Stage
<1>5. /\ [c EXCEPT !.finished = f] \in Cursor /\ [c EXCEPT !.finished = f].stages = c.stages
      /\ [c EXCEPT !.finished = f].at = c.at /\ [c EXCEPT !.finished = f].finished = f
  BY <1>1 DEF Cursor
<1> QED BY <1>2, <1>3, <1>4, <1>5 DEF Kept

\* The traversal finishes where it is.
LEMMA TypesFinish ==
  ASSUME TInv, pull # None, UNCHANGED built, finish, pending' \in BOOLEAN, pending => pending',
         asked' = asked \/ (pull.i = 0 /\ asked' = asked + 1 /\ ~pull.cursor.finished /\ (pull.cursor.at = length \/ pending')),
         said' \in [1..Len(stages) -> Seq(Call)]
  PROVE  TInv'
<1> DEFINE c == [pull.cursor EXCEPT !.finished = TRUE]
<1>1. Kept(c) /\ c.at = pull.cursor.at /\ c.finished
  BY Under, Cursors DEF TInv
<1>2. Answer(c, None)
  BY DEF finish
<1> HIDE DEF c
<1>3. None # Undef /\ None \in Elements \cup {None, Undef}
  BY PipelineAssumption
<1>4. asked' \in Nat /\ asked \in Nat
  BY DEF TInv
<1>5. asked' = c.at \/ (c.finished /\ asked' = c.at + 1 /\ (c.at = length \/ pending'))
  BY <1>1, <1>4, Under
<1>6. c.at <= length
  BY <1>1, Under
<1> QED BY <1>1, <1>2, <1>3, <1>4, <1>5, <1>6, TypesAnswer

LEMMA TypesAsk ==
  ASSUME TInv, NEW take \in BOOLEAN, Ask(take)
  PROVE  TInv'
<1>1. pull = None /\ ~pending /\ UNCHANGED <<built, pending, asked, said>>
  BY DEF Ask
<1>2. cursor = heap.cursor /\ level = 0 /\ heap = [cursor |-> heap.cursor, ahead |-> heap.ahead]
  BY <1>1 DEF cursor, level, TInv
<1>3. CASE heap.ahead # None
  <2>1. /\ heap' = IF take THEN [heap EXCEPT !.ahead = None] ELSE heap
        /\ out' = IF take THEN Append(out, heap.ahead) ELSE out
        /\ pull' = pull
    BY <1>3 DEF Ask
  <2>2. heap.ahead \in Elements
    BY <1>1, <1>3 DEF TInv
  <2>3. out' \in Seq(Elements) /\ Elements' = Elements
    BY <1>1, <2>1, <2>2, AppendProperties DEF TInv, built, Elements
  <2>4. heap'.cursor = heap.cursor /\ heap'.ahead \in {None, heap.ahead} /\ heap' = [cursor |-> heap'.cursor, ahead |-> heap'.ahead]
    BY <1>2, <2>1
  <2>5. Kept(heap.cursor)'
    BY <1>1, <2>4 DEF TInv, Kept, built
  <2>6. cursor' = cursor /\ level' = level
    BY <1>1, <1>2, <2>1, <2>4 DEF cursor, level
  <2>7. Carried' /\ Counted'
    BY <1>1, <1>2, <2>6 DEF TInv, Carried, Counted, built
  <2> QED BY <1>1, <2>1, <2>2, <2>3, <2>4, <2>5, <2>7 DEF TInv, built
<1>4. CASE heap.ahead = None
  <2> DEFINE r == [cursor |-> heap.cursor, i |-> 0, v |-> None, spent |-> FALSE, take |-> take]
  <2>1. pull' = r /\ UNCHANGED <<heap, out>>
    BY <1>4 DEF Ask
  <2>2. heap.cursor \in Cursor /\ Len(stages) \in Nat
    BY PipelineIs DEF TInv, Kept
  <2>3. r \in Pull
    BY <2>2 DEF Pull
  <2>4. r # None
    BY <2>3, PipelineAssumption
  <2>5. r.cursor = heap.cursor /\ r.i = 0 /\ r.v = None
    OBVIOUS
  <2> HIDE DEF r
  <2>6. Elements' = Elements /\ Kept(heap.cursor)' /\ Kept(pull.cursor)'
    BY <1>1, <2>1, <2>5 DEF TInv, Kept, built, Elements
  <2>7. cursor' = cursor /\ level' = level
    BY <1>2, <2>1, <2>4, <2>5 DEF cursor, level
  <2>8. Carried' /\ Counted'
    BY <1>1, <1>2, <2>7 DEF TInv, Carried, Counted, built
  <2>9. None # Undef
    BY PipelineAssumption
  <2> QED BY <1>1, <1>4, <2>1, <2>2, <2>3, <2>5, <2>6, <2>8, <2>9 DEF TInv, built
<1> QED BY <1>3, <1>4

LEMMA TypesSource ==
  ASSUME TInv, pull_source
  PROVE  TInv'
<1> DEFINE n == pull.cursor.at + 1
           asks == ~pull.cursor.finished /\ ~(StepRuns(n) /\ pending)
<1>0. PICK throws \in BOOLEAN :
        /\ throws => asks
        /\ pending' = (pending \/ throws)
        /\ asked' = IF asks THEN asked + 1 ELSE asked
        /\ IF asks /\ n <= length /\ ~throws
           THEN /\ pull' = [cursor |-> [pull.cursor EXCEPT !.at = n], i |-> 1, v |-> n, spent |-> FALSE, take |-> pull.take]
                /\ UNCHANGED <<heap, out>>
           ELSE finish
  BY DEF pull_source
<1>1. /\ pull # None /\ pull.i = 0 /\ UNCHANGED <<built, said>> /\ pending' = (pending \/ throws)
      /\ asked' = IF asks THEN asked + 1 ELSE asked
      /\ asks /\ n <= length /\ ~throws =>
           /\ pull' = [cursor |-> [pull.cursor EXCEPT !.at = n], i |-> 1, v |-> n, spent |-> FALSE, take |-> pull.take]
           /\ UNCHANGED <<heap, out>>
      /\ ~(asks /\ n <= length /\ ~throws) => finish
  BY <1>0 DEF pull_source
<1>2. /\ pull \in Pull /\ Kept(pull.cursor) /\ pull.cursor.at \in Nat /\ pull.cursor.at <= length
      /\ asked = pull.cursor.at \/ (pull.cursor.finished /\ asked = pull.cursor.at + 1 /\ (pull.cursor.at = length \/ pending))
  BY <1>1, Under
<1>3. length \in Nat /\ asked \in Nat /\ pending \in BOOLEAN /\ said \in [1..Len(stages) -> Seq(Call)] /\ Len(stages) \in Nat
  BY LengthIs, PipelineIs DEF TInv
<1>4. CASE asks /\ n <= length /\ ~throws
  <2> DEFINE r == [cursor |-> [pull.cursor EXCEPT !.at = n], i |-> 1, v |-> n, spent |-> FALSE, take |-> pull.take]
             c == [pull.cursor EXCEPT !.at = n]
  <2>1. pull.cursor \in Cursor /\ n \in Nat
    BY <1>2 DEF Kept
  <2>2. c \in Cursor /\ c.at = n /\ c.stages = pull.cursor.stages /\ c.finished = pull.cursor.finished
    BY <2>1 DEF Cursor
  <2>3. Kept(c)
    BY <1>2, <2>2 DEF Kept
  <2> HIDE DEF n
  <2>4. r.cursor = c /\ r.i = 1 /\ r.v = n
    OBVIOUS
  <2>5. r \in Pull
    <3> HIDE DEF c
    <3>1. pull.take \in BOOLEAN
      BY <1>1, Under
    <3> QED BY <2>1, <2>2, <3>1 DEF Pull, c
  <2> HIDE DEF c, r
  <2>6. pull' = r /\ UNCHANGED <<heap, out>>
    BY <1>1, <1>4 DEF r
  <2>7. n \in Elements /\ n # Undef
    BY <1>2, <1>3, <1>4, <2>1, PipelineAssumption DEF Elements, n
  <2>8. asked' = n /\ n > 0
    BY <1>1, <1>2, <1>3, <1>4 DEF n
  <2>9. r.i \in 0..(Len(stages) + 1)
    BY <1>3, <2>4
  <2>10. ~r.cursor.finished
    BY <1>4, <2>2, <2>4
  <2>11. r.v = Undef => pending'
    BY <2>4, <2>7
  <2> QED BY <1>1, <1>3, <1>4, <2>1, <2>2, <2>3, <2>4, <2>5, <2>6, <2>7, <2>8, <2>9, <2>10, <2>11, TypesGoOn
<1>5. CASE ~(asks /\ n <= length /\ ~throws)
  <2>1. asked' = asked \/ (pull.i = 0 /\ asked' = asked + 1 /\ ~pull.cursor.finished /\ (pull.cursor.at = length \/ pending'))
    BY <1>1, <1>2, <1>3, <1>5
  <2> QED BY <1>1, <1>3, <1>5, <2>1, TypesFinish
<1> QED BY <1>4, <1>5

(* ---- the stages -------------------------------------------------------------------------------- *)

\* The call of next() goes on with q at stage `to` (0: with another element).
Goes(q, to) ==
  /\ pull' \in Pull /\ pull'.i = to /\ pull'.cursor = q.cursor /\ pull'.v = q.v /\ pull'.spent = q.spent
  /\ UNCHANGED <<heap, out>>

LEMMA PassGoes ==
  ASSUME NEW q \in Pull, Pass(q)
  PROVE  Goes(q, q.i + 1)
BY DEF Pass, Goes, Pull

LEMMA SkipGoes ==
  ASSUME NEW q \in Pull, Skip(q)
  PROVE  Goes(q, 0)
BY DEF Skip, Goes, Pull

\* q is the call of next() that runs, but for what it keeps in the cursor for its stage,
\* for the element and for spent.
Held(q) ==
  /\ q \in Pull /\ Kept(q.cursor) /\ q.i = pull.i
  /\ q.cursor.at = pull.cursor.at /\ q.cursor.finished = pull.cursor.finished
  /\ \A j \in 1..Len(stages) : j # pull.i => q.cursor.stages[j] = pull.cursor.stages[j]

LEMMA HeldBudget ==
  ASSUME TInv, pull # None, pull.i \in 1..Len(stages), NEW m \in Nat,
         NEW q, q = Budgeted(pull, pull.i, m)
  PROVE  Held(q) /\ q.v = pull.v /\ q.spent = pull.spent /\ q.cursor.stages[pull.i].n = m
<1>1. pull \in Pull /\ Kept(pull.cursor)
  BY Under
<1>2. Len(pull.cursor.stages) = Len(stages) /\ pull.i \in 1..Len(pull.cursor.stages)
  BY <1>1 DEF Kept
<1>3. BudgetSet(pull, pull.i, m, q)
  BY <1>1, <1>2, SetBudget
<1>4. Kept(q.cursor)
  BY <1>1, <1>2, <1>3 DEF Kept, Pull, BudgetSet
<1> QED BY <1>2, <1>3, <1>4 DEF Held, BudgetSet

LEMMA HeldItself ==
  ASSUME TInv, pull # None
  PROVE  Held(pull)
BY Under DEF Held

LEMMA AtIs ==
  ASSUME TInv, NEW kinds, At(kinds)
  PROVE  /\ pull # None /\ pull.i \in 1..Len(stages) /\ pull.i > 0 /\ stages[pull.i].k \in kinds
         /\ stages[pull.i] \in Stage /\ Budget \in Nat /\ Budget = pull.cursor.stages[pull.i].n
         /\ stages[pull.i].k \in Lambdas => stages[pull.i].n = 0
<1>1. pull # None /\ pull.i \in DOMAIN stages /\ stages[pull.i].k \in kinds
  BY DEF At
<1>2. /\ Len(stages) \in Nat /\ DOMAIN stages = 1..Len(stages)
      /\ \A i \in 1..Len(stages) : stages[i] \in Stage /\ (stages[i].k \in Lambdas => stages[i].n = 0)
  BY PipelineIs DEF TInv
<1>3. Kept(pull.cursor)
  BY <1>1, Under
<1>4. Budget \in Nat
  BY <1>1, <1>2, <1>3, Cursors DEF Budget, TInv
<1> QED BY <1>1, <1>2, <1>4 DEF Budget

LEMMA TypesGoes ==
  ASSUME TInv, pull # None, pull.i \in 1..Len(stages), NEW q, Held(q), NEW to \in 0..(Len(stages) + 1),
         Goes(q, to), UNCHANGED <<built, asked>>, q.v = pull.v \/ (q.v = Undef /\ pending'),
         pending' \in BOOLEAN, pending => pending', said' \in [1..Len(stages) -> Seq(Call)]
  PROVE  TInv'
<1>1. pull' \in Pull /\ pull'.i = to /\ pull'.cursor = q.cursor /\ pull'.v = q.v /\ UNCHANGED <<heap, out>>
  BY DEF Goes
<1>2. Kept(pull'.cursor) /\ q.cursor.at = pull.cursor.at /\ q.cursor.finished = pull.cursor.finished
  BY <1>1 DEF Held
<1>3. pull.i > 0 /\ asked \in Nat
  BY PipelineIs DEF TInv
<1>4. /\ pull.v \in Elements \cup {None, Undef} /\ (pull.v = Undef => pending)
      /\ pull.cursor.at \in Nat /\ pull.cursor.at <= length /\ pull.cursor.at > 0 /\ ~pull.cursor.finished
      /\ asked = pull.cursor.at /\ (pull.v = pull.cursor.at \/ pull.v = Undef)
  BY <1>3, Under
<1>5. pull'.v \in Elements \cup {None, Undef} /\ (pull'.v = Undef => pending') /\ (pull'.v = pull'.cursor.at \/ pull'.v = Undef)
  BY <1>1, <1>2, <1>4
<1> DEFINE r == pull'
<1>6. /\ r \in Pull /\ pull' = r /\ Kept(r.cursor) /\ r.i \in 0..(Len(stages) + 1)
      /\ r.v \in Elements \cup {None, Undef} /\ (r.v = Undef => pending')
      /\ r.cursor.at <= length /\ asked' = r.cursor.at /\ r.cursor.at > 0 /\ ~r.cursor.finished
      /\ (r.v = r.cursor.at \/ r.v = Undef) /\ asked' \in Nat
      /\ UNCHANGED <<built, heap, out>>
  BY <1>1, <1>2, <1>3, <1>4, <1>5
<1> HIDE DEF r
<1> QED BY <1>6, TypesGoOn

\* What a take does: it finishes the traversal, or the element passes.
LEMMA TakeIs ==
  ASSUME TInv, Take
  PROVE  /\ At({"take"}) /\ UNCHANGED <<built, pending, asked, said>>
         /\ \/ Budget = 0 /\ finish
            \/ Budget > 0 /\ \E q : /\ Held(q) /\ q.v = pull.v /\ q.cursor.stages[pull.i].n = Budget - 1
                                    /\ q.spent = (pull.spent \/ Budget = 1)
                                    /\ Goes(q, pull.i + 1)
<1>1. At({"take"}) /\ UNCHANGED <<built, pending, asked, said>>
  BY DEF Take
<1>2. pull # None /\ pull.i \in 1..Len(stages) /\ Budget \in Nat
  BY <1>1, AtIs
<1>3. CASE Budget <= 0
  BY <1>1, <1>2, <1>3 DEF Take
<1>4. CASE ~(Budget <= 0)
  <2> DEFINE s == Spend
             q == [s EXCEPT !.spent = @ \/ Budget = 1]
  <2>1. Held(s) /\ s.v = pull.v /\ s.spent = pull.spent /\ s.cursor.stages[pull.i].n = Budget - 1
    <3>1. Budget - 1 \in Nat
      BY <1>2, <1>4
    <3> QED BY <3>1, <1>2, HeldBudget DEF Spend, Budgeted
  <2> HIDE DEF s
  <2>2. s \in Pull /\ s.spent \in BOOLEAN
    BY <2>1 DEF Held, Pull
  <2>3. q \in Pull /\ q.cursor = s.cursor /\ q.i = s.i /\ q.v = s.v /\ q.spent = (s.spent \/ Budget = 1)
    BY <2>2 DEF Pull
  <2>4. Pass(q)
    BY <1>4 DEF Take, s
  <2> HIDE DEF q
  <2>5. Held(q)
    BY <2>1, <2>3 DEF Held
  <2>6. Goes(q, q.i + 1) /\ q.i = pull.i
    BY <2>3, <2>4, <2>5, PassGoes DEF Held
  <2>7. Held(q) /\ q.v = pull.v /\ q.cursor.stages[pull.i].n = Budget - 1 /\ q.spent = (pull.spent \/ Budget = 1) /\ Goes(q, pull.i + 1)
    BY <2>1, <2>3, <2>5, <2>6
  <2> QED BY <1>1, <1>2, <1>4, <2>7
<1> QED BY <1>3, <1>4

LEMMA DropIs ==
  ASSUME TInv, Drop
  PROVE  /\ At({"drop"}) /\ UNCHANGED <<built, pending, asked, said>>
         /\ \/ Budget = 0 /\ Goes(pull, pull.i + 1)
            \/ Budget > 0 /\ \E q : /\ Held(q) /\ q.v = pull.v /\ q.cursor.stages[pull.i].n = Budget - 1
                                    /\ q.spent = pull.spent
                                    /\ Goes(q, 0)
<1>1. At({"drop"}) /\ UNCHANGED <<built, pending, asked, said>>
  BY DEF Drop
<1>2. pull # None /\ pull.i \in 1..Len(stages) /\ Budget \in Nat /\ pull \in Pull
  BY <1>1, AtIs, Under
<1>3. CASE ~(Budget > 0)
  BY <1>1, <1>2, <1>3, PassGoes DEF Drop
<1>4. CASE Budget > 0
  <2> DEFINE q == Spend
  <2>1. Held(q) /\ q.v = pull.v /\ q.spent = pull.spent /\ q.cursor.stages[pull.i].n = Budget - 1
    <3>1. Budget - 1 \in Nat
      BY <1>2, <1>4
    <3> QED BY <3>1, <1>2, HeldBudget DEF Spend, Budgeted
  <2>2. Skip(q)
    BY <1>4 DEF Drop
  <2> HIDE DEF q
  <2>3. Goes(q, 0)
    BY <2>1, <2>2, SkipGoes DEF Held
  <2> QED BY <1>1, <1>4, <2>1, <2>3
<1> QED BY <1>3, <1>4

\* What a lambda's answer does at a stage that has not stopped dropping.
Judged(truthy) ==
  LET k == stages[pull.i].k IN
    \/ k = "map" /\ \E q : /\ Held(q) /\ q.cursor = pull.cursor /\ q.spent = pull.spent
                           /\ q.v = IF pending' THEN Undef ELSE pull.v
                           /\ Goes(q, pull.i + 1)
    \/ k = "filter" /\ (IF truthy THEN Goes(pull, pull.i + 1) ELSE Goes(pull, 0))
    \/ k = "filterNot" /\ (IF truthy THEN Goes(pull, 0) ELSE Goes(pull, pull.i + 1))
    \/ k = "takeWhile" /\ (IF truthy THEN Goes(pull, pull.i + 1) ELSE finish)
    \/ k = "dropWhile" /\ truthy /\ Goes(pull, 0)
    \/ k = "dropWhile" /\ ~truthy /\ \E q : /\ Held(q) /\ q.v = pull.v /\ q.spent = pull.spent
                                            /\ q.cursor.stages[pull.i].n = 1
                                            /\ Goes(q, pull.i + 1)

\* The lambda of the stage is called on the element, or not.
Asks == ~Done /\ ~pending
Heard(truthy) ==
  said' = IF Asks THEN [said EXCEPT ![pull.i] = Append(@, [x |-> pull.v, yes |-> truthy])] ELSE said

LEMMA LambdaIs ==
  ASSUME TInv, CallLambda
  PROVE  /\ At(Lambdas) /\ UNCHANGED <<built, asked>>
         /\ \E truthy \in BOOLEAN :
              /\ truthy => Asks /\ pending' = pending
              /\ stages[pull.i].k = "map" => ~truthy
              /\ pending' \in BOOLEAN /\ (pending => pending') /\ (~Asks => pending' = pending)
              /\ Heard(truthy)
              /\ IF Done THEN Goes(pull, pull.i + 1) ELSE Judged(truthy)
<1>1. At(Lambdas) /\ UNCHANGED <<built, asked>>
  BY DEF CallLambda
<1>2. /\ pull # None /\ pull.i \in 1..Len(stages) /\ pull.i > 0 /\ stages[pull.i].k \in Lambdas
      /\ pull \in Pull /\ Held(pull) /\ pending \in BOOLEAN
  BY <1>1, AtIs, Under, HeldItself DEF TInv
<1>3. PICK truthy \in BOOLEAN, throws \in BOOLEAN :
        /\ throws => ~truthy
        /\ ~Asks => ~truthy /\ ~throws
        /\ stages[pull.i].k = "map" => ~truthy
        /\ pending' = (pending \/ throws)
        /\ said' = IF Asks THEN [said EXCEPT ![pull.i] = Append(@, [x |-> pull.v, yes |-> truthy])] ELSE said
        /\ IF Done THEN Pass(pull) ELSE Judge(truthy)
  BY DEF CallLambda, Asks
<1>4. /\ truthy => Asks /\ pending' = pending
      /\ pending' \in BOOLEAN /\ (pending => pending') /\ (~Asks => pending' = pending)
      /\ Heard(truthy)
  BY <1>2, <1>3 DEF Heard
<1>5. ASSUME Done PROVE Goes(pull, pull.i + 1)
  BY <1>2, <1>3, <1>5, PassGoes
<1>6. ASSUME ~Done PROVE Judged(truthy)
  <2>0. Judge(truthy)
    BY <1>3, <1>6
  <2>1. Pass(pull) => Goes(pull, pull.i + 1)
    BY <1>2, PassGoes
  <2>2. Skip(pull) => Goes(pull, 0)
    BY <1>2, SkipGoes
  <2>3. CASE stages[pull.i].k = "map"
    <3> DEFINE q == IF pending' THEN [pull EXCEPT !.v = Undef] ELSE pull
    <3>1. Pass(q)
      BY <2>0, <2>3 DEF Judge
    <3>2. q \in Pull /\ q.cursor = pull.cursor /\ q.i = pull.i /\ q.spent = pull.spent /\ q.v = IF pending' THEN Undef ELSE pull.v
      BY <1>2 DEF Pull
    <3> HIDE DEF q
    <3>3. Held(q)
      BY <1>2, <3>2 DEF Held
    <3>4. Goes(q, pull.i + 1)
      BY <3>1, <3>2, PassGoes
    <3> QED BY <2>3, <3>2, <3>3, <3>4 DEF Judged
  <2>4. CASE stages[pull.i].k = "filter"
    <3>1. IF truthy THEN Pass(pull) ELSE Skip(pull)
      BY <2>0, <2>4 DEF Judge
    <3> QED BY <3>1, <2>1, <2>2, <2>4 DEF Judged
  <2>5. CASE stages[pull.i].k = "filterNot"
    <3>1. IF truthy THEN Skip(pull) ELSE Pass(pull)
      BY <2>0, <2>5 DEF Judge
    <3> QED BY <3>1, <2>1, <2>2, <2>5 DEF Judged
  <2>6. CASE stages[pull.i].k = "takeWhile"
    <3>1. IF truthy THEN Pass(pull) ELSE finish
      BY <2>0, <2>6 DEF Judge
    <3> QED BY <3>1, <2>1, <2>6 DEF Judged
  <2>7. CASE stages[pull.i].k = "dropWhile"
    <3> DEFINE q == Budgeted(pull, pull.i, 1)
    <3>1. IF truthy THEN Skip(pull) ELSE Pass(q)
      BY <2>0, <2>7 DEF Judge, Budgeted
    <3>2. Held(q) /\ q.v = pull.v /\ q.spent = pull.spent /\ q.cursor.stages[pull.i].n = 1
      BY <1>2, HeldBudget
    <3> HIDE DEF q
    <3>3. q \in Pull /\ q.i = pull.i
      BY <3>2 DEF Held
    <3>4. Pass(q) => Goes(q, pull.i + 1)
      BY <3>3, PassGoes
    <3> QED BY <2>2, <2>7, <3>1, <3>2, <3>4 DEF Judged
  <2> QED BY <1>2, <2>3, <2>4, <2>5, <2>6, <2>7 DEF Lambdas
<1> QED BY <1>1, <1>3, <1>4, <1>5, <1>6

LEMMA HeardTypes ==
  ASSUME TInv, At(Lambdas), NEW truthy \in BOOLEAN, Heard(truthy)
  PROVE  /\ said' \in [1..Len(stages) -> Seq(Call)]
         /\ Asks => pull.v = pull.cursor.at /\ pull.v \in Nat
<1>1. pull # None /\ pull.i \in 1..Len(stages) /\ pull.i > 0 /\ said \in [1..Len(stages) -> Seq(Call)]
  BY AtIs DEF TInv
<1>2. ASSUME Asks PROVE pull.v = pull.cursor.at /\ pull.v \in Nat
  BY <1>1, <1>2, Under DEF Asks
<1>3. CASE Asks
  <2>1. [x |-> pull.v, yes |-> truthy] \in Call
    BY <1>2, <1>3 DEF Call
  <2>2. Append(said[pull.i], [x |-> pull.v, yes |-> truthy]) \in Seq(Call)
    BY <1>1, <2>1, AppendProperties
  <2>3. said' = [said EXCEPT ![pull.i] = Append(said[pull.i], [x |-> pull.v, yes |-> truthy])]
    BY <1>3 DEF Heard
  <2> QED BY <1>1, <1>2, <1>3, <2>2, <2>3
<1>4. CASE ~Asks
  BY <1>1, <1>4 DEF Heard
<1> QED BY <1>3, <1>4

LEMMA TypesLambda ==
  ASSUME TInv, CallLambda
  PROVE  TInv'
<1>1. At(Lambdas) /\ UNCHANGED <<built, asked>>
  BY LambdaIs
<1>2. PICK truthy \in BOOLEAN :
        /\ pending' \in BOOLEAN /\ (pending => pending')
        /\ Heard(truthy)
        /\ IF Done THEN Goes(pull, pull.i + 1) ELSE Judged(truthy)
  BY LambdaIs
<1>3. pull # None /\ pull.i \in 1..Len(stages) /\ pull.i + 1 \in 0..(Len(stages) + 1) /\ 0 \in 0..(Len(stages) + 1) /\ Held(pull)
  BY <1>1, AtIs, HeldItself, PipelineIs DEF TInv
<1>4. said' \in [1..Len(stages) -> Seq(Call)]
  BY <1>1, <1>2, HeardTypes
<1>5. ASSUME NEW q, Held(q), q.v = pull.v \/ (q.v = Undef /\ pending'), NEW to \in {0, pull.i + 1}, Goes(q, to) PROVE TInv'
  BY <1>1, <1>2, <1>3, <1>4, <1>5, TypesGoes
<1>6. CASE finish
  <2>1. UNCHANGED built /\ asked' = asked
    BY <1>1
  <2> QED BY <1>2, <1>3, <1>4, <1>6, <2>1, TypesFinish
<1>7. CASE Done
  BY <1>2, <1>3, <1>5, <1>7
<1>8. CASE ~Done
  <2>1. Judged(truthy)
    BY <1>2, <1>8
  <2>2. CASE \E q : Held(q) /\ (q.v = pull.v \/ (q.v = Undef /\ pending')) /\ Goes(q, pull.i + 1)
    BY <1>5, <2>2
  <2>3. CASE Goes(pull, pull.i + 1) \/ Goes(pull, 0)
    BY <1>3, <1>5, <2>3
  <2> QED BY <1>6, <2>1, <2>2, <2>3 DEF Judged
<1> QED BY <1>7, <1>8

LEMMA TypesDeliver ==
  ASSUME TInv, Deliver
  PROVE  TInv'
<1> DEFINE c == [pull.cursor EXCEPT !.finished = @ \/ pull.spent]
<1>1. pull # None /\ pull.i > Len(stages) /\ UNCHANGED <<built, pending, asked, said>> /\ Answer(c, pull.v)
  BY DEF Deliver
<1>2. Len(stages) \in Nat /\ pull.i > 0
  BY <1>1, PipelineIs, Under DEF TInv
<1>3. pull.spent \in BOOLEAN /\ pull.cursor.finished \in BOOLEAN /\ Kept(pull.cursor)
  BY <1>1, Under
<1>4. c = [pull.cursor EXCEPT !.finished = (pull.cursor.finished \/ pull.spent)] /\ (pull.cursor.finished \/ pull.spent) \in BOOLEAN
  BY <1>3 DEF Kept, Cursor
<1> HIDE DEF c
<1>5. Kept(c) /\ c.at = pull.cursor.at
  BY <1>3, <1>4, Cursors DEF TInv
<1>6. /\ asked' \in Nat /\ asked' = c.at /\ c.at <= length
      /\ pending' \in BOOLEAN /\ (pending => pending') /\ said' \in [1..Len(stages) -> Seq(Call)]
      /\ pull.v \in Elements \cup {None, Undef} /\ (pull.v = Undef => pending')
  BY <1>1, <1>2, <1>5, Under DEF TInv
<1>7. UNCHANGED built
  BY <1>1
<1> QED BY <1>1, <1>5, <1>6, <1>7, TypesAnswer

LEMMA TypesStep == TInv /\ [Next]_vars => TInv'
<1> SUFFICES ASSUME TInv, [Next]_vars PROVE TInv'
  OBVIOUS
<1>1. CASE HasNext
  BY <1>1, TypesAsk DEF HasNext
<1>2. CASE NextElement
  BY <1>2, TypesAsk DEF NextElement
<1>3. CASE pull_source
  BY <1>3, TypesSource
<1>4. CASE Take
  <2>1. At({"take"}) /\ UNCHANGED <<built, pending, asked, said>>
    BY <1>4, TakeIs
  <2>2. pull # None /\ pull.i \in 1..Len(stages) /\ pull.i + 1 \in 0..(Len(stages) + 1)
    BY <2>1, AtIs, PipelineIs DEF TInv
  <2>3. pending \in BOOLEAN /\ said \in [1..Len(stages) -> Seq(Call)]
    BY DEF TInv
  <2>4. finish \/ \E q : Held(q) /\ q.v = pull.v /\ Goes(q, pull.i + 1)
    BY <1>4, TakeIs
  <2>5. CASE finish
    BY <2>1, <2>2, <2>3, <2>5, TypesFinish
  <2>6. ASSUME NEW q, Held(q), q.v = pull.v, Goes(q, pull.i + 1) PROVE TInv'
    BY <2>1, <2>2, <2>3, <2>6, TypesGoes
  <2> QED BY <2>4, <2>5, <2>6
<1>5. CASE Drop
  <2>1. At({"drop"}) /\ UNCHANGED <<built, pending, asked, said>>
    BY <1>5, DropIs
  <2>2. pull # None /\ pull.i \in 1..Len(stages) /\ pull.i + 1 \in 0..(Len(stages) + 1) /\ 0 \in 0..(Len(stages) + 1)
    BY <2>1, AtIs, PipelineIs DEF TInv
  <2>3. pending \in BOOLEAN /\ said \in [1..Len(stages) -> Seq(Call)] /\ Held(pull)
    BY <2>2, HeldItself DEF TInv
  <2>4. Goes(pull, pull.i + 1) \/ \E q : Held(q) /\ q.v = pull.v /\ Goes(q, 0)
    BY <1>5, DropIs
  <2>5. ASSUME NEW q, Held(q), q.v = pull.v, NEW to \in {0, pull.i + 1}, Goes(q, to) PROVE TInv'
    BY <2>1, <2>2, <2>3, <2>5, TypesGoes
  <2> QED BY <2>3, <2>4, <2>5
<1>6. CASE CallLambda
  BY <1>6, TypesLambda
<1>7. CASE Deliver
  BY <1>7, TypesDeliver
<1>8. CASE UNCHANGED vars
  <2>1. Kept(heap.cursor)' = Kept(heap.cursor) /\ Kept(pull.cursor)' = Kept(pull.cursor) /\ Elements' = Elements
    BY <1>8 DEF vars, Kept, Elements
  <2>2. Carried' = Carried /\ Counted' = Counted
    BY <1>8 DEF vars, Carried, Counted, cursor, level
  <2> QED BY <1>8, <2>1, <2>2 DEF vars, TInv
<1>9. CASE Failed
  BY <1>8, <1>9 DEF Failed
<1> QED BY <1>1, <1>2, <1>3, <1>4, <1>5, <1>6, <1>7, <1>8, <1>9 DEF Next

LEMMA TypesImplied == TInv => TypeOK
<1> SUFFICES ASSUME TInv PROVE TypeOK
  OBVIOUS
<1>1. /\ heap.cursor \in Cursor
      /\ heap.ahead \in Elements \cup {None} \cup (IF pending THEN {Undef} ELSE {})
      /\ out \in Seq(Elements)
  BY DEF TInv, Kept
<1>2. ASSUME pull # None
      PROVE  /\ pull.cursor \in Cursor /\ pull.i \in 0..(Len(stages) + 1)
             /\ pull.v \in Elements \cup {None, Undef}
             /\ pull.v = Undef => pending
  BY <1>2, Under DEF Kept
<1>3. ASSUME NEW c, Kept(c)
      PROVE  [i \in DOMAIN c.stages |-> c.stages[i].k] = [i \in DOMAIN stages |-> stages[i].k]
  <2>1. DOMAIN c.stages = 1..Len(stages) /\ DOMAIN stages = 1..Len(stages)
    BY <1>3, Cursors, PipelineIs DEF TInv
  <2> QED BY <1>3, <2>1 DEF Kept
<1>4. \A c \in {heap.cursor} \cup (IF pull = None THEN {} ELSE {pull.cursor}) : Kept(c)
  BY DEF TInv
<1>5. \A c \in {heap.cursor} \cup (IF pull = None THEN {} ELSE {pull.cursor}) :
        [i \in DOMAIN c.stages |-> c.stages[i].k] = [i \in DOMAIN stages |-> stages[i].k]
  BY <1>3, <1>4
<1> QED BY <1>1, <1>2, <1>5 DEF TypeOK

\* The cursor keeps the stages of the pipeline and changes only their budgets; the iterator
\* parks an element of the source or nothing, but for what a lambda that threw answered
\* (gen_iter_step, host.rs:10424).
THEOREM TypeCorrect == Spec => []TypeOK
<1>1. Spec => []TInv
  BY TypesInit, TypesStep, PTL DEF Spec
<1> QED BY <1>1, TypesImplied, PTL

(* ---- what the stages keep ---------------------------------------------------------------------- *)

LEMMA LeftTake ==
  ASSUME NEW stage \in Stage, stage.k = "take", NEW S, NEW U, NEW T \in SUBSET Nat, NEW s \in Seq(T), NEW x \in T,
         NEW m \in Nat, Left(stage, S, s, m)
  PROVE  /\ m = 0 => /\ ~Lets(stage, U, s, x) /\ Left(stage, U, Append(s, x), m)
                     /\ Len(Append(s, x)) >= stage.n
         /\ m > 0 => /\ Lets(stage, U, s, x) /\ Left(stage, U, Append(s, x), m - 1)
                     /\ (Len(Append(s, x)) >= stage.n <=> m = 1)
<1>1. Len(Append(s, x)) = Len(s) + 1 /\ Len(s) \in Nat
  BY AppendIs
<1>2. stage.n \in Nat
  BY Kinds
<1>3. m = IF Len(s) < stage.n THEN stage.n - Len(s) ELSE 0
  BY DEF Left, Budgets
<1>4. Lets(stage, U, s, x) <=> Len(s) < stage.n
  BY DEF Lets
<1>5. ASSUME NEW k \in Nat
      PROVE  Left(stage, U, Append(s, x), k) <=> k = IF Len(s) + 1 < stage.n THEN stage.n - (Len(s) + 1) ELSE 0
  BY <1>1 DEF Left, Budgets
<1> QED BY <1>1, <1>2, <1>3, <1>4, <1>5

LEMMA LeftDrop ==
  ASSUME NEW stage \in Stage, stage.k = "drop", NEW S, NEW U, NEW T \in SUBSET Nat, NEW s \in Seq(T), NEW x \in T,
         NEW m \in Nat, Left(stage, S, s, m)
  PROVE  /\ m = 0 => Lets(stage, U, s, x) /\ Left(stage, U, Append(s, x), m)
         /\ m > 0 => ~Lets(stage, U, s, x) /\ Left(stage, U, Append(s, x), m - 1)
<1>1. Len(Append(s, x)) = Len(s) + 1 /\ Len(s) \in Nat
  BY AppendIs
<1>2. stage.n \in Nat
  BY Kinds
<1>3. m = IF Len(s) < stage.n THEN stage.n - Len(s) ELSE 0
  BY DEF Left, Budgets
<1>4. Lets(stage, U, s, x) <=> Len(s) >= stage.n
  BY DEF Lets
<1>5. ASSUME NEW k \in Nat
      PROVE  Left(stage, U, Append(s, x), k) <=> k = IF Len(s) + 1 < stage.n THEN stage.n - (Len(s) + 1) ELSE 0
  BY <1>1 DEF Left, Budgets
<1> QED BY <1>1, <1>2, <1>3, <1>4, <1>5

\* A dropWhile that dealt with s gets x: the answer decides, until it has been false.
Decides(stage, S, U, s, x, m) ==
  /\ m = 1 => Lets(stage, U, s, x) /\ Left(stage, U, Append(s, x), m) /\ Leading(S, s) < Len(s)
  /\ m # 1 /\ x \in U => ~Lets(stage, U, s, x) /\ Left(stage, U, Append(s, x), m)
  /\ m # 1 /\ x \notin U => Lets(stage, U, s, x) /\ Left(stage, U, Append(s, x), 1)
  /\ m # 1 => Leading(S, s) = Len(s)

LEMMA LeftDropWhile ==
  ASSUME NEW stage \in Stage, stage.k = "dropWhile", NEW S, NEW U, NEW T \in SUBSET Nat, NEW s \in Seq(T), NEW x \in T,
         NEW m \in Nat, Left(stage, S, s, m), Agree(S, U, s)
  PROVE  Decides(stage, S, U, s, x, m)
<1>1. Len(Append(s, x)) = Len(s) + 1 /\ Len(s) \in Nat
  BY AppendIs
<1>2. Leading(U, s) = Leading(S, s) /\ Leading(S, s) \in 0..Len(s)
  BY LeadingSame, LeadingIs
<1>3. Leading(U, Append(s, x)) = IF Leading(U, s) = Len(s) /\ x \in U THEN Len(s) + 1 ELSE Leading(U, s)
  BY LeadingAppend
<1>4. m = 1 <=> Leading(S, s) < Len(s)
  BY DEF Left
<1>5. Lets(stage, U, s, x) <=> ~(Leading(U, s) = Len(s) /\ x \in U)
  BY DEF Lets
<1>6. ASSUME NEW k \in Nat
      PROVE  Left(stage, U, Append(s, x), k) <=> (k = 1 <=> Leading(U, Append(s, x)) < Len(s) + 1)
  BY <1>1 DEF Left, Budgets
<1>7. CASE m = 1
  <2>1. Leading(U, Append(s, x)) < Len(s) + 1 /\ ~(Leading(U, s) = Len(s))
    BY <1>1, <1>2, <1>3, <1>4, <1>7
  <2> QED BY <2>1, <1>4, <1>5, <1>6, <1>7 DEF Decides
<1>8. CASE m # 1
  <2>1. Leading(S, s) = Len(s) /\ Leading(U, s) = Len(s)
    BY <1>1, <1>2, <1>4, <1>8
  <2>2. Leading(U, Append(s, x)) = IF x \in U THEN Len(s) + 1 ELSE Len(s)
    BY <2>1, <1>3
  <2>3. x \in U => ~(Leading(U, Append(s, x)) < Len(s) + 1)
    BY <2>2, <1>1
  <2>4. x \notin U => Leading(U, Append(s, x)) < Len(s) + 1
    BY <2>2, <1>1
  <2> QED BY <2>1, <2>3, <2>4, <1>5, <1>6, <1>8 DEF Decides
<1> QED BY <1>7, <1>8

\* A takeWhile whose lambda has not answered false.
LEMMA StillTaking ==
  ASSUME NEW stage \in Stage, stage.k = "takeWhile", NEW S, NEW U, NEW T \in SUBSET Nat, NEW s \in Seq(T), NEW x \in T,
         Agree(S, U, s), ~(Leading(S, s) < Len(s))
  PROVE  /\ Leading(S, s) = Len(s)
         /\ Lets(stage, U, s, x) <=> x \in U
         /\ Leading(U, Append(s, x)) < Len(Append(s, x)) <=> x \notin U
<1>1. Len(Append(s, x)) = Len(s) + 1 /\ Len(s) \in Nat
  BY AppendIs
<1>2. Leading(U, s) = Leading(S, s) /\ Leading(S, s) \in 0..Len(s)
  BY LeadingSame, LeadingIs
<1>3. Leading(U, Append(s, x)) = IF Leading(U, s) = Len(s) /\ x \in U THEN Len(s) + 1 ELSE Leading(U, s)
  BY LeadingAppend
<1>4. Leading(S, s) = Len(s)
  BY <1>1, <1>2
<1>5. Lets(stage, U, s, x) <=> Leading(U, s) = Len(s) /\ x \in U
  BY DEF Lets
<1> QED BY <1>1, <1>2, <1>3, <1>4, <1>5

(* ---- answers ----------------------------------------------------------------------------------- *)

AnsweredYes(calls) == {call.x : call \in {c \in Range(calls) : c.yes}}

LEMMA YesIs ==
  ASSUME TInv
  PROVE  \A i \in 1..Len(stages) : Yes[i] = AnsweredYes(said[i])
BY PipelineIs DEF TInv, Yes, AnsweredYes

LEMMA AnsweredAppend ==
  ASSUME NEW calls \in Seq(Call), NEW x \in Nat, NEW yes \in BOOLEAN
  PROVE  /\ AnsweredYes(Append(calls, [x |-> x, yes |-> yes])) =
              IF yes THEN AnsweredYes(calls) \cup {x} ELSE AnsweredYes(calls)
         /\ Arguments(calls) \in Seq(Nat)
         /\ Arguments(Append(calls, [x |-> x, yes |-> yes])) = Append(Arguments(calls), x)
<1> DEFINE c == [x |-> x, yes |-> yes]
           t == Append(calls, c)
<1>1. c \in Call /\ c.x = x /\ c.yes = yes
  BY DEF Call
<1> HIDE DEF c
<1>2. /\ t \in Seq(Call) /\ Len(t) = Len(calls) + 1 /\ Len(calls) \in Nat
      /\ DOMAIN calls = 1..Len(calls) /\ DOMAIN t = 1..(Len(calls) + 1)
      /\ \A i \in 1..Len(calls) : t[i] = calls[i]
      /\ t[Len(calls) + 1] = c
  BY <1>1, AppendIs
<1> HIDE DEF t
<1>3. Range(t) = Range(calls) \cup {c}
  <2>1. \A i \in DOMAIN t : t[i] \in Range(calls) \cup {c}
    BY <1>2 DEF Range
  <2>2. \A i \in DOMAIN calls : calls[i] \in Range(t)
    BY <1>2 DEF Range
  <2>3. c \in Range(t)
    <3>1. Len(calls) + 1 \in DOMAIN t
      BY <1>2
    <3> QED BY <3>1, <1>2 DEF Range
  <2> QED BY <2>1, <2>2, <2>3 DEF Range
<1>4. AnsweredYes(t) = IF yes THEN AnsweredYes(calls) \cup {x} ELSE AnsweredYes(calls)
  <2>1. CASE yes
    <3>1. {d \in Range(t) : d.yes} = {d \in Range(calls) : d.yes} \cup {c}
      BY <1>1, <1>3, <2>1
    <3> QED BY <3>1, <1>1, <2>1 DEF AnsweredYes
  <2>2. CASE ~yes
    <3>1. {d \in Range(t) : d.yes} = {d \in Range(calls) : d.yes}
      BY <1>1, <1>3, <2>2
    <3> QED BY <3>1, <2>2 DEF AnsweredYes
  <2> QED BY <2>1, <2>2
<1>5. \A i \in 1..Len(calls) : calls[i].x \in Nat
  <2>1. \A i \in 1..Len(calls) : calls[i] \in Call
    BY LenProperties
  <2> QED BY <2>1 DEF Call
<1> DEFINE a == Arguments(calls)
           b == Arguments(t)
<1>6. a \in Seq(Nat) /\ Len(a) = Len(calls) /\ \A i \in 1..Len(calls) : a[i] = calls[i].x
  <2>1. a = [i \in 1..Len(calls) |-> calls[i].x]
    BY <1>2 DEF Arguments
  <2> QED BY <2>1, <1>2, <1>5
<1>7. b \in Seq(Nat) /\ Len(b) = Len(calls) + 1 /\ \A i \in 1..Len(calls) + 1 : b[i] = t[i].x
  <2>1. b = [i \in 1..Len(calls) + 1 |-> t[i].x]
    BY <1>2 DEF Arguments
  <2>2. \A i \in 1..Len(calls) + 1 : t[i].x \in Nat
    <3> TAKE i \in 1..Len(calls) + 1
    <3>1. CASE i = Len(calls) + 1
      BY <3>1, <1>1, <1>2
    <3>2. CASE i # Len(calls) + 1
      <4>1. i \in 1..Len(calls)
        BY <3>2, <1>2
      <4> QED BY <4>1, <1>2, <1>5
    <3> QED BY <3>1, <3>2
  <2> QED BY <2>1, <2>2, <1>2
<1> HIDE DEF a, b
<1>8. b = Append(a, x)
  <2> DEFINE d == Append(a, x)
  <2>1. d \in Seq(Nat) /\ Len(d) = Len(a) + 1 /\ (\A i \in 1..Len(a) : d[i] = a[i]) /\ d[Len(a) + 1] = x
    BY <1>6, AppendIs
  <2> HIDE DEF d
  <2>2. \A i \in 1..Len(b) : b[i] = d[i]
    <3> TAKE i \in 1..Len(b)
    <3>1. CASE i = Len(calls) + 1
      BY <3>1, <2>1, <1>1, <1>2, <1>6, <1>7
    <3>2. CASE i # Len(calls) + 1
      <4>1. i \in 1..Len(calls)
        BY <3>2, <1>2, <1>7
      <4> QED BY <4>1, <2>1, <1>2, <1>6, <1>7
    <3> QED BY <3>1, <3>2
  <2>3. Len(b) = Len(d)
    BY <2>1, <1>6, <1>7
  <2>4. b = d
    BY <2>1, <2>2, <2>3, <1>7, SeqEqual
  <2> QED BY <2>4 DEF d
<1> QED BY <1>4, <1>6, <1>8 DEF t, c, a, b

(* ---- the invariant of the flow ----------------------------------------------------------------- *)

IInv == TInv /\ \E g : Moving(g)

LEMMA MovingInit == Init => IInv
<1> SUFFICES ASSUME Init PROVE IInv
  OBVIOUS
<1>1. TInv
  BY TypesInit
<1> DEFINE N == Len(stages)
           e == <<>>
           g == [i \in 1..N + 1 |-> e]
<1>2. /\ stages \in Seq(Stage) /\ N \in Nat /\ DOMAIN stages = 1..N
      /\ \A i \in 1..N : stages[i] \in Stage /\ (stages[i].k \in Lambdas => stages[i].n = 0)
  BY <1>1, PipelineIs DEF TInv
<1>3. /\ pull = None /\ cursor = open(stages) /\ level = 0 /\ ~pending /\ asked = 0 /\ out = e
      /\ heap.ahead = None /\ said = [i \in 1..N |-> e]
  BY <1>2 DEF Init, cursor, level
<1>4. cursor.at = 0 /\ ~cursor.finished /\ cursor.stages = stages
  BY <1>3 DEF open
<1>5. e \in Seq(Nat) /\ Len(e) = 0 /\ \A T : e \in Seq(T)
  BY EmptySeq
<1>6. ASSUME NEW stage \in Stage, NEW S
      PROVE  Leading(S, e) = 0 /\ Through(stage, S, e) = e /\ Called(stage, S, e) = e
  BY ThroughNothing
<1>7. \A i \in 1..N : Yes[i] = {} /\ Arguments(said[i]) = e
  <2>1. \A i \in 1..N : said[i] = e
    BY <1>3
  <2>2. AnsweredYes(e) = {} /\ Arguments(e) = e
    BY DEF AnsweredYes, Range, Arguments
  <2> QED BY <1>1, <2>1, <2>2, YesIs
<1>8. [j \in 1..0 |-> j] = e
  OBVIOUS
<1> HIDE DEF e
<1>9. Flow(stages, Yes, 0, 0, stages, g)
  <2>1. g \in [1..N + 1 -> Seq(Nat)] /\ \A i \in 1..N + 1 : g[i] \in Seq(1..Seen(0, 0, i))
    BY <1>5
  <2>2. \A i \in 1..N + 1 : Reached(g, 0, 0, i) = e
    BY DEF Reached
  <2>3. Reached(g, 0, 0, 1) = [j \in 1..0 |-> j]
    BY <2>2, <1>2, <1>8
  <2>4. ASSUME NEW i \in 1..N
        PROVE  /\ Yes[i] \subseteq 1..Seen(0, 0, i)
               /\ Through(stages[i], Yes[i], g[i]) = Reached(g, 0, 0, i + 1)
               /\ Left(stages[i], Yes[i], g[i], stages[i].n)
    <3>1. i \in 1..N + 1 /\ i + 1 \in 1..N + 1 /\ g[i] = e
      BY <1>2
    <3>2. stages[i].n \in Nat /\ (stages[i].k = "dropWhile" => stages[i].n = 0)
      BY <1>2, Kinds DEF Lambdas
    <3>3. Left(stages[i], Yes[i], e, stages[i].n)
      BY <1>2, <1>5, <1>6, <3>2 DEF Left
    <3> QED BY <1>2, <1>6, <1>7, <2>2, <3>1, <3>3
  <2> QED BY <2>1, <2>3, <2>4 DEF Flow
<1>10. Calls(stages, Yes, said, g)
  BY <1>2, <1>6, <1>7 DEF Calls
<1>11. \A i \in 1..N : ~Stopped(stages, Yes, g, i)
  BY <1>2, <1>5, <1>6 DEF Stopped
<1>12. Finishing(g)
  BY <1>2, <1>3, <1>4, <1>11 DEF Finishing
<1>13. Delivered(g)
  <2>1. out \o <<>> = e
    BY <1>3, <1>5, ConcatEmptySeq
  <2>2. g[N + 1] = e
    BY <1>2
  <2> QED BY <1>3, <2>1, <2>2 DEF Delivered
<1>14. Sparing(g)
  <2>1. ASSUME Passing(stages), NEW i \in DOMAIN stages PROVE ~Full(stages, g, i)
    <3>1. Len(g[i]) = 0 /\ stages[i].n \in Nat
      BY <1>2, <1>5, Kinds
    <3>2. stages[i].k = "take" => stages[i].n > 0
      BY <2>1 DEF Passing
    <3> QED BY <3>1, <3>2 DEF Full
  <2> QED BY <1>3, <2>1 DEF Sparing, AsksNoFurther
<1> HIDE DEF g
<1>15. Moving(g)
  BY <1>3, <1>4, <1>9, <1>10, <1>12, <1>13, <1>14 DEF Moving
<1> QED BY <1>1, <1>15 DEF IInv

\* Asked only for elements that may pass, however the lambdas answer on a later one.
LEMMA AsksSame ==
  ASSUME TInv, UNCHANGED <<built, asked>>,
         \A i \in 1..Len(stages) : Yes'[i] = Yes[i] \/ Yes'[i] = Yes[i] \cup {asked},
         AsksNoFurther
  PROVE  AsksNoFurther'
<1>1. CASE asked = 0
  BY <1>1 DEF AsksNoFurther
<1>2. CASE asked # 0
  <2> DEFINE n == Min({asked - 1, length})
  <2>1. stages \in Seq(Stage) /\ Len(stages) \in Nat /\ DOMAIN stages = 1..Len(stages) /\ length \in Nat /\ asked \in Nat
    BY PipelineIs, LengthIs DEF TInv
  <2>2. n \in Nat /\ n < asked
    <3>1. asked - 1 \in Nat
      BY <1>2, <2>1
    <3>2. n = IF asked - 1 <= length THEN asked - 1 ELSE length
      BY <2>1, <3>1, MinOf
    <3> QED BY <2>1, <3>1, <3>2
  <2>3. \A i \in 1..Len(stages) : \A x \in 1..n : x \in Yes[i] <=> x \in Yes'[i]
    BY <2>1, <2>2
  <2>4. Lists(asked - 1) = Eager(stages, Yes, n)
    BY DEF Lists
  <2>5. Lists(asked - 1)' = Eager(stages, Yes', n)
    BY DEF Lists, built
  <2> HIDE DEF n
  <2> DEFINE Y == Yes
             Y2 == Yes'
  <2>6. EagerAlike(stages, Y, Y2, n)
    <3>1. AlikeTo(stages, Y, Y2, n)
      BY <2>3 DEF AlikeTo
    <3> HIDE DEF Y, Y2
    <3> QED BY <2>1, <2>2, <3>1, EagerSame
  <2>7. ~Ended(asked - 1)
    BY <1>2 DEF AsksNoFurther
  <2>8. \A i \in 1..Len(stages) : i - 1 \in 0..Len(stages)
    BY <2>1
  <2>9. ~Ended(asked - 1)'
    BY <2>1, <2>4, <2>5, <2>6, <2>7, <2>8 DEF Ended, built, EagerAlike
  <2> QED BY <2>9 DEF AsksNoFurther
<1> QED BY <1>1, <1>2

\* A stage has dealt with the element: it passes, is dropped, or ends the traversal.
Outcome(q, lets, h) ==
  LET i == pull.i IN
    \/ lets /\ Goes(q, i + 1) /\ ~Stopped(stages, Yes', h, i) /\ (q.spent <=> pull.spent \/ Full(stages, h, i))
    \/ ~lets /\ Goes(q, 0) /\ stages[i].k \notin {"map", "take", "takeWhile"}
    \/ ~lets /\ finish /\ q = pull /\ (Full(stages, h, i) \/ Stopped(stages, Yes', h, i))

LEMMA GoesTo ==
  ASSUME NEW q, NEW to, Goes(q, to)
  PROVE  /\ level' = to /\ cursor' = q.cursor /\ heap' = heap /\ out' = out
         /\ pull'.spent = q.spent
<1>1. pull' \in Pull /\ pull'.i = to /\ pull'.cursor = q.cursor /\ pull'.spent = q.spent /\ heap' = heap /\ out' = out
  BY DEF Goes
<1>2. pull' # None
  BY <1>1, PipelineAssumption
<1> QED BY <1>1, <1>2 DEF level, cursor

LEMMA FinishTo ==
  ASSUME TInv, pull # None, finish
  PROVE  /\ level' = 0 /\ cursor'.at = pull.cursor.at /\ cursor'.stages = pull.cursor.stages /\ cursor'.finished
         /\ heap'.ahead = None /\ out' = out /\ pull' = None
<1> DEFINE c == [pull.cursor EXCEPT !.finished = TRUE]
<1>1. c.at = pull.cursor.at /\ c.stages = pull.cursor.stages /\ c.finished
  BY Under, Cursors DEF TInv
<1>2. heap' = [cursor |-> c, ahead |-> IF pull.take THEN None ELSE None] /\ pull' = None /\ out' = out
  BY DEF finish, Answer
<1> HIDE DEF c
<1>3. heap'.cursor = c /\ heap'.ahead = None
  BY <1>2
<1> QED BY <1>1, <1>2, <1>3 DEF level, cursor

LEMMA DealtStep ==
  ASSUME TInv, pull # None, UNCHANGED <<built, asked>>, pending => pending',
         NEW i, i = pull.i, i \in 1..Len(stages), NEW n, n = pull.cursor.at,
         NEW g, Moving(g), NEW h, h = [g EXCEPT ![i] = Append(g[i], n)],
         \A j \in 1..Len(stages) : j # i => Yes'[j] = Yes[j] /\ said'[j] = said[j],
         Yes'[i] = Yes[i] \/ Yes'[i] = Yes[i] \cup {n},
         stages[i].k \in Lambdas /\ ~pending' => Arguments(said'[i]) = Called(stages[i], Yes'[i], Append(g[i], n)),
         NEW q, Held(q), Left(stages[i], Yes'[i], Append(g[i], n), q.cursor.stages[i].n),
         NEW lets \in BOOLEAN, lets <=> Lets(stages[i], Yes'[i], g[i], n),
         Outcome(q, lets, h)
  PROVE  \E f : Moving(f)'
<1> DEFINE N == Len(stages)
           Y == Yes
           Y2 == Yes'
           to == IF lets THEN i + 1 ELSE 0
<1>1. /\ stages \in Seq(Stage) /\ N \in Nat /\ DOMAIN stages = 1..N
      /\ \A j \in 1..N : stages[j] \in Stage
  BY PipelineIs DEF TInv
<1>2. /\ pull.i > 0 /\ n \in Nat /\ n > 0 /\ ~pull.cursor.finished /\ asked = n
      /\ cursor = pull.cursor /\ level = i /\ heap.ahead = None /\ pull.spent \in BOOLEAN
  <2>1. pull.i > 0
    BY <1>1
  <2> QED BY <2>1, Under
<1>3. Flow(stages, Y, n, i, pull.cursor.stages, g)
  BY <1>2 DEF Moving
<1>4. Flow(stages, Y2, n, to, q.cursor.stages, h)
  <2> DEFINE now == pull.cursor.stages
             now2 == q.cursor.stages
  <2>1. \A j \in 1..N : j # i => Y2[j] = Y[j] /\ now2[j].n = now[j].n
    BY DEF Held
  <2>2. Dealt(stages, Y, Y2, n, i, now, now2, g, to)
    BY <2>1 DEF Dealt
  <2> HIDE DEF Y, Y2, to, now, now2
  <2>3. Flow(stages, Y, n, i, now, g)
    BY <1>3 DEF now
  <2>4. Flow(stages, Y2, n, to, now2, h)
    BY <1>1, <1>2, <2>2, <2>3, FlowStep
  <2> QED BY <2>4 DEF now2
<1>5. /\ g \in [1..N + 1 -> Seq(Nat)] /\ h \in [1..N + 1 -> Seq(Nat)]
      /\ \A j \in 1..N + 1 : j # i => h[j] = g[j]
      /\ h[i] = Append(g[i], n)
  BY <1>1, <1>3, <1>4 DEF Flow
<1>6. /\ level' = to /\ cursor'.at = n /\ cursor'.stages = q.cursor.stages /\ heap'.ahead = None /\ out' = out
      /\ lets => ~cursor'.finished /\ pull'.spent = q.spent
      /\ cursor'.finished => finish
      /\ finish => cursor'.finished /\ ~lets
      /\ ~finish => cursor'.finished = FALSE
  <2>1. CASE finish
    <3>1. (~lets /\ q = pull) \/ (Goes(q, to) /\ q.cursor.finished = pull.cursor.finished)
      BY <2>1 DEF Outcome, Held
    <3>2. level' = 0 /\ cursor'.finished
      BY <2>1, FinishTo
    <3>3. ~(Goes(q, to) /\ q.cursor.finished = pull.cursor.finished)
      BY <1>2, <3>2, GoesTo
    <3> QED BY <1>2, <2>1, <3>1, <3>3, FinishTo
  <2>2. CASE ~finish
    <3>1. Goes(q, to) /\ q.cursor.at = n /\ q.cursor.finished = pull.cursor.finished /\ q.cursor.finished \in BOOLEAN
      BY <1>2, <2>2 DEF Outcome, Held, Kept, Cursor
    <3> QED BY <1>2, <2>2, <3>1, GoesTo
  <2> QED BY <2>1, <2>2
<1>7. Flow(stages, Yes, cursor.at, level, cursor.stages, h)'
  <2>1. Flow(stages', Yes', cursor'.at, level', cursor'.stages, h)
    BY <1>4, <1>6 DEF built
  <2> QED BY <2>1
<1>8. (~pending => Calls(stages, Yes, said, h))'
  <2> SUFFICES ASSUME ~pending' PROVE Calls(stages, Yes', said', h)
    BY DEF built
  <2>1. Calls(stages, Yes, said, g)
    BY DEF Moving
  <2>2. ASSUME NEW j \in 1..N, stages[j].k \in Lambdas PROVE Arguments(said'[j]) = Called(stages[j], Yes'[j], h[j])
    <3>1. CASE j = i
      BY <2>2, <3>1, <1>5
    <3>2. CASE j # i
      <4>1. j \in 1..N + 1
        BY <1>1
      <4> QED BY <2>1, <2>2, <3>2, <4>1, <1>5 DEF Calls
    <3> QED BY <3>1, <3>2
  <2> QED BY <2>2 DEF Calls
<1>9. \A j \in 1..N : j # i => (Full(stages, h, j) <=> Full(stages, g, j)) /\ (Stopped(stages, Yes', h, j) <=> Stopped(stages, Yes, g, j))
  <2> TAKE j \in 1..N
  <2> HAVE j # i
  <2>1. h[j] = g[j] /\ Yes'[j] = Yes[j]
    BY <1>1, <1>5
  <2> QED BY <2>1 DEF Full, Stopped
<1>10. /\ \A j \in 1..N : ~Stopped(stages, Yes, g, j)
       /\ pull.spent <=> \E j \in 1..N : j < i /\ Full(stages, g, j)
  BY <1>1, <1>2 DEF Moving, Finishing
<1>11. Finishing(h)'
  <2>1. ~cursor'.finished => \A j \in 1..N : ~Stopped(stages, Yes', h, j)
    <3> SUFFICES ASSUME ~cursor'.finished PROVE ~Stopped(stages, Yes', h, i)
      BY <1>9, <1>10
    <3>1. ~finish
      BY <1>6
    <3> QED BY <3>1 DEF Outcome, Stopped
  <2>2. level' > 0 => (pull'.spent <=> \E j \in 1..N : j < level' /\ Full(stages, h, j))
    <3> SUFFICES ASSUME level' > 0 PROVE pull'.spent <=> \E j \in 1..N : j < level' /\ Full(stages, h, j)
      OBVIOUS
    <3>1. lets /\ level' = i + 1 /\ pull'.spent = q.spent
      BY <1>6
    <3>2. q.spent <=> pull.spent \/ Full(stages, h, i)
      BY <3>1 DEF Outcome
    <3>3. \A j \in 1..N : j < i + 1 <=> j < i \/ j = i
      BY <1>1
    <3>4. ASSUME NEW j \in 1..N, j < i, Full(stages, g, j) PROVE j < level' /\ Full(stages, h, j)
      <4>1. j # i /\ j < i + 1
        BY <3>4, <3>3, <1>1
      <4> QED BY <3>1, <3>4, <4>1, <1>9
    <3>5. ASSUME NEW j \in 1..N, j < level', Full(stages, h, j) PROVE j = i \/ (j < i /\ Full(stages, g, j))
      <4>1. j < i \/ j = i
        BY <3>1, <3>5, <3>3
      <4> QED BY <3>5, <4>1, <1>9
    <3>6. pull.spent \/ Full(stages, h, i) => \E j \in 1..N : j < level' /\ Full(stages, h, j)
      <4>1. i < level'
        BY <3>1, <1>1
      <4> QED BY <3>4, <4>1, <1>10
    <3>7. (\E j \in 1..N : j < level' /\ Full(stages, h, j)) => pull.spent \/ Full(stages, h, i)
      BY <3>5, <1>10
    <3> QED BY <3>1, <3>2, <3>6, <3>7
  <2>3. cursor'.finished => \E j \in 1..N : Full(stages, h, j) \/ Stopped(stages, Yes', h, j)
    <3> SUFFICES ASSUME cursor'.finished PROVE Full(stages, h, i) \/ Stopped(stages, Yes', h, i)
      OBVIOUS
    <3>1. finish /\ ~lets
      BY <1>6
    <3>2. ~Goes(q, 0)
      <4> SUFFICES ASSUME Goes(q, 0) PROVE FALSE
        OBVIOUS
      <4>1. cursor' = q.cursor
        BY GoesTo
      <4> QED BY <4>1, <1>2 DEF Held
    <3> QED BY <3>1, <3>2 DEF Outcome
  <2>4. stages' = stages /\ DOMAIN stages = 1..N
    BY <1>1 DEF built
  <2> QED BY <2>1, <2>2, <2>3, <2>4 DEF Finishing
<1>12. Delivered(h)'
  <2>1. ~pending' => out \o <<>> = g[N + 1]
    BY <1>2 DEF Moving, Delivered
  <2>2. h[N + 1] = g[N + 1] /\ stages' = stages
    BY <1>1, <1>5 DEF built
  <2> QED BY <2>1, <2>2, <1>6 DEF Delivered
<1>13. Sparing(h)'
  <2> SUFFICES ASSUME Passing(stages)
               PROVE  /\ ~cursor'.finished => \A j \in 1..N : level' <= j => ~Full(stages, h, j)
                      /\ AsksNoFurther'
    BY <1>1 DEF Sparing, built
  <2>1. (\A j \in 1..N : i <= j => ~Full(stages, g, j)) /\ AsksNoFurther
    BY <1>1, <1>2 DEF Moving, Sparing
  <2>2. ASSUME ~cursor'.finished, NEW j \in 1..N, level' <= j PROVE ~Full(stages, h, j)
    <3>1. CASE lets
      <4>1. i <= j /\ j # i
        BY <3>1, <2>2, <1>1, <1>6
      <4> QED BY <4>1, <2>1, <1>9
    <3>2. CASE ~lets
      <4>1. stages[i].k \notin {"map", "take", "takeWhile"}
        BY <3>2, <2>2, <1>6 DEF Outcome
      <4>2. CASE j = i
        BY <4>1, <4>2 DEF Full
      <4>3. CASE j < i
        BY <4>1, <4>3, <1>1 DEF Passing, Full
      <4>4. CASE j > i
        <5>1. i <= j /\ j # i
          BY <4>4, <1>1
        <5> QED BY <5>1, <2>1, <1>9
      <4> QED BY <4>2, <4>3, <4>4, <1>1
    <3> QED BY <3>1, <3>2
  <2>3. AsksNoFurther'
    <3>1. \A j \in 1..N : Yes'[j] = Yes[j] \/ Yes'[j] = Yes[j] \cup {asked}
      BY <1>2
    <3> QED BY <2>1, <3>1, AsksSame
  <2> QED BY <2>2, <2>3
<1>14. Moving(h)'
  BY <1>7, <1>8, <1>11, <1>12, <1>13 DEF Moving
<1> QED BY <1>14

(* ---- the steps --------------------------------------------------------------------------------- *)

LEMMA ParkedOut ==
  ASSUME NEW T, NEW s \in Seq(T), NEW x \in T
  PROVE  s \o <<>> = s /\ s \o <<x>> = Append(s, x) /\ Append(s, x) \o <<>> = Append(s, x)
<1>1. Append(s, x) \in Seq(T)
  BY AppendProperties
<1>2. s \o <<x>> = Append(s, x)
  BY AppendIsConcat
<1> QED BY <1>1, <1>2, ConcatEmptySeq

\* Between two elements the lists of what was asked for are what the stages have dealt with.
LEMMA ListsAre ==
  ASSUME TInv, NEW g, Flow(stages, Yes, cursor.at, 0, cursor.stages, g), NEW n \in {cursor.at, asked},
         n = cursor.at \/ ~pending
  PROVE  /\ \A i \in 0..Len(stages) : Lists(n)[i] = g[i + 1]
         /\ Ended(n) <=> \/ n > length
                         \/ \E i \in DOMAIN stages : Full(stages, g, i) \/ Stopped(stages, Yes, g, i)
<1>1. stages \in Seq(Stage) /\ Len(stages) \in Nat /\ DOMAIN stages = 1..Len(stages) /\ length \in Nat /\ asked \in Nat
  BY PipelineIs, LengthIs DEF TInv
<1>2. cursor.at \in Nat /\ cursor.at <= length /\ (n = cursor.at \/ (n = cursor.at + 1 /\ cursor.at = length))
  <2>1. cursor \in Cursor
    BY DEF TInv, Kept, cursor
  <2>2. cursor.at \in Nat /\ cursor.at <= length
    BY <2>1 DEF Cursor, TInv, Counted
  <2>3. asked = cursor.at \/ (asked = cursor.at + 1 /\ (cursor.at = length \/ pending))
    BY DEF TInv, Counted
  <2> QED BY <2>2, <2>3
<1>3. n \in Nat /\ Min({n, length}) = cursor.at
  <2>1. n \in Nat
    BY <1>1, <1>2
  <2>2. Min({n, length}) = IF n <= length THEN n ELSE length
    BY <1>1, <2>1, MinOf
  <2> QED BY <1>1, <1>2, <2>1, <2>2
<1>4. Lists(n) = Eager(stages, Yes, cursor.at)
  BY <1>3 DEF Lists
<1>5. \A i \in 0..Len(stages) : Lists(n)[i] = g[i + 1]
  <2> DEFINE Y == Yes
             at == cursor.at
             now == cursor.stages
  <2>1. Flow(stages, Y, at, 0, now, g) /\ at \in Nat
    BY <1>2
  <2> HIDE DEF Y, at, now
  <2>2. \A i \in 0..Len(stages) : Eager(stages, Y, at)[i] = g[i + 1]
    BY <1>1, <2>1, FlowIsEager
  <2> QED BY <1>4, <2>2 DEF Y, at
<1>6. \A i \in 1..Len(stages) : Lists(n)[i - 1] = g[i]
  <2> TAKE i \in 1..Len(stages)
  <2>1. i - 1 \in 0..Len(stages) /\ (i - 1) + 1 = i
    BY <1>1
  <2>2. Lists(n)[i - 1] = g[(i - 1) + 1]
    BY <1>5, <2>1
  <2> QED BY <2>1, <2>2
<1> QED BY <1>1, <1>5, <1>6 DEF Ended, Full, Stopped

\* The source is asked where an element may still pass.
LEMMA AsksOne ==
  ASSUME TInv, NEW g, Moving(g), level = 0, ~cursor.finished, Passing(stages), UNCHANGED <<built, said>>,
         asked' = asked + 1
  PROVE  AsksNoFurther'
<1>1. asked = cursor.at /\ asked \in Nat /\ length \in Nat /\ cursor.at <= length
  BY LengthIs DEF TInv, Counted
<1>2. Flow(stages, Yes, cursor.at, 0, cursor.stages, g)
  BY DEF Moving
<1>3. \A i \in DOMAIN stages : ~Full(stages, g, i) /\ ~Stopped(stages, Yes, g, i)
  <2>1. \A i \in DOMAIN stages : level <= i
    BY PipelineIs DEF TInv
  <2> QED BY <2>1 DEF Moving, Finishing, Sparing
<1>4. ~Ended(asked)
  <2>1. asked \in {cursor.at, asked}
    OBVIOUS
  <2>2. Ended(asked) <=> asked > length \/ \E i \in DOMAIN stages : Full(stages, g, i) \/ Stopped(stages, Yes, g, i)
    BY <1>1, <1>2, <2>1, ListsAre
  <2> QED BY <1>1, <1>3, <2>2
<1>5. asked' - 1 = asked
  BY <1>1
<1>7. Yes' = Yes /\ stages' = stages /\ length' = length
  BY DEF Yes, built
<1>8. Lists(asked - 1)' = Lists(asked)
  BY <1>5, <1>7 DEF Lists
<1>9. Ended(asked - 1)' <=> Ended(asked)
  BY <1>5, <1>7, <1>8 DEF Ended
<1> QED BY <1>4, <1>9 DEF AsksNoFurther

LEMMA MovingAsk ==
  ASSUME TInv, NEW take \in BOOLEAN, Ask(take), NEW g, Moving(g)
  PROVE  Moving(g)'
<1>1. pull = None /\ ~pending /\ UNCHANGED <<built, pending, asked, said>>
  BY DEF Ask
<1>2. stages' = stages /\ length' = length /\ Yes' = Yes
  BY <1>1 DEF built, Yes
<1>3. cursor = heap.cursor /\ level = 0 /\ heap = [cursor |-> heap.cursor, ahead |-> heap.ahead]
  BY <1>1 DEF cursor, level, TInv
<1>4. cursor' = cursor /\ level' = 0 /\ Delivered(g)'
  <2>1. CASE heap.ahead # None
    <3>1. /\ heap' = IF take THEN [heap EXCEPT !.ahead = None] ELSE heap
          /\ out' = IF take THEN Append(out, heap.ahead) ELSE out
          /\ pull' = pull
      BY <2>1 DEF Ask
    <3>2. heap'.cursor = heap.cursor /\ heap'.ahead = IF take THEN None ELSE heap.ahead
      BY <1>3, <3>1
    <3>3. out \in Seq(Elements) /\ heap.ahead \in Elements
      BY <1>1, <2>1 DEF TInv
    <3>4. out \o <<heap.ahead>> = g[Len(stages) + 1]
      BY <1>1, <2>1 DEF Moving, Delivered
    <3>5. out \o <<heap.ahead>> = Append(out, heap.ahead) /\ Append(out, heap.ahead) \o <<>> = Append(out, heap.ahead)
      BY <3>3, ParkedOut
    <3>6. Delivered(g)'
      <4>1. CASE take
        BY <1>2, <3>1, <3>2, <3>4, <3>5, <4>1 DEF Delivered
      <4>2. CASE ~take
        BY <1>2, <2>1, <3>1, <3>2, <3>4, <4>2 DEF Delivered
      <4> QED BY <4>1, <4>2
    <3> QED BY <1>1, <1>3, <3>1, <3>2, <3>6 DEF cursor, level
  <2>2. CASE heap.ahead = None
    <3> DEFINE r == [cursor |-> heap.cursor, i |-> 0, v |-> None, spent |-> FALSE, take |-> take]
    <3>1. pull' = r /\ UNCHANGED <<heap, out>>
      BY <2>2 DEF Ask
    <3>2. r \in Pull
      <4>1. heap.cursor \in Cursor
        BY DEF TInv, Kept
      <4> QED BY <4>1 DEF Pull
    <3>3. r # None /\ r.cursor = heap.cursor /\ r.i = 0
      BY <3>2, PipelineAssumption
    <3> HIDE DEF r
    <3>4. Delivered(g)'
      BY <1>1, <1>2, <3>1 DEF Moving, Delivered
    <3> QED BY <1>3, <3>1, <3>3, <3>4 DEF cursor, level
  <2> QED BY <2>1, <2>2
<1>5. Flow(stages, Yes, cursor.at, level, cursor.stages, g)' /\ (~pending => Calls(stages, Yes, said, g))'
  BY <1>1, <1>2, <1>3, <1>4 DEF Moving
<1>6. Finishing(g)'
  <2>1. Finishing(g)
    BY DEF Moving
  <2> QED BY <1>1, <1>2, <1>4, <2>1 DEF Finishing
<1>7. Sparing(g)'
  <2>1. Sparing(g)
    BY DEF Moving
  <2>2. AsksNoFurther => AsksNoFurther'
    BY <1>1, <1>2, AsksSame
  <2> QED BY <1>2, <1>3, <1>4, <2>1, <2>2 DEF Sparing
<1> QED BY <1>4, <1>5, <1>6, <1>7 DEF Moving

LEMMA MovingSource ==
  ASSUME TInv, pull_source, NEW g, Moving(g)
  PROVE  Moving(g)'
<1> DEFINE n == pull.cursor.at + 1
           asks == ~pull.cursor.finished /\ ~(StepRuns(n) /\ pending)
<1>0. PICK throws \in BOOLEAN :
        /\ throws => asks
        /\ pending' = (pending \/ throws)
        /\ asked' = IF asks THEN asked + 1 ELSE asked
        /\ IF asks /\ n <= length /\ ~throws
           THEN /\ pull' = [cursor |-> [pull.cursor EXCEPT !.at = n], i |-> 1, v |-> n, spent |-> FALSE, take |-> pull.take]
                /\ UNCHANGED <<heap, out>>
           ELSE finish
  BY DEF pull_source
<1>1. /\ pull # None /\ pull.i = 0 /\ UNCHANGED <<built, said>> /\ pending' = (pending \/ throws)
      /\ asked' = IF asks THEN asked + 1 ELSE asked
      /\ asks /\ n <= length /\ ~throws =>
           /\ pull' = [cursor |-> [pull.cursor EXCEPT !.at = n], i |-> 1, v |-> n, spent |-> FALSE, take |-> pull.take]
           /\ UNCHANGED <<heap, out>>
      /\ ~(asks /\ n <= length /\ ~throws) => finish
  BY <1>0 DEF pull_source
<1>2. /\ pull \in Pull /\ Kept(pull.cursor) /\ pull.cursor.at \in Nat /\ pull.cursor.at <= length
      /\ asked = pull.cursor.at \/ (pull.cursor.finished /\ asked = pull.cursor.at + 1 /\ (pull.cursor.at = length \/ pending))
      /\ cursor = pull.cursor /\ level = 0 /\ heap.ahead = None /\ pull.cursor.finished \in BOOLEAN
  BY <1>1, Under
<1>3. length \in Nat /\ asked \in Nat /\ stages \in Seq(Stage) /\ Len(stages) \in Nat /\ DOMAIN stages = 1..Len(stages)
  BY LengthIs, PipelineIs DEF TInv
<1>4. stages' = stages /\ length' = length /\ Yes' = Yes
  BY <1>1 DEF built, Yes
<1>5. Flow(stages, Yes, pull.cursor.at, 0, pull.cursor.stages, g)
  BY <1>2 DEF Moving
<1>6. (~pending => Calls(stages, Yes, said, g))'
  BY <1>1, <1>4 DEF Moving
<1>7. Passing(stages) => AsksNoFurther'
  <2> SUFFICES ASSUME Passing(stages) PROVE AsksNoFurther'
    OBVIOUS
  <2>1. CASE asks
    <3>1. asked' = asked + 1 /\ level = 0 /\ ~cursor.finished /\ UNCHANGED <<built, said>>
      BY <1>1, <1>2, <2>1
    <3> QED BY <3>1, AsksOne
  <2>2. CASE ~asks
    <3>1. UNCHANGED <<built, asked>> /\ AsksNoFurther
      BY <1>1, <2>2 DEF Moving, Sparing
    <3> QED BY <1>4, <3>1, AsksSame
  <2> QED BY <2>1, <2>2
<1>8. CASE asks /\ n <= length /\ ~throws
  <2> DEFINE c == [pull.cursor EXCEPT !.at = n]
             r == [cursor |-> c, i |-> 1, v |-> n, spent |-> FALSE, take |-> pull.take]
  <2>1. c \in Cursor /\ c.at = n /\ c.stages = pull.cursor.stages /\ c.finished = pull.cursor.finished
    BY <1>2 DEF Kept, Cursor
  <2>2. pull.take \in BOOLEAN /\ n \in Nat
    BY <1>1, <1>2, Under
  <2>3. pull' = r /\ UNCHANGED <<heap, out>> /\ ~pull.cursor.finished
    BY <1>1, <1>8
  <2> HIDE DEF c, n
  <2>4. r \in Pull /\ r.cursor = c /\ r.i = 1 /\ ~r.spent
    BY <2>1, <2>2 DEF Pull
  <2> HIDE DEF r
  <2>5. r # None
    BY <2>4, PipelineAssumption
  <2>6. cursor' = c /\ level' = 1 /\ ~pull'.spent /\ ~cursor'.finished
    BY <2>1, <2>3, <2>4, <2>5 DEF cursor, level
  <2>7. Flow(stages, Yes, cursor.at, level, cursor.stages, g)'
    <3> DEFINE Y == Yes
               at == pull.cursor.at
               now == pull.cursor.stages
    <3>1. Flow(stages, Y, at, 0, now, g) /\ at \in Nat
      BY <1>2, <1>5
    <3> HIDE DEF Y, at, now
    <3>2. Flow(stages, Y, at + 1, 1, now, g)
      BY <1>3, <3>1, FlowIn
    <3>3. Flow(stages', Yes', cursor'.at, level', cursor'.stages, g)
      BY <1>4, <2>1, <2>6, <3>2 DEF Y, at, now, n
    <3> QED BY <3>3
  <2>8. Finishing(g)'
    <3>1. \A i \in DOMAIN stages : ~Stopped(stages, Yes, g, i)
      BY <1>2, <2>3 DEF Moving, Finishing
    <3>2. \A i \in DOMAIN stages : ~(i < 1)
      BY <1>3
    <3> QED BY <1>4, <2>6, <3>1, <3>2 DEF Finishing
  <2>9. Delivered(g)'
    BY <1>1, <1>4, <2>3 DEF Moving, Delivered
  <2>10. Sparing(g)'
    <3>1. Passing(stages) => \A i \in DOMAIN stages : ~Full(stages, g, i)
      BY <1>2, <1>3, <2>3 DEF Moving, Sparing
    <3> QED BY <1>4, <1>7, <3>1 DEF Sparing
  <2> QED BY <1>6, <2>7, <2>8, <2>9, <2>10 DEF Moving
<1>9. CASE ~(asks /\ n <= length /\ ~throws)
  <2>1. /\ level' = 0 /\ cursor'.at = pull.cursor.at /\ cursor'.stages = pull.cursor.stages /\ cursor'.finished
        /\ heap'.ahead = None /\ out' = out
    BY <1>1, <1>9, FinishTo
  <2>2. Flow(stages, Yes, cursor.at, level, cursor.stages, g)'
    <3>1. Flow(stages', Yes', cursor'.at, level', cursor'.stages, g)
      BY <1>4, <1>5, <2>1
    <3> QED BY <3>1
  <2>3. Finishing(g)'
    <3>1. ~pending' => asked' > length \/ \E i \in DOMAIN stages : Full(stages, g, i) \/ Stopped(stages, Yes, g, i)
      <4>1. CASE asks
        BY <1>1, <1>2, <1>3, <1>9, <4>1
      <4>2. CASE ~asks
        BY <1>1, <1>2, <4>2 DEF Moving, Finishing
      <4> QED BY <4>1, <4>2
    <3> QED BY <1>1, <1>4, <2>1, <3>1 DEF Finishing
  <2>4. Delivered(g)'
    BY <1>1, <1>2, <1>4, <2>1 DEF Moving, Delivered
  <2>5. Sparing(g)'
    BY <1>4, <1>7, <2>1 DEF Sparing
  <2> QED BY <1>6, <2>2, <2>3, <2>4, <2>5 DEF Moving
<1> QED BY <1>8, <1>9

\* What is known of the stage that has the element.
LEMMA AtStage ==
  ASSUME TInv, NEW kinds, At(kinds), NEW g, Moving(g), NEW i, i = pull.i, NEW n, n = pull.cursor.at
  PROVE  /\ pull # None /\ i \in 1..Len(stages) /\ stages[i] \in Stage /\ stages[i].k \in kinds
         /\ n \in Nat /\ n > 0 /\ ~pull.cursor.finished
         /\ g[i] \in Seq(Nat) /\ g[i] \in Seq(1..n - 1) /\ Yes[i] \subseteq 1..n - 1
         /\ Budget \in Nat /\ Budget = pull.cursor.stages[i].n /\ Left(stages[i], Yes[i], g[i], Budget)
         /\ ~Stopped(stages, Yes, g, i)
         /\ ~pending /\ stages[i].k \in Lambdas => Arguments(said[i]) = Called(stages[i], Yes[i], g[i])
         /\ [g EXCEPT ![i] = Append(g[i], n)][i] = Append(g[i], n)
<1>1. /\ pull # None /\ i \in 1..Len(stages) /\ i > 0 /\ stages[i] \in Stage /\ stages[i].k \in kinds
      /\ Budget \in Nat /\ Budget = pull.cursor.stages[i].n
  BY AtIs
<1>2. /\ n \in Nat /\ n > 0 /\ ~pull.cursor.finished /\ cursor = pull.cursor /\ level = i
  BY <1>1, Under
<1>3. Len(stages) \in Nat /\ DOMAIN stages = 1..Len(stages)
  BY PipelineIs DEF TInv
<1>4. Flow(stages, Yes, n, i, pull.cursor.stages, g)
  BY <1>2 DEF Moving
<1>5. i \in 1..Len(stages) + 1 /\ Seen(n, i, i) = n - 1
  BY <1>1, <1>3 DEF Seen
<1>6. /\ g \in [1..Len(stages) + 1 -> Seq(Nat)] /\ g[i] \in Seq(1..n - 1) /\ Yes[i] \subseteq 1..n - 1
      /\ Left(stages[i], Yes[i], g[i], Budget)
  BY <1>1, <1>4, <1>5 DEF Flow
<1>7. ~Stopped(stages, Yes, g, i)
  BY <1>1, <1>2, <1>3 DEF Moving, Finishing
<1>8. ~pending /\ stages[i].k \in Lambdas => Arguments(said[i]) = Called(stages[i], Yes[i], g[i])
  BY <1>1 DEF Moving, Calls
<1> QED BY <1>1, <1>2, <1>5, <1>6, <1>7, <1>8

LEMMA MovingTake ==
  ASSUME TInv, Take, NEW g, Moving(g)
  PROVE  \E f : Moving(f)'
<1>1. PICK i, n : i = pull.i /\ n = pull.cursor.at
  OBVIOUS
<1> DEFINE h == [g EXCEPT ![i] = Append(g[i], n)]
<1>2. At({"take"}) /\ UNCHANGED <<built, pending, asked, said>>
  BY TakeIs
<1>3. /\ pull # None /\ i \in 1..Len(stages) /\ stages[i] \in Stage /\ stages[i].k = "take"
      /\ n \in Nat /\ g[i] \in Seq(Nat) /\ Budget \in Nat /\ Budget = pull.cursor.stages[i].n
      /\ Left(stages[i], Yes[i], g[i], Budget) /\ h[i] = Append(g[i], n)
  BY <1>1, <1>2, AtStage
<1>4. Yes' = Yes /\ said' = said /\ pending' = pending
  BY <1>2 DEF Yes, built
<1>5. /\ Budget = 0 => /\ ~Lets(stages[i], Yes[i], g[i], n) /\ Left(stages[i], Yes[i], Append(g[i], n), Budget)
                       /\ Full(stages, h, i)
      /\ Budget > 0 => /\ Lets(stages[i], Yes[i], g[i], n) /\ Left(stages[i], Yes[i], Append(g[i], n), Budget - 1)
                       /\ (Full(stages, h, i) <=> Budget = 1)
  <2> DEFINE Y == Yes[i]
             m == Budget
             s == g[i]
             stage == stages[i]
  <2>1. stage \in Stage /\ stage.k = "take" /\ m \in Nat /\ Left(stage, Y, s, m) /\ s \in Seq(Nat)
    BY <1>3
  <2> HIDE DEF Y, m, s, stage
  <2>2. Nat \in SUBSET Nat
    OBVIOUS
  <2>3. /\ m = 0 => /\ ~Lets(stage, Y, s, n) /\ Left(stage, Y, Append(s, n), m)
                    /\ Len(Append(s, n)) >= stage.n
        /\ m > 0 => /\ Lets(stage, Y, s, n) /\ Left(stage, Y, Append(s, n), m - 1)
                    /\ (Len(Append(s, n)) >= stage.n <=> m = 1)
    BY <1>3, <2>1, <2>2, LeftTake
  <2> USE DEF Y, m, s, stage
  <2> QED BY <1>3, <2>3 DEF Full
<1>6. ~Stopped(stages, Yes', h, i) /\ stages[i].k \notin Lambdas
  BY <1>3 DEF Stopped, Lambdas
<1> HIDE DEF h
<1>7. h = [g EXCEPT ![i] = Append(g[i], n)]
  BY DEF h
<1>8. UNCHANGED <<built, asked>> /\ (pending => pending') /\ Yes'[i] = Yes[i] /\ i = pull.i /\ n = pull.cursor.at
      /\ \A j \in 1..Len(stages) : j # i => Yes'[j] = Yes[j] /\ said'[j] = said[j]
  BY <1>1, <1>2, <1>4
<1>9. CASE Budget = 0 /\ finish
  <2>1. Outcome(pull, FALSE, h)
    BY <1>1, <1>5, <1>9 DEF Outcome
  <2>2. Held(pull) /\ FALSE \in BOOLEAN
    BY <1>3, HeldItself
  <2>3. Left(stages[i], Yes'[i], Append(g[i], n), pull.cursor.stages[i].n) /\ ~Lets(stages[i], Yes'[i], g[i], n)
    BY <1>3, <1>5, <1>8, <1>9
  <2>4. FALSE <=> Lets(stages[i], Yes'[i], g[i], n)
    BY <2>3
  <2> QED BY <1>3, <1>6, <1>7, <1>8, <2>1, <2>2, <2>3, <2>4, DealtStep
<1>10. ASSUME Budget > 0, NEW q, Held(q), q.cursor.stages[pull.i].n = Budget - 1,
              q.spent = (pull.spent \/ Budget = 1), Goes(q, pull.i + 1)
       PROVE  \E f : Moving(f)'
  <2>1. Outcome(q, TRUE, h)
    BY <1>1, <1>5, <1>6, <1>10 DEF Outcome
  <2>2. Left(stages[i], Yes'[i], Append(g[i], n), q.cursor.stages[i].n) /\ Lets(stages[i], Yes'[i], g[i], n)
    BY <1>1, <1>5, <1>8, <1>10
  <2>3. TRUE \in BOOLEAN /\ (TRUE <=> Lets(stages[i], Yes'[i], g[i], n))
    BY <2>2
  <2> QED BY <1>3, <1>6, <1>7, <1>8, <1>10, <2>1, <2>2, <2>3, DealtStep
<1> QED BY <1>9, <1>10, TakeIs

LEMMA MovingDrop ==
  ASSUME TInv, Drop, NEW g, Moving(g)
  PROVE  \E f : Moving(f)'
<1>1. PICK i, n : i = pull.i /\ n = pull.cursor.at
  OBVIOUS
<1> DEFINE h == [g EXCEPT ![i] = Append(g[i], n)]
<1>2. At({"drop"}) /\ UNCHANGED <<built, pending, asked, said>>
  BY DropIs
<1>3. /\ pull # None /\ i \in 1..Len(stages) /\ stages[i] \in Stage /\ stages[i].k = "drop"
      /\ n \in Nat /\ g[i] \in Seq(Nat) /\ Budget \in Nat /\ Budget = pull.cursor.stages[i].n
      /\ Left(stages[i], Yes[i], g[i], Budget)
  BY <1>1, <1>2, AtStage
<1>4. Yes' = Yes /\ said' = said /\ pending' = pending
  BY <1>2 DEF Yes, built
<1>5. /\ Budget = 0 => Lets(stages[i], Yes[i], g[i], n) /\ Left(stages[i], Yes[i], Append(g[i], n), Budget)
      /\ Budget > 0 => ~Lets(stages[i], Yes[i], g[i], n) /\ Left(stages[i], Yes[i], Append(g[i], n), Budget - 1)
  <2> DEFINE Y == Yes[i]
             m == Budget
             s == g[i]
             stage == stages[i]
  <2>1. stage \in Stage /\ stage.k = "drop" /\ m \in Nat /\ Left(stage, Y, s, m) /\ s \in Seq(Nat)
    BY <1>3
  <2> HIDE DEF Y, m, s, stage
  <2>2. Nat \in SUBSET Nat
    OBVIOUS
  <2>3. /\ m = 0 => Lets(stage, Y, s, n) /\ Left(stage, Y, Append(s, n), m)
        /\ m > 0 => ~Lets(stage, Y, s, n) /\ Left(stage, Y, Append(s, n), m - 1)
    BY <1>3, <2>1, <2>2, LeftDrop
  <2> USE DEF Y, m, s, stage
  <2> QED BY <2>3
<1>6. ~Stopped(stages, Yes', h, i) /\ ~Full(stages, h, i) /\ stages[i].k \notin Lambdas
  BY <1>3 DEF Stopped, Full, Lambdas
<1> HIDE DEF h
<1>7. h = [g EXCEPT ![i] = Append(g[i], n)]
  BY DEF h
<1>8. UNCHANGED <<built, asked>> /\ (pending => pending') /\ Yes'[i] = Yes[i] /\ i = pull.i /\ n = pull.cursor.at
      /\ \A j \in 1..Len(stages) : j # i => Yes'[j] = Yes[j] /\ said'[j] = said[j]
  BY <1>1, <1>2, <1>4
<1>9. CASE Budget = 0 /\ Goes(pull, pull.i + 1)
  <2>1. pull.spent \in BOOLEAN
    BY <1>3, Under
  <2>2. Outcome(pull, TRUE, h)
    BY <1>1, <1>6, <1>9, <2>1 DEF Outcome
  <2>3. Held(pull)
    BY <1>3, HeldItself
  <2>4. Left(stages[i], Yes'[i], Append(g[i], n), pull.cursor.stages[i].n) /\ Lets(stages[i], Yes'[i], g[i], n)
    BY <1>3, <1>5, <1>8, <1>9
  <2>5. TRUE \in BOOLEAN /\ (TRUE <=> Lets(stages[i], Yes'[i], g[i], n))
    BY <2>4
  <2> QED BY <1>3, <1>6, <1>7, <1>8, <2>2, <2>3, <2>4, <2>5, DealtStep
<1>10. ASSUME Budget > 0, NEW q, Held(q), q.cursor.stages[pull.i].n = Budget - 1, Goes(q, 0)
       PROVE  \E f : Moving(f)'
  <2>1. Outcome(q, FALSE, h)
    BY <1>1, <1>3, <1>10 DEF Outcome
  <2>2. Left(stages[i], Yes'[i], Append(g[i], n), q.cursor.stages[i].n) /\ ~Lets(stages[i], Yes'[i], g[i], n)
    BY <1>1, <1>5, <1>8, <1>10
  <2>3. FALSE \in BOOLEAN /\ (FALSE <=> Lets(stages[i], Yes'[i], g[i], n))
    BY <2>2
  <2> QED BY <1>3, <1>6, <1>7, <1>8, <1>10, <2>1, <2>2, <2>3, DealtStep
<1> QED BY <1>9, <1>10, DropIs

LEMMA MovingDeliver ==
  ASSUME TInv, Deliver, NEW g, Moving(g)
  PROVE  \E f : Moving(f)'
<1>1. PICK n, h : n = pull.cursor.at /\ h = [g EXCEPT ![Len(stages) + 1] = Append(g[Len(stages) + 1], n)]
  OBVIOUS
<1> DEFINE N == Len(stages)
           c == [pull.cursor EXCEPT !.finished = @ \/ pull.spent]
<1>2. pull # None /\ pull.i > N /\ UNCHANGED <<built, pending, asked, said>> /\ Answer(c, pull.v)
  BY DEF Deliver
<1>3. stages \in Seq(Stage) /\ N \in Nat /\ DOMAIN stages = 1..N
  BY PipelineIs DEF TInv
<1>4. /\ Kept(pull.cursor) /\ pull.i = N + 1 /\ n \in Nat /\ n > 0 /\ ~pull.cursor.finished
      /\ (pull.v = n \/ pull.v = Undef) /\ (pull.v = Undef => pending) /\ heap.ahead = None
      /\ pull.spent \in BOOLEAN /\ pull.cursor.finished \in BOOLEAN /\ cursor = pull.cursor /\ level = N + 1
  BY <1>1, <1>2, <1>3, Under
<1>5. c.at = n /\ c.stages = pull.cursor.stages /\ c.finished = pull.spent
  BY <1>1, <1>4 DEF Kept, Cursor
<1> HIDE DEF c
<1>6. /\ heap' = [cursor |-> c, ahead |-> IF pull.take THEN None ELSE pull.v] /\ pull' = None
      /\ out' = IF pull.take /\ pull.v # None /\ ~pending' THEN Append(out, pull.v) ELSE out
  BY <1>2 DEF Answer
<1>7. cursor' = c /\ level' = 0 /\ heap'.ahead = IF pull.take THEN None ELSE pull.v
  BY <1>6 DEF cursor, level
<1>8. stages' = stages /\ Yes' = Yes /\ pending' = pending
  BY <1>2 DEF built, Yes
<1>9. Flow(stages, Yes, n, N + 1, pull.cursor.stages, g)
  BY <1>1, <1>4 DEF Moving
<1>10. g \in [1..N + 1 -> Seq(Nat)]
  BY <1>9 DEF Flow
<1>11. h[N + 1] = Append(g[N + 1], n) /\ g[N + 1] \in Seq(Nat) /\ \A i \in 1..N : h[i] = g[i]
  BY <1>1, <1>3, <1>10
<1>12. Flow(stages, Yes, cursor.at, level, cursor.stages, h)'
  <2> DEFINE Y == Yes
             now == pull.cursor.stages
  <2>1. Flow(stages, Y, n, N + 1, now, g)
    BY <1>9
  <2> HIDE DEF Y, now
  <2>2. Flow(stages, Y, n, 0, now, h)
    BY <1>1, <1>3, <1>4, <2>1, FlowOut
  <2>3. Flow(stages', Yes', cursor'.at, level', cursor'.stages, h)
    BY <1>5, <1>7, <1>8, <2>2 DEF Y, now
  <2> QED BY <2>3
<1>13. \A i \in 1..N : (Full(stages, h, i) <=> Full(stages, g, i)) /\ (Stopped(stages, Yes, h, i) <=> Stopped(stages, Yes, g, i))
  BY <1>11 DEF Full, Stopped
<1>14. /\ \A i \in 1..N : ~Stopped(stages, Yes, g, i)
       /\ pull.spent <=> \E i \in 1..N : Full(stages, g, i)
  <2>1. \A i \in 1..N : i < N + 1
    BY <1>3
  <2>2. pull.spent <=> \E i \in 1..N : i < N + 1 /\ Full(stages, g, i)
    BY <1>3, <1>4 DEF Moving, Finishing
  <2>3. \A i \in 1..N : ~Stopped(stages, Yes, g, i)
    BY <1>3, <1>4 DEF Moving, Finishing
  <2> QED BY <2>1, <2>2, <2>3
<1>15. (~pending => Calls(stages, Yes, said, h))'
  <2> SUFFICES ASSUME ~pending PROVE Calls(stages, Yes, said, h)
    BY <1>2, <1>8
  <2>1. Calls(stages, Yes, said, g)
    BY DEF Moving
  <2> QED BY <1>11, <2>1 DEF Calls
<1>16. Finishing(h)'
  <2>1. \A i \in 1..N : ~Stopped(stages, Yes, h, i)
    BY <1>13, <1>14
  <2>2. cursor'.finished => \E i \in 1..N : Full(stages, h, i)
    BY <1>5, <1>7, <1>13, <1>14
  <2> QED BY <1>3, <1>7, <1>8, <2>1, <2>2 DEF Finishing
<1>17. Delivered(h)'
  <2> SUFFICES ASSUME ~pending
               PROVE  out' \o (IF heap'.ahead = None THEN <<>> ELSE <<heap'.ahead>>) = h[N + 1]
    BY <1>8 DEF Delivered
  <2>1. pull.v = n /\ n # None
    BY <1>4, PipelineAssumption
  <2>2. out \o <<>> = g[N + 1]
    BY <1>4 DEF Moving, Delivered
  <2>3. out = g[N + 1]
    <3>1. out \in Seq(Elements)
      BY DEF TInv
    <3> QED BY <2>2, <3>1, ParkedOut
  <2>4. out \o <<n>> = Append(out, n) /\ Append(out, n) \o <<>> = Append(out, n)
    BY <1>4, <1>11, <2>3, ParkedOut
  <2>5. CASE pull.take
    BY <1>6, <1>7, <1>8, <1>11, <2>1, <2>3, <2>4, <2>5
  <2>6. CASE ~pull.take
    BY <1>6, <1>7, <1>8, <1>11, <2>1, <2>3, <2>4, <2>6
  <2> QED BY <2>5, <2>6
<1>18. Sparing(h)'
  <2> SUFFICES ASSUME Passing(stages)
               PROVE  /\ ~cursor'.finished => \A i \in 1..N : ~Full(stages, h, i)
                      /\ AsksNoFurther'
    BY <1>3, <1>8 DEF Sparing
  <2>1. AsksNoFurther'
    <3>1. AsksNoFurther /\ UNCHANGED <<built, asked>>
      BY <1>2 DEF Moving, Sparing
    <3> QED BY <1>8, <3>1, AsksSame
  <2> QED BY <1>5, <1>7, <1>13, <1>14, <2>1
<1>19. Moving(h)'
  BY <1>12, <1>15, <1>16, <1>17, <1>18 DEF Moving
<1> QED BY <1>19

\* What the lambda of the stage answered, and what it was called on.
LEMMA Answering ==
  ASSUME TInv, At(Lambdas), NEW truthy \in BOOLEAN, Heard(truthy), UNCHANGED built, truthy => Asks,
         NEW i, i = pull.i, NEW n, n = pull.cursor.at
  PROVE  /\ \A j \in 1..Len(stages) : j # i => Yes'[j] = Yes[j] /\ said'[j] = said[j]
         /\ Yes'[i] = IF truthy THEN Yes[i] \cup {n} ELSE Yes[i]
         /\ Arguments(said'[i]) = IF Asks THEN Append(Arguments(said[i]), n) ELSE Arguments(said[i])
<1>1. /\ i \in 1..Len(stages) /\ said \in [1..Len(stages) -> Seq(Call)] /\ DOMAIN stages = 1..Len(stages)
      /\ said' \in [1..Len(stages) -> Seq(Call)]
  BY AtIs, PipelineIs, HeardTypes DEF TInv
<1>2. \A j \in 1..Len(stages) : Yes[j] = AnsweredYes(said[j]) /\ Yes'[j] = AnsweredYes(said'[j])
  BY <1>1 DEF Yes, AnsweredYes, built
<1>3. CASE Asks
  <2>1. pull.v = n /\ n \in Nat
    BY <1>3, HeardTypes
  <2>2. said' = [said EXCEPT ![i] = Append(said[i], [x |-> n, yes |-> truthy])]
    BY <1>3, <2>1 DEF Heard
  <2>3. said'[i] = Append(said[i], [x |-> n, yes |-> truthy]) /\ \A j \in 1..Len(stages) : j # i => said'[j] = said[j]
    BY <1>1, <2>2
  <2>4. /\ AnsweredYes(said'[i]) = IF truthy THEN AnsweredYes(said[i]) \cup {n} ELSE AnsweredYes(said[i])
        /\ Arguments(said'[i]) = Append(Arguments(said[i]), n)
    <3>1. said[i] \in Seq(Call)
      BY <1>1
    <3>2. /\ AnsweredYes(Append(said[i], [x |-> n, yes |-> truthy])) =
               IF truthy THEN AnsweredYes(said[i]) \cup {n} ELSE AnsweredYes(said[i])
          /\ Arguments(Append(said[i], [x |-> n, yes |-> truthy])) = Append(Arguments(said[i]), n)
      BY <2>1, <3>1, AnsweredAppend
    <3> QED BY <2>3, <3>2
  <2> QED BY <1>1, <1>2, <1>3, <2>3, <2>4, ZenonT(60)
<1>4. CASE ~Asks
  <2>1. said' = said /\ ~truthy
    BY <1>4 DEF Heard
  <2> QED BY <1>1, <1>2, <1>4, <2>1
<1> QED BY <1>3, <1>4

LEMMA MovingLambda ==
  ASSUME TInv, CallLambda, NEW g, Moving(g)
  PROVE  \E f : Moving(f)'
<1>1. PICK i, n, h : i = pull.i /\ n = pull.cursor.at /\ h = [g EXCEPT ![i] = Append(g[i], n)]
  OBVIOUS
<1>2. At(Lambdas) /\ UNCHANGED <<built, asked>>
  BY LambdaIs
<1>3. /\ pull # None /\ i \in 1..Len(stages) /\ stages[i] \in Stage /\ stages[i].k \in Lambdas
      /\ n \in Nat /\ n > 0 /\ g[i] \in Seq(Nat) /\ g[i] \in Seq(1..n - 1) /\ Yes[i] \subseteq 1..n - 1
      /\ Budget \in Nat /\ Budget = pull.cursor.stages[i].n
      /\ Left(stages[i], Yes[i], g[i], Budget) /\ ~Stopped(stages, Yes, g, i)
      /\ (~pending => Arguments(said[i]) = Called(stages[i], Yes[i], g[i])) /\ h[i] = Append(g[i], n)
  BY <1>1, <1>2, AtStage, SMTT(60)
<1>4. PICK truthy \in BOOLEAN :
        /\ truthy => Asks /\ pending' = pending
        /\ stages[i].k = "map" => ~truthy
        /\ pending' \in BOOLEAN /\ (pending => pending') /\ (~Asks => pending' = pending)
        /\ Heard(truthy)
        /\ IF Done THEN Goes(pull, i + 1) ELSE Judged(truthy)
  BY <1>1, LambdaIs
<1>5. /\ \A j \in 1..Len(stages) : j # i => Yes'[j] = Yes[j] /\ said'[j] = said[j]
      /\ Yes'[i] = IF truthy THEN Yes[i] \cup {n} ELSE Yes[i]
      /\ Arguments(said'[i]) = IF Asks THEN Append(Arguments(said[i]), n) ELSE Arguments(said[i])
  <2>1. UNCHANGED built /\ (truthy => Asks) /\ Heard(truthy)
    BY <1>2, <1>4
  <2> QED BY <1>1, <1>2, <2>1, Answering, ZenonT(90)
<1>6. PICK S, U, s, stage, m : S = Yes[i] /\ U = Yes'[i] /\ s = g[i] /\ stage = stages[i] /\ m = Budget
  OBVIOUS
<1>7. /\ stage \in Stage /\ s \in Seq(Nat) /\ s \in Seq(1..n - 1) /\ Left(stage, S, s, m) /\ m \in Nat
      /\ (U = S \/ U = S \cup {n}) /\ stage.k \in Lambdas /\ Nat \in SUBSET Nat /\ m = pull.cursor.stages[i].n
      /\ n \in U <=> truthy
  <2>1. n \notin S
    BY <1>3, <1>6
  <2> QED BY <1>3, <1>5, <1>6, <2>1
<1>8. Agree(S, U, s)
  BY <1>3, <1>7, SeenAgree
<1>9. Done <=> stage.k = "dropWhile" /\ m = 1
  BY <1>1, <1>6 DEF Done
<1>10. /\ stage.k = "dropWhile" /\ m = 1 => Lets(stage, U, s, n) /\ Left(stage, U, Append(s, n), m) /\ Leading(S, s) < Len(s)
       /\ stage.k = "dropWhile" /\ m # 1 /\ truthy => ~Lets(stage, U, s, n) /\ Left(stage, U, Append(s, n), m)
       /\ stage.k = "dropWhile" /\ m # 1 /\ ~truthy => Lets(stage, U, s, n) /\ Left(stage, U, Append(s, n), 1)
       /\ stage.k = "dropWhile" /\ m # 1 => Leading(S, s) = Len(s)
  <2> SUFFICES ASSUME stage.k = "dropWhile"
               PROVE  /\ m = 1 => Lets(stage, U, s, n) /\ Left(stage, U, Append(s, n), m) /\ Leading(S, s) < Len(s)
                      /\ m # 1 /\ truthy => ~Lets(stage, U, s, n) /\ Left(stage, U, Append(s, n), m)
                      /\ m # 1 /\ ~truthy => Lets(stage, U, s, n) /\ Left(stage, U, Append(s, n), 1)
                      /\ m # 1 => Leading(S, s) = Len(s)
    OBVIOUS
  <2>1. stage \in Stage /\ s \in Seq(Nat) /\ n \in Nat /\ m \in Nat /\ Left(stage, S, s, m) /\ Nat \in SUBSET Nat
    BY <1>3, <1>7
  <2>2. Decides(stage, S, U, s, n, m)
    BY <2>1, <1>8, LeftDropWhile
  <2> QED BY <1>7, <2>2 DEF Decides
<1>11. stage.k = "takeWhile" => /\ Leading(S, s) = Len(s) /\ (Lets(stage, U, s, n) <=> truthy)
                                /\ (Stopped(stages, Yes', h, i) <=> ~truthy)
  <2> SUFFICES ASSUME stage.k = "takeWhile"
               PROVE  /\ Leading(S, s) = Len(s) /\ (Lets(stage, U, s, n) <=> truthy)
                      /\ (Stopped(stages, Yes', h, i) <=> ~truthy)
    OBVIOUS
  <2>1. ~(Leading(S, s) < Len(s))
    BY <1>3, <1>6 DEF Stopped
  <2>2. /\ Leading(S, s) = Len(s)
        /\ Lets(stage, U, s, n) <=> n \in U
        /\ Leading(U, Append(s, n)) < Len(Append(s, n)) <=> n \notin U
    BY <1>3, <1>7, <1>8, <2>1, StillTaking
  <2>3. Stopped(stages, Yes', h, i) <=> Leading(U, Append(s, n)) < Len(Append(s, n))
    BY <1>3, <1>6 DEF Stopped
  <2> QED BY <1>7, <2>2, <2>3
<1>12. stage.k # "dropWhile" => Left(stage, U, Append(s, n), m)
  BY <1>7 DEF Left, Budgets, Lambdas
<1>13. /\ stage.k = "map" => Lets(stage, U, s, n)
       /\ stage.k = "filter" => (Lets(stage, U, s, n) <=> truthy)
       /\ stage.k = "filterNot" => (Lets(stage, U, s, n) <=> ~truthy)
  BY <1>7 DEF Lets
<1>14. ~pending' => Arguments(said'[i]) = Called(stage, U, Append(s, n))
  <2> SUFFICES ASSUME ~pending' PROVE Arguments(said'[i]) = Called(stage, U, Append(s, n))
    OBVIOUS
  <2>1. ~pending /\ (Asks <=> ~Done)
    BY <1>4 DEF Asks
  <2>2. Called(stage, U, s) = Called(stage, S, s) /\ Leading(U, s) = Leading(S, s)
    BY <1>7, <1>8, ThroughSame
  <2>3. Arguments(said[i]) = Called(stage, U, s)
    BY <1>3, <1>6, <2>1, <2>2
  <2>4. /\ stage.k \notin {"takeWhile", "dropWhile"} => Called(stage, U, s) = s /\ Called(stage, U, Append(s, n)) = Append(s, n)
        /\ Leading(U, s) = Len(s) => Called(stage, U, s) = s /\ Called(stage, U, Append(s, n)) = Append(s, n)
        /\ stage.k = "dropWhile" /\ Leading(U, s) < Len(s) => Called(stage, U, Append(s, n)) = Called(stage, U, s)
    BY <1>3, <1>7, CalledAppend, ZenonT(90)
  <2>5. CASE Done
    BY <1>5, <1>9, <1>10, <2>1, <2>2, <2>3, <2>4, <2>5
  <2>6. CASE ~Done
    <3>1. stage.k \notin {"takeWhile", "dropWhile"} \/ Leading(U, s) = Len(s)
      BY <1>9, <1>10, <1>11, <2>2, <2>6
    <3> QED BY <1>5, <2>1, <2>3, <2>4, <2>6, <3>1
  <2> QED BY <2>5, <2>6
<1>15. /\ Held(pull) /\ pull.spent \in BOOLEAN /\ stages[i].k \notin Budgets /\ ~Full(stages, h, i)
       /\ stage.k # "takeWhile" => ~Stopped(stages, Yes', h, i)
  BY <1>3, <1>6, HeldItself, Under DEF Lambdas, Budgets, Full, Stopped
<1>16. /\ UNCHANGED <<built, asked>> /\ (pending => pending') /\ i = pull.i /\ n = pull.cursor.at
       /\ \A j \in 1..Len(stages) : j # i => Yes'[j] = Yes[j] /\ said'[j] = said[j]
       /\ Yes'[i] = Yes[i] \/ Yes'[i] = Yes[i] \cup {n}
       /\ stages[i].k \in Lambdas /\ ~pending' => Arguments(said'[i]) = Called(stages[i], Yes'[i], Append(g[i], n))
  BY <1>1, <1>2, <1>4, <1>5, <1>6, <1>14
<1>17. ASSUME NEW q, Held(q), q.spent = pull.spent, Left(stage, U, Append(s, n), q.cursor.stages[i].n),
              Lets(stage, U, s, n), ~Stopped(stages, Yes', h, i), Goes(q, i + 1)
       PROVE  \E f : Moving(f)'
  <2>1. Outcome(q, TRUE, h)
    BY <1>1, <1>15, <1>17 DEF Outcome
  <2>2. TRUE \in BOOLEAN /\ (TRUE <=> Lets(stages[i], Yes'[i], g[i], n))
    BY <1>6, <1>17
  <2>3. Left(stages[i], Yes'[i], Append(g[i], n), q.cursor.stages[i].n)
    BY <1>6, <1>17
  <2> QED BY <1>1, <1>3, <1>16, <1>17, <2>1, <2>2, <2>3, DealtStep
<1>18. ASSUME Left(stage, U, Append(s, n), m), ~Lets(stage, U, s, n), stage.k \notin {"map", "take", "takeWhile"}, Goes(pull, 0)
       PROVE  \E f : Moving(f)'
  <2>1. Outcome(pull, FALSE, h)
    BY <1>1, <1>6, <1>18 DEF Outcome
  <2>2. FALSE \in BOOLEAN /\ (FALSE <=> Lets(stages[i], Yes'[i], g[i], n))
    BY <1>6, <1>18
  <2>3. Left(stages[i], Yes'[i], Append(g[i], n), pull.cursor.stages[i].n)
    BY <1>6, <1>7, <1>18
  <2> QED BY <1>1, <1>3, <1>15, <1>16, <2>1, <2>2, <2>3, DealtStep
<1>19. ASSUME Left(stage, U, Append(s, n), m), ~Lets(stage, U, s, n), Stopped(stages, Yes', h, i), finish
       PROVE  \E f : Moving(f)'
  <2>1. Outcome(pull, FALSE, h)
    BY <1>1, <1>19 DEF Outcome
  <2>2. FALSE \in BOOLEAN /\ (FALSE <=> Lets(stages[i], Yes'[i], g[i], n))
    BY <1>6, <1>19
  <2>3. Left(stages[i], Yes'[i], Append(g[i], n), pull.cursor.stages[i].n)
    BY <1>6, <1>7, <1>19
  <2> QED BY <1>1, <1>3, <1>15, <1>16, <2>1, <2>2, <2>3, DealtStep
<1>20. CASE Done
  <2>1. Goes(pull, i + 1) /\ Left(stage, U, Append(s, n), pull.cursor.stages[i].n) /\ Lets(stage, U, s, n)
        /\ ~Stopped(stages, Yes', h, i)
    BY <1>4, <1>7, <1>9, <1>10, <1>15, <1>20
  <2> QED BY <1>15, <1>17, <2>1
<1>21. CASE ~Done
  <2>1. Judged(truthy)
    BY <1>4, <1>21
  <2>2. stage.k = "map" \/ stage.k = "filter" \/ stage.k = "filterNot" \/ stage.k = "takeWhile" \/ stage.k = "dropWhile"
    BY <1>7 DEF Lambdas
  <2>3. CASE stage.k = "map"
    <3>1. PICK q : Held(q) /\ q.cursor = pull.cursor /\ q.spent = pull.spent /\ Goes(q, i + 1)
      BY <1>1, <1>6, <2>1, <2>3 DEF Judged
    <3> QED BY <1>7, <1>12, <1>13, <1>15, <1>17, <2>3, <3>1
  <2>4. CASE stage.k = "filter"
    <3>1. IF truthy THEN Goes(pull, i + 1) ELSE Goes(pull, 0)
      BY <1>1, <1>6, <2>1, <2>4 DEF Judged
    <3> QED BY <1>7, <1>12, <1>13, <1>15, <1>17, <1>18, <2>4, <3>1
  <2>5. CASE stage.k = "filterNot"
    <3>1. IF truthy THEN Goes(pull, 0) ELSE Goes(pull, i + 1)
      BY <1>1, <1>6, <2>1, <2>5 DEF Judged
    <3> QED BY <1>7, <1>12, <1>13, <1>15, <1>17, <1>18, <2>5, <3>1
  <2>6. CASE stage.k = "takeWhile"
    <3>1. IF truthy THEN Goes(pull, i + 1) ELSE finish
      BY <1>1, <1>6, <2>1, <2>6 DEF Judged
    <3> QED BY <1>7, <1>11, <1>12, <1>15, <1>17, <1>19, <2>6, <3>1
  <2>7. CASE stage.k = "dropWhile"
    <3>1. m # 1
      BY <1>9, <1>21, <2>7
    <3>2. IF truthy THEN Goes(pull, 0)
          ELSE \E q : Held(q) /\ q.spent = pull.spent /\ q.cursor.stages[i].n = 1 /\ Goes(q, i + 1)
      BY <1>1, <1>6, <2>1, <2>7 DEF Judged
    <3>3. CASE truthy
      BY <1>10, <1>18, <2>7, <3>1, <3>2, <3>3
    <3>4. CASE ~truthy
      <4>1. PICK q : Held(q) /\ q.spent = pull.spent /\ q.cursor.stages[i].n = 1 /\ Goes(q, i + 1)
        BY <3>2, <3>4
      <4>2. Left(stage, U, Append(s, n), q.cursor.stages[i].n) /\ Lets(stage, U, s, n)
        BY <1>10, <2>7, <3>1, <3>4, <4>1
      <4> QED BY <1>15, <1>17, <2>7, <4>1, <4>2
    <3> QED BY <3>3, <3>4
  <2> QED BY <2>2, <2>3, <2>4, <2>5, <2>6, <2>7
<1> QED BY <1>20, <1>21

LEMMA MovingStep == IInv /\ [Next]_vars => IInv'
<1> SUFFICES ASSUME IInv, [Next]_vars PROVE IInv'
  OBVIOUS
<1>1. TInv'
  BY TypesStep DEF IInv
<1>2. TInv /\ \E g : Moving(g)
  BY DEF IInv
<1>3. PICK g : Moving(g)
  BY <1>2
<1>4. \E f : Moving(f)'
  <2>1. CASE HasNext
    <3>1. Ask(FALSE) /\ FALSE \in BOOLEAN
      BY <2>1 DEF HasNext
    <3>2. Moving(g)'
      BY <1>2, <1>3, <3>1, MovingAsk
    <3> QED BY <3>2
  <2>2. CASE NextElement
    <3>1. Ask(TRUE) /\ TRUE \in BOOLEAN
      BY <2>2 DEF NextElement
    <3>2. Moving(g)'
      BY <1>2, <1>3, <3>1, MovingAsk
    <3> QED BY <3>2
  <2>3. CASE pull_source
    <3>1. Moving(g)'
      BY <1>2, <1>3, <2>3, MovingSource
    <3> QED BY <3>1
  <2>4. CASE Take
    BY <1>2, <1>3, <2>4, MovingTake
  <2>5. CASE Drop
    BY <1>2, <1>3, <2>5, MovingDrop
  <2>6. CASE CallLambda
    BY <1>2, <1>3, <2>6, MovingLambda
  <2>7. CASE Deliver
    BY <1>2, <1>3, <2>7, MovingDeliver
  <2>8. CASE UNCHANGED vars
    <3>1. /\ stages' = stages /\ length' = length /\ Yes' = Yes /\ cursor' = cursor /\ level' = level
          /\ pull' = pull /\ pending' = pending /\ asked' = asked /\ said' = said /\ out' = out /\ heap' = heap
      BY <2>8 DEF vars, Yes, cursor, level
    <3>2. AsksNoFurther' <=> AsksNoFurther
      <4>1. Lists(asked - 1)' = Lists(asked - 1)
        BY <3>1 DEF Lists
      <4> QED BY <3>1, <4>1 DEF AsksNoFurther, Ended
    <3>3. Finishing(g)' /\ Delivered(g)' /\ Sparing(g)'
      BY <1>3, <3>1, <3>2 DEF Moving, Finishing, Delivered, Sparing
    <3>4. Flow(stages, Yes, cursor.at, level, cursor.stages, g)' /\ (~pending => Calls(stages, Yes, said, g))'
      BY <1>3, <3>1 DEF Moving
    <3>5. Moving(g)'
      BY <3>3, <3>4 DEF Moving
    <3> QED BY <3>5
  <2>9. CASE Failed
    BY <2>8, <2>9 DEF Failed
  <2> QED BY <2>1, <2>2, <2>3, <2>4, <2>5, <2>6, <2>7, <2>8, <2>9 DEF Next
<1> QED BY <1>1, <1>4 DEF IInv

(* ---- theorems ---------------------------------------------------------------------------------- *)

LEMMA Invariant == Spec => []IInv
BY MovingInit, MovingStep, PTL DEF Spec

\* Between two calls the lists of the elements asked for are what the stages have dealt with.
LEMMA AtRestLists ==
  ASSUME TInv, NEW g, Moving(g), AtRest
  PROVE  /\ Len(stages) \in Nat /\ DOMAIN stages = 1..Len(stages)
         /\ cursor = heap.cursor
         /\ \A i \in 0..Len(stages) : Lists(asked)[i] = g[i + 1]
         /\ Ended(asked) <=> \/ asked > length
                             \/ \E i \in DOMAIN stages : Full(stages, g, i) \/ Stopped(stages, Yes, g, i)
<1>1. level = 0 /\ cursor = heap.cursor
  BY DEF AtRest, level, cursor
<1>2. Flow(stages, Yes, cursor.at, 0, cursor.stages, g) /\ asked \in {cursor.at, asked} /\ ~pending
  BY <1>1 DEF Moving, AtRest
<1>3. Len(stages) \in Nat /\ DOMAIN stages = 1..Len(stages)
  BY PipelineIs DEF TInv
<1> QED BY <1>1, <1>2, <1>3, ListsAre

\* However hasNext() and next() alternate, whatever the lambdas answer and whether the
\* traversal stops early: what was delivered and what is parked are the elements the eager
\* operations make of the elements asked for (GenCursor::next and gen_iter_step,
\* host.rs:10035 and 10424).
THEOREM ListDelivered == Spec => []DeliversTheList
<1>1. IInv => DeliversTheList
  <2> SUFFICES ASSUME TInv, NEW g, Moving(g), AtRest
               PROVE  out \o (IF heap.ahead = None THEN <<>> ELSE <<heap.ahead>>) = Lists(asked)[Len(stages)]
    BY DEF IInv, DeliversTheList
  <2>1. Lists(asked)[Len(stages)] = g[Len(stages) + 1]
    <3>1. Len(stages) \in 0..Len(stages)
      BY AtRestLists
    <3> QED BY <3>1, AtRestLists
  <2> QED BY <2>1 DEF Moving, Delivered, AtRest
<1> QED BY <1>1, Invariant, PTL

\* The lambda of each stage has been called on the elements that reached the stage, once each
\* and in their order, and no more once a takeWhile or dropWhile has had its false answer.
THEOREM CalledInOrder == Spec => []CallsInOrder
<1>1. IInv => CallsInOrder
  <2> SUFFICES ASSUME TInv, NEW g, Moving(g), AtRest, NEW i \in DOMAIN stages, stages[i].k \in Lambdas
               PROVE  [j \in DOMAIN said[i] |-> said[i][j].x] = Called(stages[i], Yes[i], Lists(asked)[i - 1])
    BY DEF IInv, CallsInOrder
  <2>1. i \in 1..Len(stages) /\ i - 1 \in 0..Len(stages) /\ (i - 1) + 1 = i
    BY AtRestLists
  <2>2. Lists(asked)[i - 1] = g[i]
    <3>1. Lists(asked)[i - 1] = g[(i - 1) + 1]
      BY <2>1, AtRestLists
    <3> QED BY <2>1, <3>1
  <2>3. Arguments(said[i]) = Called(stages[i], Yes[i], g[i])
    BY <2>1 DEF Moving, Calls, AtRest
  <2> QED BY <2>2, <2>3 DEF Arguments
<1> QED BY <1>1, Invariant, PTL

\* A traversal is given up only where nothing more could be delivered: the source has no
\* further element, or a take or takeWhile lets none pass.
THEOREM OverAtTheEnd == Spec => []EndsAtTheEnd
<1>1. IInv => EndsAtTheEnd
  <2> SUFFICES ASSUME TInv, NEW g, Moving(g), AtRest, heap.cursor.finished PROVE Ended(asked)
    BY DEF IInv, EndsAtTheEnd
  <2>1. asked > length \/ \E i \in DOMAIN stages : Full(stages, g, i) \/ Stopped(stages, Yes, g, i)
    BY AtRestLists DEF Moving, Finishing, AtRest
  <2> QED BY <2>1, AtRestLists
<1> QED BY <1>1, Invariant, PTL

\* The source is not asked for an element once none could pass the stages: with a take whose
\* last element has passed, or a takeWhile whose lambda has answered false, the traversal is
\* over without another pull (host.rs:9922).  Behind a take that only stages follow that drop
\* no element: a filter after it would have the code ask on.
THEOREM NoFurtherAsked ==
  ASSUME \A p \in Pipelines : Passing(p)
  PROVE  Spec => []AsksNoFurther
<1>1. IInv => AsksNoFurther
  BY DEF IInv, TInv, Moving, Sparing
<1> QED BY <1>1, Invariant, PTL
=============================================================================

--------------------------- MODULE CollectionsProofs ---------------------------
(***************************************************************************)
(* The array of a queue is a heap between calls, and the queue is the bag   *)
(* that java.util.PriorityQueue promises, for every set of elements, every  *)
(* comparator by key, every size and wherever the comparator throws.        *)
(*                                                                          *)
(* The index of a map is right, whatever the keys, their hashes and the     *)
(* comparator: as long as every key has an IndexKey and no lambda uses the  *)
(* map that asked it.  The map is a second collection beside the queue      *)
(* (Maps), and its part of the module begins at its constants.              *)
(***************************************************************************)
EXTENDS PriorityQueue, TLAPS, SequenceTheorems, WellFoundedInduction, FiniteSetTheorems

\* Element j does not precede its parent.
Fits(a, j) == ~Less(a[j], a[j \div 2])

\* Whose children are in order while a collection is heapified: the slots from
\* lo on.  For every other member lo is the root.
lo == IF op = "construct" THEN from ELSE 1

\* While x sinks: everything fits but at the hole, the hole's children fit its
\* parent, and so does x unless it has not moved yet.
Sinks ==
  /\ \A j \in 2..Len(es) : j # k /\ j \div 2 # k /\ j \div 2 >= lo => Fits(es, j)
  /\ \A j \in 2..Len(es) : j \div 2 = k /\ k \div 2 >= lo => ~Less(es[j], es[k \div 2])
  /\ k \div 2 >= lo /\ k # from => ~Less(x, es[k \div 2])

\* While x rises: everything fits but at the hole, the hole's children fit x
\* and the hole's parent.
Rises ==
  /\ \A j \in 2..Len(es) : j # k /\ j \div 2 # k => Fits(es, j)
  /\ \A j \in 2..Len(es) : j \div 2 = k => ~Less(es[j], x)
  /\ \A j \in 2..Len(es) : j \div 2 = k /\ k > 1 => ~Less(es[j], es[k \div 2])

\* Which member sifts which way, and what it has left to do.
Sift ==
  /\ op # "none" /\ dir = "up" => op \in {"offer", "addAll", "remove"}
  /\ op # "none" /\ dir = "down" =>
       /\ op \in {"construct", "poll", "remove"} /\ more = <<>>
       /\ k >= from /\ (k # from => Less(es[from], x))
       /\ (op = "poll" => from = 1)
  /\ ordered => ~pending

IInv ==
  /\ TypeOK /\ Sift /\ HeapOrdered
  /\ ordered /\ op # "none" /\ dir = "down" => Sinks
  /\ ordered /\ op # "none" /\ dir = "up" => Rises

(* ---- arithmetic and arrays -------------------------------------------------------------- *)

LEMMA Halves ==
  ASSUME NEW j \in Nat
  PROVE  /\ j \div 2 \in Nat
         /\ j > 0 => j \div 2 < j
         /\ j > 1 => j \div 2 >= 1
OBVIOUS

LEMMA Children ==
  ASSUME NEW j \in Nat, NEW i \in Nat
  PROVE  j \div 2 = i <=> j = 2 * i \/ j = 2 * i + 1
OBVIOUS

\* The comparator's order by key, as far as the sifts rely on it.
LEMMA Order ==
  ASSUME NEW a \in Elements, NEW b \in Elements, NEW c \in Elements
  PROVE  /\ Less(a, b) => ~Less(b, a) /\ a # b
         /\ ~Less(b, a) /\ ~Less(c, b) => ~Less(c, a)
         /\ ~Less(a, b) /\ Less(c, b) => ~Less(a, c)
BY QueueAssumption DEF Less

LEMMA Replaced ==
  ASSUME NEW a \in Seq(Elements), NEW i \in 1..Len(a), NEW e \in Elements
  PROVE  /\ [a EXCEPT ![i] = e] \in Seq(Elements)
         /\ Len([a EXCEPT ![i] = e]) = Len(a)
         /\ [a EXCEPT ![i] = e][i] = e
         /\ \A j \in 1..Len(a) : j # i => [a EXCEPT ![i] = e][j] = a[j]
OBVIOUS

(* ---- how often an element occurs ------------------------------------------------------------ *)

At(s, e) == {i \in 1..Len(s) : s[i] = e}
Times(s, e) == Cardinality(At(s, e))

\* A number, and more than none exactly if the element is there.
LEMMA TimesType ==
  ASSUME NEW s \in Seq(Elements), NEW e
  PROVE  /\ IsFiniteSet(At(s, e)) /\ Times(s, e) \in Nat
         /\ Times(s, e) > 0 <=> \E i \in 1..Len(s) : s[i] = e
<1>1. IsFiniteSet(1..Len(s)) /\ At(s, e) \in SUBSET (1..Len(s))
  BY FS_Interval, LenProperties DEF At
<1>2. IsFiniteSet(At(s, e))
  BY <1>1, FS_Subset
<1>3. Times(s, e) \in Nat
  BY <1>2, FS_CardinalityType DEF Times
<1>4. Times(s, e) = 0 <=> At(s, e) = {}
  BY <1>2, FS_EmptySet DEF Times
<1> QED
  BY <1>2, <1>3, <1>4 DEF At

\* Two arrays that differ in one slot.
LEMMA TimesPut ==
  ASSUME NEW s \in Seq(Elements), NEW i \in 1..Len(s), NEW y \in Elements, NEW e \in Elements
  PROVE  Times([s EXCEPT ![i] = y], e) + (IF s[i] = e THEN 1 ELSE 0) = Times(s, e) + (IF y = e THEN 1 ELSE 0)
<1> DEFINE t == [s EXCEPT ![i] = y]
           R == At(s, e) \ {i}
<1>1. t \in Seq(Elements) /\ Len(t) = Len(s) /\ t[i] = y /\ \A j \in 1..Len(s) : j # i => t[j] = s[j]
  OBVIOUS
<1>2. IsFiniteSet(R)
  BY TimesType, FS_RemoveElement
<1>3. i \notin R /\ Cardinality(R \cup {i}) = Cardinality(R) + 1 /\ Cardinality(R) \in Nat
  BY <1>2, FS_AddElement, FS_CardinalityType
<1>4. At(s, e) = IF s[i] = e THEN R \cup {i} ELSE R
  BY DEF At
<1>5. At(t, e) = IF y = e THEN R \cup {i} ELSE R
  <2> HIDE DEF t
  <2> QED BY <1>1 DEF At
<1> HIDE DEF t, R
<1>6. Times(t, e) = Cardinality(R) + (IF y = e THEN 1 ELSE 0)
  BY <1>3, <1>5 DEF Times
<1>7. Times(s, e) = Cardinality(R) + (IF s[i] = e THEN 1 ELSE 0)
  BY <1>3, <1>4 DEF Times
<1> QED
  BY <1>3, <1>6, <1>7 DEF t

\* An array that grows by one element.
LEMMA TimesAppend ==
  ASSUME NEW s \in Seq(Elements), NEW y \in Elements, NEW e \in Elements
  PROVE  Times(Append(s, y), e) = Times(s, e) + (IF y = e THEN 1 ELSE 0)
<1> DEFINE t == Append(s, y)
           n == Len(s) + 1
<1>1. t \in Seq(Elements) /\ Len(t) = n /\ t[n] = y /\ \A j \in 1..Len(s) : t[j] = s[j]
  BY AppendProperties
<1>2. Len(s) \in Nat
  OBVIOUS
<1> HIDE DEF t
<1>3. At(t, e) = IF y = e THEN At(s, e) \cup {n} ELSE At(s, e)
  BY <1>1, <1>2 DEF At
<1>4. n \notin At(s, e)
  BY <1>2 DEF At
<1>5. IsFiniteSet(At(s, e)) /\ Times(s, e) \in Nat
  BY TimesType
<1>6. Cardinality(At(s, e) \cup {n}) = Times(s, e) + 1
  BY <1>4, <1>5, FS_AddElement DEF Times
<1> QED
  BY <1>3, <1>5, <1>6 DEF Times, t

\* The array of nothing, and of one element.
LEMMA TimesNone ==
  ASSUME NEW e PROVE Times(<<>>, e) = 0
<1>1. At(<<>>, e) = {}
  BY DEF At
<1> QED
  BY <1>1, FS_EmptySet DEF Times

LEMMA TimesOne ==
  ASSUME NEW y \in Elements, NEW e \in Elements PROVE Times(<<y>>, e) = IF y = e THEN 1 ELSE 0
<1>1. At(<<y>>, e) = IF y = e THEN {1} ELSE {}
  BY DEF At
<1> QED
  BY <1>1, FS_EmptySet, FS_Singleton DEF Times

\* An array is its front and the last element, and its head and its tail.
LEMMA FrontIs ==
  ASSUME NEW s \in Seq(Elements), s # <<>>
  PROVE  LET f == SubSeq(s, 1, Len(s) - 1) IN
           /\ f \in Seq(Elements) /\ Len(f) = Len(s) - 1
           /\ \A i \in 1..(Len(s) - 1) : f[i] = s[i]
           /\ s = Append(f, s[Len(s)])
<1> DEFINE n == Len(s) - 1
           f == SubSeq(s, 1, n)
<1>1. n \in Nat /\ Len(s) = n + 1 /\ s[n + 1] \in Elements
  BY EmptySeq, LenProperties, ElementOfSeq
<1> HIDE DEF n
<1>2. f \in Seq(Elements) /\ Len(f) = n /\ \A i \in 1..n : f[i] = s[i]
  <2>1. \A i \in 1..n : s[i] \in Elements
    BY <1>1, ElementOfSeq
  <2>2. /\ SubSeq(s, 1, n) \in Seq(Elements)
        /\ Len(SubSeq(s, 1, n)) = IF 1 <= n THEN n - 1 + 1 ELSE 0
        /\ \A i \in 1..(n - 1 + 1) : SubSeq(s, 1, n)[i] = s[1 + i - 1]
    BY <1>1, <2>1, SubSeqProperties
  <2> QED BY <1>1, <2>2
<1> HIDE DEF f
<1>3. s = Append(f, s[n + 1])
  <2>1. /\ Append(f, s[n + 1]) \in Seq(Elements) /\ Len(Append(f, s[n + 1])) = n + 1
        /\ \A i \in 1..n : Append(f, s[n + 1])[i] = f[i]
        /\ Append(f, s[n + 1])[n + 1] = s[n + 1]
    BY <1>1, <1>2, AppendProperties
  <2> QED BY <1>1, <1>2, <2>1
<1>4. n = Len(s) - 1 /\ n + 1 = Len(s)
  BY <1>1 DEF n
<1> QED
  BY <1>2, <1>3, <1>4 DEF f

LEMMA TimesFront ==
  ASSUME NEW s \in Seq(Elements), s # <<>>, NEW e \in Elements
  PROVE  Times(s, e) = Times(SubSeq(s, 1, Len(s) - 1), e) + (IF s[Len(s)] = e THEN 1 ELSE 0)
<1>1. PICK f, y : f = SubSeq(s, 1, Len(s) - 1) /\ y = s[Len(s)]
  OBVIOUS
<1>2. f \in Seq(Elements) /\ s = Append(f, y)
  BY <1>1, FrontIs
<1>3. y \in Elements
  BY <1>1, EmptySeq, LenProperties, ElementOfSeq
<1>4. Times(Append(f, y), e) = Times(f, e) + (IF y = e THEN 1 ELSE 0)
  BY <1>2, <1>3, TimesAppend
<1> QED
  BY <1>1, <1>2, <1>4

LEMMA TimesTail ==
  ASSUME NEW s \in Seq(Elements), s # <<>>, NEW e \in Elements
  PROVE  Times(s, e) = Times(Tail(s), e) + (IF Head(s) = e THEN 1 ELSE 0)
<1> DEFINE t == Tail(s)
           R == At(s, e) \ {1}
           h == [i \in At(t, e) |-> i + 1]
<1>1. /\ t \in Seq(Elements) /\ Len(s) \in Nat /\ Len(s) > 0 /\ Len(t) = Len(s) - 1
      /\ \A i \in 1..Len(t) : t[i] = s[i + 1]
      /\ Head(s) = s[1]
  BY HeadTailProperties, EmptySeq, LenProperties
<1> HIDE DEF t
<1>2. h \in Bijection(At(t, e), R)
  <2>1. \A i \in At(t, e) : i \in Nat /\ i + 1 \in R
    BY <1>1 DEF At
  <2>2. \A j \in R : j - 1 \in At(t, e) /\ (j - 1) + 1 = j
    BY <1>1 DEF At
  <2>3. h \in Injection(At(t, e), R)
    BY <2>1 DEF Injection, IsInjective
  <2>4. h \in Surjection(At(t, e), R)
    BY <2>1, <2>2 DEF Surjection
  <2> QED BY <2>3, <2>4 DEF Bijection
<1>3. Cardinality(R) = Times(t, e) /\ IsFiniteSet(R)
  BY <1>1, <1>2, TimesType, FS_Bijection DEF ExistsBijection, Times
<1>4. At(s, e) = IF Head(s) = e THEN R \cup {1} ELSE R
  BY <1>1 DEF At
<1>5. Cardinality(R \cup {1}) = Cardinality(R) + 1
  BY <1>3, FS_AddElement
<1>6. Times(t, e) \in Nat
  BY <1>1, TimesType
<1>7. Times(s, e) = Times(t, e) + (IF Head(s) = e THEN 1 ELSE 0)
  <2>1. CASE Head(s) = e
    BY <2>1, <1>3, <1>4, <1>5 DEF Times
  <2>2. CASE Head(s) # e
    BY <2>2, <1>3, <1>4, <1>6, SMTT(30) DEF Times
  <2> QED BY <2>1, <2>2
<1> QED
  BY <1>7 DEF t

(* ---- the elements of an array that are in a set ----------------------------------------- *)

\* The members of a finite set of slots are numbered by how many of them are no later.
LEMMA Ranks ==
  ASSUME NEW n \in Nat, NEW K \in SUBSET (1..n)
  PROVE  [i \in K |-> Cardinality(K \cap 1..i)] \in Bijection(K, 1..Cardinality(K))
<1> DEFINE m == Cardinality(K)
           rank == [i \in K |-> Cardinality(K \cap 1..i)]
<1>1. IsFiniteSet(K) /\ m \in Nat
  <2>1. IsFiniteSet(1..n)
    BY FS_Interval
  <2>2. IsFiniteSet(K)
    BY <2>1, FS_Subset
  <2> QED BY <2>2, FS_CardinalityType
<1>2. \A i \in K : IsFiniteSet(K \cap 1..i) /\ Cardinality(K \cap 1..i) \in 1..m
  <2> TAKE i \in K
  <2>1. K \cap 1..i \in SUBSET K /\ i \in K \cap 1..i
    OBVIOUS
  <2>2. IsFiniteSet(K \cap 1..i) /\ Cardinality(K \cap 1..i) <= m
    BY <1>1, <2>1, FS_Subset
  <2>3. Cardinality(K \cap 1..i) \in Nat /\ Cardinality(K \cap 1..i) # 0
    BY <2>1, <2>2, FS_CardinalityType, FS_EmptySet
  <2> QED BY <1>1, <2>2, <2>3
<1>3. ASSUME NEW i \in K, NEW j \in K, Cardinality(K \cap 1..i) = Cardinality(K \cap 1..j), i < j
      PROVE  FALSE
  <2>1. K \cap 1..i \in SUBSET (K \cap 1..j) /\ j \in K \cap 1..j /\ j \notin K \cap 1..i
    BY <1>3
  <2>2. K \cap 1..i = K \cap 1..j
    BY <1>2, <1>3, <2>1, FS_Subset
  <2> QED BY <2>1, <2>2
<1>4. rank \in Injection(K, 1..m)
  <2>1. rank \in [K -> 1..m]
    BY <1>2
  <2>2. \A i, j \in K : rank[i] = rank[j] => i = j
    <3> TAKE i, j \in K
    <3> HAVE rank[i] = rank[j]
    <3>1. ~(i < j) /\ ~(j < i) /\ i \in Nat /\ j \in Nat
      BY <1>3
    <3> QED BY <3>1
  <2> HIDE DEF rank
  <2> QED BY <2>1, <2>2 DEF Injection, IsInjective
<1>5. IsFiniteSet(1..m) /\ Cardinality(1..m) = m
  BY <1>1, FS_Interval
<1> HIDE DEF rank
<1>6. rank \in Surjection(K, 1..m)
  BY <1>4, <1>5, FS_Injection
<1>7. rank \in Bijection(K, 1..m)
  BY <1>4, <1>6 DEF Bijection
<1> QED BY <1>7 DEF rank

\* Those takes each slot it wants once.
Takes(a, S, K, m) == m \in Nat /\ \E g \in Bijection(1..m, K) : Those(a, S) = [j \in 1..m |-> a[g[j]]]

LEMMA ThoseAre ==
  ASSUME NEW a \in Seq(Elements), NEW S
  PROVE  LET K == {i \in 1..Len(a) : a[i] \in S} IN Takes(a, S, K, Cardinality(K))
<1> DEFINE K == {i \in 1..Len(a) : a[i] \in S}
           m == Cardinality(K)
           rank == [i \in K |-> Cardinality(K \cap 1..i)]
           g == [j \in 1..m |-> CHOOSE i \in K : Cardinality(K \cap 1..i) = j]
<1>1. Len(a) \in Nat /\ K \in SUBSET (1..Len(a))
  OBVIOUS
<1>2. DOMAIN a = 1..Len(a)
  BY LenProperties
<1>3. Those(a, S) = [j \in 1..m |-> a[CHOOSE i \in K : Cardinality(K \cap 1..i) = j]]
  BY <1>2 DEF Those
<1>4. \A j \in 1..m : g[j] = CHOOSE i \in K : Cardinality(K \cap 1..i) = j
  OBVIOUS
<1>5. Those(a, S) = [j \in 1..m |-> a[g[j]]]
  BY <1>3
<1> HIDE DEF K
<1>6. rank \in Bijection(K, 1..m)
  BY <1>1, Ranks
<1>7. /\ \A i \in K : Cardinality(K \cap 1..i) \in 1..m
      /\ \A i, j \in K : Cardinality(K \cap 1..i) = Cardinality(K \cap 1..j) => i = j
      /\ \A j \in 1..m : \E i \in K : Cardinality(K \cap 1..i) = j
  BY <1>6 DEF Bijection, Injection, Surjection, IsInjective
<1>8. \A j \in 1..m : g[j] \in K /\ Cardinality(K \cap 1..g[j]) = j
  BY <1>7
<1>9. g \in [1..m -> K]
  BY <1>8
<1> HIDE DEF g
<1>10. g \in Injection(1..m, K)
  <2>1. \A i, j \in 1..m : g[i] = g[j] => i = j
    BY <1>8
  <2> QED BY <1>9, <2>1 DEF Injection, IsInjective
<1>11. \A i \in K : \E j \in 1..m : g[j] = i
  BY <1>7, <1>8
<1>12. g \in Bijection(1..m, K)
  BY <1>9, <1>10, <1>11 DEF Bijection, Surjection
<1>13. m \in Nat
  <2>1. IsFiniteSet(1..Len(a))
    BY <1>1, FS_Interval
  <2>2. IsFiniteSet(K)
    BY <1>1, <2>1, FS_Subset
  <2> QED BY <2>2, FS_CardinalityType
<1>14. Takes(a, S, K, m)
  BY <1>5, <1>12, <1>13 DEF Takes
<1> QED
  BY <1>14 DEF K

\* So what is taken of an array is all there is of the elements wanted, and none of the others.
LEMMA ThoseTimes ==
  ASSUME NEW a \in Seq(Elements), NEW S
  PROVE  /\ Those(a, S) \in Seq(Elements)
         /\ \A e \in Elements : Times(Those(a, S), e) = IF e \in S THEN Times(a, e) ELSE 0
<1>1. PICK K : K = {i \in 1..Len(a) : a[i] \in S}
  OBVIOUS
<1>2. PICK m : m = Cardinality(K)
  OBVIOUS
<1>3. m \in Nat /\ \E g \in Bijection(1..m, K) : Those(a, S) = [j \in 1..m |-> a[g[j]]]
  <2>1. Takes(a, S, {i \in 1..Len(a) : a[i] \in S}, Cardinality({i \in 1..Len(a) : a[i] \in S}))
    BY ThoseAre, Zenon
  <2> QED BY <1>1, <1>2, <2>1 DEF Takes
<1>4. PICK g \in Bijection(1..m, K) : Those(a, S) = [j \in 1..m |-> a[g[j]]]
  BY <1>3
<1>5. /\ g \in [1..m -> K]
      /\ \A i, j \in 1..m : g[i] = g[j] => i = j
      /\ \A i \in K : \E j \in 1..m : g[j] = i
  BY DEF Bijection, Injection, Surjection, IsInjective
<1>6. \A j \in 1..m : g[j] \in 1..Len(a) /\ a[g[j]] \in S /\ a[g[j]] \in Elements
  BY <1>1, <1>5, ElementOfSeq
<1>7. PICK b : b = Those(a, S)
  OBVIOUS
<1>8. b \in Seq(Elements) /\ Len(b) = m /\ \A j \in 1..m : b[j] = a[g[j]]
  <2>1. b \in [1..m -> Elements]
    BY <1>4, <1>6, <1>7
  <2>2. b \in Seq(Elements)
    BY <1>3, <2>1, SeqDef
  <2> QED BY <1>3, <1>4, <1>7, <2>1, <2>2, LenProperties
<1>9. ASSUME NEW e \in Elements, e \in S
      PROVE  Times(b, e) = Times(a, e)
  <2> DEFINE h == [j \in At(b, e) |-> g[j]]
  <2>1. \A j \in At(b, e) : j \in 1..m /\ g[j] \in At(a, e)
    BY <1>6, <1>8 DEF At
  <2>2. \A i \in At(a, e) : \E j \in At(b, e) : g[j] = i
    <3> TAKE i \in At(a, e)
    <3>1. i \in K /\ a[i] = e
      BY <1>1, <1>9 DEF At
    <3>2. PICK j \in 1..m : g[j] = i
      BY <1>5, <3>1
    <3>3. j \in At(b, e)
      BY <1>8, <3>1, <3>2 DEF At
    <3> QED BY <3>2, <3>3
  <2>3. h \in Injection(At(b, e), At(a, e))
    BY <1>5, <2>1 DEF Injection, IsInjective
  <2>4. h \in Surjection(At(b, e), At(a, e))
    BY <2>1, <2>2 DEF Surjection
  <2>5. h \in Bijection(At(b, e), At(a, e))
    BY <2>3, <2>4 DEF Bijection
  <2> HIDE DEF h
  <2> QED BY <1>8, <2>5, TimesType, FS_Bijection DEF ExistsBijection, Times
<1>10. ASSUME NEW e \in Elements, e \notin S
       PROVE  Times(b, e) = 0
  <2>1. At(b, e) = {}
    BY <1>6, <1>8, <1>10 DEF At
  <2> QED BY <2>1, FS_EmptySet DEF Times
<1> QED
  BY <1>7, <1>8, <1>9, <1>10

(* ---- the sifts ---------------------------------------------------------------------------- *)

LEMMA RisesFurther ==
  ASSUME TypeOK, op # "none", dir = "up", Rises, k > 1, Less(x, es[k \div 2]), Move(k \div 2)
  PROVE  Rises'
<1> DEFINE p == k \div 2
<1>1. /\ k \in 1..Len(es) /\ es \in Seq(Elements) /\ x \in Elements
      /\ p \in 1..Len(es) /\ p < k
  BY Halves DEF TypeOK
<1>2. /\ k' = p /\ x' = x /\ es' \in Seq(Elements) /\ Len(es') = Len(es) /\ es'[k] = es[p]
      /\ \A j \in 1..Len(es) : j # k => es'[j] = es[j]
  BY <1>1, Replaced, ElementOfSeq DEF Move
<1>3. \A j \in 1..Len(es) : es[j] \in Elements /\ es'[j] \in Elements
  BY <1>1, <1>2, ElementOfSeq
<1>4. \A j \in 2..Len(es) : j \div 2 \in 1..Len(es) /\ j \div 2 < j
  BY <1>1, Halves
<1> HIDE DEF p
<1>5. ASSUME NEW j \in 2..Len(es), j # p, j \div 2 # p
      PROVE  ~Less(es'[j], es'[j \div 2])
  <2>1. j # k
    BY <1>5 DEF p
  <2>2. CASE j \div 2 = k
    <3>1. ~Less(es[j], es[p])
      BY <2>2, <1>1 DEF Rises, p
    <3>2. QED
      BY <3>1, <2>1, <2>2, <1>2
  <2>3. CASE j \div 2 # k
    <3>1. ~Less(es[j], es[j \div 2])
      BY <2>1, <2>3 DEF Rises, Fits
    <3>2. QED
      BY <3>1, <2>1, <2>3, <1>2, <1>4
  <2>4. QED
    BY <2>2, <2>3
<1>6. ASSUME NEW j \in 2..Len(es), j \div 2 = p
      PROVE  ~Less(es'[j], x) /\ (p > 1 => ~Less(es'[j], es'[p \div 2]))
  <2>1. ~Less(es'[j], es[p])
    <3>1. CASE j = k
      BY <3>1, <1>1, <1>2, <1>3, Order
    <3>2. CASE j # k
      <4>1. ~Less(es[j], es[j \div 2])
        BY <3>2, <1>1, <1>6 DEF Rises, Fits
      <4>2. QED
        BY <4>1, <3>2, <1>2, <1>6
    <3>3. QED
      BY <3>1, <3>2
  <2>2. ~Less(es'[j], x)
    BY <2>1, <1>1, <1>3, Order DEF p
  <2>3. ASSUME p > 1
        PROVE  ~Less(es'[j], es'[p \div 2])
    <3>1. p \in 2..Len(es) /\ p \div 2 \in 1..Len(es) /\ p \div 2 # k /\ p # k
      BY <2>3, <1>1, <1>4
    <3>2. ~Less(es[p], es[p \div 2])
      BY <3>1 DEF Rises, Fits
    <3>3. es'[p \div 2] = es[p \div 2]
      BY <3>1, <1>2
    <3>4. QED
      BY <2>1, <3>1, <3>2, <3>3, <1>1, <1>3, Order
  <2>4. QED
    BY <2>2, <2>3
<1>7. QED
  BY <1>2, <1>5, <1>6 DEF Rises, Fits

LEMMA SmallerChild ==
  ASSUME TypeOK, op # "none", 2 * k <= Len(es)
  PROVE  /\ Child \in 2..Len(es) /\ Child \div 2 = k /\ Child > k
         /\ \A j \in 2..Len(es) : j \div 2 = k => ~Less(es[j], es[Child])
<1>1. k \in 1..Len(es) /\ es \in Seq(Elements)
  BY DEF TypeOK
<1>2. Child \in 2..Len(es) /\ Child \div 2 = k /\ Child > k
  BY <1>1, Children DEF Child
<1>3. ASSUME NEW j \in 2..Len(es), j \div 2 = k
      PROVE  ~Less(es[j], es[Child])
  <2>1. j = 2 * k \/ j = 2 * k + 1
    BY <1>1, <1>3, Children
  <2>2. \A i \in 1..Len(es) : es[i] \in Elements
    BY <1>1, ElementOfSeq
  <2>3. 2 * k \in 1..Len(es) /\ 2 * k # 2 * k + 1
    BY <1>1
  <2>4. CASE 2 * k + 1 <= Len(es) /\ Less(es[2 * k + 1], es[2 * k])
    BY <2>1, <2>2, <2>3, <2>4, Order DEF Child
  <2>5. CASE ~(2 * k + 1 <= Len(es) /\ Less(es[2 * k + 1], es[2 * k]))
    BY <2>1, <2>2, <2>3, <2>5, Order DEF Child
  <2>6. QED
    BY <2>4, <2>5
<1>4. QED
  BY <1>2, <1>3

LEMMA SinksFurther ==
  ASSUME TypeOK, Sift, op # "none", dir = "down", Sinks, 2 * k <= Len(es),
         Less(es[Child], x), Move(Child)
  PROVE  Sinks'
<1>1. PICK c \in 2..Len(es) : c = Child
  BY SmallerChild
<1>2. /\ k \in 1..Len(es) /\ from \in 1..Len(es) /\ es \in Seq(Elements) /\ x \in Elements
      /\ c \div 2 = k /\ c > k /\ k >= from
      /\ \A j \in 2..Len(es) : j \div 2 = k => ~Less(es[j], es[c])
  BY <1>1, SmallerChild DEF TypeOK, Sift
<1>3. /\ k' = c /\ x' = x /\ es' \in Seq(Elements) /\ Len(es') = Len(es) /\ es'[k] = es[c]
      /\ \A j \in 1..Len(es) : j # k => es'[j] = es[j]
      /\ op' = op /\ from' = from
  BY <1>1, <1>2, Replaced, ElementOfSeq DEF Move
<1>4. \A j \in 1..Len(es) : es[j] \in Elements /\ es'[j] \in Elements
  BY <1>2, <1>3, ElementOfSeq
<1>5. \A j \in 2..Len(es) : j \div 2 \in 1..Len(es) /\ j \div 2 < j
  BY <1>2, Halves
<1>6. lo' = lo /\ lo \in 1..k
  BY <1>2, <1>3 DEF lo
<1>7. Less(es[c], x)
  BY <1>1
<1>8. ASSUME NEW j \in 2..Len(es), j # c, j \div 2 # c, j \div 2 >= lo
      PROVE  ~Less(es'[j], es'[j \div 2])
  <2>1. CASE j = k
    <3>1. ~Less(es[c], es[k \div 2])
      BY <1>2, <1>8, <2>1 DEF Sinks
    <3>2. QED
      BY <2>1, <3>1, <1>3, <1>5
  <2>2. CASE j # k /\ j \div 2 = k
    BY <2>2, <1>2, <1>3
  <2>3. CASE j # k /\ j \div 2 # k
    <3>1. ~Less(es[j], es[j \div 2])
      BY <2>3, <1>8 DEF Sinks, Fits
    <3>2. QED
      BY <2>3, <3>1, <1>3, <1>5
  <2>4. QED
    BY <2>1, <2>2, <2>3
<1>9. ASSUME NEW j \in 2..Len(es), j \div 2 = c
      PROVE  ~Less(es'[j], es'[k])
  <2>1. ~Less(es[j], es[c])
    BY <1>2, <1>6, <1>9 DEF Sinks, Fits
  <2>2. j # k
    BY <1>2, <1>5, <1>9
  <2>3. QED
    BY <2>1, <2>2, <1>3
<1>10. ~Less(x, es'[k])
  BY <1>1, <1>2, <1>3, <1>4, <1>7, Order
<1>11. QED
  BY <1>2, <1>3, <1>6, <1>8, <1>9, <1>10 DEF Sinks, Fits

\* Where x is put, the rest of the array is what it was.
LEMMA Put ==
  ASSUME TypeOK, op # "none"
  PROVE  LET a == [es EXCEPT ![k] = x] IN
           /\ a \in Seq(Elements) /\ Len(a) = Len(es) /\ a[k] = x
           /\ \A j \in 1..Len(es) : j # k => a[j] = es[j]
           /\ \A j \in 1..Len(es) : a[j] \in Elements
<1>1. k \in 1..Len(es) /\ es \in Seq(Elements) /\ x \in Elements
  BY DEF TypeOK
<1>2. [es EXCEPT ![k] = x] \in Seq(Elements) /\ Len([es EXCEPT ![k] = x]) = Len(es)
  BY <1>1, Replaced
<1>3. QED
  BY <1>1, <1>2, Replaced, ElementOfSeq

\* x has risen to its place: the array is a heap.
LEMMA HasRisen ==
  ASSUME TypeOK, op # "none", dir = "up", Rises, k = 1 \/ ~Less(x, es[k \div 2]),
         NEW j \in 2..Len(es)
  PROVE  Fits([es EXCEPT ![k] = x], j)
<1> DEFINE a == [es EXCEPT ![k] = x]
<1>1. /\ a[k] = x /\ k \in 1..Len(es) /\ x \in Elements
      /\ \A i \in 1..Len(es) : i # k => a[i] = es[i]
  BY Put DEF TypeOK
<1>2. j \div 2 \in 1..Len(es) /\ j \div 2 < j
  BY Halves
<1>0. SUFFICES ~Less(a[j], a[j \div 2])
  BY DEF Fits
<1> HIDE DEF a
<1>3. CASE j = k
  BY <1>1, <1>2, <1>3
<1>4. CASE j # k /\ j \div 2 = k
  <2>1. ~Less(es[j], x)
    BY <1>4 DEF Rises
  <2>2. QED
    BY <2>1, <1>1, <1>4
<1>5. CASE j # k /\ j \div 2 # k
  <2>1. ~Less(es[j], es[j \div 2])
    BY <1>5 DEF Rises, Fits
  <2>2. QED
    BY <2>1, <1>1, <1>2, <1>5
<1>6. QED
  BY <1>3, <1>4, <1>5

\* x has sunk to its place: it may only be that an element which remove(o)
\* moved, and which has not sunk at all, precedes its parent.
LEMMA HasSunk ==
  ASSUME TypeOK, Sift, op # "none", dir = "down", Sinks,
         \A i \in 2..Len(es) : i \div 2 = k => ~Less(es[i], x),
         NEW j \in 2..Len(es), j \div 2 >= lo, j = k => k # from
  PROVE  Fits([es EXCEPT ![k] = x], j)
<1> DEFINE a == [es EXCEPT ![k] = x]
<1>1. /\ a[k] = x /\ k \in 1..Len(es) /\ x \in Elements
      /\ \A i \in 1..Len(es) : i # k => a[i] = es[i]
  BY Put DEF TypeOK
<1>2. j \div 2 \in 1..Len(es) /\ j \div 2 < j
  BY Halves
<1>0. SUFFICES ~Less(a[j], a[j \div 2])
  BY DEF Fits
<1> HIDE DEF a
<1>3. CASE j = k
  <2>1. ~Less(x, es[k \div 2])
    BY <1>3 DEF Sinks
  <2>2. QED
    BY <2>1, <1>1, <1>2, <1>3
<1>4. CASE j # k /\ j \div 2 = k
  BY <1>1, <1>4
<1>5. CASE j # k /\ j \div 2 # k
  <2>1. ~Less(es[j], es[j \div 2])
    BY <1>5 DEF Sinks, Fits
  <2>2. QED
    BY <2>1, <1>1, <1>2, <1>5
<1>6. QED
  BY <1>3, <1>4, <1>5
(* ---- a member goes on, or ends ------------------------------------------------------------- *)

\* What a sift that stops has found out, if no comparator has thrown.
Stopped ==
  /\ dir = "up" => k = 1 \/ ~Less(x, es[k \div 2])
  /\ dir = "down" => \A i \in 2..Len(es) : i \div 2 = k => ~Less(es[i], x)

LEMMA AnyElementType == AnyElement \in Elements
BY QueueAssumption DEF AnyElement

LEMMA AddsNext ==
  ASSUME IInv, op # "none", Place, more # <<>>,
         pending' \in BOOLEAN, ordered' \in BOOLEAN, ordered' => ordered /\ ~pending' /\ Stopped
  PROVE  IInv'
<1> DEFINE a == [es EXCEPT ![k] = x]
           b == Append(a, Head(more))
           n == Len(es) + 1
<1>1. /\ TypeOK /\ Sift /\ dir = "up" /\ op \in {"offer", "addAll", "remove"}
      /\ more \in Seq(Elements)
  BY DEF IInv, Sift, TypeOK
<1>2. /\ a \in Seq(Elements) /\ Len(a) = Len(es) /\ Len(es) \in Nat
      /\ Head(more) \in Elements /\ Tail(more) \in Seq(Elements)
  BY <1>1, Put, HeadTailProperties DEF TypeOK
<1>3. /\ dir' = "up" /\ es' = b /\ k' = n /\ x' = b[n] /\ from' = n
      /\ more' = Tail(more) /\ op' = op
      /\ UNCHANGED <<queue, last, given, taken>>
  BY <1>2 DEF Place, Placed, Hole
<1>4. /\ b \in Seq(Elements) /\ Len(b) = n /\ b[n] \in Elements
      /\ \A j \in 1..Len(es) : b[j] = a[j]
  <2> HIDE DEF a
  <2>1. QED
    BY <1>2, AppendProperties
<1>5. TypeOK'
  <2> HIDE DEF a, b
  <2>1. n \in 1..Len(b)
    BY <1>2, <1>4
  <2>2. QED
    BY <1>1, <1>2, <1>3, <1>4, <2>1 DEF TypeOK
<1>6. Sift' /\ HeapOrdered'
  BY <1>1, <1>3 DEF Sift, HeapOrdered
<1>7. ASSUME ordered'
      PROVE  Rises'
  <2>1. \A j \in 2..Len(es) : Fits(a, j)
    BY <1>1, <1>7, HasRisen DEF IInv, Stopped
  <2> HIDE DEF a, b
  <2>2. \A j \in 2..n : j # n => ~Less(b[j], b[j \div 2])
    <3>1. TAKE j \in 2..n
    <3>2. HAVE j # n
    <3>3. j \in 2..Len(es) /\ j \div 2 \in 1..Len(es)
      BY <1>2, <3>2, Halves
    <3>4. QED
      BY <1>4, <2>1, <3>3 DEF Fits
  <2>3. \A j \in 2..n : j \div 2 # n
    BY <1>2, Halves
  <2>4. QED
    BY <1>3, <1>4, <2>2, <2>3 DEF Rises, Fits
<1>8. QED
  BY <1>1, <1>3, <1>5, <1>6, <1>7 DEF IInv

LEMMA HeapifiesNext ==
  ASSUME IInv, op = "construct", from > 1, Place, more = <<>>,
         pending' \in BOOLEAN, ordered' \in BOOLEAN, ordered' => ordered /\ ~pending' /\ Stopped
  PROVE  IInv'
<1> DEFINE a == [es EXCEPT ![k] = x]
<1>1. TypeOK /\ Sift /\ dir = "down" /\ op # "none" /\ k >= from
  BY DEF IInv, Sift, TypeOK
<1>2. /\ a \in Seq(Elements) /\ Len(a) = Len(es) /\ \A j \in 1..Len(es) : a[j] \in Elements
      /\ from \in 1..Len(es) /\ from - 1 \in 1..Len(es) /\ k \in 1..Len(es)
  BY <1>1, Put DEF TypeOK
<1>3. /\ dir' = "down" /\ es' = a /\ k' = from - 1 /\ x' = a[from - 1] /\ from' = from - 1
      /\ UNCHANGED <<queue, last, op, more, given, taken>>
  BY DEF Place, Placed, Hole
<1>4. TypeOK'
  <2> HIDE DEF a
  <2>1. QED
    BY <1>1, <1>2, <1>3 DEF TypeOK
<1>5. Sift' /\ HeapOrdered'
  BY <1>1, <1>2, <1>3 DEF Sift, HeapOrdered
<1>6. ASSUME ordered'
      PROVE  Sinks'
  <2>1. lo = from /\ lo' = from - 1
    BY <1>3 DEF lo
  <2>2. ASSUME NEW j \in 2..Len(es), j # from - 1, j \div 2 # from - 1, j \div 2 >= from - 1
        PROVE  Fits(a, j)
    <3>1. j \div 2 >= lo /\ (j = k => k # from)
      BY <1>2, <2>1, <2>2, Halves
    <3>2. QED
      BY <1>1, <1>6, <3>1, HasSunk DEF IInv, Stopped
  <2>3. ~((from - 1) \div 2 >= from - 1)
    BY <1>2, Halves
  <2> HIDE DEF a
  <2>4. QED
    BY <1>2, <1>3, <2>1, <2>2, <2>3 DEF Sinks, Fits
<1>7. QED
  BY <1>1, <1>3, <1>4, <1>5, <1>6 DEF IInv

\* Only an element that has not moved is where remove(o) started: one that
\* sank left there an element that precedes it.
LEMMA StaysPut ==
  ASSUME TypeOK, Sift, op # "none", dir = "down", [es EXCEPT ![k] = x][from] = x
  PROVE  k = from
<1>1. from \in 1..Len(es) /\ es \in Seq(Elements) /\ x \in Elements
  BY DEF TypeOK
<1>2. es[from] \in Elements
  BY <1>1, ElementOfSeq
<1>3. k # from => es[from] # x
  BY <1>1, <1>2, Order DEF Sift
<1>4. QED
  BY <1>1, <1>3, Put

LEMMA TurnsUp ==
  ASSUME IInv, op = "remove", dir = "down", [es EXCEPT ![k] = x][from] = x, Place, more = <<>>,
         pending' \in BOOLEAN, ordered' \in BOOLEAN, ordered' => ordered /\ ~pending' /\ Stopped
  PROVE  IInv'
<1> DEFINE a == [es EXCEPT ![k] = x]
<1>1. TypeOK /\ Sift /\ op # "none" /\ k = from
  BY StaysPut DEF IInv
<1>2. /\ a \in Seq(Elements) /\ Len(a) = Len(es) /\ a[k] = x
      /\ \A j \in 1..Len(es) : j # k => a[j] = es[j]
      /\ from \in 1..Len(es) /\ k \in 1..Len(es) /\ x \in Elements
  BY <1>1, Put DEF TypeOK
<1>3. /\ dir' = "up" /\ es' = a /\ k' = k /\ x' = x /\ from' = from
      /\ UNCHANGED <<queue, last, op, more, given, taken>>
  BY <1>1 DEF Place, Placed, Hole
<1>4. TypeOK'
  <2> HIDE DEF a
  <2>1. QED
    BY <1>1, <1>2, <1>3 DEF TypeOK
<1>5. Sift' /\ HeapOrdered'
  BY <1>1, <1>3 DEF Sift, HeapOrdered
<1>6. ASSUME ordered'
      PROVE  Rises'
  <2>1. lo = 1 /\ Sinks /\ Stopped
    BY <1>1, <1>6 DEF lo, IInv
  <2>2. \A j \in 2..Len(es) : j \div 2 >= 1 /\ j \div 2 \in 1..Len(es) /\ j \div 2 < j
    BY <1>2, Halves
  <2>3. ASSUME NEW j \in 2..Len(es), j # k
        PROVE  Fits(a, j)
    BY <1>1, <2>1, <2>2, <2>3, HasSunk DEF Stopped
  <2> HIDE DEF a
  <2>4. ASSUME NEW j \in 2..Len(es), j \div 2 = k
        PROVE  ~Less(a[j], x) /\ (k > 1 => ~Less(a[j], a[k \div 2]))
    <3>1. a[j] = es[j] /\ ~Less(es[j], x)
      BY <1>2, <2>1, <2>2, <2>4 DEF Stopped
    <3>2. ASSUME k > 1
          PROVE  ~Less(es[j], es[k \div 2]) /\ a[k \div 2] = es[k \div 2]
      <4>1. k \in 2..Len(es)
        BY <1>2, <3>2
      <4>2. k \div 2 >= 1 /\ k \div 2 \in 1..Len(es) /\ k \div 2 # k
        BY <2>2, <4>1
      <4>3. QED
        BY <1>2, <2>1, <2>4, <4>2 DEF Sinks
    <3>3. QED
      BY <3>1, <3>2
  <2>5. QED
    BY <1>2, <1>3, <2>3, <2>4 DEF Rises
<1>7. QED
  BY <1>1, <1>3, <1>4, <1>5, <1>6 DEF IInv

LEMMA Ends ==
  ASSUME IInv, op # "none", Place, more = <<>>, ~(op = "construct" /\ from > 1),
         ~(op = "remove" /\ dir = "down" /\ [es EXCEPT ![k] = x][from] = x),
         pending' \in BOOLEAN, ordered' \in BOOLEAN, ordered' => ordered /\ ~pending' /\ Stopped
  PROVE  IInv'
<1> DEFINE a == [es EXCEPT ![k] = x]
<1>1. TypeOK /\ Sift /\ k \in 1..Len(es) /\ from \in 1..Len(es)
  BY DEF IInv, TypeOK
<1>2. a \in Seq(Elements) /\ Len(a) = Len(es) /\ a[k] = x
  BY <1>1, Put
<1>3. Store(op, a, given, taken)
  BY DEF Place, Placed
<1>4. /\ queue' = a /\ op' = "none" /\ es' = <<>> /\ dir' = "up" /\ k' = 1 /\ x' = AnyElement
      /\ from' = 1 /\ more' = <<>> /\ given' = <<>> /\ taken' = <<>>
  BY <1>3 DEF Store
<1>5. TypeOK'
  <2> HIDE DEF a
  <2>1. QED
    BY <1>1, <1>2, <1>4, AnyElementType, EmptySeq DEF TypeOK
<1>6. ASSUME ordered', NEW j \in 2..Len(es)
      PROVE  Fits(a, j)
  <2>1. CASE dir = "up"
    BY <1>1, <1>6, <2>1, HasRisen DEF IInv, Stopped
  <2>2. CASE dir = "down"
    <3>1. op \in {"construct", "poll", "remove"} /\ (op = "poll" => from = 1)
      BY <1>1, <2>2 DEF Sift
    <3>2. lo = 1 /\ j \div 2 >= 1
      BY <1>1, Halves DEF lo
    <3>3. j = k => k # from
      BY <1>1, <1>2, <2>2, <3>1
    <3>4. QED
      BY <1>1, <1>6, <2>2, <3>2, <3>3, HasSunk DEF IInv, Stopped
  <2>3. QED
    BY <1>1, <2>1, <2>2 DEF TypeOK
<1>7. HeapOrdered'
  <2> HIDE DEF a
  <2>1. QED
    BY <1>2, <1>4, <1>6 DEF HeapOrdered, Fits
<1>8. Sift'
  BY <1>4 DEF Sift
<1>9. QED
  BY <1>4, <1>5, <1>7, <1>8 DEF IInv

LEMMA PlaceInv ==
  ASSUME IInv, op # "none", Place,
         pending' \in BOOLEAN, ordered' \in BOOLEAN, ordered' => ordered /\ ~pending' /\ Stopped
  PROVE  IInv'
<1>1. CASE more # <<>>
  BY <1>1, AddsNext
<1>2. CASE more = <<>> /\ op = "construct" /\ from > 1
  BY <1>2, HeapifiesNext
<1>3. CASE more = <<>> /\ op = "remove" /\ dir = "down" /\ [es EXCEPT ![k] = x][from] = x
  BY <1>3, TurnsUp
<1>4. CASE /\ more = <<>> /\ ~(op = "construct" /\ from > 1)
           /\ ~(op = "remove" /\ dir = "down" /\ [es EXCEPT ![k] = x][from] = x)
  BY <1>4, Ends
<1>5. QED
  BY <1>1, <1>2, <1>3, <1>4
(* ---- every step keeps the invariant ---------------------------------------------------------- *)

LEMMA Compared ==
  ASSUME IInv, NEW needed, Compares(needed)
  PROVE  /\ pending' \in BOOLEAN /\ ordered' \in BOOLEAN
         /\ ordered' => ordered /\ ~pending'
BY DEF Compares, IInv, TypeOK, Sift

LEMMA MoveTypes ==
  ASSUME IInv, op # "none", NEW c \in 1..Len(es), Move(c),
         pending' \in BOOLEAN, ordered' \in BOOLEAN
  PROVE  TypeOK'
<1>1. TypeOK /\ k \in 1..Len(es) /\ es \in Seq(Elements)
  BY DEF IInv, TypeOK
<1>2. es' \in Seq(Elements) /\ Len(es') = Len(es)
  BY <1>1, Replaced, ElementOfSeq DEF Move
<1>3. QED
  BY <1>1, <1>2 DEF TypeOK, Move

LEMMA RiseInv ==
  ASSUME IInv, pq_sift_up
  PROVE  IInv'
<1>1. /\ op # "none" /\ dir = "up" /\ Compares(k > 1) /\ TypeOK /\ Sift
      /\ k \in 1..Len(es)
  BY DEF pq_sift_up, IInv, TypeOK
<1>2. /\ pending' \in BOOLEAN /\ ordered' \in BOOLEAN
      /\ ordered' => ordered /\ ~pending'
  BY <1>1, Compared
<1>3. CASE k > 1 /\ ~pending' /\ Less(x, es[k \div 2])
  <2>1. Move(k \div 2) /\ k \div 2 \in 1..Len(es)
    BY <1>1, <1>3, Halves DEF pq_sift_up
  <2>2. TypeOK'
    BY <1>1, <1>2, <2>1, MoveTypes
  <2>3. op' = op /\ dir' = dir
    BY <2>1 DEF Move
  <2>4. Sift' /\ HeapOrdered'
    BY <1>1, <1>2, <2>3 DEF Sift, HeapOrdered
  <2>5. ordered' => Rises'
    BY <1>1, <1>2, <1>3, <2>1, RisesFurther DEF IInv
  <2>6. QED
    BY <1>1, <2>2, <2>3, <2>4, <2>5 DEF IInv
<1>4. CASE ~(k > 1 /\ ~pending' /\ Less(x, es[k \div 2]))
  <2>1. Place
    BY <1>4 DEF pq_sift_up
  <2>2. ordered' => Stopped
    BY <1>1, <1>2, <1>4 DEF Stopped
  <2>3. QED
    BY <1>1, <1>2, <2>1, <2>2, PlaceInv
<1>5. QED
  BY <1>3, <1>4

LEMMA SinkInv ==
  ASSUME IInv, pq_sift_down
  PROVE  IInv'
<1>1. /\ op # "none" /\ dir = "down" /\ Compares(2 * k <= Len(es)) /\ TypeOK /\ Sift
      /\ k \in 1..Len(es) /\ from \in 1..Len(es) /\ es \in Seq(Elements) /\ x \in Elements
  BY DEF pq_sift_down, IInv, TypeOK
<1>2. /\ pending' \in BOOLEAN /\ ordered' \in BOOLEAN
      /\ ordered' => ordered /\ ~pending'
  BY <1>1, Compared
<1>3. CASE 2 * k <= Len(es) /\ ~pending' /\ Less(es[Child], x)
  <2>1. PICK c \in 2..Len(es) : c = Child /\ c > k
    BY <1>1, <1>3, SmallerChild
  <2>2. Move(c) /\ Less(es[c], x) /\ c \in 1..Len(es)
    BY <1>3, <2>1 DEF pq_sift_down
  <2>3. TypeOK'
    BY <1>1, <1>2, <2>2, MoveTypes
  <2>4. /\ k' = c /\ es'[k] = es[c] /\ \A j \in 1..Len(es) : j # k => es'[j] = es[j]
        /\ UNCHANGED <<op, dir, x, from, more>>
    BY <1>1, <2>2, Replaced, ElementOfSeq DEF Move
  <2>5. Sift'
    <3>1. es'[from] = es[from] \/ k = from
      BY <1>1, <2>4
    <3>2. Less(es'[from], x)
      BY <1>1, <2>2, <2>4, <3>1 DEF Sift
    <3>3. c >= from
      BY <1>1, <2>1 DEF Sift
    <3>4. QED
      BY <1>1, <1>2, <2>4, <3>2, <3>3 DEF Sift
  <2>6. HeapOrdered'
    BY <1>1, <2>4 DEF HeapOrdered
  <2>7. ordered' => Sinks'
    BY <1>1, <1>2, <1>3, <2>1, <2>2, SinksFurther DEF IInv
  <2>8. QED
    BY <1>1, <2>3, <2>4, <2>5, <2>6, <2>7 DEF IInv
<1>4. CASE ~(2 * k <= Len(es) /\ ~pending' /\ Less(es[Child], x))
  <2>1. Place
    BY <1>4 DEF pq_sift_down
  <2>2. ASSUME ordered', NEW i \in 2..Len(es), i \div 2 = k
        PROVE  ~Less(es[i], x)
    <3>1. 2 * k <= Len(es)
      BY <1>1, <2>2, Children
    <3>2. PICK c \in 2..Len(es) : c = Child
      BY <1>1, <3>1, SmallerChild
    <3>3. ~Less(es[i], es[c]) /\ ~Less(es[c], x)
      BY <1>1, <1>2, <1>4, <2>2, <3>1, <3>2, SmallerChild
    <3>4. es[i] \in Elements /\ es[c] \in Elements
      BY <1>1, ElementOfSeq
    <3>5. QED
      BY <1>1, <3>3, <3>4, Order
  <2>3. ordered' => Stopped
    BY <1>1, <2>2 DEF Stopped
  <2>4. QED
    BY <1>1, <1>2, <2>1, <2>3, PlaceInv
<1>5. QED
  BY <1>3, <1>4

\* A member that ends at once leaves an array that was a heap without it.
LEMMA AtOnceInv ==
  ASSUME IInv, NEW name, NEW a \in Seq(Elements), NEW in \in Seq(Elements),
         NEW left \in Seq(Elements), AtOnce(name, a, in, left),
         ordered => \A j \in 2..Len(a) : Fits(a, j)
  PROVE  IInv'
<1>1. /\ queue' = a /\ op' = "none" /\ es' = <<>> /\ dir' = "up" /\ k' = 1 /\ x' = AnyElement
      /\ from' = 1 /\ more' = <<>> /\ given' = <<>> /\ taken' = <<>>
      /\ pending' = FALSE /\ ordered' = ordered
  BY DEF AtOnce, Store
<1>2. TypeOK'
  BY <1>1, AnyElementType, EmptySeq DEF TypeOK, IInv
<1>3. Sift' /\ HeapOrdered'
  BY <1>1 DEF Sift, HeapOrdered, Fits
<1>4. QED
  BY <1>1, <1>2, <1>3 DEF IInv

LEMMA ConstructInv ==
  ASSUME IInv, NEW src \in Seq(Elements), Construct(src)
  PROVE  IInv'
<1>1. CASE Len(src) < 2
  <2>1. AtOnce("construct", src, src, <<>>)
    BY <1>1 DEF Construct
  <2>2. \A j \in 2..Len(src) : Fits(src, j)
    BY <1>1, LenProperties
  <2>3. QED
    BY <2>1, <2>2, AtOnceInv, EmptySeq
<1>2. CASE ~(Len(src) < 2)
  <2> DEFINE h == Len(src) \div 2
  <2>1. /\ op = "none" /\ op' = "construct" /\ given' = src /\ taken' = <<>> /\ more' = <<>>
        /\ dir' = "down" /\ es' = src /\ k' = h /\ x' = src[h] /\ from' = h
        /\ pending' = FALSE /\ UNCHANGED <<queue, ordered>>
    BY <1>2 DEF Construct, Begin, Hole
  <2>2. h \in 1..Len(src) /\ Len(src) \in Nat /\ Len(src) \div 2 = h
    BY <1>2, Halves, LenProperties
  <2>3. \A j \in 2..Len(src) : j \div 2 <= h
    BY <2>2
  <2>4. h \div 2 < h
    BY <2>2, Halves
  <2> HIDE DEF h
  <2>5. src[h] \in Elements
    BY <2>2, ElementOfSeq
  <2>6. TypeOK'
    BY <2>1, <2>2, <2>5, EmptySeq DEF TypeOK, IInv
  <2>7. Sift' /\ HeapOrdered'
    BY <2>1, <2>2 DEF Sift, HeapOrdered
  <2>8. lo' = h
    BY <2>1 DEF lo
  <2>9. Sinks'
    <3>1. ~(h \div 2 >= h)
      BY <2>2, <2>4
    <3>2. \A j \in 2..Len(src) : j \div 2 # h => ~(j \div 2 >= h)
      BY <2>2, <2>3
    <3>3. QED
      BY <2>1, <2>8, <3>1, <3>2 DEF Sinks
  <2>10. QED
    BY <2>1, <2>6, <2>7, <2>9 DEF IInv
<1>3. QED
  BY <1>1, <1>2

\* offer and addAll: the new element starts below a heap.
LEMMA GrowInv ==
  ASSUME IInv, NEW name \in {"offer", "addAll"}, NEW in \in Seq(Elements), NEW e \in Elements,
         Begin(name, in, <<>>), more' \in Seq(Elements),
         Hole("up", Append(queue, e), Len(queue) + 1)
  PROVE  IInv'
<1> DEFINE b == Append(queue, e)
           n == Len(queue) + 1
<1>1. /\ op = "none" /\ op' = name /\ given' = in /\ taken' = <<>>
      /\ dir' = "up" /\ es' = b /\ k' = n /\ x' = b[n] /\ from' = n
      /\ pending' = FALSE /\ UNCHANGED <<queue, ordered>>
  BY DEF Begin, Hole
<1>2. /\ queue \in Seq(Elements) /\ Len(queue) \in Nat /\ n \in 1..Len(b)
      /\ b \in Seq(Elements) /\ Len(b) = n /\ b[n] \in Elements
      /\ \A j \in 1..Len(queue) : b[j] = queue[j]
  BY AppendProperties, LenProperties DEF IInv, TypeOK
<1> HIDE DEF b
<1>3. TypeOK'
  BY <1>1, <1>2, EmptySeq DEF TypeOK, IInv
<1>4. Sift' /\ HeapOrdered'
  BY <1>1 DEF Sift, HeapOrdered
<1>5. ASSUME ordered'
      PROVE  Rises'
  <2>1. \A j \in 2..Len(queue) : ~Less(queue[j], queue[j \div 2])
    BY <1>1, <1>5 DEF IInv, HeapOrdered
  <2>2. \A j \in 2..n : j # n => ~Less(b[j], b[j \div 2])
    <3>1. TAKE j \in 2..n
    <3>2. HAVE j # n
    <3>3. j \in 2..Len(queue) /\ j \div 2 \in 1..Len(queue)
      BY <1>2, <3>2, Halves
    <3>4. QED
      BY <1>2, <2>1, <3>3
  <2>3. \A j \in 2..n : j \div 2 # n
    BY <1>2, Halves
  <2>4. QED
    BY <1>1, <1>2, <2>2, <2>3 DEF Rises, Fits
<1>6. QED
  BY <1>1, <1>3, <1>4, <1>5 DEF IInv

\* poll and remove(o): the last element is to take the place of slot i.
LEMMA VacateInv ==
  ASSUME IInv, NEW name \in {"poll", "remove"}, NEW i \in 1..Len(queue),
         NEW left \in Seq(Elements), name = "poll" => i = 1, Vacate(name, i, left)
  PROVE  IInv'
<1> DEFINE a == SubSeq(queue, 1, Len(queue) - 1)
           n == Len(queue) - 1
<1>1. /\ queue \in Seq(Elements) /\ Len(queue) \in Nat /\ n \in Nat
      /\ queue[Len(queue)] \in Elements
  BY LenProperties, ElementOfSeq DEF IInv, TypeOK
<1>2. a \in Seq(Elements) /\ Len(a) = n /\ \A j \in 1..n : a[j] = queue[j]
  BY <1>1, FrontIs, EmptySeq
<1> HIDE DEF a
<1>3. op = "none"
  BY DEF Vacate, AtOnce, Begin
<1>4. ASSUME ordered
      PROVE  \A j \in 2..n : Fits(a, j)
  <2>1. \A j \in 2..Len(queue) : ~Less(queue[j], queue[j \div 2])
    BY <1>3, <1>4 DEF IInv, HeapOrdered
  <2>2. TAKE j \in 2..n
  <2>3. j \in 1..n /\ j \div 2 \in 1..n /\ j \in 2..Len(queue)
    BY <1>1, Halves
  <2>4. QED
    BY <1>2, <2>1, <2>3 DEF Fits
<1>5. CASE i > n
  <2>1. AtOnce(name, a, <<>>, left)
    BY <1>2, <1>5 DEF Vacate, a
  <2>2. QED
    BY <1>2, <1>4, <2>1, AtOnceInv, EmptySeq
<1>6. CASE ~(i > n)
  <2>1. /\ op' = name /\ given' = <<>> /\ taken' = left /\ more' = <<>>
        /\ dir' = "down" /\ es' = a /\ k' = i /\ from' = i /\ x' = queue[Len(queue)]
        /\ pending' = FALSE /\ UNCHANGED <<queue, ordered>>
    BY <1>2, <1>6 DEF Vacate, Begin, a
  <2>2. i \in 1..n
    BY <1>1, <1>6
  <2>3. TypeOK'
    BY <1>1, <1>2, <2>1, <2>2, EmptySeq DEF TypeOK, IInv
  <2>4. Sift' /\ HeapOrdered'
    BY <2>1, <2>2 DEF Sift, HeapOrdered
  <2>5. ASSUME ordered'
        PROVE  Sinks'
    <3>1. lo' = 1 /\ \A j \in 2..n : Fits(a, j)
      BY <1>4, <2>1, <2>5 DEF lo
    <3>2. ASSUME NEW j \in 2..n, j \div 2 = i, i \div 2 >= 1
          PROVE  ~Less(a[j], a[i \div 2])
      <4>1. i \in 2..n /\ i \div 2 \in 1..n
        BY <2>2, <3>2, Halves
      <4>2. ~Less(a[j], a[i]) /\ ~Less(a[i], a[i \div 2])
        BY <3>1, <3>2, <4>1 DEF Fits
      <4>3. a[j] \in Elements /\ a[i] \in Elements /\ a[i \div 2] \in Elements
        BY <1>2, <4>1, ElementOfSeq
      <4>4. QED
        BY <4>2, <4>3, Order
    <3>3. QED
      BY <1>2, <2>1, <3>1, <3>2 DEF Sinks, Fits
  <2>6. QED
    BY <2>1, <2>3, <2>4, <2>5 DEF IInv
<1>7. QED
  BY <1>5, <1>6
\* removeIf and its like leave any array, and from then on none has to be a heap.
LEMMA RemoveIfInv ==
  ASSUME IInv, NEW dropped \in SUBSET Elements, RemoveIf(dropped)
  PROVE  IInv'
<1>1. /\ queue' = Those(queue, Elements \ dropped)
      /\ op' = "none" /\ es' = <<>> /\ dir' = "up" /\ k' = 1 /\ x' = AnyElement
      /\ from' = 1 /\ more' = <<>> /\ given' = <<>> /\ taken' = <<>>
      /\ pending' = FALSE /\ ordered' = FALSE
  BY DEF RemoveIf, Store
<1>2. queue' \in Seq(Elements)
  BY <1>1, ThoseTimes DEF IInv, TypeOK
<1>3. TypeOK'
  BY <1>1, <1>2, AnyElementType, EmptySeq DEF TypeOK
<1>4. Sift' /\ HeapOrdered'
  BY <1>1 DEF Sift, HeapOrdered
<1>5. QED
  BY <1>1, <1>3, <1>4 DEF IInv

LEMMA InitInv ==
  ASSUME Init
  PROVE  IInv
<1>1. TypeOK
  BY AnyElementType, EmptySeq DEF Init, TypeOK
<1>2. Sift /\ HeapOrdered
  BY DEF Init, Sift, HeapOrdered
<1>3. QED
  BY <1>1, <1>2 DEF Init, IInv

LEMMA StepInv ==
  ASSUME IInv, [Next]_vars
  PROVE  IInv'
<1>1. CASE pq_sift_up
  BY <1>1, RiseInv
<1>2. CASE pq_sift_down
  BY <1>2, SinkInv
<1>3. ASSUME NEW n \in 0..MaxSize, NEW src \in [1..n -> Elements], Construct(src)
      PROVE  IInv'
  <2>1. src \in Seq(Elements)
    BY <1>3, QueueAssumption, SeqDef
  <2>2. QED
    BY <1>3, <2>1, ConstructInv
<1>4. ASSUME NEW e \in Elements, Offer(e)
      PROVE  IInv'
  <2>1. <<e>> \in Seq(Elements) /\ <<>> \in Seq(Elements)
    BY <1>4
  <2>2. QED
    BY <1>4, <2>1, GrowInv DEF Offer
<1>5. ASSUME NEW n \in 1..MaxAdded, NEW s \in [1..n -> Elements], AddAll(s)
      PROVE  IInv'
  <2>1. s \in Seq(Elements) /\ s # <<>>
    BY <1>5, QueueAssumption, SeqDef
  <2>2. Head(s) \in Elements /\ Tail(s) \in Seq(Elements)
    BY <2>1, HeadTailProperties
  <2>3. QED
    BY <1>5, <2>1, <2>2, GrowInv DEF AddAll
<1>6. CASE Poll
  <2>1. queue \in Seq(Elements) /\ queue # <<>>
    BY <1>6 DEF Poll, IInv, TypeOK
  <2>2. 1 \in 1..Len(queue) /\ queue[1] \in Elements
    BY <2>1, EmptySeq, LenProperties, ElementOfSeq
  <2>3. <<queue[1]>> \in Seq(Elements)
    BY <2>2
  <2>4. QED
    BY <1>6, <2>2, <2>3, VacateInv DEF Poll
<1>7. ASSUME NEW e \in Elements, RemoveElement(e)
      PROVE  IInv'
  <2>1. PICK i \in DOMAIN queue : Vacate("remove", i, <<e>>)
    BY <1>7 DEF RemoveElement
  <2>2. i \in 1..Len(queue) /\ <<e>> \in Seq(Elements)
    BY <1>7, LenProperties DEF IInv, TypeOK
  <2>3. QED
    BY <2>1, <2>2, VacateInv
<1>8. ASSUME NEW dropped \in SUBSET Elements, RemoveIf(dropped)
      PROVE  IInv'
  BY <1>8, RemoveIfInv
<1>9. CASE UNCHANGED vars
  <2>1. TypeOK' /\ Sift' /\ HeapOrdered'
    BY <1>9 DEF vars, locals, IInv, TypeOK, Sift, HeapOrdered
  <2>2. (Sinks => Sinks') /\ (Rises => Rises')
    BY <1>9 DEF vars, locals, Sinks, Rises, Fits, lo
  <2>3. QED
    BY <1>9, <2>1, <2>2 DEF vars, locals, IInv
<1>10. QED
  BY <1>1, <1>2, <1>3, <1>4, <1>5, <1>6, <1>7, <1>8, <1>9 DEF Next

(* ---- what follows -------------------------------------------------------------------------------- *)

\* For every comparator by key, and whether or not it throws, the members of
\* a queue keep to its types: in particular no hole ever leaves the array.
THEOREM TypeCorrect ==
  Spec => []TypeOK
<1>1. IInv => TypeOK
  BY DEF IInv
<1>2. QED
  BY <1>1, InitInv, StepInv, PTL DEF Spec

\* The constructor, offer, addAll, poll and remove(o) leave a heap, in any
\* order and for queues of any size, as long as no comparator has thrown.
THEOREM StaysHeap ==
  Spec => []HeapOrdered
<1>1. IInv => HeapOrdered
  BY DEF IInv
<1>2. QED
  BY <1>1, InitInv, StepInv, PTL DEF Spec

\* The root of a heap: no element precedes what peek and poll answer.
RootIsLeast ==
  op = "none" /\ ordered => \A j \in 1..Len(queue) : ~Less(queue[j], queue[1])

\* Were there elements that precede the root, the parent of the first of them in the
\* array would be one as well, and it stands earlier.
LEMMA HeapRoot ==
  ASSUME IInv PROVE RootIsLeast
<1>1. ASSUME IInv, op = "none", ordered, NEW j \in 1..Len(queue), Less(queue[j], queue[1])
      PROVE  FALSE
  <2> DEFINE T == {i \in 1..Len(queue) : Less(queue[i], queue[1])}
             R == OpToRel(<, Nat)
  <2>1. queue \in Seq(Elements) /\ Len(queue) \in Nat
    BY <1>1, LenProperties DEF IInv, TypeOK
  <2>2. T \subseteq Nat /\ T # {}
    BY <1>1, <2>1
  <2>3. PICK i \in T : \A h \in T : ~(h < i)
    <3>1. \E i \in T : \A h \in T : <<h, i>> \notin R
      <4> HIDE DEF T
      <4>1. QED
        BY <2>2, NatLessThanWellFounded, WFMin
    <3>2. QED
      BY <2>2, <3>1 DEF OpToRel
  <2>4. /\ i \in 1..Len(queue) /\ queue[1] \in Elements /\ queue[i] \in Elements
        /\ Less(queue[i], queue[1])
    BY <2>1, ElementOfSeq
  <2>5. i # 1
    BY <2>4, Order
  <2>6. i \in 2..Len(queue) /\ i \div 2 \in 1..Len(queue) /\ i \div 2 < i
    BY <2>1, <2>4, <2>5, Halves
  <2>7. ~Less(queue[i], queue[i \div 2])
    BY <1>1, <2>6 DEF IInv, HeapOrdered
  <2>8. ~Less(queue[i \div 2], queue[1])
    BY <2>3, <2>6
  <2>9. queue[i \div 2] \in Elements
    BY <2>1, <2>6, ElementOfSeq
  <2>10. QED
    BY <2>4, <2>7, <2>8, <2>9, Order
<1>2. QED
  BY <1>1 DEF RootIsLeast

\* So peek and poll answer an element that none precedes (pq_member reads the root).
THEOREM AnswersLeast ==
  Spec => []RootIsLeast
<1>1. IInv => RootIsLeast
  BY HeapRoot
<1>2. QED
  BY <1>1, InitInv, StepInv, PTL DEF Spec

(* ---- bags --------------------------------------------------------------------------------- *)

\* The bag of an array holds what occurs in it, as often as it occurs.
LEMMA BagOf ==
  ASSUME NEW s \in Seq(Elements)
  PROVE  ToBag(s) = [e \in {d \in Elements : Times(s, d) > 0} |-> Times(s, e)]
<1>1. DOMAIN s = 1..Len(s)
  BY LenProperties
<1>2. ToBag(s) = [e \in Range(s) |-> Times(s, e)]
  BY <1>1 DEF ToBag, Times, At
<1>3. Range(s) = {d \in Elements : Times(s, d) > 0}
  <2>1. Range(s) \subseteq Elements
    BY <1>1, ElementOfSeq DEF Range
  <2>2. \A d : d \in Range(s) <=> Times(s, d) > 0
    BY <1>1, TimesType DEF Range
  <2> QED BY <2>1, <2>2
<1> QED
  BY <1>2, <1>3

Counts(u, s, t) == \A e \in Elements : Times(u, e) = Times(s, e) + Times(t, e)

\* Arrays whose elements add up are bags that do.
LEMMA BagSum ==
  ASSUME NEW s \in Seq(Elements), NEW t \in Seq(Elements), NEW u \in Seq(Elements), Counts(u, s, t)
  PROVE  ToBag(u) = Promise!(+)(ToBag(s), ToBag(t))
<1>1. PICK N : N = [e \in Elements |-> Times(s, e)]
  OBVIOUS
<1>2. PICK M : M = [e \in Elements |-> Times(t, e)]
  OBVIOUS
<1>3. N \in [Elements -> Nat] /\ M \in [Elements -> Nat]
  BY <1>1, <1>2, TimesType
<1>4. ToBag(s) = [e \in {d \in Elements : N[d] > 0} |-> N[e]]
  BY <1>1, BagOf
<1>5. ToBag(t) = [e \in {d \in Elements : M[d] > 0} |-> M[e]]
  BY <1>2, BagOf
<1>6. ToBag(u) = [e \in {d \in Elements : N[d] + M[d] > 0} |-> N[e] + M[e]]
  BY <1>1, <1>2, BagOf DEF Counts
<1> QED
  BY <1>3, <1>4, <1>5, <1>6 DEF Promise!(+)

\* What is left of an array once its elements are taken.
LEMMA BagDifference ==
  ASSUME NEW s \in Seq(Elements), NEW t \in Seq(Elements), NEW u \in Seq(Elements), Counts(s, u, t)
  PROVE  /\ ToBag(u) = Promise!(-)(ToBag(s), ToBag(t))
         /\ Promise!\sqsubseteq(ToBag(t), ToBag(s))
<1>1. PICK N : N = [e \in Elements |-> Times(u, e)]
  OBVIOUS
<1>2. PICK M : M = [e \in Elements |-> Times(t, e)]
  OBVIOUS
<1>3. N \in [Elements -> Nat] /\ M \in [Elements -> Nat]
  BY <1>1, <1>2, TimesType
<1>4. ToBag(u) = [e \in {d \in Elements : N[d] > 0} |-> N[e]]
  BY <1>1, BagOf
<1>5. ToBag(t) = [e \in {d \in Elements : M[d] > 0} |-> M[e]]
  BY <1>2, BagOf
<1>6. ToBag(s) = [e \in {d \in Elements : N[d] + M[d] > 0} |-> N[e] + M[e]]
  BY <1>1, <1>2, BagOf DEF Counts
<1>7. Promise!\sqsubseteq(ToBag(t), ToBag(s))
  BY <1>3, <1>5, <1>6 DEF Promise!\sqsubseteq
<1> QED
  BY <1>3, <1>4, <1>5, <1>6, <1>7 DEF Promise!(-)

(* ---- the queue keeps its promise ---------------------------------------------------------- *)

\* Arrays with the same elements are the same bag.
LEMMA BagSame ==
  ASSUME NEW s \in Seq(Elements), NEW t \in Seq(Elements), \A e \in Elements : Times(s, e) = Times(t, e)
  PROVE  ToBag(s) = ToBag(t)
<1>1. {d \in Elements : Times(s, d) > 0} = {d \in Elements : Times(t, d) > 0}
  OBVIOUS
<1>2. PICK D : D = {d \in Elements : Times(s, d) > 0}
  OBVIOUS
<1>3. [e \in D |-> Times(s, e)] = [e \in D |-> Times(t, e)]
  BY <1>2
<1> QED
  BY <1>1, <1>2, <1>3, BagOf

\* The bags of nothing, and of one element.
LEMMA SmallBags ==
  /\ ToBag(<<>>) = Promise!EmptyBag
  /\ \A e \in Elements : ToBag(<<e>>) = Promise!SetToBag({e})
<1>1. <<>> \in Seq(Elements) /\ {d \in Elements : Times(<<>>, d) > 0} = {}
  BY TimesNone
<1>2. ToBag(<<>>) = Promise!EmptyBag
  BY <1>1, BagOf DEF Promise!EmptyBag, Promise!SetToBag
<1>3. ASSUME NEW e \in Elements PROVE ToBag(<<e>>) = Promise!SetToBag({e})
  <2>1. <<e>> \in Seq(Elements) /\ {d \in Elements : Times(<<e>>, d) > 0} = {e} /\ Times(<<e>>, e) = 1
    BY TimesOne
  <2>2. ToBag(<<e>>) = [d \in {e} |-> Times(<<e>>, d)]
    BY <2>1, BagOf
  <2> QED BY <2>1, <2>2 DEF Promise!SetToBag
<1> QED
  BY <1>2, <1>3

\* A call that has ended is a step of the promise, by what it was given and took.
Ended(name, a, in, out) ==
  /\ queue' = a /\ last' = [op |-> name, given |-> in, taken |-> out] /\ (ordered' => ordered)

\* No element of the queue precedes e.
First(e) == \A j \in 1..Len(queue) : ~Less(queue[j], e)

\* A queue is built of what it is given.
LEMMA Constructed ==
  ASSUME NEW a \in Seq(Elements), NEW in \in Seq(Elements), Ended("construct", a, in, <<>>),
         \A e \in Elements : Times(a, e) = Times(in, e)
  PROVE  Promise!Next
<1>1. ToBag(a) = ToBag(in)
  BY BagSame
<1>2. Promise!Construct
  BY <1>1, SmallBags DEF Ended, Promise!Construct
<1> QED
  BY <1>2 DEF Ended, Promise!Next

\* What is added is all in the queue.
LEMMA Added ==
  ASSUME TypeOK, NEW name \in {"offer", "addAll"}, NEW a \in Seq(Elements), NEW in \in Seq(Elements),
         Ended(name, a, in, <<>>), Counts(a, queue, in)
  PROVE  Promise!Next
<1>1. queue \in Seq(Elements)
  BY DEF TypeOK
<1>2. ToBag(a) = Promise!(+)(ToBag(queue), ToBag(in))
  BY <1>1, BagSum
<1>3. Promise!Add
  BY <1>2, SmallBags DEF Ended, Promise!Add
<1> QED
  BY <1>3 DEF Ended, Promise!Next

\* What is taken is in the queue no more, and what poll takes was the first.
LEMMA Took ==
  ASSUME TypeOK, NEW name \in {"poll", "remove"}, NEW a \in Seq(Elements), NEW e \in Elements,
         Ended(name, a, <<>>, <<e>>), Counts(queue, a, <<e>>),
         name = "poll" /\ ordered' => First(e)
  PROVE  Promise!Next
<1>1. queue \in Seq(Elements) /\ <<e>> \in Seq(Elements)
  BY DEF TypeOK
<1>2. ToBag(a) = Promise!(-)(ToBag(queue), ToBag(<<e>>))
  BY <1>1, BagDifference
<1>3. Promise!BagToSet(ToBag(queue)) = {d \in Elements : Times(queue, d) > 0}
  BY <1>1, BagOf DEF Promise!BagToSet
<1>4. e \in Promise!BagToSet(ToBag(queue))
  <2>1. Times(<<e>>, e) = 1 /\ Times(a, e) \in Nat
    BY TimesOne, TimesType
  <2> QED BY <1>3, <2>1 DEF Counts
<1>5. First(e) => Promise!Least(e)
  <2> SUFFICES ASSUME First(e), NEW d \in Promise!BagToSet(ToBag(queue)) PROVE Key[e] <= Key[d]
    BY DEF Promise!Least
  <2>1. d \in Elements /\ \E i \in 1..Len(queue) : queue[i] = d
    BY <1>1, <1>3, TimesType
  <2>2. ~(Key[d] < Key[e])
    BY <2>1 DEF First, Less
  <2>3. Key[d] \in Int /\ Key[e] \in Int
    BY <2>1, QueueAssumption
  <2> QED BY <2>2, <2>3
<1>6. Promise!Take
  BY <1>2, <1>4, <1>5, SmallBags DEF Ended, Promise!Take
<1> QED
  BY <1>6 DEF Ended, Promise!Next

\* What is taken in bulk is in the queue no more.
LEMMA TookAll ==
  ASSUME TypeOK, NEW a \in Seq(Elements), NEW out \in Seq(Elements), Ended("removeIf", a, <<>>, out),
         Counts(queue, a, out), ~ordered'
  PROVE  Promise!Next
<1>1. queue \in Seq(Elements)
  BY DEF TypeOK
<1>2. /\ ToBag(a) = Promise!(-)(ToBag(queue), ToBag(out))
      /\ Promise!\sqsubseteq(ToBag(out), ToBag(queue))
  BY <1>1, BagDifference
<1>3. Promise!TakeAll
  BY <1>2, SmallBags DEF Ended, Promise!TakeAll
<1> QED
  BY <1>3 DEF Ended, Promise!Next

\* The copy of the array with x in the hole.
Filled == [es EXCEPT ![k] = x]

\* While a member runs, no element is lost or doubled: what is in the copy, is
\* still to be added or was taken, the queue held before or was given.  What it took
\* was the first element, if it polls.
Balanced ==
  \A e \in Elements :
    Times(Filled, e) + Times(more, e) + Times(taken, e) =
      (IF op = "construct" THEN 0 ELSE Times(queue, e)) + Times(given, e)

Chosen == \E e \in Elements : taken = <<e>> /\ (op = "poll" /\ ordered => First(e))

Conserved ==
  op # "none" =>
    /\ last.op = "none" /\ Balanced
    /\ op \in {"construct", "offer", "addAll"} => taken = <<>>
    /\ op \in {"poll", "remove"} => given = <<>> /\ Chosen

\* The copy is an array with x in the hole.
LEMMA FilledIs ==
  ASSUME TypeOK, op # "none"
  PROVE  /\ es \in Seq(Elements) /\ k \in 1..Len(es) /\ x \in Elements /\ Filled \in Seq(Elements)
         /\ Len(Filled) = Len(es) /\ Filled[k] = x
         /\ \A i \in 1..Len(es) : i # k => Filled[i] = es[i]
         /\ \A i \in 1..Len(es) : Filled[i] \in Elements
BY Put DEF TypeOK, Filled

\* A hole that is filled with what the array has there.
LEMMA FilledAnew ==
  ASSUME NEW a \in Seq(Elements), NEW i \in 1..Len(a)
  PROVE  [a EXCEPT ![i] = a[i]] = a
OBVIOUS

\* A turn of a sift moves an element into the hole, and the hole to where it was.
LEMMA MoveFills ==
  ASSUME TypeOK, op # "none", NEW c \in 1..Len(es), Move(c), NEW e \in Elements
  PROVE  Times(Filled', e) = Times(Filled, e)
<1>1. es \in Seq(Elements) /\ k \in 1..Len(es) /\ x \in Elements /\ es[c] \in Elements
  BY FilledIs, ElementOfSeq
<1>2. PICK a : a = [es EXCEPT ![k] = es[c]]
  OBVIOUS
<1>3. es' = a /\ k' = c /\ x' = x
  BY <1>2 DEF Move
<1>4. a \in Seq(Elements) /\ Len(a) = Len(es) /\ a[c] = es[c]
  BY <1>1, <1>2
<1>5. Times(a, e) + (IF es[k] = e THEN 1 ELSE 0) = Times(es, e) + (IF es[c] = e THEN 1 ELSE 0)
  <2>1. PICK y \in Elements : y = es[c]
    BY <1>1
  <2>2. Times([es EXCEPT ![k] = y], e) + (IF es[k] = e THEN 1 ELSE 0) = Times(es, e) + (IF y = e THEN 1 ELSE 0)
    BY <1>1, TimesPut
  <2> QED BY <1>2, <2>1, <2>2
<1>6. Times(Filled, e) + (IF es[k] = e THEN 1 ELSE 0) = Times(es, e) + (IF x = e THEN 1 ELSE 0)
  BY <1>1, TimesPut DEF Filled
<1>7. Times([a EXCEPT ![c] = x], e) + (IF es[c] = e THEN 1 ELSE 0) = Times(a, e) + (IF x = e THEN 1 ELSE 0)
  BY <1>1, <1>4, TimesPut
<1>8. Filled' = [a EXCEPT ![c] = x]
  BY <1>3 DEF Filled
<1>9. [a EXCEPT ![c] = x] \in Seq(Elements) /\ Filled \in Seq(Elements)
  BY <1>1, <1>4, Replaced, FilledIs
<1>10. Times(Filled, e) \in Nat /\ Times(es, e) \in Nat /\ Times(a, e) \in Nat /\ Times([a EXCEPT ![c] = x], e) \in Nat
  BY <1>1, <1>4, <1>9, TimesType
<1>11. PICK f \in Nat, g \in Nat, s \in Nat, t \in Nat :
           f = Times(Filled, e) /\ g = Times([a EXCEPT ![c] = x], e) /\ s = Times(es, e) /\ t = Times(a, e)
  BY <1>10
<1>12. PICK u \in 0..1, v \in 0..1, w \in 0..1 :
           /\ u = (IF es[k] = e THEN 1 ELSE 0) /\ v = (IF es[c] = e THEN 1 ELSE 0)
           /\ w = (IF x = e THEN 1 ELSE 0)
  OBVIOUS
<1>13. t + u = s + v /\ f + u = s + w /\ g + v = t + w
  BY <1>5, <1>6, <1>7, <1>11, <1>12
<1>14. g = f
  BY <1>13
<1> QED
  BY <1>8, <1>11, <1>14

\* What is left to balance when the same member goes on.
LEMMA StillConserved ==
  ASSUME Conserved, op # "none", UNCHANGED <<queue, last, op, given, taken>>, ordered' => ordered,
         \A e \in Elements : Times(Filled', e) + Times(more', e) = Times(Filled, e) + Times(more, e),
         \A e \in Elements : Times(Filled', e) \in Nat /\ Times(more', e) \in Nat /\ Times(Filled, e) \in Nat /\
                             Times(more, e) \in Nat /\ Times(taken, e) \in Nat
  PROVE  Conserved'
<1>1. /\ queue' = queue /\ last' = last /\ op' = op /\ given' = given /\ taken' = taken
  OBVIOUS
<1>2. Balanced
  BY DEF Conserved
<1>3. Balanced'
  BY <1>1, <1>2 DEF Balanced
<1>4. Chosen => Chosen'
  BY <1>1 DEF Chosen, First
<1> QED
  BY <1>1, <1>3, <1>4 DEF Conserved

\* The types that counting needs.
LEMMA CountTypes ==
  ASSUME TypeOK, op # "none", NEW e \in Elements
  PROVE  /\ Times(Filled, e) \in Nat /\ Times(more, e) \in Nat /\ Times(taken, e) \in Nat
         /\ Times(given, e) \in Nat /\ Times(queue, e) \in Nat
<1>1. Filled \in Seq(Elements)
  BY FilledIs
<1> QED
  BY <1>1, TimesType DEF TypeOK

\* The member that places its last element ends as it promised.
LEMMA EndsAsPromised ==
  ASSUME IInv, Conserved, op # "none", more = <<>>, Store(op, Filled, given, taken), ordered' => ordered
  PROVE  Promise!Next
<1>1. /\ TypeOK /\ op \in {"construct", "offer", "addAll", "poll", "remove"}
      /\ given \in Seq(Elements) /\ taken \in Seq(Elements)
      /\ Filled \in Seq(Elements) /\ Ended(op, Filled, given, taken)
  BY FilledIs DEF IInv, TypeOK, Store, Ended
<1>2. PICK a \in Seq(Elements) : a = Filled
  BY <1>1
<1>3. \A e \in Elements : /\ Times(more, e) = 0 /\ Times(<<>>, e) = 0
                          /\ Times(a, e) \in Nat /\ Times(taken, e) \in Nat
                          /\ Times(given, e) \in Nat /\ Times(queue, e) \in Nat
  BY <1>1, <1>2, CountTypes, TimesNone
<1>4. \A e \in Elements : Times(a, e) + Times(taken, e) = (IF op = "construct" THEN 0 ELSE Times(queue, e)) + Times(given, e)
  BY <1>2, <1>3 DEF Conserved, Balanced
<1>5. CASE op = "construct"
  <2>1. taken = <<>>
    BY <1>5 DEF Conserved
  <2>2. \A e \in Elements : Times(a, e) = Times(given, e)
    BY <1>3, <1>4, <1>5, <2>1
  <2> QED BY <1>1, <1>2, <1>5, <2>1, <2>2, Constructed
<1>6. CASE op \in {"offer", "addAll"}
  <2>1. taken = <<>>
    BY <1>6 DEF Conserved
  <2>2. Counts(a, queue, given)
    BY <1>3, <1>4, <1>6, <2>1 DEF Counts
  <2> QED BY <1>1, <1>2, <1>6, <2>1, <2>2, Added
<1>7. CASE op \in {"poll", "remove"}
  <2>1. given = <<>> /\ Chosen
    BY <1>7 DEF Conserved
  <2>2. PICK e \in Elements : taken = <<e>> /\ (op = "poll" /\ ordered => First(e))
    BY <2>1 DEF Chosen
  <2>3. Counts(queue, a, <<e>>)
    <3> SUFFICES ASSUME NEW d \in Elements PROVE Times(queue, d) = Times(a, d) + Times(<<e>>, d)
      BY DEF Counts
    <3> QED BY <1>3, <1>4, <1>7, <2>1, <2>2
  <2>4. Ended(op, a, <<>>, <<e>>)
    BY <1>1, <1>2, <2>1, <2>2
  <2> QED BY <1>1, <1>7, <2>2, <2>3, <2>4, Took
<1> QED
  BY <1>1, <1>5, <1>6, <1>7

\* Both lemmas of a member that goes on: what it places next is in the array, or is the
\* next element of addAll.
LEMMA PlaceConserves ==
  ASSUME IInv, Conserved, op # "none", Place, ordered' => ordered
  PROVE  Conserved' /\ (op' = "none" => Promise!Next) /\ (op' # "none" => queue' = queue /\ last' = last)
<1>1. /\ TypeOK /\ Filled \in Seq(Elements) /\ k \in 1..Len(es) /\ Len(Filled) = Len(es)
      /\ more \in Seq(Elements) /\ from \in 1..Len(es) /\ Len(es) \in Nat
  BY FilledIs DEF IInv, TypeOK
<1>2. Placed(Filled)
  BY DEF Place, Filled
<1>3. ASSUME UNCHANGED <<queue, last, op, given, taken>>, NEW a \in Seq(Elements), NEW i \in 1..Len(a),
             NEW rest \in Seq(Elements), es' = a, k' = i, x' = a[i], more' = rest,
             \A e \in Elements : Times(a, e) + Times(rest, e) = Times(Filled, e) + Times(more, e)
      PROVE  Conserved'
  <2>1. Filled' = [a EXCEPT ![i] = a[i]]
    BY <1>3 DEF Filled
  <2>2. Filled' = a
    BY <2>1, FilledAnew
  <2>3. \A e \in Elements : Times(a, e) \in Nat /\ Times(rest, e) \in Nat
    BY TimesType
  <2>4. \A e \in Elements : /\ Times(Filled, e) \in Nat /\ Times(more, e) \in Nat /\ Times(taken, e) \in Nat
    BY <1>1, CountTypes
  <2> QED BY <1>3, <2>2, <2>3, <2>4, StillConserved
<1>4. CASE more # <<>>
  <2>1. PICK b, n : b = Append(Filled, Head(more)) /\ n = Len(Filled) + 1
    OBVIOUS
  <2>2. Head(more) \in Elements /\ Tail(more) \in Seq(Elements)
    BY <1>1, <1>4, HeadTailProperties
  <2>3. b \in Seq(Elements) /\ Len(b) = n /\ n \in 1..Len(b)
    BY <1>1, <2>1, <2>2, AppendProperties
  <2>4. /\ UNCHANGED <<queue, last, op, given, taken>>
        /\ es' = b /\ k' = n /\ x' = b[n] /\ more' = Tail(more)
    BY <1>2, <1>4, <2>1 DEF Placed, Hole
  <2>5. ASSUME NEW e \in Elements
        PROVE  Times(b, e) + Times(Tail(more), e) = Times(Filled, e) + Times(more, e)
    <3>1. Times(b, e) = Times(Filled, e) + (IF Head(more) = e THEN 1 ELSE 0)
      BY <1>1, <2>1, <2>2, TimesAppend
    <3>2. Times(more, e) = Times(Tail(more), e) + (IF Head(more) = e THEN 1 ELSE 0)
      BY <1>1, <1>4, TimesTail
    <3>3. Times(Filled, e) \in Nat /\ Times(Tail(more), e) \in Nat
      BY <1>1, <2>2, TimesType
    <3> QED BY <3>1, <3>2, <3>3
  <2>6. Conserved'
    BY <1>3, <2>2, <2>3, <2>4, <2>5
  <2> QED BY <2>4, <2>6
<1>5. CASE more = <<>> /\ op = "construct" /\ from > 1
  <2>1. /\ UNCHANGED <<queue, last, op, given, taken>>
        /\ es' = Filled /\ k' = from - 1 /\ x' = Filled[from - 1] /\ more' = more
    BY <1>2, <1>5 DEF Placed, Hole
  <2>2. from - 1 \in 1..Len(Filled)
    BY <1>1, <1>5
  <2>3. Conserved'
    BY <1>1, <1>3, <2>1, <2>2
  <2> QED BY <2>1, <2>3
<1>6. CASE more = <<>> /\ op = "remove" /\ dir = "down" /\ Filled[from] = x
  <2>1. /\ UNCHANGED <<queue, last, op, given, taken>>
        /\ es' = Filled /\ k' = from /\ x' = Filled[from] /\ more' = more
    BY <1>2, <1>6 DEF Placed, Hole
  <2>2. Conserved'
    BY <1>1, <1>3, <2>1
  <2> QED BY <2>1, <2>2
<1>7. CASE /\ more = <<>> /\ ~(op = "construct" /\ from > 1)
           /\ ~(op = "remove" /\ dir = "down" /\ Filled[from] = x)
  <2>1. Store(op, Filled, given, taken)
    BY <1>2, <1>7 DEF Placed
  <2>2. Promise!Next
    BY <1>7, <2>1, EndsAsPromised
  <2>3. op' = "none"
    BY <2>1 DEF Store
  <2> QED BY <2>2, <2>3 DEF Conserved
<1> QED
  BY <1>4, <1>5, <1>6, <1>7

\* A turn of a sift ends nothing and loses nothing.
LEMMA MoveConserves ==
  ASSUME IInv, Conserved, op # "none", NEW c \in 1..Len(es), Move(c), ordered' => ordered
  PROVE  Conserved' /\ op' # "none" /\ queue' = queue /\ last' = last
<1>1. TypeOK
  BY DEF IInv
<1>2. UNCHANGED <<queue, last, op, given, taken, more>>
  BY DEF Move
<1>3. \A e \in Elements : Times(Filled', e) = Times(Filled, e)
  BY <1>1, MoveFills
<1>4. \A e \in Elements : Times(Filled, e) \in Nat /\ Times(more, e) \in Nat /\ Times(taken, e) \in Nat
  BY <1>1, CountTypes
<1>5. Conserved'
  BY <1>2, <1>3, <1>4, StillConserved
<1> QED
  BY <1>2, <1>5

\* A step that ends no call only shows that a call runs.
LEMMA RunsOn ==
  ASSUME queue' = queue, last'.op = "none", ordered' => ordered
  PROVE  Promise!Next
BY DEF Promise!Next, Promise!Runs

\* The steps of the interpreter that the promise sees, and what they leave.
Good == Conserved' /\ Promise!Next

LEMMA SiftGood ==
  ASSUME IInv, Conserved, pq_sift_up \/ pq_sift_down
  PROVE  Good
<1>2. op # "none" /\ (ordered' => ordered)
  BY DEF pq_sift_up, pq_sift_down, Compares
<1>3. TypeOK /\ last.op = "none" /\ k \in 1..Len(es)
  BY <1>2 DEF IInv, TypeOK, Conserved
<1>4. Place \/ \E c \in 1..Len(es) : Move(c)
  <2>1. CASE pq_sift_up
    <3>1. k > 1 => k \div 2 \in 1..Len(es)
      BY <1>3, Halves
    <3> QED BY <2>1, <3>1 DEF pq_sift_up
  <2>2. CASE pq_sift_down
    <3>1. 2 * k <= Len(es) => Child \in 1..Len(es)
      <4>1. 2 * k <= Len(es) => Child \in 2..Len(es)
        BY <1>2, <1>3, SmallerChild
      <4> QED BY <4>1
    <3> QED BY <2>2, <3>1 DEF pq_sift_down
  <2> QED BY <2>1, <2>2
<1>5. CASE Place
  <2>1. /\ Conserved' /\ (op' = "none" => Promise!Next)
        /\ op' # "none" => queue' = queue /\ last' = last
    BY <1>2, <1>5, PlaceConserves
  <2> QED BY <1>2, <1>3, <2>1, RunsOn DEF Good
<1>6. ASSUME NEW c \in 1..Len(es), Move(c) PROVE Good
  <2>1. Conserved' /\ queue' = queue /\ last' = last
    BY <1>2, <1>6, MoveConserves
  <2> QED BY <1>2, <1>3, <2>1, RunsOn DEF Good
<1> QED
  BY <1>4, <1>5, <1>6

\* A member that ends at once leaves nothing to balance.
LEMMA AtOnceGood ==
  ASSUME NEW name, NEW a, NEW in, NEW out, AtOnce(name, a, in, out)
  PROVE  Conserved' /\ Ended(name, a, in, out)
BY DEF AtOnce, Store, Conserved, Ended

\* A new queue ends at once, or starts with its own copy of the collection.
LEMMA ConstructGood ==
  ASSUME IInv, NEW src \in Seq(Elements), Construct(src)
  PROVE  Good
<1>1. CASE Len(src) < 2
  <2>1. Conserved' /\ Ended("construct", src, src, <<>>)
    BY <1>1, AtOnceGood DEF Construct
  <2> QED BY <2>1, Constructed DEF Good
<1>2. CASE ~(Len(src) < 2)
  <2>1. PICK h : h = Len(src) \div 2
    OBVIOUS
  <2>2. h \in 1..Len(src)
    BY <1>2, <2>1, Halves, LenProperties
  <2>3. /\ op' = "construct" /\ given' = src /\ taken' = <<>> /\ more' = <<>>
        /\ es' = src /\ k' = h /\ x' = src[h] /\ last' = NoCall /\ UNCHANGED <<queue, ordered>>
    BY <1>2, <2>1 DEF Construct, Begin, Hole
  <2>4. Filled' = src
    <3>1. Filled' = [src EXCEPT ![h] = src[h]]
      BY <2>3 DEF Filled
    <3> QED BY <2>2, <3>1, FilledAnew
  <2>5. Balanced'
    BY <2>3, <2>4, TimesNone, TimesType DEF Balanced
  <2>6. Conserved'
    BY <2>3, <2>5 DEF Conserved, NoCall
  <2> QED BY <2>3, <2>6, RunsOn DEF Good, NoCall
<1> QED
  BY <1>1, <1>2

\* offer and addAll: the new element is placed, the others of addAll are still to be added.
LEMMA GrowGood ==
  ASSUME IInv, NEW name \in {"offer", "addAll"}, NEW in \in Seq(Elements), in # <<>>,
         Begin(name, in, <<>>), more' = Tail(in),
         Hole("up", Append(queue, Head(in)), Len(queue) + 1)
  PROVE  Good
<1>1. PICK b, n : b = Append(queue, Head(in)) /\ n = Len(queue) + 1
  OBVIOUS
<1>2. /\ queue \in Seq(Elements) /\ Head(in) \in Elements /\ Tail(in) \in Seq(Elements)
      /\ Len(queue) \in Nat
  BY HeadTailProperties DEF IInv, TypeOK
<1>3. b \in Seq(Elements) /\ n \in 1..Len(b)
  BY <1>1, <1>2, AppendProperties
<1>4. /\ op' = name /\ given' = in /\ taken' = <<>> /\ last' = NoCall
      /\ es' = b /\ k' = n /\ x' = b[n] /\ UNCHANGED <<queue, ordered>>
  BY <1>1 DEF Begin, Hole
<1>5. Filled' = b
  <2>1. Filled' = [b EXCEPT ![n] = b[n]]
    BY <1>4 DEF Filled
  <2> QED BY <1>3, <2>1, FilledAnew
<1>6. Balanced'
  <2> SUFFICES ASSUME NEW e \in Elements
               PROVE  Times(b, e) + Times(Tail(in), e) + Times(<<>>, e) = Times(queue, e) + Times(in, e)
    BY <1>4, <1>5 DEF Balanced
  <2>1. Times(b, e) = Times(queue, e) + (IF Head(in) = e THEN 1 ELSE 0)
    BY <1>1, <1>2, TimesAppend
  <2>2. Times(in, e) = Times(Tail(in), e) + (IF Head(in) = e THEN 1 ELSE 0)
    BY TimesTail
  <2>3. Times(queue, e) \in Nat /\ Times(Tail(in), e) \in Nat /\ Times(<<>>, e) = 0
    BY <1>2, TimesType, TimesNone
  <2> QED BY <2>1, <2>2, <2>3
<1>7. Conserved'
  BY <1>4, <1>6 DEF Conserved, NoCall
<1> QED
  BY <1>4, <1>7, RunsOn DEF Good, NoCall

\* poll and remove(o): the last element fills the place of the one taken.
LEMMA VacateGood ==
  ASSUME IInv, op = "none", NEW name \in {"poll", "remove"}, NEW i \in 1..Len(queue), NEW y \in Elements, queue[i] = y,
         name = "poll" /\ ordered => First(y), Vacate(name, i, <<y>>)
  PROVE  Good
<1>1. PICK n, z, a : n = Len(queue) - 1 /\ z = queue[Len(queue)] /\ a = SubSeq(queue, 1, Len(queue) - 1)
  OBVIOUS
<1>2. queue \in Seq(Elements) /\ queue # <<>> /\ Len(queue) \in Nat /\ TypeOK
  BY EmptySeq, LenProperties DEF IInv, TypeOK
<1>3. n \in Nat /\ Len(queue) = n + 1 /\ z \in Elements /\ <<y>> \in Seq(Elements)
  BY <1>1, <1>2, ElementOfSeq
<1>4. /\ a \in Seq(Elements) /\ Len(a) = n /\ (\A j \in 1..n : a[j] = queue[j])
      /\ \A e \in Elements : Times(queue, e) = Times(a, e) + (IF z = e THEN 1 ELSE 0)
  BY <1>1, <1>2, FrontIs, TimesFront
<1>5. CASE i > n
  <2>1. AtOnce(name, a, <<>>, <<y>>)
    BY <1>1, <1>4, <1>5 DEF Vacate
  <2>2. Conserved' /\ Ended(name, a, <<>>, <<y>>)
    BY <2>1, AtOnceGood
  <2>3. z = y
    BY <1>1, <1>3, <1>5
  <2>4. Counts(queue, a, <<y>>)
    BY <1>4, <2>3, TimesOne DEF Counts
  <2>5. ordered' => ordered
    BY <2>1 DEF AtOnce
  <2>6. Promise!Next
    BY <1>2, <1>4, <2>2, <2>4, <2>5, Took
  <2> QED BY <2>2, <2>6 DEF Good
<1>6. CASE ~(i > n)
  <2>1. /\ op' = name /\ given' = <<>> /\ taken' = <<y>> /\ more' = <<>> /\ last' = NoCall
        /\ es' = a /\ k' = i /\ x' = z /\ UNCHANGED <<queue, ordered>>
    BY <1>1, <1>4, <1>6 DEF Vacate, Begin
  <2>2. i \in 1..Len(a) /\ a[i] = y
    BY <1>3, <1>4, <1>6
  <2>3. Filled' = [a EXCEPT ![i] = z]
    BY <2>1 DEF Filled
  <2>4. ASSUME NEW e \in Elements
        PROVE  Times(Filled', e) + Times(<<>>, e) + Times(<<y>>, e) = Times(queue, e) + Times(<<>>, e)
    <3>1. Times([a EXCEPT ![i] = z], e) + (IF a[i] = e THEN 1 ELSE 0) = Times(a, e) + (IF z = e THEN 1 ELSE 0)
      <4>1. a \in Seq(Elements) /\ z \in Elements /\ i \in 1..Len(a)
        BY <1>3, <1>4, <2>2
      <4> QED BY <4>1, TimesPut
    <3>2. Times(<<y>>, e) = (IF y = e THEN 1 ELSE 0) /\ Times(<<>>, e) = 0
      BY TimesOne, TimesNone
    <3>3. [a EXCEPT ![i] = z] \in Seq(Elements)
      BY <1>3, <1>4, <2>2, Replaced
    <3>4. Times([a EXCEPT ![i] = z], e) \in Nat /\ Times(queue, e) \in Nat
      BY <1>2, <3>3, TimesType
    <3>5. PICK g \in Nat, q \in Nat, t \in Nat :
             g = Times([a EXCEPT ![i] = z], e) /\ q = Times(queue, e) /\ t = Times(a, e)
      BY <1>4, <3>4, TimesType
    <3>6. g + (IF y = e THEN 1 ELSE 0) = t + (IF z = e THEN 1 ELSE 0) /\ q = t + (IF z = e THEN 1 ELSE 0)
      BY <1>4, <2>2, <3>1, <3>5
    <3>7. g + 0 + (IF y = e THEN 1 ELSE 0) = q + 0
      BY <3>6
    <3> QED BY <2>3, <3>2, <3>5, <3>7
  <2>5. Balanced'
    BY <2>1, <2>4 DEF Balanced
  <2>6. Chosen'
    <3>1. name = "poll" /\ ordered' => First(y)'
      BY <2>1 DEF First
    <3> QED BY <2>1, <3>1 DEF Chosen, First
  <2>7. Conserved'
    BY <2>1, <2>5, <2>6 DEF Conserved, NoCall
  <2> QED BY <2>1, <2>7, RunsOn DEF Good, NoCall
<1> QED
  BY <1>5, <1>6

\* What is compacted away is what the call takes.
LEMMA RemoveIfGood ==
  ASSUME IInv, NEW dropped \in SUBSET Elements, RemoveIf(dropped)
  PROVE  Good
<1>1. PICK a, out : a = Those(queue, Elements \ dropped) /\ out = Those(queue, dropped)
  OBVIOUS
<1>2. queue \in Seq(Elements) /\ TypeOK
  BY DEF IInv, TypeOK
<1>3. /\ a \in Seq(Elements) /\ out \in Seq(Elements)
      /\ \A e \in Elements : /\ Times(a, e) = IF e \in Elements \ dropped THEN Times(queue, e) ELSE 0
                             /\ Times(out, e) = IF e \in dropped THEN Times(queue, e) ELSE 0
                             /\ Times(queue, e) \in Nat
  BY <1>1, <1>2, ThoseTimes, TimesType
<1>4. Counts(queue, a, out)
  BY <1>3 DEF Counts
<1>5. Ended("removeIf", a, <<>>, out) /\ ~ordered' /\ Conserved'
  BY <1>1 DEF RemoveIf, Store, Ended, Conserved
<1>6. Promise!Next
  BY <1>2, <1>3, <1>4, <1>5, TookAll
<1> QED
  BY <1>5, <1>6 DEF Good

\* Every step is one of the promise.
LEMMA StepGood ==
  ASSUME IInv, Conserved, Next
  PROVE  Good
<1>1. CASE pq_sift_up \/ pq_sift_down
  BY <1>1, SiftGood
<1>2. ASSUME NEW n \in 0..MaxSize, NEW src \in [1..n -> Elements], Construct(src)
      PROVE  Good
  <2>1. src \in Seq(Elements)
    BY <1>2, QueueAssumption, SeqDef
  <2> QED BY <1>2, <2>1, ConstructGood
<1>3. ASSUME NEW e \in Elements, Offer(e)
      PROVE  Good
  <2>1. PICK in : in = <<e>>
    OBVIOUS
  <2>2. in \in Seq(Elements) /\ in # <<>> /\ Head(in) = e /\ Tail(in) = <<>>
    BY <2>1
  <2>3. /\ Begin("offer", in, <<>>) /\ more' = Tail(in)
        /\ Hole("up", Append(queue, Head(in)), Len(queue) + 1)
    BY <1>3, <2>1, <2>2 DEF Offer
  <2> QED BY <2>2, <2>3, GrowGood
<1>4. ASSUME NEW n \in 1..MaxAdded, NEW s \in [1..n -> Elements], AddAll(s)
      PROVE  Good
  <2>1. s \in Seq(Elements) /\ s # <<>>
    BY <1>4, QueueAssumption, SeqDef
  <2> QED BY <1>4, <2>1, GrowGood DEF AddAll
<1>5. CASE Poll
  <2>1. queue \in Seq(Elements) /\ queue # <<>> /\ op = "none"
    BY <1>5 DEF Poll, IInv, TypeOK, Vacate, AtOnce, Begin
  <2>2. PICK y : y = queue[1]
    OBVIOUS
  <2>3. 1 \in 1..Len(queue) /\ y \in Elements
    BY <2>1, <2>2, EmptySeq, LenProperties, ElementOfSeq
  <2>4. ordered => First(y)
    BY <2>1, <2>2, HeapRoot DEF RootIsLeast, First
  <2>5. Vacate("poll", 1, <<y>>)
    BY <1>5, <2>2 DEF Poll
  <2> QED BY <2>1, <2>2, <2>3, <2>4, <2>5, VacateGood
<1>6. ASSUME NEW e \in Elements, RemoveElement(e)
      PROVE  Good
  <2>1. PICK i \in DOMAIN queue : queue[i] = e /\ Vacate("remove", i, <<e>>)
    BY <1>6 DEF RemoveElement
  <2>2. i \in 1..Len(queue) /\ op = "none"
    BY <2>1, LenProperties DEF IInv, TypeOK, Vacate, AtOnce, Begin
  <2> QED BY <2>1, <2>2, VacateGood
<1>7. ASSUME NEW dropped \in SUBSET Elements, RemoveIf(dropped)
      PROVE  Good
  BY <1>7, RemoveIfGood
<1> QED
  BY <1>1, <1>2, <1>3, <1>4, <1>5, <1>6, <1>7 DEF Next

\* The queue is the bag that java.util.PriorityQueue promises (JavaQueue), seen
\* through its array: whatever the order of calls, however the elements compare, for every
\* size, and when the comparator throws in the middle of a sift.
THEOREM Implements == Spec => KeepsPromise
<1>1. Init => IInv /\ Conserved
  BY InitInv DEF Init, Conserved
<1>2. Init => Promise!Init
  BY SmallBags DEF Init, NoCall, Promise!Init
<1>3. IInv /\ Conserved /\ [Next]_vars => Conserved' /\ [Promise!Next]_(Promise!vars)
  <2> SUFFICES ASSUME IInv, Conserved, [Next]_vars
               PROVE  Conserved' /\ [Promise!Next]_(Promise!vars)
    OBVIOUS
  <2>1. CASE Next
    BY <2>1, StepGood DEF Good
  <2>2. CASE UNCHANGED vars
    <3>1. Conserved'
      BY <2>2 DEF vars, locals, Conserved, Balanced, Chosen, First, Filled
    <3>2. UNCHANGED Promise!vars
      BY <2>2 DEF vars, locals, Promise!vars
    <3> QED BY <3>1, <3>2
  <2> QED BY <2>1, <2>2
<1> QED
  BY <1>1, <1>2, <1>3, InitInv, StepInv, PTL DEF Spec, KeepsPromise, Promise!Spec

(***************************************************************************)
(* A map, with the constants and the state of OrderedMaps.                  *)
(***************************************************************************)
CONSTANTS Keys, Indexed, Hash, Rank, Vals, Null, OutOfRange, None
VARIABLES map, calls, reply
Maps == INSTANCE OrderedMaps

(* ---- the inductive invariant of a map ---------------------------------------------------- *)

\* A sequence, of whatever.
Listing(s) == s \in Seq({s[i] : i \in DOMAIN s})

Orders == {"linked", "hash", "sorted"}
Shape(m) == /\ m \in [order : Orders, initial : Nat, entries : {m.entries},
                      unordered : BOOLEAN, index : {m.index}]
            /\ Listing(m.entries)

\* The index is right about the entries it was built over.
Exact(m) ==
  /\ m.index \in [by_key : [Indexed -> SUBSET Nat], unindexed : {m.index.unindexed}, built_len : Nat]
  /\ m.index.built_len <= Len(m.entries)
  /\ \A b \in Indexed :
       m.index.by_key[b] = {i \in 1..m.index.built_len : m.entries[i][1] = b}

\* A map got shorter without the index: its length tells.
IndexRight(m) ==
  \/ m.order = "sorted" \/ m.index = None
  \/ m.index.built_len \in Nat /\ Len(m.entries) < m.index.built_len
  \/ Exact(m)

\* A lookup was the last thing that happened to the map.
Fresh(m) == m.order = "sorted" \/ (Exact(m) /\ m.index.built_len = Len(m.entries))

\* The member that asked a lambda had looked its key up.
Asked == calls = <<>> \/ (calls = <<calls[1]>> /\ calls[1].key \in Keys /\ Fresh(map))

(* ---- sequences --------------------------------------------------------------------- *)

\* The library's operators, as the module of the map has them, are this module's.
LEMMA SameLeast ==
  ASSUME NEW S
  PROVE  Maps!Min(S) = Min(S)
BY DEF Maps!Min, Min

LEMMA SameSize ==
  ASSUME NEW S
  PROVE  Maps!Cardinality(S) = Cardinality(S)
BY DEF Maps!Cardinality, Cardinality

LEMMA Listed ==
  ASSUME NEW T, NEW s \in Seq(T)
  PROVE  Listing(s) /\ Len(s) \in Nat /\ DOMAIN s = 1..Len(s)
<1>1. Len(s) \in Nat /\ DOMAIN s = 1..Len(s)
  BY LenProperties
<1>2. s \in [1..Len(s) -> {s[i] : i \in DOMAIN s}]
  BY <1>1, LenProperties
<1> QED BY <1>1, <1>2 DEF Listing

LEMMA ListingLen ==
  ASSUME NEW s, Listing(s)
  PROVE  Len(s) \in Nat /\ DOMAIN s = 1..Len(s)
BY LenProperties DEF Listing

LEMMA Function ==
  ASSUME NEW n \in Nat, NEW f, DOMAIN f = 1..n, f = [i \in 1..n |-> f[i]]
  PROVE  Listing(f) /\ Len(f) = n
<1>1. f \in [1..n -> {f[i] : i \in DOMAIN f}]
  OBVIOUS
<1>2. f \in Seq({f[i] : i \in DOMAIN f})
  BY <1>1
<1> QED BY <1>1, <1>2, LenProperties DEF Listing

LEMMA AppendListed ==
  ASSUME NEW s, Listing(s), NEW e
  PROVE  /\ Listing(Append(s, e)) /\ Len(Append(s, e)) = Len(s) + 1
         /\ \A i \in DOMAIN s : Append(s, e)[i] = s[i]
<1> DEFINE T == {s[i] : i \in DOMAIN s} \cup {e}
<1>1. s \in Seq(T) /\ e \in T
  BY SeqMonotonic DEF Listing
<1>2. Append(s, e) \in Seq(T) /\ Len(Append(s, e)) = Len(s) + 1
  BY <1>1
<1>3. \A i \in DOMAIN s : Append(s, e)[i] = s[i]
  BY <1>1
<1> QED BY <1>2, <1>3, Listed

LEMMA OverwriteListed ==
  ASSUME NEW s, Listing(s), NEW at \in DOMAIN s, NEW e
  PROVE  /\ Listing([s EXCEPT ![at] = e]) /\ Len([s EXCEPT ![at] = e]) = Len(s)
         /\ \A i \in DOMAIN s : [s EXCEPT ![at] = e][i] = IF i = at THEN e ELSE s[i]
<1> DEFINE t == [s EXCEPT ![at] = e]
<1>1. Len(s) \in Nat /\ DOMAIN s = 1..Len(s) /\ s = [i \in 1..Len(s) |-> s[i]]
  BY ListingLen, LenProperties DEF Listing
<1>2. DOMAIN t = 1..Len(s) /\ t = [i \in 1..Len(s) |-> t[i]]
  BY <1>1
<1>3. Listing(t) /\ Len(t) = Len(s)
  BY <1>1, <1>2, Function
<1> QED BY <1>1, <1>3

LEMMA ShorterListed ==
  ASSUME NEW s, Listing(s), NEW at \in DOMAIN s
  PROVE  /\ Listing(Maps!Seqs!RemoveAt(s, at)) /\ Len(Maps!Seqs!RemoveAt(s, at)) = Len(s) - 1
<1> DEFINE T == {s[i] : i \in DOMAIN s}
           l == SubSeq(s, 1, at - 1)
           r == SubSeq(s, at + 1, Len(s))
<1>1. Len(s) \in Nat /\ DOMAIN s = 1..Len(s) /\ at \in 1..Len(s)
  BY ListingLen
<1>2. l \in Seq(T) /\ Len(l) = at - 1
  <2>1. \A i \in 1..at - 1 : s[i] \in T
    BY <1>1
  <2>2. l \in Seq(T) /\ Len(l) = IF 1 <= at - 1 THEN at - 1 - 1 + 1 ELSE 0
    BY <1>1, <2>1, SubSeqProperties
  <2> QED BY <1>1, <2>2
<1>3. r \in Seq(T) /\ Len(r) = Len(s) - at
  <2>1. \A i \in at + 1..Len(s) : s[i] \in T
    BY <1>1
  <2>2. r \in Seq(T) /\ Len(r) = IF at + 1 <= Len(s) THEN Len(s) - (at + 1) + 1 ELSE 0
    BY <1>1, <2>1, SubSeqProperties
  <2> QED BY <1>1, <2>2
<1>4. l \o r \in Seq(T) /\ Len(l \o r) = Len(l) + Len(r)
  BY <1>2, <1>3, ConcatProperties
<1>5. Listing(l \o r)
  <2> HIDE DEF T, l, r
  <2> QED BY <1>4, Listed
<1>6. Len(l \o r) = Len(s) - 1
  BY <1>1, <1>2, <1>3, <1>4
<1> QED BY <1>5, <1>6 DEF Maps!Seqs!RemoveAt

LEMMA ArrangedListed ==
  ASSUME NEW s, Listing(s), NEW place
  PROVE  Listing(Maps!Arranged(s, place)) /\ Len(Maps!Arranged(s, place)) = Len(s)
<1> DEFINE t == Maps!Arranged(s, place)
<1>1. Len(s) \in Nat
  BY ListingLen
<1>2. DOMAIN t = 1..Len(s) /\ t = [i \in 1..Len(s) |-> t[i]]
  BY DEF Maps!Arranged
<1> HIDE DEF t
<1>3. Listing(t) /\ Len(t) = Len(s)
  BY <1>1, <1>2, Function
<1> QED BY <1>3 DEF t

(* ---- the lookup ------------------------------------------------------------------------ *)

LEMMA SmallestOf ==
  ASSUME NEW hits \in SUBSET Nat, hits # {}
  PROVE  Min(hits) \in hits
<1> DEFINE R == OpToRel(<, Nat)
<1>1. PICK low \in hits : \A y \in hits : ~(y < low)
  <2>1. \E low \in hits : \A y \in hits : <<y, low>> \notin R
    BY NatLessThanWellFounded, WFMin
  <2>2. QED
    BY <2>1 DEF OpToRel
<1>2. \A y \in hits : low <= y
  BY <1>1
<1> QED BY <1>2 DEF Min

LEMMA ScanInside ==
  ASSUME NEW m, Shape(m), NEW q
  PROVE  Maps!Scan(m, q) = 0 \/ Maps!Scan(m, q) \in DOMAIN m.entries
<1> DEFINE hits == {i \in DOMAIN m.entries : Maps!Same(m, m.entries[i][1], q)}
<1>1. hits \in SUBSET Nat
  BY ListingLen DEF Shape
<1> HIDE DEF hits
<1>2. CASE hits = {}
  BY <1>2 DEF Maps!Scan, hits
<1>3. CASE hits # {}
  <2>1. Min(hits) \in hits
    BY <1>1, <1>3, SmallestOf
  <2>2. Maps!Scan(m, q) = Min(hits)
    BY <1>3, SameLeast DEF Maps!Scan, hits
  <2> QED BY <2>1, <2>2 DEF hits
<1> QED BY <1>2, <1>3

\* A lookup leaves the entries and their order alone.
LEMMA LookupLeaves ==
  ASSUME NEW m, Shape(m), NEW q
  PROVE  LET n == Maps!key_index_candidates(m, q)
         IN  Shape(n) /\ n.entries = m.entries /\ n.order = m.order
<1> DEFINE n == [m EXCEPT !.index = Maps!Repaired(m, Maps!Covered(m))]
<1>1. Shape(n) /\ n.entries = m.entries /\ n.order = m.order
  BY DEF Shape
<1> QED BY <1>1 DEF Maps!key_index_candidates

\* And it brings the index up to date.
LEMMA LookupRepairs ==
  ASSUME Indexed = Keys, NEW m, Shape(m), IndexRight(m), NEW q \in Keys
  PROVE  Fresh(Maps!key_index_candidates(m, q))
<1>1. CASE m.order = "sorted"
  BY <1>1 DEF Maps!key_index_candidates, Maps!Indexing, Fresh
<1>2. CASE m.order # "sorted"
  <2> DEFINE c == Maps!Covered(m)
             ix == Maps!Repaired(m, c)
             n == [m EXCEPT !.index = ix]
  <2>1. Len(m.entries) \in Nat /\ DOMAIN m.entries = 1..Len(m.entries)
    BY ListingLen DEF Shape
  <2>2. /\ c.by_key \in [Indexed -> SUBSET Nat] /\ c.built_len \in 0..Len(m.entries)
        /\ \A b \in Indexed : c.by_key[b] = {i \in 1..c.built_len : m.entries[i][1] = b}
    <3>1. CASE m.index = None \/ Len(m.entries) < m.index.built_len
      <4>1. c = Maps!EmptyIndex
        BY <3>1 DEF Maps!Covered
      <4> QED BY <4>1, <2>1 DEF Maps!EmptyIndex
    <3>2. CASE m.index # None /\ ~(Len(m.entries) < m.index.built_len)
      <4>1. Exact(m) /\ c = m.index
        BY <1>2, <3>2 DEF IndexRight, Maps!Covered
      <4> QED BY <4>1, <2>1 DEF Exact
    <3> QED BY <3>1, <3>2
  <2>3. /\ ix.built_len = Len(m.entries)
        /\ ix = [by_key |-> ix.by_key, unindexed |-> ix.unindexed, built_len |-> ix.built_len]
        /\ ix.by_key = [b \in Indexed |-> c.by_key[b] \cup {i \in c.built_len + 1..Len(m.entries) : m.entries[i][1] = b}]
    BY DEF Maps!Repaired
  <2> HIDE DEF c, ix
  <2>4. ix.by_key \in [Indexed -> SUBSET Nat]
    BY <2>1, <2>2, <2>3
  <2>5. \A b \in Indexed : ix.by_key[b] = {i \in 1..ix.built_len : m.entries[i][1] = b}
    <3>1. TAKE b \in Indexed
    <3>2. ix.by_key[b] = {i \in 1..c.built_len : m.entries[i][1] = b}
                         \cup {i \in c.built_len + 1..Len(m.entries) : m.entries[i][1] = b}
      BY <2>2, <2>3
    <3> QED BY <2>1, <2>2, <2>3, <3>2
  <2>6. n.index = ix /\ n.entries = m.entries
    BY DEF Shape
  <2>7. ix \in [by_key : [Indexed -> SUBSET Nat], unindexed : {ix.unindexed}, built_len : Nat]
    BY <2>1, <2>3, <2>4
  <2> HIDE DEF n
  <2>8. Exact(n) /\ n.index.built_len = Len(n.entries)
    BY <2>1, <2>3, <2>5, <2>6, <2>7 DEF Exact
  <2>9. Maps!key_index_candidates(m, q) = n
    BY <1>2 DEF Maps!key_index_candidates, Maps!Indexing, n, ix, c
  <2> QED BY <2>8, <2>9 DEF Fresh
<1> QED BY <1>1, <1>2

\* So the position is that of a scan.
LEMMA LookupFinds ==
  ASSUME Indexed = Keys, NEW m, Shape(m), IndexRight(m), NEW q \in Keys
  PROVE  Maps!key_position(m, q) = Maps!Scan(m, q)
<1> DEFINE n == Maps!key_index_candidates(m, q)
<1>1. Shape(n) /\ n.entries = m.entries /\ n.order = m.order /\ Fresh(n)
  BY LookupLeaves, LookupRepairs
<1>2. Maps!Scan(n, q) = Maps!Scan(m, q)
  BY <1>1 DEF Maps!Scan, Maps!Same
<1> HIDE DEF n
<1>3. Maps!At(n, q) = Maps!Scan(n, q)
  <2>1. CASE n.order = "sorted" \/ n.index.unindexed # 0
    BY <2>1 DEF Maps!At, Maps!Indexing
  <2>2. CASE n.order # "sorted" /\ n.index.unindexed = 0
    <3>1. DOMAIN n.entries = 1..Len(n.entries) /\ Len(n.entries) \in Nat
      BY <1>1, ListingLen DEF Shape
    <3>2. {i \in n.index.by_key[q] \cap DOMAIN n.entries : n.entries[i][1] = q}
          = {i \in DOMAIN n.entries : Maps!Same(n, n.entries[i][1], q)}
      BY <1>1, <2>2, <3>1 DEF Fresh, Exact, Maps!Same
    <3>3. Maps!Confirmed(n, q) = Maps!Scan(n, q)
      BY <3>2 DEF Maps!Confirmed, Maps!Scan
    <3> QED BY <2>2, <3>3 DEF Maps!At, Maps!Indexing
  <2> QED BY <2>1, <2>2
<1> QED BY <1>2, <1>3 DEF Maps!key_position, n

(* ---- what a member leaves behind --------------------------------------------------------- *)

Right(m) == Shape(m) /\ IndexRight(m)

LEMMA FreshIsRight ==
  ASSUME NEW m, Fresh(m)
  PROVE  IndexRight(m)
BY DEF Fresh, IndexRight

LEMMA LookupRight ==
  ASSUME Indexed = Keys, NEW m, Right(m), NEW q \in Keys
  PROVE  Right(Maps!key_index_candidates(m, q)) /\ Fresh(Maps!key_index_candidates(m, q))
<1> DEFINE n == Maps!key_index_candidates(m, q)
<1>1. Shape(n) /\ Fresh(n)
  BY LookupLeaves, LookupRepairs DEF Right
<1> HIDE DEF n
<1>2. Right(n) /\ Fresh(n)
  BY <1>1, FreshIsRight DEF Right
<1> QED BY <1>2 DEF n

\* An entry overwritten keeps its key, and one appended is past what the index covers.
LEMMA WriteRight ==
  ASSUME NEW m, Right(m), Fresh(m), NEW at, NEW b, NEW v
  PROVE  Right(Maps!WriteAt(m, at, b, v))
<1>1. CASE at \in DOMAIN m.entries
  <2> DEFINE e == [m.entries EXCEPT ![at] = <<m.entries[at][1], v>>]
             n == [m EXCEPT !.entries = e]
  <2>1. /\ Listing(e) /\ Len(e) = Len(m.entries)
        /\ \A i \in DOMAIN m.entries : e[i] = IF i = at THEN <<m.entries[at][1], v>> ELSE m.entries[i]
    BY <1>1, OverwriteListed DEF Right, Shape
  <2>2. \A i \in DOMAIN m.entries : e[i][1] = m.entries[i][1]
    BY <2>1
  <2>3. Len(m.entries) \in Nat /\ DOMAIN m.entries = 1..Len(m.entries)
    BY ListingLen DEF Right, Shape
  <2> HIDE DEF e
  <2>4. Shape(n) /\ n.entries = e /\ n.index = m.index /\ n.order = m.order
    BY <2>1 DEF Right, Shape
  <2> HIDE DEF n
  <2>5. Fresh(n)
    BY <2>1, <2>2, <2>3, <2>4 DEF Fresh, Exact
  <2>6. Maps!WriteAt(m, at, b, v) = n
    BY <1>1 DEF Maps!WriteAt, n, e
  <2> QED BY <2>4, <2>5, <2>6, FreshIsRight DEF Right
<1>2. CASE at \notin DOMAIN m.entries
  <2> DEFINE e == Append(m.entries, <<b, v>>)
             n == [m EXCEPT !.entries = e]
  <2>1. /\ Listing(e) /\ Len(e) = Len(m.entries) + 1
        /\ \A i \in DOMAIN m.entries : e[i] = m.entries[i]
    BY AppendListed DEF Right, Shape
  <2>2. Len(m.entries) \in Nat /\ DOMAIN m.entries = 1..Len(m.entries)
    BY ListingLen DEF Right, Shape
  <2> HIDE DEF e
  <2>3. Shape(n) /\ n.entries = e /\ n.index = m.index /\ n.order = m.order
    <3>1. Shape(m)
      BY DEF Right
    <3> QED BY <2>1, <3>1 DEF Shape
  <2> HIDE DEF n
  <2>4. IndexRight(n)
    <3>1. CASE m.order = "sorted"
      BY <2>3, <3>1 DEF IndexRight
    <3>2. CASE Exact(m) /\ m.index.built_len = Len(m.entries)
      <4>1. \A i \in 1..m.index.built_len : e[i] = m.entries[i]
        BY <2>1, <2>2, <3>2
      <4>2. Exact(n)
        BY <2>1, <2>2, <2>3, <3>2, <4>1 DEF Exact
      <4> QED BY <4>2 DEF IndexRight
    <3> QED BY <3>1, <3>2 DEF Fresh
  <2>5. Maps!WriteAt(m, at, b, v) = n
    BY <1>2 DEF Maps!WriteAt, n, e
  <2> QED BY <2>3, <2>4, <2>5 DEF Right
<1> QED BY <1>1, <1>2

\* Fewer entries than an index was built over.
LEMMA RemoveAtRight ==
  ASSUME NEW m, Right(m), Fresh(m), NEW at, at = 0 \/ at \in DOMAIN m.entries
  PROVE  Right(Maps!RemoveAtIndex(m, at))
<1>1. CASE at = 0
  BY <1>1 DEF Maps!RemoveAtIndex
<1>2. CASE at # 0
  <2> DEFINE e == Maps!Seqs!RemoveAt(m.entries, at)
             n == [m EXCEPT !.entries = e]
  <2>1. Listing(e) /\ Len(e) = Len(m.entries) - 1
    BY <1>2, ShorterListed DEF Right, Shape
  <2>2. Len(m.entries) \in Nat
    BY ListingLen DEF Right, Shape
  <2> HIDE DEF e
  <2>3. Shape(n) /\ n.entries = e /\ n.index = m.index /\ n.order = m.order
    BY <2>1 DEF Right, Shape
  <2> HIDE DEF n
  <2>4. IndexRight(n)
    BY <2>1, <2>2, <2>3 DEF Fresh, Exact, IndexRight
  <2>5. Maps!RemoveAtIndex(m, at) = n
    BY <1>2 DEF Maps!RemoveAtIndex, n, e
  <2> QED BY <2>3, <2>4, <2>5 DEF Right
<1> QED BY <1>1, <1>2

LEMMA PutRight ==
  ASSUME Indexed = Keys, NEW m, Right(m), NEW b \in Keys, NEW v
  PROVE  Right(Maps!put(m, b, v))
BY LookupRight, WriteRight DEF Maps!put

LEMMA RemoveRight ==
  ASSUME Indexed = Keys, NEW m, Right(m), NEW b \in Keys
  PROVE  Right(Maps!remove(m, b))
<1> DEFINE n == Maps!key_index_candidates(m, b)
<1>1. Right(n) /\ Fresh(n) /\ n.entries = m.entries
  BY LookupRight, LookupLeaves DEF Right
<1>2. Maps!key_position(m, b) = 0 \/ Maps!key_position(m, b) \in DOMAIN n.entries
  BY <1>1, LookupFinds, ScanInside DEF Right
<1> HIDE DEF n
<1>3. Right(Maps!RemoveAtIndex(n, Maps!key_position(m, b)))
  BY <1>1, <1>2, RemoveAtRight
<1> QED BY <1>3 DEF Maps!remove, n

LEMMA InvalidateRight ==
  ASSUME NEW m, Right(m)
  PROVE  Right(Maps!invalidate_key_index(m))
BY DEF Right, Shape, IndexRight, Maps!invalidate_key_index

\* Whatever the entries have become, when the index is dropped.
LEMMA RewriteRight ==
  ASSUME NEW m, Right(m), NEW e, Listing(e)
  PROVE  Right(Maps!invalidate_key_index([m EXCEPT !.entries = e]))
BY DEF Right, Shape, IndexRight, Maps!invalidate_key_index

LEMMA MarkRight ==
  ASSUME NEW m, Right(m)
  PROVE  Right(Maps!mark_unordered(m))
<1> DEFINE n == [m EXCEPT !.unordered = TRUE]
<1>1. Shape(n) /\ n.entries = m.entries /\ n.index = m.index /\ n.order = m.order
  BY DEF Right, Shape
<1> HIDE DEF n
<1>2. Right(n)
  BY <1>1 DEF Right, IndexRight, Exact
<1> QED BY <1>2 DEF Maps!mark_unordered, n

LEMMA MarkedIfRight ==
  ASSUME NEW m, Right(m), NEW before
  PROVE  Right(Maps!MarkedIf(before, m))
BY MarkRight DEF Maps!MarkedIf

LEMMA OrderedRight ==
  ASSUME NEW m, Right(m)
  PROVE  Right(Maps!ensure_ordered(m))
<1> DEFINE n == [m EXCEPT !.unordered = FALSE]
           e == IF n.order = "hash" THEN Maps!hash_order(n.entries, n.initial) ELSE Maps!sort_by_comparator(n.entries)
           r == [n EXCEPT !.entries = e, !.index = IF e = n.entries THEN @ ELSE None]
<1>1. Shape(n) /\ n.entries = m.entries /\ n.index = m.index /\ n.order = m.order
  BY DEF Right, Shape
<1> HIDE DEF n
<1>2. Listing(e)
  BY <1>1, ArrangedListed DEF Maps!hash_order, Maps!sort_by_comparator, Shape
<1> HIDE DEF e
<1>3. Shape(r) /\ r.entries = e /\ r.index = (IF e = n.entries THEN n.index ELSE None) /\ r.order = n.order
  BY <1>1, <1>2 DEF Shape
<1> HIDE DEF r
<1>4. Right(r)
  BY <1>1, <1>3 DEF Right, IndexRight, Exact
<1>5. Maps!ensure_ordered(m) = IF m.unordered THEN r ELSE m
  BY DEF Maps!ensure_ordered, Maps!reorder, r, e, n
<1> QED BY <1>4, <1>5

LEMMA UpsertListed ==
  ASSUME NEW e, Listing(e), NEW b, NEW v
  PROVE  Listing(Maps!map_upsert(e, b, v))
<1> DEFINE hits == {i \in DOMAIN e : e[i][1] = b}
<1>1. hits \in SUBSET Nat
  BY ListingLen
<1> HIDE DEF hits
<1>2. CASE hits = {}
  BY <1>2, AppendListed DEF Maps!map_upsert, hits
<1>3. CASE hits # {}
  <2>1. Min(hits) \in DOMAIN e
    BY <1>1, <1>3, SmallestOf DEF hits
  <2>2. Listing([e EXCEPT ![Min(hits)] = <<b, v>>])
    BY <2>1, OverwriteListed
  <2> QED BY <1>3, <2>2, SameLeast DEF Maps!map_upsert, hits
<1> QED BY <1>2, <1>3

LEMMA WithoutListed ==
  ASSUME NEW e, Listing(e), NEW b
  PROVE  Listing(Maps!map_without(e, b))
<1> DEFINE kept == {i \in DOMAIN e : e[i][1] # b}
           t == Maps!map_without(e, b)
<1>1. Cardinality(kept) \in Nat
  <2>1. Len(e) \in Nat /\ kept \subseteq 1..Len(e)
    BY ListingLen
  <2>2. IsFiniteSet(1..Len(e))
    BY <2>1, FS_Interval
  <2>3. IsFiniteSet(kept)
    BY <2>1, <2>2, FS_Subset
  <2> QED BY <2>3, FS_CardinalityType
<1>2. DOMAIN t = 1..Cardinality(kept) /\ t = [n \in 1..Cardinality(kept) |-> t[n]]
  BY SameSize DEF Maps!map_without
<1> HIDE DEF kept, t
<1>3. Listing(t)
  BY <1>1, <1>2, Function
<1> QED BY <1>3 DEF t

LEMMA OperatedRight ==
  ASSUME NEW m, Right(m), NEW e, Listing(e)
  PROVE  Right(Maps!operator_apply(m, e))
BY RewriteRight, MarkRight DEF Maps!operator_apply

(* ---- every member ------------------------------------------------------------------------ *)

\* A key that a map begins with is there once at most, and there is no index yet.
LEMMA InitRight == Maps!Init => Right(map) /\ Asked
<1> SUFFICES ASSUME Maps!Init PROVE Right(map) /\ Asked
  OBVIOUS
<1> DEFINE Made(order, size, built) ==
             [order |-> order, initial |-> Maps!map_capacity(size), entries |-> [i \in 1..size |-> built[i]],
              unordered |-> FALSE, index |-> None]
<1>0. PICK order \in Orders, size \in 0..2 :
        \E built \in [1..size -> Keys \X Vals] : map = Maps!mark_unordered(Made(order, size, built))
  BY DEF Maps!Init, Orders
<1>1. PICK built \in [1..size -> Keys \X Vals] : map = Maps!mark_unordered(Made(order, size, built))
  BY <1>0
<1> DEFINE e == [i \in 1..size |-> built[i]]
           m == Made(order, size, built)
<1>2. Listing(e)
  <2>1. DOMAIN e = 1..size /\ e = [i \in 1..size |-> e[i]]
    OBVIOUS
  <2> HIDE DEF e
  <2> QED BY <2>1, Function
<1>3. Maps!map_capacity(size) \in Nat
  BY DEF Maps!map_capacity
<1>4. Shape(m) /\ m.index = None
  <2> HIDE DEF e
  <2>1. m = [order |-> order, initial |-> Maps!map_capacity(size), entries |-> e, unordered |-> FALSE, index |-> None]
    BY DEF e
  <2> HIDE DEF m
  <2> QED BY <1>2, <1>3, <2>1 DEF Shape
<1> HIDE DEF m
<1>5. Right(Maps!mark_unordered(m))
  BY <1>4, MarkRight DEF Right, IndexRight
<1> QED BY <1>1, <1>5 DEF Asked, Maps!Init, m, e

LEMMA LookRight ==
  ASSUME Indexed = Keys, Right(map), Maps!Look
  PROVE  Right(map') /\ calls' = calls
<1>1. Right(Maps!ensure_ordered(map))
  BY OrderedRight
<1>2. CASE Maps!Read
  BY <1>1, <1>2 DEF Maps!Read
<1>3. ASSUME NEW b \in Keys, Maps!Get(b) \/ Maps!ContainsKey(b)
      PROVE  Right(map') /\ calls' = calls
  BY <1>3, LookupRight DEF Maps!Get, Maps!ContainsKey, Maps!Answer
<1>4. ASSUME NEW b \in Keys, NEW d \in Maps!Directions, Maps!sorted_nav(b, d)
      PROVE  Right(map') /\ calls' = calls
  BY <1>1, <1>4 DEF Maps!sorted_nav, Maps!Answer
<1> QED BY <1>2, <1>3, <1>4 DEF Maps!Look

LEMMA WriteKeeps ==
  ASSUME Indexed = Keys, Right(map), Maps!Write
  PROVE  Right(map') /\ calls' = calls
<1>1. Right(Maps!ensure_ordered(map))
  BY OrderedRight
<1>2. CASE Maps!Clear
  <2>1. Listing(<<>>)
    <3>1. <<>> \in Seq({})
      OBVIOUS
    <3> QED BY <3>1, Listed
  <2>2. Right(Maps!invalidate_key_index([map EXCEPT !.entries = <<>>]))
    BY <2>1, RewriteRight
  <2> QED BY <1>2, <2>2, MarkedIfRight DEF Maps!Clear, Maps!Answer
<1>3. ASSUME NEW first \in BOOLEAN, Maps!Poll(first)
      PROVE  Right(map') /\ calls' = calls
  <2> DEFINE m == Maps!ensure_ordered(map)
             at == IF first THEN 1 ELSE Len(m.entries)
  <2>1. CASE m.entries = <<>>
    BY <1>1, <1>3, <2>1 DEF Maps!Poll, Maps!Answer
  <2>2. CASE m.entries # <<>>
    <3>1. Listing(m.entries) /\ DOMAIN m.entries = 1..Len(m.entries) /\ Len(m.entries) \in Nat
      BY <1>1, ListingLen DEF Right, Shape
    <3>2. Len(m.entries) # 0
      BY <2>2, <3>1, EmptySeq DEF Listing
    <3>3. at \in DOMAIN m.entries
      BY <3>1, <3>2
    <3> HIDE DEF m, at
    <3>4. Listing(Maps!Seqs!RemoveAt(m.entries, at))
      BY <3>1, <3>3, ShorterListed
    <3>5. Right(Maps!invalidate_key_index([m EXCEPT !.entries = Maps!Seqs!RemoveAt(m.entries, at)]))
      BY <1>1, <3>4, RewriteRight DEF m
    <3>6. Maps!RemoveAtIndex(m, at) = [m EXCEPT !.entries = Maps!Seqs!RemoveAt(m.entries, at)]
      BY <3>1, <3>3 DEF Maps!RemoveAtIndex
    <3>7. Right(Maps!MarkedIf(m, Maps!invalidate_key_index(Maps!RemoveAtIndex(m, at))))
      BY <3>5, <3>6, MarkedIfRight
    <3> QED BY <1>3, <2>2, <3>7 DEF Maps!Poll, Maps!Answer, m, at
  <2> QED BY <2>1, <2>2
<1>4. ASSUME NEW b \in Keys, Maps!Remove(b)
      PROVE  Right(map') /\ calls' = calls
  BY <1>4, RemoveRight, MarkedIfRight DEF Maps!Remove, Maps!Answer
<1>5. ASSUME NEW b \in Keys, Maps!MinusAssign(b)
      PROVE  Right(map') /\ calls' = calls
  <2> DEFINE m == Maps!ensure_ordered(map)
  <2>1. Listing(Maps!map_without(m.entries, b))
    BY <1>1, WithoutListed DEF Right, Shape
  <2>2. Right(Maps!operator_apply(m, Maps!map_without(m.entries, b)))
    BY <1>1, <2>1, OperatedRight
  <2> QED BY <1>5, <2>2 DEF Maps!MinusAssign, Maps!Answer
<1>6. ASSUME NEW b \in Keys, NEW r, Maps!RemoveThrough(r, b)
      PROVE  Right(map') /\ calls' = calls
  BY <1>6, <1>4 DEF Maps!RemoveThrough, Maps!Answer
<1>7. ASSUME NEW b \in Keys, NEW v, Maps!Put(b, v)
      PROVE  Right(map') /\ calls' = calls
  BY <1>7, PutRight, MarkedIfRight DEF Maps!Put, Maps!Answer
<1>8. ASSUME NEW b \in Keys, NEW v, Maps!PutIfAbsent(b, v)
      PROVE  Right(map') /\ calls' = calls
  BY <1>8, PutRight, LookupRight, MarkedIfRight DEF Maps!PutIfAbsent, Maps!Answer
<1>9. ASSUME NEW b \in Keys, NEW v, Maps!RemoveMapping(b, v)
      PROVE  Right(map') /\ calls' = calls
  BY <1>9, RemoveRight, LookupRight, MarkedIfRight DEF Maps!RemoveMapping, Maps!Answer
<1>10. ASSUME NEW b \in Keys, NEW v, Maps!PlusAssign(b, v)
       PROVE  Right(map') /\ calls' = calls
  <2> DEFINE m == Maps!ensure_ordered(map)
  <2>1. Listing(Maps!map_upsert(m.entries, b, v))
    BY <1>1, UpsertListed DEF Right, Shape
  <2>2. Right(Maps!operator_apply(m, Maps!map_upsert(m.entries, b, v)))
    BY <1>1, <2>1, OperatedRight
  <2> QED BY <1>10, <2>2 DEF Maps!PlusAssign, Maps!Answer
<1>11. ASSUME NEW b \in Keys, NEW v, NEW r, Maps!PutThrough(r, b, v)
       PROVE  Right(map') /\ calls' = calls
  <2> DEFINE written == Maps!MarkedIf(map, Maps!put(map, b, v))
  <2>1. Right(written)
    BY PutRight, MarkedIfRight
  <2>2. Right(Maps!MarkedIf(written, Maps!remove(written, b)))
    BY <2>1, RemoveRight, MarkedIfRight
  <2> QED BY <1>11, <2>1, <2>2 DEF Maps!PutThrough, Maps!Answer
<1> QED BY <1>2, <1>3, <1>4, <1>5, <1>6, <1>7, <1>8, <1>9, <1>10, <1>11 DEF Maps!Write

\* The lambda is asked after a lookup.
LEMMA AskKeeps ==
  ASSUME Indexed = Keys, Right(map), calls = <<>>, Maps!Ask
  PROVE  Right(map') /\ Asked'
<1>1. Right(Maps!ensure_ordered(map))
  BY OrderedRight
<1>2. ASSUME NEW b \in Keys, Maps!GetOrPut(b)
      PROVE  Right(map') /\ Asked'
  <2> DEFINE m == Maps!key_index_candidates(Maps!ensure_ordered(map), b)
  <2>1. Right(m) /\ Fresh(m)
    BY <1>1, LookupRight
  <2> HIDE DEF m
  <2>2. map' = m /\ (calls' = calls \/ \E at : calls' = Append(calls, Maps!Frame("getOrPut", b, at)))
    BY <1>2 DEF Maps!GetOrPut, m
  <2>3. calls' = <<>> \/ (calls' = <<calls'[1]>> /\ calls'[1].key \in Keys)
    BY <2>2 DEF Maps!Frame
  <2> QED BY <2>1, <2>2, <2>3 DEF Asked
<1>3. ASSUME NEW b \in Keys, NEW name \in Maps!Remaps, NEW v \in Vals, Maps!map_remap(name, b, v)
      PROVE  Right(map') /\ Asked'
  <2> DEFINE m == Maps!key_index_candidates(Maps!ensure_ordered(map), b)
  <2>1. Right(m) /\ Fresh(m)
    BY <1>1, LookupRight
  <2>2. Right(Maps!put(m, b, v))
    BY <2>1, PutRight
  <2> HIDE DEF m
  <2>3. \/ map' = m /\ calls' = Append(calls, Maps!Frame("map_remap", b, 0))
        \/ map' \in {m, Maps!put(m, b, v)} /\ calls' = calls
    BY <1>3 DEF Maps!map_remap, Maps!Answer, m
  <2> QED BY <2>1, <2>2, <2>3 DEF Asked, Maps!Frame
<1> QED BY <1>2, <1>3 DEF Maps!Ask

LEMMA ReturnKeeps ==
  ASSUME Indexed = Keys, Right(map), Asked, Maps!Return
  PROVE  Right(map') /\ Asked'
<1>1. PICK v \in Maps!Values : Maps!GotOrPut(v) \/ Maps!Remapped(v)
  BY DEF Maps!Return
<1>2. calls = <<calls[1]>> /\ calls[1].key \in Keys /\ Fresh(map)
  BY <1>1 DEF Asked, Maps!GotOrPut, Maps!Remapped
<1>3. Maps!Seqs!Last(calls) = calls[1] /\ Maps!Seqs!Front(calls) = <<>>
  <2> DEFINE c == calls[1]
  <2> HIDE DEF c
  <2>1. calls = <<c>>
    BY <1>2 DEF c
  <2>2. Len(calls) = 1 /\ calls[1] = c
    BY <2>1
  <2>3. SubSeq(calls, 1, Len(calls) - 1) = <<>>
    BY <2>2, SubSeqEmpty
  <2> QED BY <2>2, <2>3 DEF Maps!Seqs!Last, Maps!Seqs!Front
<1>4. calls' = <<>>
  BY <1>1, <1>3 DEF Maps!GotOrPut, Maps!Remapped
<1>5. CASE Maps!GotOrPut(v)
  BY <1>2, <1>4, <1>5, WriteRight DEF Maps!GotOrPut, Maps!Answer, Asked
<1>6. CASE Maps!Remapped(v)
  <2> DEFINE b == calls[1].key
  <2>1. Right(Maps!put(map, b, v)) /\ Right(Maps!invalidate_key_index(Maps!remove(map, b))) /\ Right(Maps!key_index_candidates(map, b))
    BY <1>2, PutRight, RemoveRight, InvalidateRight, LookupRight
  <2>2. map' \in {Maps!put(map, b, v), Maps!invalidate_key_index(Maps!remove(map, b)), Maps!key_index_candidates(map, b)}
    BY <1>3, <1>6 DEF Maps!Remapped, Maps!Answer
  <2> QED BY <1>4, <2>1, <2>2 DEF Asked
<1> QED BY <1>1, <1>5, <1>6

LEMMA StepKeeps ==
  ASSUME Indexed = Keys, Right(map), Asked, [Maps!QuietNext]_(Maps!vars)
  PROVE  Right(map') /\ Asked'
<1>1. CASE calls = <<>> /\ Maps!Look
  BY <1>1, LookRight DEF Asked
<1>2. CASE calls = <<>> /\ Maps!Write
  BY <1>2, WriteKeeps DEF Asked
<1>3. CASE calls = <<>> /\ Maps!Ask
  BY <1>3, AskKeeps
<1>4. CASE Maps!Return
  BY <1>4, ReturnKeeps
<1>5. CASE UNCHANGED Maps!vars
  BY <1>5 DEF Maps!vars, Asked, Right, Shape, IndexRight, Fresh, Exact
<1> QED BY <1>1, <1>2, <1>3, <1>4, <1>5 DEF Maps!QuietNext

LEMMA RightFinds ==
  ASSUME Indexed = Keys, Right(map)
  PROVE  Maps!FindsWhatIsThere
BY LookupFinds DEF Maps!FindsWhatIsThere, Right

\* As long as every key has an IndexKey and lambdas leave the map alone, a lookup finds the
\* first entry under its key, whatever was written before it (host.rs:19104-19190).
THEOREM LookupsRight ==
  ASSUME Indexed = Keys
  PROVE  Maps!QuietSpec => []Maps!FindsWhatIsThere
<1>1. Maps!Init => Right(map) /\ Asked
  BY InitRight
<1>2. Right(map) /\ Asked /\ [Maps!QuietNext]_(Maps!vars) => (Right(map) /\ Asked)'
  BY StepKeeps
<1>3. Right(map) => Maps!FindsWhatIsThere
  BY RightFinds
<1> QED BY <1>1, <1>2, <1>3, PTL DEF Maps!QuietSpec
=============================================================================

--------------------------- MODULE KotlinCollections ---------------------------
(***************************************************************************)
(* What Kotlin's library says of the members of collections.  Of one that   *)
(* takes a lambda, in terms of what the lambda answers to its first,        *)
(* second, ... call: the calls it gets, in order, the answer of the member, *)
(* the JVM class of a collection it answers, and the receiver afterwards;   *)
(* when the lambda throws, the calls end there and the member has no        *)
(* answer.  Of the others, what the JVM class of the receiver refuses, the  *)
(* answer and the receiver.                                                 *)
(***************************************************************************)
EXTENDS Integers, Sequences, FiniteSets
LOCAL INSTANCE SequencesExt
LOCAL INSTANCE FiniteSetsExt

CONSTANTS Null, Space

\* [kind, items, class]: class is the JVM's.
Of(kind, items) ==
  [kind |-> kind, items |-> items,
   class |-> CASE kind = "set" -> "LinkedHashSet" [] kind = "map" -> "LinkedHashMap" [] OTHER -> ""]
\* Of setOf, mapOf, toSet and toMap, by how many elements they are given.
Collapsed(kind, items, given) == IF given < 2 THEN [Of(kind, items) EXCEPT !.class = "Singleton"] ELSE Of(kind, items)
ArrayList(q) == [kind |-> "list", items |-> q, class |-> "ArrayList"]
\* Collection.toList and optimizeReadOnlyList.
ToList(q) ==
  [kind |-> "list", items |-> q,
   class |-> IF q = <<>> THEN "EmptyList" ELSE IF Len(q) = 1 THEN "SingletonList" ELSE "ArrayList"]
AsList(q) == [ToList(q) EXCEPT !.class = IF @ = "ArrayList" THEN "Arrays$ArrayList" ELSE @]
Value(v) == Of("value", <<v>>)
Unit == Value(Null)
Throws(class) == Of("fault", <<class>>)

\* The distinct keys of a sequence of entries, in the order they first come.
KeysOf(es) ==
  LET firsts == {i \in DOMAIN es : \A j \in 1..i - 1 : es[j][1] # es[i][1]}
  IN  [k \in 1..Cardinality(firsts) |-> es[SetToSortSeq(firsts, <)[k]][1]]

\* The last value of each key, at the place of the first.
LinkedMap(es) ==
  LET ks == KeysOf(es)
  IN  [k \in DOMAIN ks |-> <<ks[k], es[Max({i \in DOMAIN es : es[i][1] = ks[k]})][2]>>]

\* The values of each key.
Grouped(es) ==
  LET ks == KeysOf(es)
  IN  [k \in DOMAIN ks |->
        <<ks[k], LET own == SetToSortSeq({i \in DOMAIN es : es[i][1] = ks[k]}, <)
                 IN  [j \in DOMAIN own |-> es[own[j]][2]]>>]

\* The stable order of a sequence by what Before says of positions.
Permuted(q, Before(_, _)) ==
  LET perms == {p \in [1..Len(q) -> 1..Len(q)] : \A i, j \in DOMAIN p : i # j => p[i] # p[j]}
      p == CHOOSE p \in perms : \A i, j \in DOMAIN p :
             i < j => ~Before(p[j], p[i]) /\ (~Before(p[i], p[j]) => p[i] < p[j])
  IN  [k \in DOMAIN q |-> q[p[k]]]

\* The first key of a comparator that tells two elements apart decides.
Precedes(steps, a, b) ==
  \E k \in DOMAIN steps :
    /\ IF steps[k].descending THEN steps[k].rank[b] < steps[k].rank[a] ELSE steps[k].rank[a] < steps[k].rank[b]
    /\ \A j \in 1..k - 1 : steps[j].rank[a] = steps[j].rank[b]

(***************************************************************************)
(* A member is [calls, answer, receiver], where calls is what the lambda    *)
(* gets as long as it does not throw.                                       *)
(***************************************************************************)
Member(recv, c, lambda) ==
  LET
    says == lambda.says
    rank == lambda.rank
    xs == recv.items
    n == Len(xs)
    all == 1..n
    r(i) == says[((i - 1) % Len(says)) + 1]
    f(args) == <<"f">> \o args
    key(args) == <<"key">> \o args
    Pick(S) == LET o == SetToSortSeq(S, <) IN [k \in DOMAIN o |-> xs[o[k]]]
    Back == [i \in all |-> xs[n + 1 - i]]
    yes == {i \in all : r(i) = TRUE}
    no == all \ yes
    some == {i \in all : r(i) # Null}
    \* Positions visited by a search that ends at its first hit.
    Until(hits) == IF hits = {} THEN n ELSE Min(hits)
    Each == [i \in all |-> f(<<xs[i]>>)]
    EachIndexed == [i \in all |-> f(<<i - 1, xs[i]>>)]
    Upto(q, k) == SubSeq(q, 1, k)
    Says(q, answer) == [calls |-> q, answer |-> answer, receiver |-> recv]
    \* Two lambdas: the key of each element first.
    KeyThenValue == [k \in 1..2 * n |-> IF k % 2 = 1 THEN key(<<xs[(k + 1) \div 2]>>) ELSE f(<<xs[k \div 2]>>)]
    results == [i \in all |-> r(i)]
    \* filter answers a Map or a String on one, and a List on any Iterable.
    Same(q) == IF recv.kind \in {"map", "string"} THEN Of(recv.kind, q) ELSE ArrayList(q)
    \* Of a String, some members answer a String.
    Cut(q) == IF recv.kind = "string" THEN Of("string", q) ELSE ArrayList(q)
    Sublists == FlattenSeq([i \in DOMAIN SetToSortSeq(some, <) |-> r(SetToSortSeq(some, <)[i])])
    \* The accumulator after k of the m elements of a fold that starts at x.
    acc(x, k) == IF k = 0 THEN x ELSE r(k)
    \* A fold of `q` from x, with the arguments of its k-th call.
    FoldCalls(q, x, Args(_, _, _)) == [k \in DOMAIN q |-> f(Args(k, acc(x, k - 1), q[k]))]
    Running(q, x) == ArrayList([k \in 1..Len(q) + 1 |-> acc(x, k - 1)])
    orNull(name, v, class) == IF c.name = name THEN Value(v) ELSE Throws(class)
    \* The windows: every step-th position, whole ones only unless partial.
    Windows(size, step, partial) ==
      LET starts == {i \in all : (i - 1) % step = 0 /\ (partial \/ i + size - 1 <= n)}
          o == SetToSortSeq(starts, <)
      IN  [k \in DOMAIN o |-> SubSeq(xs, o[k], Min({n, o[k] + size - 1}))]
    group(g) == <<IF recv.kind = "string" THEN "string" ELSE "list", g>>
    entries(K(_), V(_)) == [i \in all |-> <<K(i), V(i)>>]
    x == c.arg
    name == c.name
    Best(sign) == CHOOSE i \in all : \A j \in all : sign * (r(i) - r(j)) > 0 \/ (r(i) = r(j) /\ i <= j)
    held(k) == IF \E i \in all : xs[i][1] = k THEN (CHOOSE e \in ToSet(xs) : e[1] = k)[2] ELSE Null
    Kept(k) == SelectSeq(xs, LAMBDA e : e[1] # k)
    Put(k, v) == IF \E i \in all : xs[i][1] = k THEN [i \in all |-> IF xs[i][1] = k THEN <<k, v>> ELSE xs[i]]
                 ELSE Append(xs, <<k, v>>)
    Writes(q, answer, items) == [calls |-> q, answer |-> answer, receiver |-> [recv EXCEPT !.items = items]]
  IN
  CASE name = "map" -> Says(Each, ArrayList(results))
    [] name = "mapIndexed" -> Says(EachIndexed, ArrayList(results))
    [] name \in {"mapNotNull", "mapIndexedNotNull"} ->
         Says(IF name = "mapNotNull" THEN Each ELSE EachIndexed, ArrayList(SelectSeq(results, LAMBDA v : v # Null)))
    [] name \in {"flatMap", "flatMapIndexed"} ->
         Says(IF name = "flatMap" THEN Each ELSE EachIndexed, ArrayList(Sublists))
    [] name = "forEach" -> Says(IF recv.kind = "map" /\ c.two THEN [i \in all |-> f(xs[i])] ELSE Each, Unit)
    [] name = "forEachIndexed" -> Says(EachIndexed, Unit)
    [] name = "sumOf" -> Says(Each, Value(FoldSeq(LAMBDA a, b : a + b, 0, results)))
    [] name = "filter" -> Says(Each, Same(Pick(yes)))
    [] name = "filterNot" -> Says(Each, Same(Pick(no)))
    [] name = "filterIndexed" -> Says(EachIndexed, Cut(Pick(yes)))
    [] name \in {"filterKeys", "filterValues"} ->
         Says([i \in all |-> f(<<IF name = "filterKeys" THEN xs[i][1] ELSE xs[i][2]>>)], Of("map", Pick(yes)))
    [] name = "partition" ->
         LET of == IF recv.kind = "string" THEN "string" ELSE "list"
         IN  Says(Each, Of("pair", << <<of, Pick(yes)>>, <<of, Pick(no)>> >>))
    [] name = "takeWhile" -> Says(Upto(Each, Until(no)), Cut(SubSeq(xs, 1, IF no = {} THEN n ELSE Min(no) - 1)))
    [] name = "dropWhile" -> Says(Upto(Each, Until(no)), Cut(SubSeq(xs, IF no = {} THEN n + 1 ELSE Min(no), n)))
    [] name \in {"takeLastWhile", "dropLastWhile"} ->
         LET back == [i \in all |-> f(<<Back[i]>>)]
             kept == IF no = {} THEN n ELSE Min(no) - 1    \* of the end
         IN  Says(Upto(back, Until(no)),
                  IF name = "takeLastWhile"
                  THEN LET q == SubSeq(xs, n - kept + 1, n)
                       IN  IF recv.kind = "string" THEN Cut(q) ELSE IF kept = n THEN ToList(q)
                           ELSE IF kept = 0 THEN ToList(q) ELSE ArrayList(q)
                  ELSE IF recv.kind = "string" THEN Cut(SubSeq(xs, 1, n - kept)) ELSE ToList(SubSeq(xs, 1, n - kept)))
    [] name = "any" -> Says(Upto(Each, Until(yes)), Value(yes # {}))
    [] name = "all" -> Says(Upto(Each, Until(no)), Value(no = {}))
    [] name = "none" -> Says(Upto(Each, Until(yes)), Value(yes = {}))
    [] name = "count" -> Says(Each, Value(Cardinality(yes)))
    [] name \in {"first", "find", "firstOrNull"} ->
         Says(Upto(Each, Until(yes)),
              IF yes # {} THEN Value(xs[Min(yes)]) ELSE IF name = "first" THEN Throws("NoSuchElement") ELSE Value(Null))
    [] name \in {"last", "findLast", "lastOrNull"} ->
         Says(Each, IF yes # {} THEN Value(xs[Max(yes)]) ELSE IF name = "last" THEN Throws("NoSuchElement") ELSE Value(Null))
    [] name \in {"single", "singleOrNull"} ->
         Says(Upto(Each, IF Cardinality(yes) < 2 THEN n ELSE Min(yes \ {Min(yes)})),
              IF Cardinality(yes) = 1 THEN Value(xs[Min(yes)])
              ELSE IF name = "singleOrNull" THEN Value(Null)
              ELSE Throws(IF yes = {} THEN "NoSuchElement" ELSE "IllegalArgument"))
    [] name = "indexOfFirst" -> Says(Upto(Each, Until(yes)), Value(IF yes = {} THEN -1 ELSE Min(yes) - 1))
    [] name = "indexOfLast" -> Says(Each, Value(IF yes = {} THEN -1 ELSE Max(yes) - 1))
    [] name \in {"firstNotNullOf", "firstNotNullOfOrNull"} ->
         Says(Upto(Each, Until(some)),
              IF some # {} THEN Value(r(Min(some))) ELSE orNull("firstNotNullOfOrNull", Null, "NoSuchElement"))
    [] name \in {"getOrElse", "elementAtOrElse"} ->
         LET there == IF recv.kind = "map" THEN \E i \in all : xs[i][1] = x ELSE x \in 0..n - 1
         IN  IF there THEN Says(<<>>, Value(IF recv.kind = "map" THEN held(x) ELSE xs[x + 1]))
             ELSE Says(<<f(<<x>>)>>, Value(r(1)))
    [] name \in {"ifEmpty", "ifBlank"} ->
         IF xs = <<>> \/ (name = "ifBlank" /\ ToSet(xs) = {Space}) THEN Says(<<f(<<>>)>>, Value(r(1)))
         ELSE Says(<<>>, recv)
    [] name = "replaceFirstChar" ->
         IF xs = <<>> THEN Says(<<>>, Of("string", xs)) ELSE Says(<<f(<<xs[1]>>)>>, Of("string", r(1) \o Tail(xs)))
    [] name = "fold" -> Says(FoldCalls(xs, x, LAMBDA k, a, e : <<a, e>>), Value(acc(x, n)))
    [] name = "foldRight" -> Says(FoldCalls(Back, x, LAMBDA k, a, e : <<e, a>>), Value(acc(x, n)))
    [] name = "foldIndexed" -> Says(FoldCalls(xs, x, LAMBDA k, a, e : <<k - 1, a, e>>), Value(acc(x, n)))
    [] name = "foldRightIndexed" -> Says(FoldCalls(Back, x, LAMBDA k, a, e : <<n - k, e, a>>), Value(acc(x, n)))
    [] name \in {"runningFold", "scan"} -> Says(FoldCalls(xs, x, LAMBDA k, a, e : <<a, e>>), Running(xs, x))
    [] name \in {"runningFoldIndexed", "scanIndexed"} ->
         Says(FoldCalls(xs, x, LAMBDA k, a, e : <<k - 1, a, e>>), Running(xs, x))
    [] name \in {"reduce", "reduceOrNull", "reduceIndexed", "reduceIndexedOrNull"} ->
         IF n = 0 THEN Says(<<>>, IF name \in {"reduce", "reduceIndexed"} THEN Throws("UnsupportedOperation") ELSE Value(Null))
         ELSE Says(FoldCalls(Tail(xs), xs[1],
                             LAMBDA k, a, e : IF name \in {"reduce", "reduceOrNull"} THEN <<a, e>> ELSE <<k, a, e>>),
                   Value(acc(xs[1], n - 1)))
    [] name \in {"reduceRight", "reduceRightOrNull", "reduceRightIndexed", "reduceRightIndexedOrNull"} ->
         IF n = 0 THEN Says(<<>>, IF name \in {"reduceRight", "reduceRightIndexed"} THEN Throws("UnsupportedOperation") ELSE Value(Null))
         ELSE Says(FoldCalls(Tail(Back), xs[n],
                             LAMBDA k, a, e : IF name \in {"reduceRight", "reduceRightOrNull"} THEN <<e, a>>
                                              ELSE <<n - 1 - k, e, a>>),
                   Value(acc(xs[n], n - 1)))
    [] name \in {"runningReduce", "scanReduce", "runningReduceIndexed"} ->
         IF n = 0 THEN Says(<<>>, ToList(<<>>))
         ELSE Says(FoldCalls(Tail(xs), xs[1],
                             LAMBDA k, a, e : IF name = "runningReduceIndexed" THEN <<k, a, e>> ELSE <<a, e>>),
                   Running(Tail(xs), xs[1]))
    [] name \in {"maxBy", "maxByOrNull", "minBy", "minByOrNull"} ->
         IF n = 0 THEN Says(<<>>, IF name \in {"maxBy", "minBy"} THEN Throws("NoSuchElement") ELSE Value(Null))
         ELSE IF n = 1 THEN Says(<<>>, Value(xs[1]))
         ELSE Says(Each, Value(xs[Best(IF name \in {"maxBy", "maxByOrNull"} THEN 1 ELSE -1)]))
    [] name \in {"maxOf", "maxOfOrNull", "minOf", "minOfOrNull"} ->
         IF n = 0 THEN Says(<<>>, IF name \in {"maxOf", "minOf"} THEN Throws("NoSuchElement") ELSE Value(Null))
         ELSE Says(Each, Value(IF name \in {"maxOf", "maxOfOrNull"} THEN Max({r(i) : i \in all}) ELSE Min({r(i) : i \in all})))
    [] name \in {"maxWith", "maxWithOrNull", "minWith", "minWithOrNull"} ->
         IF n = 0 THEN Says(<<>>, IF name \in {"maxWith", "minWith"} THEN Throws("NoSuchElement") ELSE Value(Null))
         ELSE LET max == name \in {"maxWith", "maxWithOrNull"}
                  beats(i, j) == IF max THEN Precedes(x, xs[j], xs[i]) ELSE Precedes(x, xs[i], xs[j])
              IN  Says(<<>>, Value(xs[CHOOSE i \in all : (\A j \in all : ~beats(j, i)) /\ \A j \in 1..i - 1 : beats(i, j)]))
    [] name = "sortedWith" -> Says(<<>>, AsList(Permuted(xs, LAMBDA i, j : Precedes(x, xs[i], xs[j]))))
    [] name \in {"sortedBy", "sortedByDescending"} ->
         Says(Each, AsList(Permuted(xs, LAMBDA i, j : IF name = "sortedBy" THEN r(i) < r(j) ELSE r(j) < r(i))))
    [] name \in {"sortBy", "sortByDescending"} ->
         IF n > 1 /\ recv.class = "ListBuilder" THEN Says(<<>>, Throws("UnsupportedOperation"))
         ELSE Writes(Each, Unit, Permuted(xs, LAMBDA i, j : IF name = "sortBy" THEN r(i) < r(j) ELSE r(j) < r(i)))
    [] name = "sortWith" ->
         IF n > 1 /\ recv.class = "ListBuilder" THEN Says(<<>>, Throws("UnsupportedOperation"))
         ELSE Writes(<<>>, Unit, Permuted(xs, LAMBDA i, j : Precedes(x, xs[i], xs[j])))
    [] name = "distinctBy" -> Says(Each, ArrayList(Pick({i \in all : \A j \in 1..i - 1 : r(j) # r(i)})))
    [] name = "associate" -> Says(Each, Of("map", LinkedMap(results)))
    [] name = "associateWith" -> Says(Each, Of("map", LinkedMap(entries(LAMBDA i : xs[i], r))))
    [] name = "associateBy" ->
         IF c.two
         THEN Says(KeyThenValue, Of("map", LinkedMap(entries(LAMBDA i : rank[xs[i]], r))))
         ELSE Says(Each, Of("map", LinkedMap(entries(r, LAMBDA i : xs[i]))))
    [] name = "groupBy" ->
         IF c.two
         THEN Says(KeyThenValue, Of("map", Grouped(entries(LAMBDA i : rank[xs[i]], r))))
         ELSE Says(Each, Of("map", Grouped(entries(r, LAMBDA i : xs[i]))))
    [] name = "groupingBy" -> Says(<<>>, Of("grouping", xs))
    [] name = "mapValues" -> Says(Each, Of("map", LinkedMap(entries(LAMBDA i : xs[i][1], r))))
    [] name = "mapKeys" -> Says(Each, Of("map", LinkedMap(entries(r, LAMBDA i : xs[i][2]))))
    [] name \in {"chunked", "windowed"} ->
         LET size == IF name = "chunked" THEN x ELSE x[1]
             step == IF name = "chunked" THEN x ELSE x[2]
             gs == Windows(size, step, name = "chunked" \/ x[3])
         IN  IF size <= 0 \/ step <= 0 THEN Says(<<>>, Throws("IllegalArgument"))
             ELSE Says([k \in DOMAIN gs |-> f(group(gs[k]))], ArrayList([k \in DOMAIN gs |-> r(k)]))
    [] name = "zip" ->
         LET m == Min({n, Len(x)})
         IN  Says([i \in 1..m |-> f(<<xs[i], x[i]>>)], ArrayList([i \in 1..m |-> r(i)]))
    [] name = "zipWithNext" ->
         IF n = 0 THEN Says(<<>>, ToList(<<>>)) ELSE IF n = 1 THEN Says(<<>>, ArrayList(<<>>))
         ELSE Says([i \in 1..n - 1 |-> f(<<xs[i], xs[i + 1]>>)], ArrayList([i \in 1..n - 1 |-> r(i)]))
    [] name = "joinToString" ->
         LET cut == x >= 0 /\ n > x
         IN  IF cut THEN Says(Upto(Each, x), Of("text", Append(Upto(results, x), "..."))) ELSE Says(Each, Of("text", results))
    [] name = "onEach" -> Says(Each, recv)
    [] name = "trimStart" -> Says(Upto(Each, Until(no)), Of("string", SubSeq(xs, IF no = {} THEN n + 1 ELSE Min(no), n)))
    [] name = "trimEnd" ->
         Says(Upto([i \in all |-> f(<<Back[i]>>)], Until(no)),
              Of("string", SubSeq(xs, 1, IF no = {} THEN 0 ELSE n + 1 - Min(no))))
    [] name = "trim" ->
         IF no = {} THEN Says(Each, Of("string", <<>>))
         ELSE \* From the front up to p, then from the end, down to p again.
              LET p == Min(no)
                  stops == {j \in 1..n - p + 1 : r(p + j) # TRUE}
                  asked == IF stops = {} THEN n - p + 1 ELSE Min(stops)
              IN  Says([k \in 1..p + asked |-> f(<<IF k <= p THEN xs[k] ELSE Back[k - p]>>)],
                       Of("string", SubSeq(xs, p, IF stops = {} THEN p - 1 ELSE n + 1 - Min(stops))))
    [] name \in {"removeIf", "removeAll", "retainAll"} ->
         LET gone == IF name = "retainAll" THEN no ELSE yes
             kept == Pick(all \ gone)
         IN  IF name = "removeIf" /\ recv.class = "SingletonList" THEN Says(<<>>, Throws("UnsupportedOperation"))
             ELSE IF gone = {} \/ recv.class \in {"ArrayList", "LinkedHashSet"} THEN Writes(Each, Value(gone # {}), kept)
             ELSE IF recv.class = "Arrays$ArrayList" /\ name # "removeIf"
                  THEN \* What is kept is moved forward before the end is removed.
                       Writes(Each, Throws("UnsupportedOperation"), kept \o SubSeq(xs, Len(kept) + 1, n))
             ELSE Says(Each, Throws("UnsupportedOperation"))
    [] name = "replaceAll" ->
         IF recv.kind = "map" THEN Writes([i \in all |-> f(xs[i])], Unit, [i \in all |-> <<xs[i][1], r(i)>>])
         ELSE IF recv.class = "SingletonList" \/ (recv.class = "ListBuilder" /\ n > 0)
              THEN Says(<<>>, Throws("UnsupportedOperation"))
         ELSE Writes(Each, Unit, results)
    [] name = "getOrPut" ->
         IF held(x) # Null THEN Says(<<>>, Value(held(x)))
         ELSE IF recv.class = "LinkedHashMap" THEN Writes(<<f(<<>>)>>, Value(r(1)), Put(x, r(1)))
         ELSE Says(<<f(<<>>)>>, Throws("UnsupportedOperation"))
    [] name \in {"merge", "compute", "computeIfAbsent", "computeIfPresent"} ->
         LET k == x[1]
             v == x[2]
             old == held(k)
             stores(q, new) == Writes(q, Value(new), IF new = Null THEN Kept(k) ELSE Put(k, new))
         IN  CASE name = "merge" -> IF v = Null THEN Says(<<>>, Throws("NullPointer"))
                                    ELSE IF old = Null THEN stores(<<>>, v) ELSE stores(<<f(<<old, v>>)>>, r(1))
               [] name = "compute" -> stores(<<f(<<k, old>>)>>, r(1))
               [] name = "computeIfPresent" ->
                    IF old = Null THEN Says(<<>>, Value(Null)) ELSE stores(<<f(<<k, old>>)>>, r(1))
               [] name = "computeIfAbsent" ->
                    IF old # Null THEN Says(<<>>, Value(old))
                    \* A null answer stores nothing, and leaves an entry that was null.
                    ELSE IF r(1) = Null THEN Says(<<f(<<k>>)>>, Value(Null))
                    ELSE stores(<<f(<<k>>)>>, r(1))

(* ---- Grouping and Result ----------------------------------------------------------------------- *)

\* A terminal of a Grouping, by the keys of the elements: fold asks for every element, reduce for all
\* but the first of each key, and aggregate says which is the first.
Terminal(recv, c, lambda) ==
  LET xs == recv.items
      says == lambda.says
      r(i) == says[((i - 1) % Len(says)) + 1]
      k(i) == lambda.rank[xs[i]]
      earlier(i) == {j \in 1..i - 1 : k(j) = k(i)}
      asks(i) == c.name # "reduce" \/ earlier(i) # {}
      \* The number of the lambda's call for element i.
      nth(i) == Cardinality({j \in 1..i : asks(j)})
      made[i \in DOMAIN xs] == IF asks(i) THEN r(nth(i)) ELSE xs[i]
      prior(i) == IF earlier(i) = {} THEN IF c.name = "fold" THEN c.arg ELSE Null ELSE made[Max(earlier(i))]
      args(i) == CASE c.name = "fold" -> <<"f", prior(i), xs[i]>>
                   [] c.name = "reduce" -> <<"f", k(i), prior(i), xs[i]>>
                   [] c.name = "aggregate" -> <<"f", k(i), prior(i), xs[i], earlier(i) = {}>>
  IN  [calls |-> FlattenSeq([i \in DOMAIN xs |->
                    IF asks(i) THEN << <<"key", xs[i]>>, args(i)>> ELSE << <<"key", xs[i]>> >>]),
       answer |-> Of("map", LinkedMap([i \in DOMAIN xs |-> <<k(i), made[i]>>])),
       receiver |-> recv]

\* A Result: the lambda is asked on the side it is for, and the other side passes.
ResultMember(recv, c, lambda) ==
  LET v == recv.items[1]
      failure == recv.kind = "failure"
      mine == (c.name \in {"getOrElse", "onFailure", "recover"}) = failure
      r == lambda.says[1]
      passes == Of(recv.kind, recv.items)
  IN  [calls |-> IF c.name = "fold" THEN <<IF failure THEN <<"f", v>> ELSE <<"key", v>> >>
                 ELSE IF mine THEN << <<"f", v>> >> ELSE <<>>,
       answer |-> CASE c.name = "fold" -> Value(IF failure THEN r ELSE lambda.rank[v])
                    [] c.name = "getOrElse" -> Value(IF mine THEN r ELSE v)
                    [] c.name \in {"onSuccess", "onFailure"} -> passes
                    [] OTHER -> IF mine THEN Of("success", <<r>>) ELSE passes,
       receiver |-> recv]

(* ---- members without a lambda ------------------------------------------------------------------ *)

\* What a class does for the members that AbstractList and its like build on it.
Can(class) ==
  CASE class \in {"ArrayList", "LinkedHashSet", "LinkedHashMap"} -> {"add", "remove", "set"}
    [] class = "Arrays$ArrayList" -> {"set"}
    [] OTHER -> {}

\* Members of a built ListBuilder that check before they look.
Checks == {"add", "addAll", "addFirst", "addLast", "remove", "removeAll", "retainAll", "removeAt", "set", "clear"}

Goes(c, e) == (e \in ToSet(c.arg)) = (c.name = "removeAll")

\* What a member comes down to on this receiver.
Attempts(recv, c) ==
  LET xs == recv.items
      x == c.arg
      When(b, op) == IF b THEN {op} ELSE {}
  IN
  CASE c.name \in {"add", "addFirst", "addLast", "put", "putIfAbsent"} -> {"add"}
    [] c.name = "addAll" -> When((IF c.two THEN x[2] ELSE x) # <<>>, "add")
    [] c.name = "putAll" -> When(x # <<>>, "add")
    [] c.name = "remove" ->
         When(IF recv.kind = "map" THEN c.two \/ \E i \in DOMAIN xs : xs[i][1] = x ELSE x \in ToSet(xs), "remove")
    [] c.name = "removeAt" -> {"remove"}
    [] c.name \in {"removeAll", "retainAll"} -> When(\E i \in DOMAIN xs : Goes(c, xs[i]), "remove")
    [] c.name = "removeKeys" -> When(\E i \in DOMAIN xs : xs[i][1] \in ToSet(x), "remove")
    [] c.name \in {"clear", "removeFirst", "removeLast", "removeFirstOrNull", "removeLastOrNull"} ->
         When(xs # <<>>, "remove")
    [] c.name = "set" -> {"set"}
    [] c.name = "fill" -> When(xs # <<>>, "set")
    [] c.name \in {"sort", "sortDescending", "reverse"} -> When(Len(xs) > 1, "set")

Refused(recv, c) ==
  \/ recv.class = "ListBuilder" /\ c.name \in Checks
  \* AbstractList.addAll looks at the index before it adds.
  \/ ~(c.name = "addAll" /\ c.two /\ c.arg[1] \notin 0..Len(recv.items)) /\ ~(Attempts(recv, c) \subseteq Can(recv.class))

\* What a read past the end raises.
OutOfBounds(recv) ==
  Throws(CASE recv.kind = "set" -> "IndexOutOfBounds: Collection doesn't contain element"
           [] recv.class = "ArrayList" -> "IndexOutOfBounds: Index _ out of bounds for length _"
           [] recv.class = "Arrays$ArrayList" -> "ArrayIndexOutOfBounds: Index _ out of bounds for length _"
           [] recv.class = "SingletonList" -> "IndexOutOfBounds: Index: _, Size: _"
           [] recv.class = "EmptyList" -> "IndexOutOfBounds: Empty list doesn't contain element"
           [] recv.class = "ListBuilder" -> "IndexOutOfBounds: index: _, size: _")

\* A member that writes: its answer, and the items afterwards when it does not throw.
Written(recv, c, rank) ==
  LET xs == recv.items
      n == Len(xs)
      x == c.arg
      ends(answer, items) == [answer |-> answer, items |-> items]
      changes(items) == ends(Value(items # xs), items)
      But(S) == LET o == SetToSortSeq((1..n) \ S, <) IN [k \in DOMAIN o |-> xs[o[k]]]
      where(P(_)) == {i \in 1..n : P(xs[i])}
      first(S) == IF S = {} THEN {} ELSE {Min(S)}
      insert(i, q, answer) ==
        IF i \in 0..n THEN ends(answer, SubSeq(xs, 1, i) \o q \o SubSeq(xs, i + 1, n))
        ELSE ends(Throws("IndexOutOfBounds: Index: _, Size: _"), xs)
      at(k) == where(LAMBDA e : e[1] = k)
      held(k) == IF at(k) = {} THEN Null ELSE xs[Min(at(k))][2]
      end(i) == IF n = 0 THEN ends(IF c.name \in {"removeFirstOrNull", "removeLastOrNull"} THEN Value(Null)
                                   ELSE Throws("NoSuchElement"), xs)
                ELSE ends(Value(xs[i]), But({i}))
  IN
  CASE c.name = "add" /\ recv.kind = "set" -> changes(IF x \in ToSet(xs) THEN xs ELSE Append(xs, x))
    [] c.name = "add" /\ recv.kind = "list" -> IF c.two THEN insert(x[1], <<x[2]>>, Unit) ELSE changes(Append(xs, x))
    [] c.name = "addAll" /\ recv.kind = "set" ->
         changes(LET all == xs \o x IN KeysOf([i \in DOMAIN all |-> <<all[i]>>]))
    [] c.name = "addAll" /\ recv.kind = "list" -> IF c.two THEN insert(x[1], x[2], Value(x[2] # <<>>)) ELSE changes(xs \o x)
    [] c.name = "addFirst" -> ends(Unit, <<x>> \o xs)
    [] c.name = "addLast" -> ends(Unit, Append(xs, x))
    [] c.name \in {"put", "putIfAbsent"} ->
         ends(Value(held(x[1])), IF c.name = "putIfAbsent" /\ held(x[1]) # Null THEN xs ELSE LinkedMap(Append(xs, x)))
    [] c.name = "putAll" -> ends(Unit, LinkedMap(xs \o x))
    [] c.name = "remove" /\ recv.kind = "map" ->
         IF c.two THEN changes(But({i \in at(x[1]) : xs[i][2] = x[2]})) ELSE ends(Value(held(x)), But(at(x)))
    [] c.name = "remove" /\ recv.kind # "map" -> changes(But(first(where(LAMBDA e : e = x))))
    [] c.name = "removeAt" -> IF x \in 0..n - 1 THEN ends(Value(xs[x + 1]), But({x + 1}))
                              ELSE ends(Throws("IndexOutOfBounds: Index _ out of bounds for length _"), xs)
    [] c.name \in {"removeAll", "retainAll"} -> changes(But(where(LAMBDA e : Goes(c, e))))
    [] c.name = "removeKeys" -> ends(Unit, But(where(LAMBDA e : e[1] \in ToSet(x))))
    [] c.name = "clear" -> ends(Unit, <<>>)
    [] c.name \in {"removeFirst", "removeFirstOrNull"} -> end(1)
    [] c.name \in {"removeLast", "removeLastOrNull"} -> end(n)
    [] c.name = "set" -> IF x[1] \in 0..n - 1 THEN ends(Value(xs[x[1] + 1]), [i \in 1..n |-> IF i = x[1] + 1 THEN x[2] ELSE xs[i]])
                         ELSE ends(OutOfBounds(recv), xs)
    [] c.name = "fill" -> ends(Unit, [i \in 1..n |-> x])
    [] c.name = "sort" -> ends(Unit, Permuted(xs, LAMBDA i, j : rank[xs[i]] < rank[xs[j]]))
    [] c.name = "sortDescending" -> ends(Unit, Permuted(xs, LAMBDA i, j : rank[xs[j]] < rank[xs[i]]))
    [] c.name = "reverse" -> ends(Unit, [i \in 1..n |-> xs[n + 1 - i]])

\* The member an operator that assigns stands for.
Assigned(recv, c) ==
  LET adds == IF recv.kind = "map" THEN IF c.two THEN "putAll" ELSE "put" ELSE IF c.two THEN "addAll" ELSE "add"
      drops == IF ~c.two THEN "remove" ELSE IF recv.kind = "map" THEN "removeKeys" ELSE "removeAll"
  IN  [c EXCEPT !.two = FALSE,
                !.name = CASE c.name = "plusAssign" -> adds
                           [] c.name = "minusAssign" -> drops
                           [] c.name = "[]=" -> IF recv.kind = "map" THEN "put" ELSE "set"]

\* A member that reads, or makes another collection.
Read(recv, c, rank) ==
  LET xs == recv.items
      n == Len(xs)
      x == c.arg
      isMap == recv.kind = "map"
      says(list, other) == Throws(IF recv.kind = "list" THEN list ELSE other)
      Nothing == says("NoSuchElement: List is empty.", "NoSuchElement: Collection is empty.")
      Distinct(q) == KeysOf([i \in DOMAIN q |-> <<q[i]>>])
      where(e) == {i \in 1..n : xs[i] = e}
      at(k) == {i \in 1..n : xs[i][1] = k}
      value(k, absent) == Value(IF at(k) = {} THEN absent ELSE xs[Min(at(k))][2])
      best(sign) == xs[CHOOSE i \in 1..n : \A j \in 1..n :
                         sign * (rank[xs[i]] - rank[xs[j]]) > 0 \/ (rank[xs[i]] = rank[xs[j]] /\ i <= j)]
      some(v, orNull) == IF n > 0 THEN Value(v) ELSE IF c.name = orNull THEN Value(Null) ELSE Throws("NoSuchElement")
      part(from, to) == IF x < 0 THEN Throws("IllegalArgument") ELSE ToList(SubSeq(xs, Max({from, 1}), Min({to, n})))
      windows(size, step, partial) ==
        LET o == SetToSortSeq({i \in 1..n : (i - 1) % step = 0 /\ (partial \/ i + size - 1 <= n)}, <)
        IN  IF size <= 0 \/ step <= 0 THEN Throws("IllegalArgument")
            ELSE ArrayList([k \in DOMAIN o |-> SubSeq(xs, o[k], Min({n, o[k] + size - 1}))])
  IN
  CASE c.name \in {"size", "count"} -> Value(n)
    [] c.name = "lastIndex" -> Value(n - 1)
    [] c.name \in {"isEmpty", "none"} -> Value(n = 0)
    [] c.name \in {"isNotEmpty", "any"} -> Value(n > 0)
    [] c.name = "first" -> IF n = 0 THEN Nothing ELSE Value(xs[1])
    [] c.name = "last" -> IF n = 0 THEN Nothing ELSE Value(xs[n])
    [] c.name = "firstOrNull" -> Value(IF n = 0 THEN Null ELSE xs[1])
    [] c.name = "lastOrNull" -> Value(IF n = 0 THEN Null ELSE xs[n])
    [] c.name = "elementAt" -> IF x \in 0..n - 1 THEN Value(xs[x + 1]) ELSE OutOfBounds(recv)
    [] c.name = "elementAtOrNull" -> Value(IF x \in 0..n - 1 THEN xs[x + 1] ELSE Null)
    [] c.name = "slice" /\ c.two ->
         IF x[1] > x[2] THEN ToList(<<>>)
         ELSE IF x[1] < 0 \/ x[2] >= n THEN Throws("IndexOutOfBounds")
         ELSE ToList([k \in 1..x[2] - x[1] + 1 |-> xs[x[1] + k]])
    [] c.name = "slice" /\ ~c.two ->
         IF x = <<>> THEN ToList(x)
         ELSE IF \E k \in DOMAIN x : x[k] \notin 0..n - 1 THEN OutOfBounds(recv)
         ELSE ArrayList([k \in DOMAIN x |-> xs[x[k] + 1]])
    [] c.name = "contains" -> Value(where(x) # {})
    [] c.name = "containsAll" -> Value(\A k \in DOMAIN x : where(x[k]) # {})
    [] c.name = "indexOf" -> Value(IF where(x) = {} THEN -1 ELSE Min(where(x)) - 1)
    [] c.name = "lastIndexOf" -> Value(IF where(x) = {} THEN -1 ELSE Max(where(x)) - 1)
    [] c.name = "binarySearch" ->
         LET found == {i \in where(x[1]) : i - 1 \in x[2]..x[3] - 1}
             less == {i \in x[2] + 1..x[3] : xs[i] < x[1]}
         IN  IF x[2] > x[3] THEN Throws("IllegalArgument")
             ELSE IF x[2] < 0 \/ x[3] > n THEN Throws("IndexOutOfBounds")
             ELSE Value(IF found # {} THEN Min(found) - 1 ELSE -(x[2] + Cardinality(less)) - 1)
    [] c.name = "sum" -> Value(FoldSeq(LAMBDA a, b : a + b, 0, xs))
    [] c.name \in {"max", "maxOrNull"} -> some(best(1), "maxOrNull")
    [] c.name \in {"min", "minOrNull"} -> some(best(-1), "minOrNull")
    [] c.name = "zip" -> ArrayList([i \in 1..Min({n, Len(x)}) |-> <<xs[i], x[i]>>])
    [] c.name = "zipWithNext" -> IF n = 0 THEN ToList(<<>>) ELSE ArrayList([i \in 1..n - 1 |-> <<xs[i], xs[i + 1]>>])
    [] c.name = "chunked" -> windows(x, x, TRUE)
    [] c.name = "windowed" -> windows(x[1], x[2], x[3])
    [] c.name = "toList" -> ToList(xs)
    [] c.name = "toMutableList" -> ArrayList(xs)
    [] c.name \in {"single", "singleOrNull"} ->
         IF n = 1 THEN Value(xs[1])
         ELSE IF c.name = "singleOrNull" THEN Value(Null)
         ELSE IF n = 0 THEN Nothing
         ELSE says("IllegalArgument: List has more than one element.", "IllegalArgument: Collection has more than one element.")
    [] c.name = "toSet" -> Collapsed("set", Distinct(xs), n)
    [] c.name = "toMutableSet" -> Of("set", Distinct(xs))
    [] c.name = "toCollection" ->
         IF x.kind = "list" THEN ArrayList(x.items \o xs) ELSE Of("set", Distinct(x.items \o xs))
    [] c.name = "distinct" -> ToList(Distinct(xs))
    [] c.name = "union" -> Of("set", Distinct(xs \o x))
    [] c.name = "intersect" -> Of("set", SelectSeq(Distinct(xs), LAMBDA e : e \in ToSet(x)))
    [] c.name = "subtract" -> Of("set", SelectSeq(Distinct(xs), LAMBDA e : e \notin ToSet(x)))
    [] c.name = "sorted" -> AsList(Permuted(xs, LAMBDA i, j : rank[xs[i]] < rank[xs[j]]))
    [] c.name = "sortedDescending" -> AsList(Permuted(xs, LAMBDA i, j : rank[xs[j]] < rank[xs[i]]))
    [] c.name = "take" -> part(1, x)
    [] c.name = "drop" -> part(x + 1, n)
    [] c.name = "takeLast" -> part(n - x + 1, n)
    [] c.name = "dropLast" -> part(1, n - x)
    [] c.name = "reversed" -> ToList([i \in 1..n |-> xs[n + 1 - i]])
    [] c.name = "toMap" -> Collapsed("map", xs, n)
    [] c.name = "toMutableMap" -> Of("map", xs)
    [] c.name = "containsKey" -> Value(at(x) # {})
    [] c.name = "containsValue" -> Value(\E i \in 1..n : xs[i][2] = x)
    [] c.name = "get" -> value(x, Null)
    [] c.name = "getOrDefault" -> value(x[1], x[2])
    [] c.name = "getValue" -> IF at(x) = {} THEN Throws("NoSuchElement: Key _ is missing in the map.") ELSE value(x, Null)
    \* A new collection; of a Set and a Map, of the receiver's kind.
    [] c.name \in {"plus", "plusElement"} ->
         LET q == xs \o (IF c.two THEN x ELSE <<x>>)
         IN  IF isMap THEN IF c.two THEN Of("map", LinkedMap(q)) ELSE Collapsed("map", LinkedMap(q), n + 1) ELSE IF recv.kind = "set" THEN Of("set", Distinct(q)) ELSE ArrayList(q)
    [] c.name \in {"minus", "minusElement"} ->
         LET out == IF isMap THEN {i \in 1..n : IF c.two THEN xs[i][1] \in ToSet(x) ELSE xs[i][1] = x}
                    ELSE IF c.two THEN {i \in 1..n : xs[i] \in ToSet(x)}
                    ELSE IF where(x) = {} THEN {} ELSE {Min(where(x))}
             o == SetToSortSeq((1..n) \ out, <)
             q == [k \in DOMAIN o |-> xs[o[k]]]
         IN  IF isMap THEN Collapsed("map", q, Len(q))
             ELSE IF c.two /\ x = <<>> THEN IF recv.kind = "set" THEN Collapsed("set", q, n) ELSE ToList(q)
             ELSE IF recv.kind = "set" THEN Of("set", q) ELSE ArrayList(q)

Assigning == {"plusAssign", "minusAssign", "[]="}

\* A member without a lambda, where `writes` says which kind it is.
Plainly(recv, c, rank, writes) ==
  LET m == IF c.name \in Assigning THEN Assigned(recv, c) ELSE c
      after(w) == [calls |-> <<>>,
                   answer |-> IF c.name \in Assigning /\ w.answer.kind # "fault" THEN Unit ELSE w.answer,
                   receiver |-> [recv EXCEPT !.items = w.items]]
  IN  IF ~writes THEN [calls |-> <<>>, answer |-> Read(recv, c, rank), receiver |-> recv]
      ELSE IF Refused(recv, m) THEN [calls |-> <<>>, answer |-> Throws("UnsupportedOperation"), receiver |-> recv]
      ELSE after(Written(recv, m, rank))

(* ---- a call --------------------------------------------------------------------------------------- *)

\* A member named ...To adds what the member without To answers to its destination.
Into(answer, dest, grouped) ==
  LET q == answer.items
      es == dest.items
  IN  CASE dest.kind = "list" -> [dest EXCEPT !.items = @ \o q]
        [] dest.kind = "set" ->
             [dest EXCEPT !.items = LET both == es \o q
                                    IN  KeysOf([i \in DOMAIN both |-> <<both[i]>>])]
        [] dest.kind = "map" /\ ~grouped -> [dest EXCEPT !.items = LinkedMap(es \o q)]
        \* A group goes after what the destination has for its key.
        [] dest.kind = "map" /\ grouped ->
             [dest EXCEPT !.items = LET both == Grouped(es \o q)
                                    IN  [i \in DOMAIN both |-> <<both[i][1], FlattenSeq(both[i][2])>>]]

\* What is left of a call whose lambda throws, and what becomes of an answer.
Delivered(m, recv, c, throws) ==
  IF throws \in 1..Len(m.calls)
  THEN [calls |-> SubSeq(m.calls, 1, throws), answer |-> Of("thrown", <<>>), receiver |-> recv]
  ELSE IF c.into = Null THEN m
  ELSE LET dest == Into(m.answer, c.into, c.name = "groupBy")
       IN  [m EXCEPT !.answer = IF dest.kind = "list" THEN ArrayList(dest.items) ELSE Of(dest.kind, dest.items)]

Promise(recv, c, lambda) ==
  Delivered(CASE recv.kind = "grouping" -> Terminal(recv, c, lambda)
              [] recv.kind \in {"success", "failure"} -> ResultMember(recv, c, lambda)
              [] OTHER -> Member(recv, c, lambda),
            recv, c, lambda.throws)
=============================================================================

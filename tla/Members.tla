------------------------------- MODULE Members ---------------------------------
(***************************************************************************)
(* The members of collections that take a lambda: b_coll_hof and coll_hof.  *)
(*                                                                          *)
(* A member runs to its end in one step of the interpreter, and the lambda  *)
(* runs inside it.  The state of a call is a record: the receiver, what the *)
(* lambda answers to its first, second, ... call and the call at which it   *)
(* throws, and what has happened so far.  Once a throwable is pending       *)
(* invoke_closure answers null and runs nothing, but the member goes on to  *)
(* its end all the same: what it then does to the receiver is part of it.   *)
(*                                                                          *)
(* A receiver is [kind, items, tag]: tag is ListImpl, the class a List      *)
(* would have on the JVM, and the items of a Map are its entries <<k, v>>.  *)
(***************************************************************************)
EXTENDS Integers, Sequences, FiniteSets
LOCAL INSTANCE SequencesExt

CONSTANTS Null,    \* Value::Undef
          Space    \* the element that is a blank character of a String

(* ---- values -------------------------------------------------------------------- *)

Object(kind, items, tag) == [kind |-> kind, items |-> items, tag |-> tag]
List(items) == Object("list", items, "none")
ReadOnly(items) == Object("list", items, "ReadOnly")
Sorted(items) == Object("list", items, "Sorted")
MapOf(entries) == Object("map", entries, "none")
PairOf(kind, a, b) == Object("pair", << <<kind, a>>, <<kind, b>> >>, "none")
\* A value that is no collection of its own: an element, a number, Unit.
One(v) == Object("value", <<v>>, "none")
Unit == One(Null)
Fault(class) == Object("fault", <<class>>, "none")
\* What a caller that never gets an answer sees: the throwable of the lambda.
Thrown == Object("thrown", <<>>, "none")

truthy(r) == r = TRUE

\* num_f64 of null is 0.
Rank(v) == IF v = Null THEN 0 ELSE v
value_cmp(a, b) == Rank(a) - Rank(b)

RECURSIVE SumFrom(_, _)
SumFrom(q, i) == IF i > Len(q) THEN 0 ELSE Rank(q[i]) + SumFrom(q, i + 1)
sum_values(q) == SumFrom(q, 1)

(* ---- a call ---------------------------------------------------------------------- *)

\* lambda: what it answers to its first, second, ... call (repeated when there are more), the call it
\* throws at, and `rank`, what a selector answers to an element.
Call(recv, lambda) ==
  [recv |-> recv, lambda |-> lambda, calls |-> <<>>, asked |-> 0, pending |-> FALSE, r |-> Null,
   out |-> <<>>, acc |-> Null, done |-> FALSE, answer |-> Unit]

\* The lambda of the call is "f", a leading one "key".
Says(s, who, args) ==
  LET q == s.lambda.says
  IN  IF Len(s.calls) + 1 = s.lambda.throws THEN Null
      ELSE IF who = "key" THEN s.lambda.rank[args[1]]
      ELSE q[(s.asked % Len(q)) + 1]

Run(s, who, args) ==
  [s EXCEPT !.r = Says(s, who, args),
            !.pending = @ \/ Len(s.calls) + 1 = s.lambda.throws,
            !.asked = IF who = "f" THEN @ + 1 ELSE @,
            !.calls = Append(@, <<who>> \o args)]

\* Mutation: the lambda runs although a throwable is pending.
invoke_closure_again(s, who, args) == Run(s, who, args)

invoke_closure(s, who, args) == IF s.pending THEN [s EXCEPT !.r = Null] ELSE Run(s, who, args)

Items(s) == s.recv.items
Forward(s) == [i \in 1..Len(Items(s)) |-> i]
Backward(s) == Reverse(Forward(s))

\* One pass: the lambda is asked at each position in `order`, until one says it is done.
Walk(s, order, Ask(_, _), Do(_, _)) ==
  LET run[n \in 0..Len(order)] ==
        IF n = 0 THEN s
        ELSE LET t == run[n - 1] IN IF t.done THEN t ELSE Do(Ask(t, order[n]), order[n])
  IN  run[Len(order)]

Ask(s, i) == invoke_closure(s, "f", <<Items(s)[i]>>)
AskIndexed(s, i) == invoke_closure(s, "f", <<i - 1, Items(s)[i]>>)

Add(s, i) == [s EXCEPT !.out = Append(@, s.r)]
AddNotNull(s, i) == IF s.r = Null THEN s ELSE Add(s, i)
Splice(s, i) == IF s.r = Null THEN s ELSE [s EXCEPT !.out = @ \o s.r]   \* iterable_items
AddElement(s, i) == [s EXCEPT !.out = Append(@, Items(s)[i])]
AddIf(s, i) == IF truthy(s.r) THEN AddElement(s, i) ELSE s
AddUnless(s, i) == IF truthy(s.r) THEN s ELSE AddElement(s, i)
Nothing(s, i) == s
\* The element and the walk ends there.
Found(s, i) == [s EXCEPT !.acc = i, !.done = TRUE]
FoundIf(s, i) == IF truthy(s.r) THEN Found(s, i) ELSE s
FoundUnless(s, i) == IF truthy(s.r) THEN s ELSE Found(s, i)
\* The last of them, and the walk goes on.
LatestIf(s, i) == IF truthy(s.r) THEN [s EXCEPT !.acc = i] ELSE s

Answer(s, v) == [s EXCEPT !.answer = v]
Answers(s, Of(_)) == [s EXCEPT !.answer = Of(s)]
Out(s) == List(s.out)

\* A member that visits every element in order and answers from what it gathered.
Pass(s, Asking(_, _), Do(_, _), Of(_)) == Answers(Walk(s, Forward(s), Asking, Do), Of)

(* ---- what comes of each element ------------------------------------------------------ *)

map(s) == Pass(s, Ask, Add, Out)
mapNotNull(s) == Pass(s, Ask, AddNotNull, Out)
mapIndexed(s) == Pass(s, AskIndexed, Add, Out)
mapIndexedNotNull(s) == Pass(s, AskIndexed, AddNotNull, Out)
flatMap(s) == Pass(s, Ask, Splice, Out)
flatMapIndexed(s) == Pass(s, AskIndexed, Splice, Out)
forEach(s) == Pass(s, Ask, Nothing, LAMBDA t : Unit)
\* Of a Map, with a lambda of two parameters: java.util.Map.forEach.
forEachEntry(s) ==
  Pass(s, LAMBDA t, i : invoke_closure(t, "f", Items(t)[i]), Nothing, LAMBDA t : Unit)
forEachIndexed(s) == Pass(s, AskIndexed, Nothing, LAMBDA t : Unit)
onEach(s) == Pass(s, Ask, Nothing, LAMBDA t : List(Items(t)))
sumOf(s) == Pass(s, Ask, Add, LAMBDA t : One(sum_values(t.out)))

(* ---- filters ----------------------------------------------------------------------- *)

\* The container of the receiver: what it filters to.
same_kind_as(s, out) == IF s.recv.kind \in {"map", "set"} THEN Object(s.recv.kind, out, "none") ELSE List(out)

filter(s) == Pass(s, Ask, AddIf, LAMBDA t : same_kind_as(t, t.out))
filterNot(s) == Pass(s, Ask, AddUnless, LAMBDA t : same_kind_as(t, t.out))
filterIndexed(s) == Pass(s, AskIndexed, AddIf, Out)
\* One half of each entry is what the lambda sees.
filterKeys(s, half) ==
  Pass(s, LAMBDA t, i : invoke_closure(t, "f", <<Items(t)[i][half]>>), AddIf, LAMBDA t : MapOf(t.out))

\* `no` is gathered in acc.
partition(s) ==
  Pass([s EXCEPT !.acc = <<>>], Ask,
       LAMBDA t, i : IF truthy(t.r) THEN AddElement(t, i) ELSE [t EXCEPT !.acc = Append(@, Items(t)[i])],
       LAMBDA t : PairOf("list", t.out, t.acc))

\* takeWhile and dropWhile: `cut` is the first element that fails.
takeWhile(s, take) ==
  LET t == Walk([s EXCEPT !.acc = Len(Items(s)) + 1], Forward(s), Ask, FoundUnless)
      cut == t.acc
  IN  Answer(t, List(IF take THEN SubSeq(Items(s), 1, cut - 1) ELSE SubSeq(Items(s), cut, Len(Items(s)))))

\* takeLastWhile and dropLastWhile: the last one that fails stays with the front.
takeLastWhile(s, take) ==
  LET t == Walk([s EXCEPT !.acc = 0], Backward(s), Ask, FoundUnless)
      cut == t.acc
  IN  Answer(t, List(IF take THEN SubSeq(Items(s), cut + 1, Len(Items(s))) ELSE SubSeq(Items(s), 1, cut)))

\* The predicate forms of trim, which only a String has: first the front, then what is left.
trim(s, front, back) ==
  LET n == Len(Items(s))
      lo == IF ~front THEN s ELSE Walk([s EXCEPT !.acc = n + 1], Forward(s), Ask, FoundUnless)
      from == IF front THEN lo.acc ELSE 1
      rest == SubSeq(Backward(s), 1, n - from + 1)
      hi == IF ~back THEN lo
            ELSE Walk([lo EXCEPT !.acc = from - 1, !.done = FALSE], rest, Ask, FoundUnless)
  IN  Answer(hi, List(SubSeq(Items(s), from, IF back THEN hi.acc ELSE n)))

(* ---- searches ------------------------------------------------------------------------ *)

any(s) == Pass(s, Ask, FoundIf, LAMBDA t : One(t.done))
all(s) == Pass(s, Ask, FoundUnless, LAMBDA t : One(~t.done))
none(s) == Pass(s, Ask, FoundIf, LAMBDA t : One(~t.done))
count(s) == Pass(s, Ask, AddIf, LAMBDA t : One(Len(t.out)))

\* first and last, find and findLast, firstOrNull and lastOrNull.
first(s, back, orNull) ==
  Pass(s, Ask, LAMBDA t, i : IF back THEN LatestIf(t, i) ELSE FoundIf(t, i),
       LAMBDA t : IF t.acc # Null THEN One(Items(t)[t.acc])
                  ELSE IF orNull THEN One(Null) ELSE Fault("NoSuchElement"))

single(s, orNull) ==
  Pass(s, Ask, AddIf,
       LAMBDA t : IF Len(t.out) = 1 THEN One(t.out[1])
                  ELSE IF orNull THEN One(Null)
                  ELSE Fault(IF t.out = <<>> THEN "NoSuchElement" ELSE "IllegalArgument"))

indexOfFirst(s, back) ==
  Pass(s, Ask, LAMBDA t, i : IF back THEN LatestIf(t, i) ELSE FoundIf(t, i),
       LAMBDA t : One(IF t.acc = Null THEN -1 ELSE t.acc - 1))

firstNotNullOf(s, orNull) ==
  Pass(s, Ask, LAMBDA t, i : IF t.r = Null THEN t ELSE [t EXCEPT !.acc = t.r, !.done = TRUE],
       LAMBDA t : IF t.done \/ orNull THEN One(t.acc) ELSE Fault("NoSuchElement"))

\* The map half of getOrElse takes a key and the other an index; elementAtOrElse is the latter.
getOrElse(s, at) ==
  IF s.recv.kind = "map"
  THEN IF \E i \in DOMAIN Items(s) : Items(s)[i][1] = at
       THEN Answer(s, One((CHOOSE e \in ToSet(Items(s)) : e[1] = at)[2]))
       ELSE Answers(invoke_closure(s, "f", <<at>>), LAMBDA t : One(t.r))
  ELSE IF at + 1 \in DOMAIN Items(s) THEN Answer(s, One(Items(s)[at + 1]))
       ELSE Answers(invoke_closure(s, "f", <<at>>), LAMBDA t : One(t.r))

ifEmpty(s) ==
  IF Items(s) = <<>> THEN Answers(invoke_closure(s, "f", <<>>), LAMBDA t : One(t.r)) ELSE Answer(s, s.recv)

(* ---- folds --------------------------------------------------------------------------- *)

Keep(s, i) == [s EXCEPT !.acc = s.r]
KeepEach(s, i) == [s EXCEPT !.acc = s.r, !.out = Append(@, s.r)]
Folding(s, i) == invoke_closure(s, "f", <<s.acc, Items(s)[i]>>)
FoldingRight(s, i) == invoke_closure(s, "f", <<Items(s)[i], s.acc>>)
FoldingIndexed(s, i) == invoke_closure(s, "f", <<i - 1, s.acc, Items(s)[i]>>)
FoldingRightIndexed(s, i) == invoke_closure(s, "f", <<i - 1, Items(s)[i], s.acc>>)
Accumulated(s) == One(s.acc)
Seeded(s, seed) == [s EXCEPT !.acc = seed, !.out = <<seed>>]

fold(s, seed) == Pass(Seeded(s, seed), Folding, Keep, Accumulated)
foldRight(s, seed) == Answers(Walk(Seeded(s, seed), Backward(s), FoldingRight, Keep), Accumulated)
runningFold(s, seed) == Pass(Seeded(s, seed), Folding, KeepEach, Out)
foldIndexed(s, seed) == Pass(Seeded(s, seed), FoldingIndexed, Keep, Accumulated)
runningFoldIndexed(s, seed) == Pass(Seeded(s, seed), FoldingIndexed, KeepEach, Out)
foldRightIndexed(s, seed) ==
  Answers(Walk(Seeded(s, seed), Backward(s), FoldingRightIndexed, Keep), Accumulated)

\* The first element in `order` seeds the accumulator.
Reduce(s, order, Asking(_, _), Do(_, _), empty, Of(_)) ==
  IF order = <<>> THEN Answer(s, empty)
  ELSE Answers(Walk(Seeded(s, Items(s)[order[1]]), Tail(order), Asking, Do), Of)

OrFault(orNull) == IF orNull THEN One(Null) ELSE Fault("UnsupportedOperation")

reduce(s, orNull) == Reduce(s, Forward(s), Folding, Keep, OrFault(orNull), Accumulated)
reduceRight(s, orNull) == Reduce(s, Backward(s), FoldingRight, Keep, OrFault(orNull), Accumulated)
reduceIndexed(s, orNull) == Reduce(s, Forward(s), FoldingIndexed, Keep, OrFault(orNull), Accumulated)
runningReduceIndexed(s) == Reduce(s, Forward(s), FoldingIndexed, KeepEach, List(<<>>), Out)
reduceRightIndexed(s, orNull) ==
  Reduce(s, Backward(s), FoldingRightIndexed, Keep, OrFault(orNull), Accumulated)
runningReduce(s) == Reduce(s, Forward(s), Folding, KeepEach, List(<<>>), Out)

(* ---- the extreme element ----------------------------------------------------------------- *)

extremum_or(v, found, orNull) ==
  IF found THEN One(v) ELSE IF orNull THEN One(Null) ELSE Fault("NoSuchElement")

\* acc is the position of the best element so far and out the best answer; the first of equals stays.
Better(s, i, sign) ==
  IF s.out = <<>> \/ sign * value_cmp(s.r, s.out[1]) > 0
  THEN [s EXCEPT !.out = <<s.r>>, !.acc = i] ELSE s

\* maxBy and minBy (sign 1 and -1).
maxBy(s, sign, orNull) ==
  Pass(s, Ask, LAMBDA t, i : Better(t, i, sign),
       LAMBDA t : extremum_or(IF t.out = <<>> THEN Null ELSE Items(t)[t.acc], t.out # <<>>, orNull))

\* maxOf replaces on a greater answer, minOf on one that is not greater.
maxOf(s, max, orNull) ==
  Pass(s, Ask,
       LAMBDA t, i : IF t.out = <<>> \/ (value_cmp(t.r, t.out[1]) > 0) = max THEN [t EXCEPT !.out = <<t.r>>] ELSE t,
       LAMBDA t : extremum_or(IF t.out = <<>> THEN Null ELSE t.out[1], t.out # <<>>, orNull))

(* ---- comparators ---------------------------------------------------------------------------- *)

\* The steps of a compareBy chain: a step is a selector or a comparator of whole elements, and
\* descending.  A lambda of two elements is a chain of one whole step.  `rank` orders the elements.
Selected(s, rank, x) == [invoke_closure(s, "key", <<x>>) EXCEPT !.r = IF @ = Null THEN Null ELSE rank[x]]
Compared(s, rank, a, b) ==
  [invoke_closure(s, "f", <<a, b>>) EXCEPT !.r = IF @ = Null THEN 0 ELSE rank[a] - rank[b]]

CompareStep(s, step, a, b) ==
  IF step.whole
  THEN IF step.descending THEN Compared(s, step.rank, b, a) ELSE Compared(s, step.rank, a, b)
  ELSE LET ka == Selected(s, step.rank, a)
           kb == Selected(ka, step.rank, b)
           ord == value_cmp(ka.r, kb.r)
       IN  [kb EXCEPT !.r = IF step.descending THEN -ord ELSE ord]

\* The first step that tells the elements apart decides: the answer is in r.
compare_with(s, steps, a, b) ==
  LET run[n \in 0..Len(steps)] ==
        IF n = 0 THEN [s EXCEPT !.r = 0]
        ELSE LET t == run[n - 1] IN IF t.r # 0 THEN t ELSE CompareStep(t, steps[n], a, b)
  IN  run[Len(steps)]

\* maxWith and minWith: the incumbent is replaced only on a strict improvement.
maxWith(s, steps, sign, orNull) ==
  LET t == Walk(IF Items(s) = <<>> THEN s ELSE [s EXCEPT !.acc = Items(s)[1]], Forward(s),
                LAMBDA u, i : IF i = 1 THEN u ELSE compare_with(u, steps, u.acc, Items(u)[i]),
                LAMBDA u, i : IF i > 1 /\ sign * u.r < 0 THEN [u EXCEPT !.acc = Items(u)[i]] ELSE u)
  IN  Answer(t, extremum_or(t.acc, Items(s) # <<>>, orNull))

\* sortedWith is an insertion sort: acc is the order so far, out the positions still to insert.
RECURSIVE Sink(_, _, _)
Sink(s, steps, j) ==
  IF j < 2 THEN s
  ELSE LET o == s.acc
           t == compare_with(s, steps, Items(s)[o[j - 1]], Items(s)[o[j]])
       IN  IF t.r > 0
           THEN Sink([t EXCEPT !.acc = [k \in DOMAIN o |-> IF k = j THEN o[j - 1] ELSE IF k = j - 1 THEN o[j] ELSE o[k]]],
                     steps, j - 1)
           ELSE t

RECURSIVE InsertFrom(_, _, _)
InsertFrom(s, steps, i) == IF i > Len(Items(s)) THEN s ELSE InsertFrom(Sink(s, steps, i), steps, i + 1)

Placed(s, order) == [k \in DOMAIN order |-> Items(s)[order[k]]]

sortedWith(s, steps) ==
  LET t == InsertFrom([s EXCEPT !.acc = Forward(s)], steps, 2)
      made == same_kind_as(s, Placed(s, t.acc))
  IN  Answer(t, IF made.kind # "list" THEN made
                ELSE [made EXCEPT !.tag = IF s.recv.kind = "sequence" THEN "ReadOnly" ELSE "Sorted"])

\* A stable sort by what the lambda said of each element.
ByKey(s, t, sign) ==
  LET n == Len(Items(s))
      before(i, j) == LET c == sign * value_cmp(t.out[i], t.out[j]) IN c < 0 \/ (c = 0 /\ i < j)
  IN  [k \in 1..n |-> Items(s)[CHOOSE i \in 1..n : Cardinality({j \in 1..n : before(j, i)}) = k - 1]]

\* sortedBy and sortedByDescending: the comparison is turned round, not the result.
sortedBy(s, sign) ==
  LET t == Walk(s, Forward(s), Ask, Add)
  IN  Answer(t, Object("list", ByKey(s, t, sign), IF s.recv.kind = "sequence" THEN "ReadOnly" ELSE "Sorted"))

(* ---- keys ------------------------------------------------------------------------------------ *)

KeyAt(entries, k) == {i \in DOMAIN entries : entries[i][1] = k}

\* The entry of a key is replaced in place, or added at the end.
PutEntry(entries, k, v) ==
  IF KeyAt(entries, k) = {} THEN Append(entries, <<k, v>>)
  ELSE [i \in DOMAIN entries |-> IF entries[i][1] = k THEN <<k, v>> ELSE entries[i]]

PutOut(s, k, v) == [s EXCEPT !.out = PutEntry(@, k, v)]
OutMap(s) == MapOf(s.out)

distinctBy(s) ==
  Pass([s EXCEPT !.acc = {}], Ask,
       LAMBDA t, i : IF t.r \in t.acc THEN t ELSE [AddElement(t, i) EXCEPT !.acc = @ \cup {t.r}],
       LAMBDA t : ReadOnly(t.out))

\* The lambda answers a Pair.
associate(s) == Pass(s, Ask, LAMBDA t, i : IF t.r = Null THEN t ELSE PutOut(t, t.r[1], t.r[2]), OutMap)
associateWith(s) == Pass(s, Ask, LAMBDA t, i : PutOut(t, Items(t)[i], t.r), OutMap)

\* With two lambdas the key selector is the leading argument; it is asked second.
associateBy(s, two) ==
  Pass(s, Ask,
       LAMBDA t, i :
         IF two THEN LET u == invoke_closure(t, "key", <<Items(t)[i]>>) IN PutOut(u, u.r, t.r)
         ELSE PutOut(t, t.r, Items(t)[i]),
       OutMap)

groupBy(s, two) ==
  Pass(s, LAMBDA t, i : IF two THEN invoke_closure(t, "key", <<Items(t)[i]>>) ELSE Ask(t, i),
       LAMBDA t, i :
         LET k == t.r
             u == IF two THEN Ask(t, i) ELSE [t EXCEPT !.r = Items(t)[i]]
             at == KeyAt(t.out, k)
         IN  PutOut(u, k, IF at = {} THEN <<u.r>> ELSE Append(t.out[CHOOSE j \in at : TRUE][2], u.r)),
       OutMap)

\* The terminals of a Grouping: one accumulator per key, and the key selector is asked first.
GroupingTerminal(s, name, seed) ==
  Pass(s, LAMBDA t, i : invoke_closure(t, "key", <<Items(t)[i]>>),
       LAMBDA t, i :
         LET k == t.r
             x == Items(t)[i]
             at == KeyAt(t.out, k)
             held == IF at = {} THEN Null ELSE t.out[CHOOSE j \in at : TRUE][2]
             u == CASE name = "fold" -> invoke_closure(t, "f", <<IF at = {} THEN seed ELSE held, x>>)
                    [] name = "reduce" -> IF at = {} THEN [t EXCEPT !.r = x] ELSE invoke_closure(t, "f", <<k, held, x>>)
                    [] name = "aggregate" -> invoke_closure(t, "f", <<k, held, x, at = {}>>)
         IN  PutOut(u, k, u.r),
       OutMap)

\* The half of each entry that the lambda's answer replaces: 1 mapKeys, 2 mapValues.
mapValues(s, half) ==
  Pass(s, Ask,
       LAMBDA t, i : LET e == Items(t)[i] IN IF half = 1 THEN PutOut(t, t.r, e[2]) ELSE PutOut(t, e[1], t.r),
       OutMap)

(* ---- windows and pairs ----------------------------------------------------------------------- *)

\* windows_of: every `step` elements, as long as an element is left.
RECURSIVE WindowsFrom(_, _, _, _, _)
WindowsFrom(q, at, size, step, partial) ==
  IF at > Len(q) \/ (at + size - 1 > Len(q) /\ ~partial) THEN <<>>
  ELSE <<SubSeq(q, at, IF at + size - 1 > Len(q) THEN Len(q) ELSE at + size - 1)>>
         \o WindowsFrom(q, at + step, size, step, partial)
windows_of(q, size, step, partial) == WindowsFrom(q, 1, size, step, partial)

\* chunked is windowed with the step of its size; a String hands out its groups as Strings.
windowed(s, size, step, partial) ==
  IF size <= 0 \/ step <= 0 THEN Answer(s, Fault("IllegalArgument"))
  ELSE LET groups == windows_of(Items(s), size, step, partial)
           of == IF s.recv.kind = "string" THEN "string" ELSE "list"
       IN  Answers(Walk(s, [g \in DOMAIN groups |-> g],
                        LAMBDA t, g : invoke_closure(t, "f", <<of, groups[g]>>), Add), Out)

zip(s, other) ==
  LET both == IF Len(other) < Len(Items(s)) THEN Len(other) ELSE Len(Items(s))
  IN  Answers(Walk(s, [i \in 1..both |-> i], LAMBDA t, i : invoke_closure(t, "f", <<Items(t)[i], other[i]>>), Add), Out)

zipWithNext(s) ==
  Answers(Walk(s, SubSeq(Forward(s), 1, Len(Items(s)) - 1),
               LAMBDA t, i : invoke_closure(t, "f", <<Items(t)[i], Items(t)[i + 1]>>), Add), Out)

\* A non-negative limit cuts the elements off; "..." stands for the others.
joinToString(s, limit) ==
  Pass(s, LAMBDA t, i : IF limit >= 0 /\ i > limit THEN t ELSE Ask(t, i),
       LAMBDA t, i : IF limit >= 0 /\ i > limit THEN [t EXCEPT !.out = Append(@, "..."), !.done = TRUE] ELSE Add(t, i),
       LAMBDA t : Object("text", t.out, "none"))

(* ---- Result ------------------------------------------------------------------------------------- *)

\* A Result is [kind |-> "success" or "failure", items |-> <<value>>].
Asked(s, Of(_)) == Answers(invoke_closure(s, "f", Items(s)), Of)

result_hof(s, name) ==
  LET failure == s.recv.kind = "failure"
      me == Answer(s, s.recv)
      made(t) == Object("success", <<t.r>>, "none")
  IN  CASE name = "getOrElse" -> IF failure THEN Asked(s, LAMBDA t : One(t.r)) ELSE Answer(s, One(Items(s)[1]))
        [] name = "onSuccess" -> IF failure THEN me ELSE Asked(s, LAMBDA t : s.recv)
        [] name = "onFailure" -> IF failure THEN Asked(s, LAMBDA t : s.recv) ELSE me
        [] name = "map" -> IF failure THEN me ELSE Asked(s, made)
        [] name = "recover" -> IF failure THEN Asked(s, made) ELSE me
        \* fold(onSuccess, onFailure): the first lambda is the extra argument.
        [] name = "fold" -> Answers(invoke_closure(s, IF failure THEN "f" ELSE "key", Items(s)), LAMBDA t : One(t.r))

(* ---- the class of a List ------------------------------------------------------------------------- *)

\* How far a read-only List lets itself be written: told from its tag and its size of now.
ro_list(r) ==
  LET n == Len(r.items)
  IN  IF r.kind # "list" THEN "writable"
      ELSE IF r.tag = "Builder" THEN "Builder"
      ELSE IF r.tag \notin {"Literal", "ReadOnly", "Sorted"} THEN "writable"
      ELSE IF n = 0 THEN "Empty"
      ELSE IF n = 1 THEN "Singleton"
      ELSE IF r.tag = "ReadOnly" THEN "writable"
      ELSE "Arrays"

\* Mutation: the tag of a list that is written stays.
ro_list_write_kept(s) == s

\* At a write, a ReadOnly list of two elements or more is the ArrayList it was made as, for good.
ro_list_write(s) ==
  IF ro_list(s.recv) = "writable" /\ s.recv.tag = "ReadOnly" THEN [s EXCEPT !.recv.tag = "none"] ELSE s

\* The literal of a Set or a Map keeps its tag until it is written with two elements or more.
ro_coll(s) == s.recv.kind \in {"set", "map"} /\ s.recv.tag = "Literal" /\ Len(Items(s)) < 2
ro_coll_write(s) ==
  IF s.recv.kind \in {"set", "map"} /\ ~ro_coll(s) THEN [s EXCEPT !.recv.tag = "none"] ELSE s

Refused(s) == Answer(s, Fault("UnsupportedOperation"))
Write(s, items) == [s EXCEPT !.recv.items = items]

(* ---- writers with a lambda ------------------------------------------------------------------------- *)

\* sortBy and sortByDescending.
sortBy(s, sign) ==
  IF Len(Items(s)) > 1 /\ ro_list(s.recv) = "Builder" THEN Refused(s)
  ELSE LET u == IF Len(Items(s)) > 1 THEN ro_list_write(s) ELSE s
           t == Walk(u, Forward(s), Ask, Add)
       IN  Answer(Write(t, ByKey(s, t, sign)), Unit)

sortWith(s, steps) ==
  IF Len(Items(s)) > 1 /\ ro_list(s.recv) = "Builder" THEN Refused(s)
  ELSE LET u == IF Len(Items(s)) > 1 THEN ro_list_write(s) ELSE s
           t == InsertFrom([u EXCEPT !.acc = Forward(s)], steps, 2)
       IN  Answer(Write(t, Placed(s, t.acc)), Unit)

\* removeIf, removeAll and retainAll: the predicate runs over all the elements before anything is
\* removed, and an Arrays$ArrayList compacts what is kept before it refuses to shrink.
removeIf(s, name) ==
  LET t == Walk(s, Forward(s), Ask,
                LAMBDA v, i : IF name = "retainAll" THEN AddIf(v, i) ELSE AddUnless(v, i))
      kept == t.out
      removes == Len(kept) < Len(Items(s))
      class == ro_list(s.recv)
      u == ro_list_write(t)
  IN  IF class \in {"Singleton", "Empty"} /\ name = "removeIf" THEN Refused(u)
      ELSE IF class = "Arrays" /\ removes /\ name # "removeIf"
           THEN Refused(Write(u, kept \o SubSeq(Items(s), Len(kept) + 1, Len(Items(s)))))
      ELSE IF class # "writable" /\ removes THEN Refused(u)
      ELSE Answer(Write(u, kept), One(removes))

\* Of a Map, the lambda gets key and value, and its answer replaces the value.
replaceAll(s) ==
  LET class == ro_list(s.recv)
      u == ro_list_write(s)
      isMap == s.recv.kind = "map"
      t == Walk(u, Forward(s),
                LAMBDA v, i : IF isMap THEN invoke_closure(v, "f", Items(v)[i]) ELSE Ask(v, i), Add)
  IN  IF class \in {"Singleton", "Empty"} \/ (class = "Builder" /\ Items(s) # <<>>) THEN Refused(u)
      ELSE Answer(Write(t, IF isMap THEN [i \in DOMAIN t.out |-> <<Items(s)[i][1], t.out[i]>>] ELSE t.out), Unit)

At(entries, k) == IF KeyAt(entries, k) = {} THEN Null ELSE entries[CHOOSE i \in KeyAt(entries, k) : TRUE][2]
Without(entries, k) == SelectSeq(entries, LAMBDA e : e[1] # k)

\* A null value counts as none.
getOrPut(s, k) ==
  LET old == At(Items(s), k)
      t == invoke_closure(s, "f", <<>>)
      u == ro_coll_write(t)
  IN  IF old # Null THEN Answer(s, One(old))
      ELSE IF ro_coll(s) THEN Refused(t)
      ELSE Answer(Write(u, PutEntry(Items(s), k, t.r)), One(t.r))

\* The answer r of the function is stored, and null removes the entry.
Stored(s, k) ==
  Answer(Write(s, IF s.r = Null THEN Without(Items(s), k) ELSE PutEntry(Items(s), k, s.r)), One(s.r))

map_remap(s, name, k, v) ==
  LET old == At(Items(s), k)
  IN  CASE name = "merge" ->
             IF v = Null THEN Answer(s, Fault("NullPointer"))
             ELSE Stored(IF old = Null THEN [s EXCEPT !.r = v] ELSE invoke_closure(s, "f", <<old, v>>), k)
        [] name = "compute" -> Stored(invoke_closure(s, "f", <<k, old>>), k)
        [] name = "computeIfAbsent" ->
             IF old = Null THEN Stored(invoke_closure(s, "f", <<k>>), k) ELSE Answer(s, One(old))
        [] name = "computeIfPresent" ->
             IF old = Null THEN Answer(s, One(Null)) ELSE Stored(invoke_closure(s, "f", <<k, old>>), k)

(* ---- ...To(destination) -------------------------------------------------------------------------------- *)

AddTo(dest, x) == IF dest.kind = "set" /\ x \in ToSet(dest.items) THEN dest ELSE [dest EXCEPT !.items = Append(@, x)]

RECURSIVE AddAllTo(_, _)
AddAllTo(dest, q) == IF q = <<>> THEN dest ELSE AddAllTo(AddTo(dest, Head(q)), Tail(q))

RECURSIVE PutAllTo(_, _, _)
PutAllTo(dest, entries, grouped) ==
  IF entries = <<>> THEN dest
  ELSE LET e == Head(entries)
           held == At(dest.items, e[1])
           v == IF grouped /\ held # Null THEN held \o e[2] ELSE e[2]
       IN  PutAllTo([dest EXCEPT !.items = PutEntry(@, e[1], v)], Tail(entries), grouped)

\* What the member without To makes is then added to the destination, element by element.
hof_into(t, dest, grouped) ==
  LET made == t.answer
  IN  Answer(t, IF made.kind = "map" THEN PutAllTo(dest, made.items, grouped) ELSE AddAllTo(dest, made.items))

(* ---- coll_hof -------------------------------------------------------------------------------------------- *)

\* call: the member, its arguments besides the lambda (a seed, a key, an index, a second collection, the
\* steps of a comparator, ...) and whether it has a leading lambda.
coll_hof(s, c) ==
  LET name == c.name
      x == c.arg
  IN
  CASE s.recv.kind \in {"success", "failure"} -> result_hof(s, name)
    [] s.recv.kind = "grouping" -> GroupingTerminal(s, name, x)
    [] name = "map" -> map(s)
    [] name = "mapNotNull" -> mapNotNull(s)
    [] name = "mapIndexed" -> mapIndexed(s)
    [] name = "mapIndexedNotNull" -> mapIndexedNotNull(s)
    [] name = "flatMap" -> flatMap(s)
    [] name = "flatMapIndexed" -> flatMapIndexed(s)
    [] name = "forEach" -> IF s.recv.kind = "map" /\ c.two THEN forEachEntry(s) ELSE forEach(s)
    [] name = "forEachIndexed" -> forEachIndexed(s)
    [] name = "onEach" -> onEach(s)
    [] name = "sumOf" -> sumOf(s)
    [] name = "filter" -> filter(s)
    [] name = "filterNot" -> filterNot(s)
    [] name = "filterIndexed" -> filterIndexed(s)
    [] name = "filterKeys" -> filterKeys(s, 1)
    [] name = "filterValues" -> filterKeys(s, 2)
    [] name = "partition" -> partition(s)
    [] name \in {"takeWhile", "dropWhile"} -> takeWhile(s, name = "takeWhile")
    [] name \in {"takeLastWhile", "dropLastWhile"} -> takeLastWhile(s, name = "takeLastWhile")
    [] name \in {"trim", "trimStart", "trimEnd"} -> trim(s, name # "trimEnd", name # "trimStart")
    [] name = "any" -> any(s)
    [] name = "all" -> all(s)
    [] name = "none" -> none(s)
    [] name = "count" -> count(s)
    [] name \in {"first", "find", "firstOrNull"} -> first(s, FALSE, name # "first")
    [] name \in {"last", "findLast", "lastOrNull"} -> first(s, TRUE, name # "last")
    [] name \in {"single", "singleOrNull"} -> single(s, name = "singleOrNull")
    [] name \in {"indexOfFirst", "indexOfLast"} -> indexOfFirst(s, name = "indexOfLast")
    [] name \in {"firstNotNullOf", "firstNotNullOfOrNull"} -> firstNotNullOf(s, name = "firstNotNullOfOrNull")
    [] name \in {"getOrElse", "elementAtOrElse"} -> getOrElse(s, x)
    [] name = "ifEmpty" -> ifEmpty(s)
    [] name = "fold" -> fold(s, x)
    [] name = "foldRight" -> foldRight(s, x)
    [] name \in {"runningFold", "scan"} -> runningFold(s, x)
    [] name = "foldIndexed" -> foldIndexed(s, x)
    [] name \in {"runningFoldIndexed", "scanIndexed"} -> runningFoldIndexed(s, x)
    [] name = "foldRightIndexed" -> foldRightIndexed(s, x)
    [] name \in {"reduce", "reduceOrNull"} -> reduce(s, name = "reduceOrNull")
    [] name \in {"reduceRight", "reduceRightOrNull"} -> reduceRight(s, name = "reduceRightOrNull")
    [] name \in {"reduceIndexed", "reduceIndexedOrNull"} -> reduceIndexed(s, name = "reduceIndexedOrNull")
    [] name \in {"reduceRightIndexed", "reduceRightIndexedOrNull"} ->
         reduceRightIndexed(s, name = "reduceRightIndexedOrNull")
    [] name \in {"runningReduce", "scanReduce"} -> runningReduce(s)
    [] name = "runningReduceIndexed" -> runningReduceIndexed(s)
    [] name \in {"maxBy", "maxByOrNull"} -> maxBy(s, 1, name = "maxByOrNull")
    [] name \in {"minBy", "minByOrNull"} -> maxBy(s, -1, name = "minByOrNull")
    [] name \in {"maxOf", "maxOfOrNull"} -> maxOf(s, TRUE, name = "maxOfOrNull")
    [] name \in {"minOf", "minOfOrNull"} -> maxOf(s, FALSE, name = "minOfOrNull")
    [] name \in {"maxWith", "maxWithOrNull"} -> maxWith(s, x, 1, name = "maxWithOrNull")
    [] name \in {"minWith", "minWithOrNull"} -> maxWith(s, x, -1, name = "minWithOrNull")
    [] name = "sortedWith" -> sortedWith(s, x)
    [] name = "sortedBy" -> sortedBy(s, 1)
    [] name = "sortedByDescending" -> sortedBy(s, -1)
    [] name = "sortWith" -> sortWith(s, x)
    [] name = "sortBy" -> sortBy(s, 1)
    [] name = "sortByDescending" -> sortBy(s, -1)
    [] name = "distinctBy" -> distinctBy(s)
    [] name = "associate" -> associate(s)
    [] name = "associateBy" -> associateBy(s, c.two)
    [] name = "associateWith" -> associateWith(s)
    [] name = "groupBy" -> groupBy(s, c.two)
    [] name = "groupingBy" -> Answer(s, Object("grouping", Items(s), "none"))
    [] name = "mapKeys" -> mapValues(s, 1)
    [] name = "mapValues" -> mapValues(s, 2)
    [] name = "chunked" -> windowed(s, x, x, TRUE)
    [] name = "windowed" -> windowed(s, x[1], x[2], x[3])
    [] name = "zip" -> zip(s, x)
    [] name = "zipWithNext" -> zipWithNext(s)
    [] name = "joinToString" -> joinToString(s, x)
    [] name \in {"removeIf", "removeAll", "retainAll"} -> removeIf(s, name)
    [] name = "replaceAll" -> replaceAll(s)
    [] name = "getOrPut" -> getOrPut(s, x)
    [] name \in {"merge", "compute", "computeIfAbsent", "computeIfPresent"} -> map_remap(s, name, x[1], x[2])

(* ---- a String ------------------------------------------------------------------------------------------ *)

charseq_returns_string(name) ==
  name \in {"filter", "filterNot", "filterIndexed", "takeWhile", "dropWhile", "takeLastWhile",
            "dropLastWhile", "trim", "trimStart", "trimEnd", "onEach"}

Text(chars) == Object("string", chars, "none")

Own == {"ifEmpty", "ifBlank", "replaceFirstChar"}

\* Members of a String itself.
StringMember(s, name) ==
  IF name = "replaceFirstChar"
  THEN IF Items(s) = <<>> THEN Answer(s, s.recv)
       ELSE Answers(invoke_closure(s, "f", <<Items(s)[1]>>),
                    LAMBDA t : Text((IF t.r = Null THEN <<>> ELSE t.r) \o Tail(Items(s))))
  ELSE IF Items(s) = <<>> \/ (name = "ifBlank" /\ \A i \in DOMAIN Items(s) : Items(s)[i] = Space)
       THEN Answers(invoke_closure(s, "f", <<>>), LAMBDA t : One(t.r)) ELSE Answer(s, s.recv)

\* For the others a String is spread into its characters, and some answers are put together again.
Reassembled(spread, name) ==
  LET a == spread.answer
  IN  CASE charseq_returns_string(name) -> Answer(spread, Text(a.items))
        [] name = "partition" -> Answer(spread, PairOf("string", a.items[1][2], a.items[2][2]))
        [] OTHER -> spread

(* ---- b_coll_hof ------------------------------------------------------------------------------------------ *)

\* What becomes of a member's answer; c.into is the destination of a member named ...To.
Delivered(t, c) ==
  IF t.recv.kind = "string" THEN Reassembled(t, c.name)
  ELSE IF c.into # Null THEN hof_into(t, c.into, c.name = "groupBy")
  ELSE t

\* What the program sees of a call: the lambda's calls, the answer and the receiver afterwards.
\* A fault raised while a throwable is pending is dropped.
Seen(t) == [calls |-> t.calls, answer |-> IF t.pending THEN Thrown ELSE t.answer, receiver |-> t.recv]

b_coll_hof(recv, c, lambda) ==
  IF recv.kind = "string" /\ c.name \in Own
  THEN Seen(StringMember(Call(recv, lambda), c.name))
  ELSE Seen(Delivered(coll_hof(Call(recv, lambda), c), c))
=============================================================================

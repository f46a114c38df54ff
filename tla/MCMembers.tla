------------------------------- MODULE MCMembers -------------------------------
(***************************************************************************)
(* Collections and sequences: a collection whose members are called one     *)
(* after another, each with every small lambda, beside what Kotlin's        *)
(* library makes of the same calls; a map and its keys beside the map of    *)
(* the JVM (MCMaps); or the traversal of a lazy sequence, through every     *)
(* chain of at most three stages (Pipelines).                               *)
(***************************************************************************)
EXTENDS Pipelines, FiniteSets

VARIABLES collection,  \* [code, kotlin]: the receiver, and what it is in Kotlin
          asked_of,    \* the member called on it, or None
          reply        \* of that member, again [code, kotlin], or None

\* A map, and what MCMaps says of it.
VARIABLES host_map, asking, replied, java, java_asking, java_replied, uses
map_vars == <<host_map, asking, replied, java, java_asking, java_replied, uses>>

CONSTANTS MapValues, OutOfRange, MaxCalls, Careful

\* a, b and c have an IndexKey, the others are data classes, doubles, lists, ...
MapKeys == {"a", "b", "c", "x", "y", "z", "t"}
MapIndexed == {"a", "b", "c"}
\* All in one bucket of a table of two, and in two of the table of four that follows; with a
\* fourth key the table has eight.
MapHash == [k \in MapKeys |-> CASE k \in {"a", "x"} -> 6 [] k \in {"b", "y"} -> 4 [] k \in {"c", "z"} -> 2 [] k = "t" -> 0]
\* To a comparator a and x are one key.
MapRank == [k \in MapKeys |-> CASE k \in {"a", "x"} -> 2 [] k = "b" -> 1 [] OTHER -> 3]

Family(order, keys) == [order |-> order, keys |-> keys]
MapFamilies == { Family("linked", {"a", "b", "x"}), Family("sorted", {"a", "b", "x"}),
                 Family("hash", {"a", "b", "c"}), Family("hash", {"x", "y", "z", "t"}) }

Maps == INSTANCE MCMaps WITH
  map <- host_map, calls <- asking, reply <- replied, pending <- java_asking, answer <- java_replied,
  Keys <- MapKeys, Indexed <- MapIndexed, Hash <- MapHash, Rank <- MapRank,
  Families <- MapFamilies, Vals <- MapValues, Null <- Undef

Members == INSTANCE Methods WITH Null <- Undef, Space <- 2
Kotlin == INSTANCE KotlinCollections WITH Null <- Undef, Space <- 2

(* ---- chains of lazy stages ---------------------------------------------------------- *)

L(k) == [k |-> k, n |-> 0]
B(k, n) == [k |-> k, n |-> n]

AnyStage == {L(k) : k \in Lambdas} \cup {B(k, n) : k \in Budgets, n \in 1..2}

UpToThree == UNION {[1..n -> AnyStage] : n \in 0..3}

TakesLast == {p \in UpToThree : Passing(p)}

\* A take whose last element a later stage drops.
TakesFirst == {<<B("take", n), s>> : n \in 1..2, s \in {L("filter"), B("drop", 1)}}

UpToFour == 0..4

(* ---- receivers ------------------------------------------------------------------ *)

Ints == {1, 2}
Contents == UNION {[1..n -> Ints] : n \in 0..3}
Distinct(q) == \A i, j \in DOMAIN q : i # j => q[i] # q[j]

\* The JVM class of a list as it is made.
ClassOf(r) ==
  LET n == Len(r.items)
      bySize == IF n = 0 THEN "EmptyList" ELSE IF n = 1 THEN "SingletonList" ELSE "ArrayList"
  IN  CASE r.kind = "list" ->
             (CASE r.tag = "none" -> "ArrayList"
                [] r.tag = "Builder" -> "ListBuilder"
                [] r.tag = "ReadOnly" -> bySize
                [] r.tag \in {"Literal", "Sorted"} -> IF n < 2 THEN bySize ELSE "Arrays$ArrayList")
        [] r.kind \in {"set", "map"} ->
             (IF r.tag = "Literal" /\ n < 2 THEN "Singleton" ELSE IF r.kind = "set" THEN "LinkedHashSet" ELSE "LinkedHashMap")
        [] OTHER -> ""

\* What the class of a list is now, as far as a writer can tell.
ClassNow(r) ==
  IF r.kind # "list" THEN ClassOf(r)
  ELSE CASE Members!ro_list(r) = "writable" -> "ArrayList"
         [] Members!ro_list(r) = "Builder" -> "ListBuilder"
         [] Members!ro_list(r) = "Empty" -> "EmptyList"
         [] Members!ro_list(r) = "Singleton" -> "SingletonList"
         [] Members!ro_list(r) = "Arrays" -> "Arrays$ArrayList"

Pair(r) == [code |-> r, kotlin |-> [kind |-> r.kind, items |-> r.items, class |-> ClassOf(r)]]

Tags == {"none", "Literal", "ReadOnly", "Sorted", "Builder"}
ListObjects == {Members!Object("list", q, t) : q \in Contents, t \in Tags}
SetObjects == {Members!Object("set", q, t) : q \in {q \in Contents : Distinct(q)}, t \in {"none", "Literal"}}
StringObjects == {Members!Object("string", q, "none") : q \in Contents}
\* A Map may hold null.
MapObjects == {Members!Object("map", m, t) :
           m \in {[i \in DOMAIN ks |-> <<ks[i], v[i]>>] :
                    ks \in {<<>>, <<1>>, <<2, 1>>}, v \in [1..2 -> {1, Undef}]},
           t \in {"none", "Literal"}}
Groupings == {Members!Object("grouping", q, "none") : q \in Contents}
Results == {Members!Object(k, <<v>>, "none") : k \in {"success", "failure"}, v \in Ints}

(* ---- calls -------------------------------------------------------------------------- *)

C(name, arg) == [name |-> name, arg |-> arg, two |-> FALSE, into |-> Undef]
Two(c) == [c EXCEPT !.two = TRUE]
To(c, dest) == [c EXCEPT !.into = dest]
Plain(names) == {C(m, Undef) : m \in names}

\* Members by what their lambda answers, and by the receivers that have them.
Predicates == {"filter", "filterNot", "partition", "takeWhile", "dropWhile", "any", "all", "none", "count",
               "first", "firstOrNull", "find", "single", "singleOrNull", "indexOfFirst"}
IndexedPredicates == {"filterIndexed", "takeLastWhile", "dropLastWhile"}
Backward == {"last", "lastOrNull", "findLast", "indexOfLast"}
Trims == {"trim", "trimStart", "trimEnd"}
Selectors == {"forEach", "map", "sumOf", "maxBy", "maxByOrNull", "minBy", "minByOrNull", "maxOf", "maxOfOrNull",
              "minOf", "minOfOrNull", "associateWith", "associateBy", "groupBy"}
Sorters == {"sortedBy", "sortedByDescending"}
IndexedSelectors == {"mapIndexed", "forEachIndexed", "onEach"}
Reductions == {"reduce", "reduceOrNull", "reduceIndexed", "reduceIndexedOrNull", "runningReduce", "scanReduce",
               "runningReduceIndexed", "reduceRight", "reduceRightOrNull", "reduceRightIndexed",
               "reduceRightIndexedOrNull"}
Folds == {"fold", "runningFold", "scan", "foldIndexed", "runningFoldIndexed", "scanIndexed", "foldRight",
          "foldRightIndexed"}
Nullable == {"mapNotNull", "mapIndexedNotNull", "firstNotNullOf", "firstNotNullOfOrNull"}
Comparisons == {"maxWith", "maxWithOrNull", "minWith", "minWithOrNull", "sortedWith"}
Removals == {"removeIf", "removeAll", "retainAll"}
Remaps == {"merge", "compute", "computeIfAbsent", "computeIfPresent"}

Ranks == [Ints -> Ints]
Step(whole, rank, descending) == [whole |-> whole, rank |-> rank, descending |-> descending]
Comparators ==
  {<<Step(w, rk, d)>> : w \in BOOLEAN, rk \in Ranks, d \in BOOLEAN}
    \cup {<<Step(FALSE, [e \in Ints |-> 1], FALSE), Step(w, rk, d)>> : w \in BOOLEAN, rk \in Ranks, d \in BOOLEAN}

ByKind(kind, list, set, string, map) ==
  CASE kind = "list" -> list [] kind = "set" -> set [] kind = "string" -> string [] kind = "map" -> map [] OTHER -> {}

Asking(kind) == Plain(
  (Predicates \ (IF kind = "map" THEN {"partition", "takeWhile", "dropWhile", "first", "firstOrNull", "find", "single",
                                      "singleOrNull", "indexOfFirst"} ELSE {}))
    \cup ByKind(kind, IndexedPredicates, Backward \cup {"filterIndexed"}, IndexedPredicates \cup Trims, {"filterKeys", "filterValues"})
    \cup ByKind(kind, Removals, Removals, {}, {}))

\* Without an argument, with a number or with a tuple of arguments.
Selecting(kind) ==
  Plain(IF kind = "map" THEN {"forEach", "map", "sumOf", "mapKeys", "mapValues", "replaceAll"}
        ELSE Selectors \cup Sorters \cup IndexedSelectors \cup Reductions \cup {"distinctBy"}
               \cup ByKind(kind, {"replaceAll", "sortBy", "sortByDescending", "zipWithNext", "ifEmpty"}, {}, {"ifEmpty", "ifBlank"}, {}))
    \cup {Two(C(m, Undef)) : m \in IF kind = "map" THEN {"forEach"} ELSE {"associateBy", "groupBy"}}

WithNumber(kind) ==
  IF kind = "map" THEN {C("getOrElse", 1)}
  ELSE {C(m, 0) : m \in Folds} \cup {C("chunked", n) : n \in 0..2}
         \cup {C(m, k) : m \in {"joinToString", "elementAtOrElse"}, k \in {-1, 0, 1}}

Windowing == {C("windowed", <<n, k, p>>) : n \in 0..2, k \in 0..2, p \in BOOLEAN}

Remapping == {C(m, <<1, v>>) : m \in Remaps, v \in {1, Undef}}
Nulls(kind) == IF kind = "map" THEN {C("getOrPut", 1)} ELSE Plain(Nullable)

Into(kind) == {To(C("map", Undef), Members!Object(kind, <<2>>, "none"))}
IntoMap(name, entries) == To(C(name, Undef), Members!Object("map", entries, "none"))

Saying(answers, n) == [1..(IF n = 0 THEN 1 ELSE n) -> answers]
Lambda(says, throws, rank) == [says |-> says, throws |-> throws, rank |-> rank]
Ascending == [e \in Ints |-> e]

\* A lambda for each script of answers, that throws at one of its calls or at none.
Lambdas_(answers, n, ranks) == {Lambda(q, t, rk) : q \in Saying(answers, n), t \in 0..n + 1, rk \in ranks}

(* ---- members without a lambda ---------------------------------------------------------- *)

Ends == {"removeFirst", "removeLast", "removeFirstOrNull", "removeLastOrNull"}
Bulk == {"addAll", "removeAll", "retainAll"}
Indices == -1..3
Others == {<<>>, <<1>>, <<2, 1>>}
Couples == Ints \X {1, Undef}
Entries == {<<>>, << <<1, 1>> >>, << <<2, 1>>, <<1, Undef>> >>}
Sized == {"size", "count", "isEmpty", "isNotEmpty", "any", "none"}
Copies == {"toList", "toMutableList", "toSet", "toMutableSet", "distinct", "reversed"}
Firsts == {"first", "last", "firstOrNull", "lastOrNull", "single", "singleOrNull"}
Extremes == {"max", "maxOrNull", "min", "minOrNull"}

(* ---- where the code departs from the library ------------------------------------------ *)

Sorting == Sorters \cup {"sortBy", "sortByDescending", "sortWith", "sortedWith"}
Writers == Removals \cup Remaps \cup {"replaceAll", "getOrPut", "sortBy", "sortByDescending", "sortWith"}

\* Calls that the lambda gets once more, or once less, than in Kotlin.
CallsDepart(k, c, l) ==
  \/ c.name \in Sorting \cup Comparisons               \* Kotlin asks again at every comparison
  \/ c.name \in {"maxBy", "maxByOrNull", "minBy", "minByOrNull"} /\ Len(k.items) = 1   \* Kotlin does not ask
  \/ c.name \in {"single", "singleOrNull"}             \* Kotlin stops at the second match
       /\ Cardinality({i \in DOMAIN k.items : l.says[i] = TRUE}) > 1
  \/ c.name = "associateBy" /\ c.two                   \* Kotlin asks for the key first
  \/ c.name \in Removals \cup {"replaceAll"}           \* Kotlin refuses before it has asked of all
       /\ k.class \notin {"ArrayList", "LinkedHashSet", "LinkedHashMap"}

\* Calls that end otherwise than in Kotlin, or that no program makes.
Departs(r, k, c, l) ==
  \/ l.throws # 0 /\ CallsDepart(k, c, l)
  \* A writer goes on to write when its lambda has thrown.
  \/ l.throws # 0 /\ (c.name \in Writers \/ c.into # Undef)
  \* onEach answers a new list, not the receiver.
  \/ c.name = "onEach" /\ k.kind # "string"
  \* sortedWith, filter and filterNot answer a Set on a Set.
  \/ c.name \in {"sortedWith", "filter", "filterNot"} /\ k.kind = "set"
  \* The remapping members, and the removals by a predicate, do not ask whether a Map or Set is read-only.
  \/ c.name \in Remaps \cup Removals \cup {"replaceAll"} /\ r.kind # "list" /\ r.tag = "Literal"
  \* A null answer takes an entry that was null out of the Map.
  \/ c.name = "computeIfAbsent" /\ \E e \in Range(k.items) : e = <<1, Undef>>
  \* The cast of an EmptyList to MutableList fails.
  \/ c.name \in Writers /\ k.class = "EmptyList"

\* The same of the members without a lambda.
DepartsPlainly(k, c, rank, writes) ==
  LET n == Len(k.items)
      There(key) == \E i \in 1..n : k.items[i][1] = key
  IN
  \* The cast to a mutable type fails.
  \/ writes /\ k.items = <<>> /\ k.class \in {"EmptyList", "Singleton"}
  \* A store past the end of an array raises what an ArrayList does, and addAll refuses before it looks
  \* at the index.
  \/ c.name = "[]=" /\ k.class = "Arrays$ArrayList" /\ c.arg[1] \notin 0..n - 1
  \/ c.name = "addAll" /\ c.two /\ k.class \in {"SingletonList", "Arrays$ArrayList"} /\ c.arg[1] \notin 0..n
  \* A SingletonMap refuses remove(key, value) always, and -= of several keys.
  \/ k.class = "Singleton" /\ k.kind = "map" /\ c.two
       /\ \/ c.name = "remove" /\ ~There(c.arg[1])
          \/ c.name = "minusAssign" /\ \E i \in DOMAIN c.arg : There(c.arg[i])
  \* plusElement and minusElement answer a List on a Set.
  \/ k.kind = "set" /\ c.name \in {"plusElement", "minusElement"}
  \* min answers the last of equals.
  \/ c.name \in {"min", "minOrNull"} /\ rank[1] = rank[2]
  \* Which of equals binarySearch finds, and what it does in an unsorted list, Kotlin leaves open.
  \/ c.name = "binarySearch" /\ \E i \in 1..n - 1 : k.items[i] >= k.items[i + 1]

\* Results whose class the code does not keep.
ClassDeparts(k, c) ==
  \/ c.name \in {"distinctBy", "takeLastWhile", "dropLastWhile", "zipWithNext", "runningFold", "scan",
                 "runningFoldIndexed", "scanIndexed", "runningReduce", "scanReduce", "runningReduceIndexed"}
  \/ k.kind = "map" /\ c.name \in {"toList", "minus"}
  \/ k.kind = "map" /\ c.name = "plus" /\ k.items = <<>>
  \/ k.kind # "map" /\ c.name = "minus" /\ c.two /\ c.arg = <<>>
  \/ c.name = "slice" /\ ~c.two /\ Len(c.arg) = 1

(* ---- the machine --------------------------------------------------------------------- *)

NoTraversal ==
  /\ stages = <<>> /\ source = "items" /\ length = 0
  /\ heap = [cursor |-> open(<<>>), ahead |-> None]
  /\ pull = None /\ pending = FALSE /\ asked = 0 /\ said = <<>> /\ out = <<>>

\* A set of objects of one kind at a time: TLC does not compare what they hold.
MembersInit ==
  /\ asked_of = None /\ reply = None
  /\ \/ \E r \in ListObjects : collection = Pair(r)
     \/ \E r \in SetObjects : collection = Pair(r)
     \/ \E r \in StringObjects : collection = Pair(r)
     \/ \E r \in MapObjects : collection = Pair(r)
     \/ \E r \in Groupings : collection = Pair(r)
     \/ \E r \in Results : collection = Pair(r)

Free == collection # None /\ asked_of = None

CallMember(c, l) ==
  /\ ~Departs(collection.code, collection.kotlin, c, l)
  /\ asked_of' = [call |-> c, lambda |-> l]
  /\ UNCHANGED <<collection, reply>>

\* What the lambda answers: BOOLEAN, elements, null, ... .
AskMember ==
  LET k == collection.code.kind
      n == Len(collection.code.items)
      CallEach(calls, answers, ranks) == \E c \in calls, l \in Lambdas_(answers, n, ranks) : CallMember(c, l)
  IN  /\ Free
      /\ k \in {"list", "set", "string", "map"}
      /\ \/ CallEach(Asking(k), BOOLEAN, {Ascending})
         \/ CallEach({c \in Selecting(k) : ~c.two}, Ints, {Ascending})
         \/ CallEach({c \in Selecting(k) : c.two}, Ints, IF k = "map" THEN {Ascending} ELSE Ranks)
         \/ CallEach(WithNumber(k), Ints, {Ascending})
         \/ CallEach(Nulls(k), {1, Undef}, {Ascending})
         \/ k = "map" /\ CallEach(Remapping, {1, Undef}, {Ascending})

AskSequence ==
  LET k == collection.code.kind
      n == Len(collection.code.items)
      CallEach(calls, answers) == \E c \in calls, l \in Lambdas_(answers, n, {Ascending}) : CallMember(c, l)
  IN  /\ Free
      /\ k \in {"list", "set", "string"}
      /\ \/ CallEach(Windowing \cup {C("zip", <<2, 1>>)}, Ints)
         \/ CallEach(Plain({"flatMap", "flatMapIndexed"}), {<<>>, <<1>>, <<2, 1>>})
         \/ k # "string" /\ CallEach({C("associate", Undef)}, {<<1, 1>>, <<1, 2>>, <<2, 1>>})
         \/ k # "string" /\ CallEach(Into(k), Ints)
         \/ k # "string" /\ CallEach({IntoMap("associateWith", << <<1, 2>> >>)}, Ints)
         \/ k # "string" /\ CallEach({IntoMap("associateBy", << <<1, 2>> >>)}, Ints)
         \/ k # "string" /\ CallEach({IntoMap("groupBy", << <<1, <<2>> >> >>)}, Ints)
         \/ k = "string" /\ CallEach({C("replaceFirstChar", Undef)}, {<<>>, <<2, 1>>})
         \/ k # "string" /\ \E m \in Comparisons \cup (IF k = "list" THEN {"sortWith"} ELSE {}), steps \in Comparators :
                               CallMember(C(m, steps), Lambda(<<1>>, 0, Ascending))
         \/ k = "list" /\ CallMember(C("groupingBy", Undef), Lambda(<<1>>, 0, Ascending))

AskOther ==
  LET k == collection.code.kind
      n == Len(collection.code.items)
  IN  /\ Free
      /\ \/ /\ k = "grouping"
            /\ \E c \in {C("fold", 0), C("reduce", Undef), C("aggregate", Undef)}, l \in Lambdas_(Ints, n, Ranks) :
                 CallMember(c, l)
         \/ /\ k \in {"success", "failure"}
            /\ \E m \in {"getOrElse", "onSuccess", "onFailure", "map", "recover", "fold"}, l \in Lambdas_(Ints, 1, Ranks) :
                 CallMember(C(m, Undef), l)

CallPlainly(c, rank, writes) ==
  /\ ~DepartsPlainly(collection.kotlin, c, rank, writes)
  /\ asked_of' = [call |-> c, lambda |-> None, rank |-> rank, writes |-> writes]
  /\ UNCHANGED <<collection, reply>>

AskWriter ==
  LET k == collection.code.kind
      Each(names, args) == \E m \in names, x \in args : CallPlainly(C(m, x), Ascending, TRUE)
      EachTwo(names, args) == \E m \in names, x \in args : CallPlainly(Two(C(m, x)), Ascending, TRUE)
      operators == {"plusAssign", "minusAssign"}
  IN  /\ Free
      /\ k \in {"list", "set", "map"}
      /\ \/ Each({"clear"} \cup (IF k = "list" THEN {"reverse"} \cup Ends ELSE {}), {Undef})
         \/ Each(ByKind(k, {"add", "remove", "fill", "addFirst", "addLast"} \cup operators,
                        {"add", "remove"} \cup operators, {}, {"remove", "minusAssign"}), Ints)
         \/ k # "map" /\ Each(Bulk, Others)
         \/ EachTwo(IF k = "map" THEN {"minusAssign"} ELSE operators, Others)
         \/ k = "list" /\ Each({"set", "[]="}, Indices \X Ints)
         \/ k = "list" /\ EachTwo({"add"}, Indices \X Ints)
         \/ k = "list" /\ EachTwo({"addAll"}, Indices \X Others)
         \/ k = "list" /\ Each({"removeAt"}, Indices)
         \/ k = "list" /\ \E m \in {"sort", "sortDescending"}, rk \in Ranks : CallPlainly(C(m, Undef), rk, TRUE)
         \/ k = "map" /\ Each({"put", "putIfAbsent", "[]=", "plusAssign"}, Couples)
         \/ k = "map" /\ EachTwo({"remove"}, Couples)
         \/ k = "map" /\ Each({"putAll"}, Entries)
         \/ k = "map" /\ EachTwo({"plusAssign"}, Entries)

AskReader ==
  LET k == collection.code.kind
      Each(names, args) == \E m \in names, x \in args : CallPlainly(C(m, x), Ascending, FALSE)
      EachTwo(names, args) == \E m \in names, x \in args : CallPlainly(Two(C(m, x)), Ascending, FALSE)
  IN  /\ Free
      /\ \/ /\ k \in {"list", "set"}
            /\ \/ Each(Sized \cup Copies \cup Firsts \cup {"sum", "zipWithNext"} \cup (IF k = "list" THEN {"lastIndex"} ELSE {}),
                       {Undef})
               \/ Each({"contains", "indexOf", "lastIndexOf", "plus", "minus", "plusElement", "minusElement"}, Ints)
               \/ Each({"elementAt", "elementAtOrNull", "take", "drop", "chunked"}, Indices)
               \/ Each({"containsAll", "zip", "union", "intersect", "subtract"}, Others)
               \/ EachTwo({"plus", "minus"}, Others)
               \/ Each({"windowed"}, (0..2) \X (0..2) \X BOOLEAN)
               \/ Each({"toCollection"}, {Members!Object(d, <<2>>, "none") : d \in {"list", "set"}})
               \/ \E m \in Extremes \cup {"sorted", "sortedDescending"}, rk \in Ranks : CallPlainly(C(m, Undef), rk, FALSE)
         \/ /\ k = "list"
            /\ \/ Each({"takeLast", "dropLast"}, Indices)
               \/ Each({"slice"}, {<<>>, <<0>>, <<1, 0>>, <<3>>})
               \/ EachTwo({"slice"}, Indices \X Indices)
               \/ Each({"binarySearch"}, (0..3) \X Indices \X (-1..4))
         \/ /\ k = "map"
            /\ \/ Each(Sized \cup {"toMap", "toMutableMap", "toList"}, {Undef})
               \/ Each({"containsKey", "get", "getValue", "minus"}, Ints)
               \/ Each({"containsValue"}, {1, Undef})
               \/ Each({"getOrDefault", "plus"}, Couples)
               \/ EachTwo({"plus"}, Entries)
               \/ EachTwo({"minus"}, Others)

Perform ==
  /\ asked_of # None /\ reply = None
  /\ UNCHANGED <<collection, asked_of>>
  /\ LET c == asked_of.call
         l == asked_of.lambda
     IN  \/ /\ l # None
            /\ reply' = [code |-> Members!b_coll_hof(collection.code, c, l),
                         kotlin |-> Kotlin!Promise(collection.kotlin, c, l)]
         \/ /\ l = None
            /\ reply' = [code |-> Members!call_method(collection.code, c, asked_of.rank),
                         kotlin |-> Kotlin!Plainly(collection.kotlin, c, asked_of.rank, asked_of.writes)]

\* A collection small enough to be called again.
Small(r) ==
  /\ Len(r.items) \leq 3
  /\ CASE r.kind \in {"list", "set"} -> Range(r.items) \subseteq Ints
       [] r.kind = "map" -> \A e \in Range(r.items) : e[1] \in Ints /\ e[2] \in Ints \cup {Undef}
       [] OTHER -> TRUE

\* Members that answer a collection of something else.
Nests(c) == c.name \in {"zip", "zipWithNext", "chunked", "windowed", "groupBy"} \/ (collection.code.kind = "map" /\ c.name = "toList")

\* The next member is called on the same collection (or, when that has grown too large,
\* on one like it was) or on the one answered.
Continue ==
  /\ reply # None
  /\ reply' = None /\ asked_of' = None
  /\ \/ IF Small(reply.code.receiver)
        THEN collection' = [code |-> reply.code.receiver, kotlin |-> reply.kotlin.receiver]
        ELSE UNCHANGED collection
     \/ /\ reply.code.answer.kind \in {"list", "set", "map"}
        /\ ~ClassDeparts(collection.kotlin, asked_of.call) /\ ~Nests(asked_of.call)
        /\ Small(reply.code.answer)
        /\ collection' = [code |-> reply.code.answer, kotlin |-> reply.kotlin.answer]

MembersNext == AskMember \/ AskSequence \/ AskOther \/ AskWriter \/ AskReader \/ Perform \/ Continue

NoMap == /\ host_map = None /\ java = None
         /\ asking = <<>> /\ java_asking = <<>>
         /\ replied = None /\ java_replied = None
         /\ uses = {}
NoMembers == collection = None /\ asked_of = None /\ reply = None

AllInit == \/ Init /\ NoMembers /\ NoMap
           \/ NoTraversal /\ MembersInit /\ NoMap
           \/ NoTraversal /\ NoMembers /\ Maps!MapsInit
AllNext == \/ /\ collection = None /\ host_map = None /\ Next
              /\ UNCHANGED <<collection, asked_of, reply, map_vars>>
           \/ MembersNext /\ UNCHANGED <<vars, map_vars>>
           \/ /\ host_map # None /\ Maps!MapsNext
              /\ UNCHANGED <<vars, collection, asked_of, reply>>
AllSpec == AllInit /\ [][AllNext]_<<vars, collection, asked_of, reply, map_vars>>

view == <<vars, collection, asked_of, reply, Maps!view>>

(* ---- properties ------------------------------------------------------------------------- *)

\* Whatever the lambda answers, and wherever it throws, a member answers or fails as Kotlin's does.
AnswersAsKotlin ==
  reply # None => /\ reply.code.answer.kind = reply.kotlin.answer.kind
                  /\ reply.code.answer.items = reply.kotlin.answer.items

\* The lambda gets the same calls with the same arguments, in the same order, up to its throw.
CallsAsKotlin ==
  reply # None /\ asked_of.lambda # None =>
    \/ CallsDepart(collection.kotlin, asked_of.call, asked_of.lambda)
    \/ reply.code.calls = reply.kotlin.calls

\* The receiver ends with the same elements, and both it and a list answered let themselves be
\* written as the JVM's class does: told from a tag and the size of now, after any calls.
LeavesAsKotlin ==
  /\ collection # None => ClassNow(collection.code) = collection.kotlin.class
  /\ reply # None =>
       /\ reply.code.receiver.items = reply.kotlin.receiver.items
       /\ reply.code.answer.kind \in {"list", "set", "map"} /\ ~ClassDeparts(collection.kotlin, asked_of.call) =>
            ClassNow(reply.code.answer) = reply.kotlin.answer.class

\* A map and the JVM's answer the same calls alike, with the entries in the same order
\* (MCMaps; host.rs:2005-2350, 16622-17240, 17610-17667).
AnswersAsJava == replied = java_replied

\* And a key is found where its entry is, whatever was written since the index was built
\* (host.rs:19104-19190).
FindsWhatIsThere == host_map # None => Maps!FindsWhatIsThere
=============================================================================

------------------------------- MODULE Methods ---------------------------------
(***************************************************************************)
(* The members of collections that take no lambda: the writers of           *)
(* obj_method, the copies and reads of sequence_member, the operators of    *)
(* operator_apply and the indexed write of index_set.                       *)
(*                                                                          *)
(* What a read-only collection refuses is decided before the member runs,   *)
(* from its class of now and the arguments.  A call is Members' [name, arg, *)
(* two, into]: `two` picks the overload with an index or a second argument, *)
(* and of an operator the one that takes a collection.                      *)
(***************************************************************************)
EXTENDS Members
LOCAL INSTANCE SequencesExt

(* ---- what is refused -------------------------------------------------------------- *)

\* The elements of `q` that are, or are not, in `other`.
In(q, other, want) == SelectSeq(q, LAMBDA x : (x \in ToSet(other)) = want)

Structural == {"add", "removeAt", "removeFirst", "removeLast", "removeFirstOrNull", "removeLastOrNull",
               "addFirst", "addLast", "clear"}
Reorder == {"sort", "sortDescending", "reverse"}
Ends == {"removeFirst", "removeLast", "removeFirstOrNull", "removeLastOrNull"}

\* Every mutator of a built ListBuilder checks first, and one that only writes elements fails at the first.
BuilderRefuses(r, name) ==
  \/ name \in {"addAll", "remove", "removeAll", "retainAll", "set"}
  \/ name \in Structural \ Ends
  \/ name \in Ends \cup {"fill"} /\ r.items # <<>>
  \/ name \in Reorder /\ Len(r.items) > 1

\* A removal that finds nothing and an addAll of nothing succeed on the other classes.
ReadOnlyRefuses(r, class, name, x) ==
  \/ name \in Structural
  \/ name = "remove" /\ x \in ToSet(r.items)
  \/ name = "addAll" /\ x # <<>>
  \/ name \in {"removeAll", "retainAll"} /\ In(r.items, x, name = "retainAll") # r.items
  \/ name \in {"set", "fill"} /\ class # "Arrays"

\* x is the last argument.
ro_list_fault(r, name, x) ==
  LET class == ro_list(r)
  IN  CASE class = "writable" -> FALSE
        [] class = "Builder" -> BuilderRefuses(r, name)
        [] OTHER -> ReadOnlyRefuses(r, class, name, x)

Keys(r) == [i \in DOMAIN r.items |-> r.items[i][1]]

\* Mutation: a removal of what is not there is refused too.
ro_coll_fault_remove(r, name, x) ==
  IF r.kind = "set" THEN name \in {"add", "clear", "remove"} ELSE name \in {"put", "clear", "putIfAbsent", "remove"}

\* Of a literal of less than two elements: x is the first argument.
ro_coll_fault(r, name, x) ==
  IF r.kind = "set"
  THEN \/ name \in {"add", "clear"}
       \/ name = "addAll" /\ x # <<>>
       \/ name = "remove" /\ x \in ToSet(r.items)
       \/ name \in {"removeAll", "retainAll"} /\ In(r.items, x, name = "retainAll") # r.items
  ELSE \/ name \in {"put", "clear", "putIfAbsent"}
       \/ name = "putAll" /\ x # <<>>
       \/ name = "remove" /\ x \in ToSet(Keys(r))

(* ---- writers ------------------------------------------------------------------------ *)

Truth(b) == One(b)
Changed(s, items) == Answer(Write(s, items), Truth(items # Items(s)))
Done(s, items) == Answer(Write(s, items), Unit)
Before(q, i) == SubSeq(q, 1, i)              \* q[0 .. i]
From(q, i) == SubSeq(q, i + 1, Len(q))       \* q[i ..]
Cut(q, i) == Before(q, i) \o From(q, i + 1)  \* without q[i]
Put(q, i, x) == Before(q, i) \o <<x>> \o From(q, i + 1)

RangeForAdd == Fault("IndexOutOfBounds: Index: _, Size: _")
RangeOfLength == Fault("IndexOutOfBounds: Index _ out of bounds for length _")

\* An element is inserted at i, or several are.
Insertion(s, i, q, answer) ==
  IF i \in 0..Len(Items(s)) THEN Answer(Write(s, Before(Items(s), i) \o q \o From(Items(s), i)), answer)
  ELSE Answer(s, RangeForAdd)

\* A Set tells by what it holds whether an element is new.
add(s, x) ==
  IF s.recv.kind = "set" THEN Changed(s, AddTo(s.recv, x).items)
  ELSE Answer(Write(s, Append(Items(s), x)), Truth(TRUE))
addAll(s, q) == Changed(s, AddAllTo(s.recv, q).items)

First(S) == CHOOSE i \in S : \A j \in S : i <= j
IndexIn(q, x) == IF x \in ToSet(q) THEN First({i \in DOMAIN q : q[i] = x}) - 1 ELSE -1
WithoutFirst(q, x) == IF IndexIn(q, x) < 0 THEN q ELSE Cut(q, IndexIn(q, x))

\* The first element equal to the argument goes.
remove(s, x) == Changed(s, WithoutFirst(Items(s), x))

\* A Map answers the value it removes; with a value given it removes only that mapping.
removeKey(s, k) == Answer(Write(s, Without(Items(s), k)), One(At(Items(s), k)))
removeMapping(s, k, v) == Changed(s, SelectSeq(Items(s), LAMBDA e : e # <<k, v>>))

removeAt(s, i) ==
  IF i \in 0..Len(Items(s)) - 1 THEN Answer(Write(s, Cut(Items(s), i)), One(Items(s)[i + 1]))
  ELSE Answer(s, RangeOfLength)

\* The fault of an index is worded by the class of the list.
index_fault(r) ==
  LET n == Len(r.items)
  IN  IF r.kind = "set" THEN Fault("IndexOutOfBounds: Collection doesn't contain element")
      ELSE CASE r.tag = "none" -> RangeOfLength
             [] r.tag = "Builder" -> Fault("IndexOutOfBounds: index: _, size: _")
             [] n = 0 -> Fault("IndexOutOfBounds: Empty list doesn't contain element")
             [] n = 1 -> Fault("IndexOutOfBounds: Index: _, Size: _")
             [] r.tag \in {"Literal", "Sorted"} -> Fault("ArrayIndexOutOfBounds: Index _ out of bounds for length _")
             [] OTHER -> RangeOfLength

set(s, i, x) ==
  IF i \in 0..Len(Items(s)) - 1 THEN Answer(Write(s, Put(Items(s), i, x)), One(Items(s)[i + 1]))
  ELSE Answer(s, index_fault(s.recv))

\* A stable sort by the order of the class of the elements; descending turns the comparison round.
sort_vm(q, rank, descending) ==
  LET sign == IF descending THEN -1 ELSE 1
      before(i, j) == LET d == sign * (rank[q[i]] - rank[q[j]]) IN d < 0 \/ (d = 0 /\ i < j)
  IN  [k \in DOMAIN q |-> q[CHOOSE i \in DOMAIN q : Cardinality({j \in DOMAIN q : before(j, i)}) = k - 1]]

removeEnd(s, front, orNull) ==
  LET q == Items(s)
  IN  IF q = <<>> THEN Answer(s, IF orNull THEN One(Null) ELSE Fault("NoSuchElement"))
      ELSE Answer(Write(s, IF front THEN Tail(q) ELSE Before(q, Len(q) - 1)), One(IF front THEN q[1] ELSE q[Len(q)]))

\* put and putIfAbsent, for which null is as good as absent.
put(s, k, v, ifAbsent) ==
  LET old == At(Items(s), k)
  IN  IF ifAbsent /\ old # Null THEN Answer(s, One(old))
      ELSE Answer(Write(s, PutEntry(Items(s), k, v)), One(old))

putAll(s, entries) == Done(s, PutAllTo(s.recv, entries, FALSE).items)

writer(s, c) ==
  LET x == c.arg
      name == c.name
      isMap == s.recv.kind = "map"
  IN
  CASE name = "add" /\ ~c.two -> add(s, x)
    [] name = "add" /\ c.two -> Insertion(s, x[1], <<x[2]>>, Unit)
    [] name = "addAll" /\ ~c.two -> addAll(s, x)
    [] name = "addAll" /\ c.two -> Insertion(s, x[1], x[2], Truth(x[2] # <<>>))
    [] name \in {"removeAll", "retainAll"} -> Changed(s, In(Items(s), x, name = "retainAll"))
    [] name \in {"sort", "sortDescending"} -> Done(s, sort_vm(Items(s), s.lambda.rank, name = "sortDescending"))
    [] name = "reverse" -> Done(s, Reverse(Items(s)))
    [] name = "remove" /\ ~c.two -> IF isMap THEN removeKey(s, x) ELSE remove(s, x)
    [] name = "remove" /\ c.two -> removeMapping(s, x[1], x[2])
    [] name = "removeAt" -> removeAt(s, x)
    [] name = "set" -> set(s, x[1], x[2])
    [] name = "fill" -> Done(s, [i \in DOMAIN Items(s) |-> x])
    [] name = "addFirst" -> Done(s, <<x>> \o Items(s))
    [] name = "addLast" -> Done(s, Append(Items(s), x))
    [] name \in Ends -> removeEnd(s, name \in {"removeFirst", "removeFirstOrNull"}, name \in {"removeFirstOrNull", "removeLastOrNull"})
    [] name \in {"put", "putIfAbsent"} -> put(s, x[1], x[2], name = "putIfAbsent")
    [] name = "putAll" -> putAll(s, x)
    [] name = "clear" -> Done(s, <<>>)

Writing == {"add", "addAll", "removeAll", "retainAll", "sort", "sortDescending", "reverse", "remove", "removeAt",
            "set", "fill", "addFirst", "addLast", "put", "putIfAbsent", "putAll", "clear"} \cup Ends

(* ---- reads ---------------------------------------------------------------------------- *)

\* SeqKind: what a fault calls the receiver.
empty(r) == Fault(IF r.kind = "list" THEN "NoSuchElement: List is empty." ELSE "NoSuchElement: Collection is empty.")
more_than_one(r) ==
  Fault(IF r.kind = "list" THEN "IllegalArgument: List has more than one element."
        ELSE "IllegalArgument: Collection has more than one element.")

\* The elements of `q` without repeats, and without those of `but`.
RECURSIVE distinct(_)
distinct(q) == IF q = <<>> THEN <<>> ELSE <<Head(q)>> \o distinct(SelectSeq(Tail(q), LAMBDA x : x # Head(q)))

need(q, at, r) == IF q = <<>> THEN empty(r) ELSE One(q[at])
OrNull(q, i) == One(IF i \in 0..Len(q) - 1 THEN q[i + 1] ELSE Null)
get(r, i) == IF i \in 0..Len(r.items) - 1 THEN One(r.items[i + 1]) ELSE index_fault(r)

single_element(r, orNull) ==
  CASE Len(r.items) = 1 -> One(r.items[1])
    [] orNull -> One(Null)
    [] r.items = <<>> -> empty(r)
    [] OTHER -> more_than_one(r)

\* max keeps the first of equals and min takes the last.
extremum(q, rank, max, orNull) ==
  LET best[i \in DOMAIN q] ==
        IF i = 1 THEN q[1] ELSE IF (rank[q[i]] > rank[best[i - 1]]) = max THEN q[i] ELSE best[i - 1]
  IN  extremum_or(IF q = <<>> THEN Null ELSE best[Len(q)], q # <<>>, orNull)

RECURSIVE Halving(_, _, _, _)
Halving(q, x, lo, hi) ==
  LET mid == (lo + hi) \div 2
  IN  IF lo > hi THEN -(lo + 1)
      ELSE IF q[mid + 1] < x THEN Halving(q, x, mid + 1, hi)
      ELSE IF q[mid + 1] > x THEN Halving(q, x, lo, mid - 1)
      ELSE mid

binarySearch(q, x, from, to) ==
  IF from > to THEN Fault("IllegalArgument")
  ELSE IF from < 0 \/ to > Len(q) THEN Fault("IndexOutOfBounds")
  ELSE One(Halving(q, x, from, to - 1))

\* A range is one span copy, and every other index collection one read per index.
sliceRange(r, from, to) ==
  IF from > to THEN ReadOnly(<<>>)
  ELSE IF from < 0 \/ to >= Len(r.items) THEN Fault("IndexOutOfBounds")
  ELSE ReadOnly(SubSeq(r.items, from + 1, to + 1))
slice(r, indices) ==
  IF ToSet(indices) \subseteq 0..Len(r.items) - 1 THEN ReadOnly([k \in DOMAIN indices |-> r.items[indices[k] + 1]])
  ELSE index_fault(r)

\* take and drop, from the front or from the end.
take(q, n, keep, front) ==
  LET m == IF n > Len(q) THEN Len(q) ELSE n
      cut == IF front THEN m ELSE Len(q) - m
  IN  IF n < 0 THEN Fault("IllegalArgument") ELSE ReadOnly(IF keep = front THEN Before(q, cut) ELSE From(q, cut))

\* toSet and toMap collapse by the size of the receiver.
Collapsed(kind, items, size) == Object(kind, items, IF size <= 1 THEN "Literal" ELSE "none")
SetOf(items) == Object("set", distinct(items), "none")

\* Element by element, up to the shorter.
Paired(q, x) == [i \in 1..(IF Len(x) < Len(q) THEN Len(x) ELSE Len(q)) |-> <<q[i], x[i]>>]
Groups(q, size, step, partial) ==
  IF size <= 0 \/ step <= 0 THEN Fault("IllegalArgument") ELSE List(windows_of(q, size, step, partial))

sequence_member(r, c, rank) ==
  LET q == r.items
      x == c.arg
      name == c.name
  IN
  CASE name \in {"size", "count"} -> One(Len(q))
    [] name = "lastIndex" -> One(Len(q) - 1)
    [] name \in {"isEmpty", "none"} -> Truth(q = <<>>)
    [] name \in {"isNotEmpty", "any"} -> Truth(q # <<>>)
    [] name = "first" -> need(q, 1, r)
    [] name = "last" -> need(q, Len(q), r)
    [] name = "firstOrNull" -> OrNull(q, 0)
    [] name = "lastOrNull" -> OrNull(q, Len(q) - 1)
    [] name = "elementAt" -> get(r, x)
    [] name = "elementAtOrNull" -> OrNull(q, x)
    [] name = "slice" -> IF c.two THEN sliceRange(r, x[1], x[2]) ELSE slice(r, x)
    [] name = "contains" -> Truth(x \in ToSet(q))
    [] name = "containsAll" -> Truth(ToSet(x) \subseteq ToSet(q))
    [] name = "indexOf" -> One(IndexIn(q, x))
    [] name = "lastIndexOf" -> One(IF x \in ToSet(q) THEN Len(q) - 1 - IndexIn(Reverse(q), x) ELSE -1)
    [] name = "binarySearch" -> binarySearch(q, x[1], x[2], x[3])
    [] name = "sum" -> One(sum_values(q))
    [] name \in {"max", "maxOrNull"} -> extremum(q, rank, TRUE, name = "maxOrNull")
    [] name \in {"min", "minOrNull"} -> extremum(q, rank, FALSE, name = "minOrNull")
    [] name = "zip" -> List(Paired(q, x))
    [] name = "zipWithNext" -> List(Paired(q, IF q = <<>> THEN <<>> ELSE Tail(q)))
    [] name = "chunked" -> Groups(q, x, x, TRUE)
    [] name = "windowed" -> Groups(q, x[1], x[2], x[3])
    [] name = "toList" -> ReadOnly(q)
    [] name = "toMutableList" -> List(q)
    [] name \in {"single", "singleOrNull"} -> single_element(r, name = "singleOrNull")
    [] name = "toSet" -> Collapsed("set", distinct(q), Len(q))
    [] name = "toMutableSet" -> SetOf(q)
    [] name = "toCollection" -> AddAllTo(x, q)
    [] name = "distinct" -> ReadOnly(distinct(q))
    [] name = "union" -> SetOf(q \o x)
    [] name \in {"intersect", "subtract"} -> SetOf(In(q, x, name = "intersect"))
    [] name \in {"sorted", "sortedDescending"} -> Sorted(sort_vm(q, rank, name = "sortedDescending"))
    [] name \in {"take", "drop"} -> take(q, x, name = "take", TRUE)
    [] name \in {"takeLast", "dropLast"} -> take(q, x, name = "takeLast", FALSE)
    [] name = "reversed" -> ReadOnly(Reverse(q))

map_member(r, c) ==
  LET es == r.items
      x == c.arg
      name == c.name
  IN
  CASE name \in {"size", "count", "isEmpty", "isNotEmpty", "any", "none"} -> sequence_member(r, c, <<>>)
    [] name = "toMap" -> Collapsed("map", es, Len(es))
    [] name = "toMutableMap" -> MapOf(es)
    [] name = "toList" -> List(es)
    [] name = "containsKey" -> Truth(KeyAt(es, x) # {})
    [] name = "containsValue" -> Truth(\E i \in DOMAIN es : es[i][2] = x)
    [] name = "get" -> One(At(es, x))
    \* A key that is there with null is there.
    [] name = "getOrDefault" -> One(IF KeyAt(es, x[1]) = {} THEN x[2] ELSE At(es, x[1]))
    [] name = "getValue" -> IF KeyAt(es, x) = {} THEN Fault("NoSuchElement: Key _ is missing in the map.") ELSE One(At(es, x))

(* ---- a call ------------------------------------------------------------------------------ *)

\* What both checks leave of the tags, whatever the member.
Touched(s) == ro_coll_write(ro_list_write(s))

obj_method(s, c) ==
  LET u == Touched(s)
      lastArg == IF c.two THEN c.arg[2] ELSE c.arg
      firstArg == IF c.two THEN c.arg[1] ELSE c.arg
  IN  IF \/ ro_list_fault(s.recv, c.name, lastArg)
         \/ ro_coll(s) /\ ro_coll_fault(s.recv, c.name, firstArg)
      THEN Refused(u)
      ELSE IF c.name \in Writing THEN writer(u, c)
      ELSE Answer(u, IF u.recv.kind = "map" THEN map_member(u.recv, c) ELSE sequence_member(u.recv, c, s.lambda.rank))

\* recv[i] = x: a Map puts, and a store past the end of a List is the ArrayList's fault.
index_set(s, i, x) ==
  LET u == Touched(s)
  IN  IF ro_list_fault(s.recv, "set", x) \/ (ro_coll(s) /\ ro_coll_fault(s.recv, "put", i)) THEN Refused(u)
      ELSE IF s.recv.kind = "map" THEN Answer(put(u, i, x, FALSE), Unit)
      ELSE IF i \in 0..Len(Items(s)) - 1 THEN Done(u, Put(Items(s), i, x))
      ELSE Answer(u, RangeOfLength)

\* The operand is an element, a key or a couple; or, with `two`, several.
Operated(r, adding, x, many) ==
  LET xs == IF many THEN x ELSE <<x>>
  IN  CASE r.kind = "map" /\ adding -> PutAllTo(r, xs, FALSE).items
        [] r.kind = "map" /\ ~adding -> SelectSeq(r.items, LAMBDA e : e[1] \notin ToSet(xs))
        [] r.kind = "list" /\ adding -> r.items \o xs
        [] r.kind = "set" /\ adding -> distinct(r.items \o xs)
        \* minus(element) drops the first match, minus(elements) every occurrence.
        [] r.kind # "map" /\ ~adding -> IF many THEN In(r.items, x, FALSE) ELSE WithoutFirst(r.items, x)

\* += and -= refuse as the member they stand for does; of a Map, several keys are taken for one key.
operator_apply(s, c) ==
  LET r == s.recv
      isMap == r.kind = "map"
      adding == c.name \in {"plus", "plusAssign"}
      member == IF adding THEN IF c.two THEN "addAll" ELSE "add" ELSE IF c.two THEN "removeAll" ELSE "remove"
      coll_member == IF ~isMap THEN member ELSE IF adding THEN "putAll" ELSE "remove"
      refused == \/ ro_list_fault(r, member, c.arg)
                 \/ ro_coll(s) /\ ~(isMap /\ ~adding /\ c.two) /\ ro_coll_fault(r, coll_member, c.arg)
      out == Operated(r, adding, c.arg, c.two)
  IN  IF c.name \in {"plus", "minus"} THEN Answer(s, Object(r.kind, out, "none"))
      ELSE IF refused THEN Refused(Touched(s))
      ELSE Done(Touched(s), out)

\* plusElement and minusElement answer a List on any receiver.
element_member(s, c) ==
  Answer(s, List(IF c.name = "plusElement" THEN Append(Items(s), c.arg) ELSE WithoutFirst(Items(s), c.arg)))

\* What the program sees of a call; rank is the order of the elements.
call_method(recv, c, rank) ==
  LET s == Call(recv, [says |-> <<Null>>, throws |-> 0, rank |-> rank])
      t == CASE c.name \in {"plus", "minus", "plusAssign", "minusAssign"} -> operator_apply(s, c)
             [] c.name \in {"plusElement", "minusElement"} -> element_member(s, c)
             [] c.name = "[]=" -> index_set(s, c.arg[1], c.arg[2])
             [] OTHER -> obj_method(s, c)
  IN  [calls |-> <<>>, answer |-> t.answer, receiver |-> t.recv]
=============================================================================

-------------------------------- MODULE JavaMaps --------------------------------
(***************************************************************************)
(* java.util.LinkedHashMap, HashMap and TreeMap: the entries in the order   *)
(* their keys came, and the table of a HashMap, which only grows.           *)
(***************************************************************************)
EXTENDS Integers, Sequences, FiniteSets
LOCAL S == INSTANCE SequencesExt
LOCAL INSTANCE TLC

CONSTANTS Keys, Hash, Rank, Null, OutOfRange

VARIABLES java,      \* the map
          pending,   \* the members whose lambda runs, innermost last
          answer     \* what the last member answered

\* In a TreeMap the comparator alone says which keys are one.
One(k, q) == IF java.order = "sorted" THEN Rank[k] = Rank[q] ELSE k = q
Held(k) == {i \in DOMAIN java.entries : One(java.entries[i][1], k)}
ValueOf(k) == IF Held(k) = {} THEN Null ELSE java.entries[CHOOSE i \in Held(k) : TRUE][2]

\* A table of `table` buckets holds three quarters as many entries.
Grown(m) == IF Len(m.entries) * 4 > m.table * 3 THEN [m EXCEPT !.table = 2 * @] ELSE m
Stored(k, v) ==
  IF Held(k) = {} THEN Grown([java EXCEPT !.entries = Append(@, <<k, v>>)])
  ELSE [java EXCEPT !.entries = [i \in DOMAIN @ |-> IF i \in Held(k) THEN <<@[i][1], v>> ELSE @[i]]]
Without(keep(_)) == [java EXCEPT !.entries = SelectSeq(@, keep)]
Removed(k) == Without(LAMBDA e : ~One(e[1], k))

InOrder(m) ==
  CASE m.order = "linked" -> m.entries
    [] m.order = "sorted" -> SortSeq(m.entries, LAMBDA a, b : Rank[a[1]] < Rank[b[1]])
    [] m.order = "hash" ->
         S!FlattenSeq([b \in 1..m.table |-> SelectSeq(m.entries, LAMBDA e : Hash[e[1]] % m.table = b - 1)])

TableFor(capacity) ==
  LET large == {n \in {2^i : i \in 0..10} : n >= capacity}
  IN  CHOOSE n \in large : \A other \in large : n <= other

\* hashMapOf(...), linkedMapOf(...), sortedMapOf(...): HashMap(mapCapacity(size)), and a put for each.
MadeOf(order, entries) ==
  Grown([order |-> order, entries |-> entries,
         table |-> IF entries = <<>> THEN 16 ELSE TableFor(Len(entries) + 1)])

Does(m, v) == java' = m /\ answer' = v /\ UNCHANGED pending

Read == Does(java, InOrder(java))
Get(k) == Does(java, ValueOf(k))
ContainsKey(k) == Does(java, Held(k) # {})
Put(k, v) == Does(Stored(k, v), ValueOf(k))
PutIfAbsent(k, v) == Does(IF ValueOf(k) = Null THEN Stored(k, v) ELSE java, ValueOf(k))
Remove(k) == Does(Removed(k), ValueOf(k))
RemoveMapping(k, v) ==
  LET there == Held(k) # {} /\ ValueOf(k) = v IN Does(IF there THEN Removed(k) ELSE java, there)
Clear == Does([java EXCEPT !.entries = <<>>], Null)
PlusAssign(k, v) == Does(Stored(k, v), Null)
MinusAssign(k) == Does(Removed(k), Null)

Nearest(k, direction) ==
  LET near == {e \in {InOrder(java)[i] : i \in DOMAIN java.entries} :
                 CASE direction = "floor" -> Rank[e[1]] <= Rank[k] [] direction = "lower" -> Rank[e[1]] < Rank[k]
                   [] direction = "ceiling" -> Rank[e[1]] >= Rank[k] [] direction = "higher" -> Rank[e[1]] > Rank[k]}
      distance(e) == IF direction \in {"floor", "lower"} THEN Rank[k] - Rank[e[1]] ELSE Rank[e[1]] - Rank[k]
  IN  IF near = {} THEN Null ELSE (CHOOSE e \in near : \A f \in near : distance(e) <= distance(f))[1]
Navigate(k, direction) == java.order = "sorted" /\ Does(java, Nearest(k, direction))
Poll(first) ==
  /\ java.order = "sorted"
  /\ IF java.entries = <<>> THEN Does(java, Null)
     ELSE LET e == InOrder(java)[IF first THEN 1 ELSE Len(java.entries)] IN Does(Removed(e[1]), e[1])
\* A key outside the range of the view is refused, and nothing is written.
PutThrough(range, k, v) ==
  /\ java.order = "sorted"
  /\ IF Rank[k] \in range THEN Put(k, v) ELSE Does(java, OutOfRange)
RemoveThrough(range, k) ==
  /\ java.order = "sorted"
  /\ IF Rank[k] \in range THEN Remove(k) ELSE Does(java, Null)

\* val v = get(k); if (v == null) { val answer = lambda(); put(k, answer); answer } else v
GetOrPut(k) ==
  IF ValueOf(k) # Null THEN Does(java, ValueOf(k))
  ELSE pending' = Append(pending, <<"getOrPut", k>>) /\ answer' = Null /\ UNCHANGED java
Remap(name, k, given) ==
  LET held == ValueOf(k)
  IN  IF name = "compute" \/ (name = "computeIfAbsent") = (held = Null)
      THEN pending' = Append(pending, <<name, k>>) /\ answer' = Null /\ UNCHANGED java
      ELSE IF name = "merge" THEN Does(Stored(k, given), given) ELSE Does(java, held)
Returned(m, v) == java' = m /\ pending' = S!Front(pending) /\ answer' = v
GotOrPut(v) ==
  /\ pending # <<>> /\ S!Last(pending)[1] = "getOrPut"
  /\ Returned(Stored(S!Last(pending)[2], v), v)
\* A null answer removes, but computeIfAbsent leaves what there was.
Remapped(v) ==
  /\ pending # <<>> /\ S!Last(pending)[1] # "getOrPut"
  /\ LET name == S!Last(pending)[1]
         k == S!Last(pending)[2]
     IN  Returned(IF v # Null THEN Stored(k, v) ELSE IF name = "computeIfAbsent" THEN java ELSE Removed(k), v)
=============================================================================

------------------------------ MODULE OrderedMaps ------------------------------
(***************************************************************************)
(* A Map of the host: one sequence of entries, put in iteration order when  *)
(* somebody looks, and an index from key to position brought up to date     *)
(* when somebody asks.                                                      *)
(*                                                                          *)
(* Neither is maintained at a write.  `unordered` says that a write left    *)
(* the sequence out of order (COLL_UNORDERED), and the index knows only how *)
(* long the sequence was when it was built (KeyIndex.built_len).  A member  *)
(* that takes a lambda (getOrPut, compute, merge, ...) is two steps, so     *)
(* that the lambda may use the map in between.                              *)
(***************************************************************************)
EXTENDS Integers, Sequences, FiniteSets, FiniteSetsExt
Seqs == INSTANCE SequencesExt
LOCAL INSTANCE TLC

CONSTANTS Keys,     \* what a program uses as keys: no two of them are equal
          Indexed,  \* those with an IndexKey: Int, String, Boolean, Char, null
          Hash,     \* the spread hash of a key
          Rank,     \* what the comparator of a sorted map makes of a key
          Vals,     \* values
          Null,     \* Value::Undef, the null of Kotlin
          OutOfRange, \* IllegalArgumentException: key out of range
          None      \* no index

VARIABLES map,      \* COLL_ORDER, HeapObj::Map, COLL_UNORDERED and MAP_INDEX of the map
          calls,    \* the members whose lambda runs, innermost last
          reply     \* what the last member answered

vars == <<map, calls, reply>>

Values == Vals \cup {Null}
Entries == Seq(Keys \X Values)

KeyIndexes == [by_key : [Indexed -> SUBSET Nat], unindexed : Nat, built_len : Nat]

TypeOK ==
  /\ map \in [order : {"linked", "hash", "sorted"}, initial : Nat, entries : Entries,
              unordered : BOOLEAN, index : KeyIndexes \cup {None}]
  /\ calls \in Seq([op : {"getOrPut", "map_remap"}, key : Keys, at : Nat])

(* ---- the order of the entries ------------------------------------------------ *)

\* mapCapacity of Kotlin, for the counts below three that a program starts with here; HashMap() has 16.
map_capacity(expected) == IF expected = 0 THEN 16 ELSE expected + 1

Tables == {2^i : i \in 0..10}
table_size(size, initial) == Min({n \in Tables : n >= initial /\ size * 4 <= n * 3})
bucket_of(k, n) == Hash[k] % n

\* The entries by their places, those of one place as they were.
Arranged(entries, place) ==
  LET at == SortSeq([i \in 1..Len(entries) |-> i],
                    LAMBDA i, j : place[i] < place[j] \/ (place[i] = place[j] /\ i < j))
  IN  [i \in 1..Len(entries) |-> entries[at[i]]]

hash_order(entries, initial) ==
  LET n == table_size(Len(entries), initial)
  IN  Arranged(entries, [i \in DOMAIN entries |-> bucket_of(entries[i][1], n)])

sort_by_comparator(entries) == Arranged(entries, [i \in DOMAIN entries |-> Rank[entries[i][1]]])

reorder(m) ==
  LET sequence == IF m.order = "hash" THEN hash_order(m.entries, m.initial)
                                      ELSE sort_by_comparator(m.entries)
  IN  [m EXCEPT !.entries = sequence,
                !.index = IF sequence = m.entries THEN @ ELSE None]

ensure_ordered(m) == IF m.unordered THEN reorder([m EXCEPT !.unordered = FALSE]) ELSE m

mark_unordered(m) == IF m.order = "linked" THEN m ELSE [m EXCEPT !.unordered = TRUE]

\* Mutation: a member that writes does not say so.
MarkedIf_silent(before, m) == m

\* A member notes a change of size when it is over.
MarkedIf(before, m) == IF Len(m.entries) # Len(before.entries) THEN mark_unordered(m) ELSE m

(* ---- the position of a key ------------------------------------------------------ *)

Same(m, k, q) == IF m.order = "sorted" THEN Rank[k] = Rank[q] ELSE k = q

\* The first entry under the key, 0 when there is none.
Scan(m, q) ==
  LET hits == {i \in DOMAIN m.entries : Same(m, m.entries[i][1], q)}
  IN  IF hits = {} THEN 0 ELSE Min(hits)

invalidate_key_index(m) == [m EXCEPT !.index = None]

EmptyIndex == [by_key |-> [k \in Indexed |-> {}], unindexed |-> 0, built_len |-> 0]

\* Mutation: an index over entries that are gone is kept.
Covered_kept(m) == IF m.index = None THEN EmptyIndex ELSE m.index

\* What the index covers when a lookup begins: nothing when it was built over more than there is.
Covered(m) ==
  IF m.index = None THEN EmptyIndex
  ELSE IF Len(m.entries) < m.index.built_len THEN EmptyIndex ELSE m.index

\* The entries behind it are read into it.
Repaired(m, covered) ==
  LET tail == covered.built_len + 1..Len(m.entries)
  IN  [by_key |-> [k \in Indexed |-> covered.by_key[k] \cup {i \in tail : m.entries[i][1] = k}],
       unindexed |-> covered.unindexed + Cardinality({i \in tail : m.entries[i][1] \notin Indexed}),
       built_len |-> Len(m.entries)]

\* A comparator answers alone, and a key without an IndexKey does not reach the index.
Indexing(m, q) == m.order # "sorted" /\ q \in Indexed

\* The map after a lookup.
key_index_candidates(m, q) == IF Indexing(m, q) THEN [m EXCEPT !.index = Repaired(m, Covered(m))] ELSE m

\* In a map the lookup has brought up to date: the candidate that is confirmed, if the index does not decline.
Confirmed(m, q) ==
  LET hits == {i \in m.index.by_key[q] \cap DOMAIN m.entries : m.entries[i][1] = q}
  IN  IF hits = {} THEN 0 ELSE Min(hits)
At(m, q) == IF Indexing(m, q) /\ m.index.unindexed = 0 THEN Confirmed(m, q) ELSE Scan(m, q)

key_position(m, q) == At(key_index_candidates(m, q), q)

(* ---- writes ------------------------------------------------------------------------ *)

ValueAt(m, at) == IF at = 0 THEN Null ELSE m.entries[at][2]
\* An entry is overwritten where it was found, or the key appended.
WriteAt(m, at, k, v) ==
  IF at \in DOMAIN m.entries THEN [m EXCEPT !.entries[at] = <<@[1], v>>]
  ELSE [m EXCEPT !.entries = Append(@, <<k, v>>)]
RemoveAtIndex(m, at) == IF at = 0 THEN m ELSE [m EXCEPT !.entries = Seqs!RemoveAt(@, at)]

put(m, k, v) == WriteAt(key_index_candidates(m, k), key_position(m, k), k, v)
remove(m, k) == RemoveAtIndex(key_index_candidates(m, k), key_position(m, k))
Holds(m, k) == key_position(m, k) # 0

(* ---- the members ---------------------------------------------------------------------- *)

Init ==
  /\ \E order \in {"linked", "hash", "sorted"}, size \in 0..2 : \E built \in [1..size -> Keys \X Vals] :
       /\ \A i, j \in 1..size : i # j => built[i][1] # built[j][1]
       /\ order = "sorted" => \A i, j \in 1..size : i # j => Rank[built[i][1]] # Rank[built[j][1]]
       /\ map = mark_unordered([order |-> order, initial |-> map_capacity(size), entries |-> [i \in 1..size |-> built[i]],
                                unordered |-> FALSE, index |-> None])
  /\ calls = <<>>
  /\ reply = Null

Answer(m, v) == map' = m /\ reply' = v

\* for, toString, keys, values, entries, toList, ...: the entries in their order.
Read == /\ map' = ensure_ordered(map)
        /\ reply' = ensure_ordered(map).entries
        /\ UNCHANGED calls

\* get, m[k] and getValue; containsKey tells the key of a null value from no key.
Get(k) == /\ Answer(key_index_candidates(map, k), ValueAt(map, key_position(map, k)))
          /\ UNCHANGED calls
ContainsKey(k) == /\ Answer(key_index_candidates(map, k), Holds(map, k))
                  /\ UNCHANGED calls

\* m[k] = v and put, which answers the value there was.
Put(k, v) == /\ Answer(MarkedIf(map, put(map, k, v)), ValueAt(map, key_position(map, k)))
             /\ UNCHANGED calls
\* A key with a null value counts as absent.
PutIfAbsent(k, v) ==
  LET held == ValueAt(map, key_position(map, k))
  IN  /\ Answer(IF held # Null THEN key_index_candidates(map, k) ELSE MarkedIf(map, put(map, k, v)), held)
      /\ UNCHANGED calls

\* The index is not told.
Remove(k) == /\ Answer(MarkedIf(map, remove(map, k)), ValueAt(map, key_position(map, k)))
             /\ UNCHANGED calls
RemoveMapping(k, v) ==
  LET removing == Holds(map, k) /\ ValueAt(map, key_position(map, k)) = v
  IN  /\ Answer(IF removing THEN MarkedIf(map, remove(map, k)) ELSE key_index_candidates(map, k), removing)
      /\ UNCHANGED calls

Clear == /\ Answer(MarkedIf(map, invalidate_key_index([map EXCEPT !.entries = <<>>])), Null)
         /\ UNCHANGED calls

\* m += k to v and m -= k: over all entries by equality, whatever the comparator says.
operator_apply(m, entries) == mark_unordered(invalidate_key_index([m EXCEPT !.entries = entries]))
map_upsert(entries, k, v) ==
  LET hits == {i \in DOMAIN entries : entries[i][1] = k}
  IN  IF hits = {} THEN Append(entries, <<k, v>>) ELSE [entries EXCEPT ![Min(hits)] = <<k, v>>]
map_without(entries, k) ==
  LET kept == {i \in DOMAIN entries : entries[i][1] # k}
      Before(i) == Cardinality({j \in kept : j < i})
  IN  [n \in 1..Cardinality(kept) |-> entries[CHOOSE i \in kept : Before(i) = n - 1]]
PlusAssign(k, v) ==
  /\ LET m == ensure_ordered(map) IN Answer(operator_apply(m, map_upsert(m.entries, k, v)), Null)
  /\ UNCHANGED calls
MinusAssign(k) ==
  /\ LET m == ensure_ordered(map)
     IN  Answer(operator_apply(m, map_without(m.entries, k)), Null)
  /\ UNCHANGED calls

(* ---- sorted maps ------------------------------------------------------------------------ *)

Sorted == map.order = "sorted"

\* The last entry below, or the first above: its key, Null when there is none.
Nearest(m, k, direction) ==
  LET hits == {i \in DOMAIN m.entries :
                 LET c == Rank[m.entries[i][1]] - Rank[k]
                 IN  CASE direction = "floor" -> c <= 0
                       [] direction = "lower" -> c < 0
                       [] direction = "ceiling" -> c >= 0
                       [] direction = "higher" -> c > 0}
  IN  IF hits = {} THEN Null
      ELSE m.entries[IF direction \in {"floor", "lower"} THEN Max(hits) ELSE Min(hits)][1]
sorted_nav(k, direction) ==
  /\ Sorted
  /\ Answer(ensure_ordered(map), Nearest(ensure_ordered(map), k, direction))
  /\ UNCHANGED calls

\* pollFirstEntry and pollLastEntry
Poll(first) ==
  /\ Sorted
  /\ LET m == ensure_ordered(map)
         at == IF first THEN 1 ELSE Len(m.entries)
     IN  IF m.entries = <<>> THEN Answer(m, Null)
         ELSE Answer(MarkedIf(m, invalidate_key_index(RemoveAtIndex(m, at))), m.entries[at][1])
  /\ UNCHANGED calls

\* A write through a view of the keys whose ranks are in `range`: the source is written first, and asked after.
PutThrough(range, k, v) ==
  /\ Sorted
  /\ LET had == Holds(map, k)
         written == MarkedIf(map, put(map, k, v))
     IN  IF Rank[k] \in range THEN Answer(written, ValueAt(map, key_position(map, k)))
         ELSE Answer(IF had THEN written ELSE MarkedIf(written, remove(written, k)), OutOfRange)
  /\ UNCHANGED calls
RemoveThrough(range, k) ==
  /\ Sorted
  /\ IF Rank[k] \in range /\ Holds(map, k) THEN Remove(k) ELSE Answer(map, Null) /\ UNCHANGED calls

(* ---- members that take a lambda ----------------------------------------------------------- *)

Frame(op, k, at) == [op |-> op, key |-> k, at |-> at]

\* A value that is there is answered at once; otherwise the lambda runs, and the position is kept.
GetOrPut(k) ==
  LET m == key_index_candidates(ensure_ordered(map), k)
      at == At(m, k)
  IN  /\ map' = m
      /\ IF ValueAt(m, at) # Null
         THEN reply' = ValueAt(m, at) /\ UNCHANGED calls
         ELSE calls' = Append(calls, Frame("getOrPut", k, at)) /\ reply' = Null
GotOrPut(v) ==
  /\ calls # <<>> /\ Seqs!Last(calls).op = "getOrPut"
  /\ Answer(WriteAt(map, Seqs!Last(calls).at, Seqs!Last(calls).key, v), v)
  /\ calls' = Seqs!Front(calls)

\* compute asks always, computeIfAbsent when there is no value, computeIfPresent and merge when there is one.
Asks(name, held) ==
  CASE name = "compute" -> TRUE
    [] name = "computeIfAbsent" -> held = Null
    [] name = "computeIfPresent" -> held # Null
    [] name = "merge" -> held # Null
map_remap(name, k, given) ==
  LET m == key_index_candidates(ensure_ordered(map), k)
      held == ValueAt(m, At(m, k))
  IN  IF Asks(name, held)
      THEN /\ map' = m
           /\ calls' = Append(calls, Frame("map_remap", k, 0))
           /\ reply' = Null
      ELSE /\ Answer(IF name = "merge" THEN put(m, k, given) ELSE m,
                     IF name = "merge" THEN given ELSE held)
           /\ UNCHANGED calls
\* The key is looked up again; a null answer removes it.
Remapped(v) ==
  /\ calls # <<>> /\ Seqs!Last(calls).op = "map_remap"
  /\ LET k == Seqs!Last(calls).key
     IN  Answer(IF v # Null THEN put(map, k, v)
                ELSE IF Holds(map, k) THEN invalidate_key_index(remove(map, k))
                ELSE key_index_candidates(map, k), v)
  /\ calls' = Seqs!Front(calls)

(* ---- a program ------------------------------------------------------------------------------- *)

Directions == {"floor", "lower", "ceiling", "higher"}
Remaps == {"compute", "computeIfAbsent", "computeIfPresent", "merge"}
Ranges == {{r \in {Rank[k] : k \in Keys} : r < Rank[b]} : b \in Keys}

\* What only looks, and what writes.
Look == \/ Read
        \/ \E k \in Keys : Get(k) \/ ContainsKey(k) \/ \E d \in Directions : sorted_nav(k, d)
Write == \/ Clear
         \/ \E first \in BOOLEAN : Poll(first)
         \/ \E k \in Keys : \/ Remove(k)
                            \/ MinusAssign(k)
                            \/ \E r \in Ranges : RemoveThrough(r, k)
                            \/ \E v \in Values : \/ Put(k, v) \/ PutIfAbsent(k, v) \/ RemoveMapping(k, v)
                                                 \/ PlusAssign(k, v)
                                                 \/ \E r \in Ranges : PutThrough(r, k, v)
Ask == \E k \in Keys : GetOrPut(k) \/ \E name \in Remaps, v \in Vals : map_remap(name, k, v)
Return == \E v \in Values : GotOrPut(v) \/ Remapped(v)

Next == Look \/ Write \/ Ask \/ Return
Spec == Init /\ [][Next]_vars

\* No lambda uses the map whose member it was given to.
QuietNext == (calls = <<>> /\ (Look \/ Write \/ Ask)) \/ Return
QuietSpec == Init /\ [][QuietNext]_vars

\* Whatever was written, a key is found where its entry is, and no other is found for it.
FindsWhatIsThere == \A k \in Keys : key_position(map, k) = Scan(map, k)
=============================================================================

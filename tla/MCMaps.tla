-------------------------------- MODULE MCMaps --------------------------------
(***************************************************************************)
(* A map of the host and the map of the JVM it stands for, under the same   *)
(* calls (OrderedMaps and JavaMaps): a linked, a hash or a sorted map of up *)
(* to four keys, whose lambdas may use it too.                              *)
(***************************************************************************)
EXTENDS OrderedMaps

CONSTANTS Families,  \* an order, and the keys it is tried with
          Careful,   \* the situations the program stays out of
          MaxCalls   \* a bound on lambdas in lambdas

VARIABLES java, pending, answer,
          uses       \* the keys this program uses
J == INSTANCE JavaMaps

both == <<vars, java, pending, answer, uses>>

(* ---- the programs ----------------------------------------------------------------- *)

Size(m) == Len(m.entries)
HeldKeys(m) == {m.entries[i][1] : i \in DOMAIN m.entries}

\* Where the code and the library are known to part.
Situations ==
  LET top == IF calls = <<>> THEN "none" ELSE Seqs!Last(calls).op
      returns == Len(calls') < Len(calls)
      grown == Size(map') > Size(map)
      If(p, name) == IF p THEN {name} ELSE {}
  IN  \* a member with a lambda, which answers what it adds, does not say so
      If(map.order # "linked" /\ grown /\ ~map'.unordered /\ (returns \/ reply' # Null), "unmarked")
      \* fewer entries than the table of the JVM once grew for
      \cup If(map.order = "hash" /\ java'.table > table_size(Size(map'), map'.initial), "shrunk")
      \* the lambda of getOrPut uses the map, whose position of the key is kept
      \cup If(top = "getOrPut" /\ ~returns /\ map'.entries # map.entries, "moved")
      \* a key without IndexKey is appended before the index heard of a removal
      \cup If(grown /\ map.index # None /\ map'.index = map.index /\ map.index.built_len > Size(map), "unindexed")
      \* a key out of the range of a view is there in the map under it
      \cup If(reply' = OutOfRange /\ map'.entries # map.entries, "out of range")
      \* computeIfAbsent of a null value answers null
      \cup If(returns /\ top = "map_remap" /\ reply' = Null /\ Seqs!Last(pending)[1] = "computeIfAbsent", "null")
      \* the library throws ConcurrentModificationException
      \cup If(top = "map_remap" /\ ~returns /\ HeldKeys(map') # HeldKeys(map), "modified")

\* += and -= of a key that the comparator calls the same as another.
Alike(k) == /\ map.order = "sorted" /\ "alike" \in Careful
            /\ \E q \in HeldKeys(map) : q # k /\ Rank[q] = Rank[k]

\* Only a linked map is given null values: the others look for a key in the same way.
Storable == IF map.order = "linked" THEN Values ELSE Vals

(* ---- both together ------------------------------------------------------------------ *)

MapsInit ==
  /\ Init
  /\ \E f \in Families :
       /\ map.order = f.order
       /\ HeldKeys(map) \subseteq f.keys
       /\ uses = f.keys
  /\ java = J!MadeOf(map.order, map.entries)
  /\ pending = <<>>
  /\ answer = Null

Together ==
  \/ Read /\ J!Read
  \/ Clear /\ J!Clear
  \/ \E first \in BOOLEAN : Poll(first) /\ J!Poll(first)
  \/ \E k \in uses :
       \/ Get(k) /\ J!Get(k)
       \/ ContainsKey(k) /\ J!ContainsKey(k)
       \/ Remove(k) /\ J!Remove(k)
       \/ ~Alike(k) /\ MinusAssign(k) /\ J!MinusAssign(k)
       \/ GetOrPut(k) /\ J!GetOrPut(k)
       \/ \E d \in Directions : sorted_nav(k, d) /\ J!Navigate(k, d)
       \/ \E r \in Ranges : RemoveThrough(r, k) /\ J!RemoveThrough(r, k)
       \/ \E v \in Storable : Put(k, v) /\ J!Put(k, v)
       \/ \E v \in Vals :
            \/ PutIfAbsent(k, v) /\ J!PutIfAbsent(k, v)
            \/ RemoveMapping(k, v) /\ J!RemoveMapping(k, v)
            \/ ~Alike(k) /\ PlusAssign(k, v) /\ J!PlusAssign(k, v)
            \/ \E r \in Ranges : PutThrough(r, k, v) /\ J!PutThrough(r, k, v)
            \/ \E name \in Remaps : map_remap(name, k, v) /\ J!Remap(name, k, v)
  \/ \E v \in Values : \/ GotOrPut(v) /\ J!GotOrPut(v)
                       \/ Remapped(v) /\ J!Remapped(v)

MapsNext == /\ Together
            /\ UNCHANGED uses
            /\ Len(calls') <= MaxCalls
            /\ Situations \cap Careful = {}

MapsSpec == MapsInit /\ [][MapsNext]_both

\* A call is answered as the map of the JVM answers it: the same value, or the same entries in
\* the same order (host.rs:2005-2350, 16622-17240, 17610-17667).
AnswersAsJava == reply = answer

\* What a reply was matters only when it was not the JVM's.
view == <<map, calls, java, pending, uses, AnswersAsJava>>
===============================================================================

----------------------------- MODULE PriorityQueue -----------------------------
(***************************************************************************)
(* java.util.PriorityQueue as pq_member keeps it: a list object that holds  *)
(* the array of a binary heap.  A member works on a copy of the array and   *)
(* stores it when it is done; each comparison calls the comparator, which   *)
(* is code of the program and may throw.  A step is one turn of a sift      *)
(* loop.  Slot k of the code's array is index k + 1 here, so that the       *)
(* parent of k is k \div 2.                                                 *)
(***************************************************************************)
EXTENDS Integers, Sequences, SequencesExt

CONSTANTS Elements, Key,
          MaxSize,   \* bound: no queue is larger, and only an empty one is built anew
          MaxAdded   \* bound: addAll is given no more

ASSUME QueueAssumption ==
  /\ Elements # {} /\ Key \in [Elements -> Int]
  /\ MaxSize \in Nat /\ MaxAdded \in Nat

VARIABLES queue,   \* HeapObj::List: the array
          ordered, \* no comparator has thrown yet, and no member of the list under the
                   \* queue has compacted the array
          pending, \* one has thrown in the member that runs
          last,    \* the call that has just ended: what it was given and took
          op,      \* the member that runs, "none" between calls
          es,      \* its copy of the array
          dir,     \* the sift under way: "up" or "down"
          k, x,    \* its hole and the element it places
          from,    \* where it started
          more,    \* what addAll has still to add
          given, taken

locals == <<op, es, dir, k, x, from, more, given, taken>>
vars == <<queue, ordered, pending, last, locals>>

Less(a, b) == Key[a] < Key[b]

NoCall == [op |-> "none", given |-> <<>>, taken |-> <<>>]
AnyElement == CHOOSE e \in Elements : TRUE

Init ==
  /\ queue = <<>> /\ ordered = TRUE /\ pending = FALSE
  /\ last = NoCall /\ op = "none" /\ es = <<>> /\ dir = "up" /\ k = 1 /\ x = AnyElement
  /\ from = 1 /\ more = <<>> /\ given = <<>> /\ taken = <<>>

(* ---- the sifts ---------------------------------------------------------------------- *)

Hole(d, a, i) == dir' = d /\ es' = a /\ k' = i /\ x' = a[i] /\ from' = i

\* The member ends: the copy is stored, and the locals are gone.
Store(name, a, in, out) ==
  /\ queue' = a /\ last' = [op |-> name, given |-> in, taken |-> out]
  /\ op' = "none" /\ es' = <<>> /\ dir' = "up" /\ k' = 1 /\ x' = AnyElement
  /\ from' = 1 /\ more' = <<>> /\ given' = <<>> /\ taken' = <<>>

\* Mutation: remove(o) only looks further down.
Placed_down(a) ==
  IF more # <<>>
  THEN /\ Hole("up", Append(a, Head(more)), Len(a) + 1) /\ more' = Tail(more)
       /\ UNCHANGED <<queue, last, op, given, taken>>
  ELSE IF op = "construct" /\ from > 1
  THEN /\ Hole("down", a, from - 1)
       /\ UNCHANGED <<queue, last, op, more, given, taken>>
  ELSE Store(op, a, given, taken)

\* What is left of the member once x has its place: the next element of
\* addAll, the next subtree of heapify, or the way up of an element for which
\* remove(o) found no place further down.
Placed(a) ==
  IF more # <<>>
  THEN /\ Hole("up", Append(a, Head(more)), Len(a) + 1) /\ more' = Tail(more)
       /\ UNCHANGED <<queue, last, op, given, taken>>
  ELSE IF op = "construct" /\ from > 1
  THEN /\ Hole("down", a, from - 1)
       /\ UNCHANGED <<queue, last, op, more, given, taken>>
  ELSE IF op = "remove" /\ dir = "down" /\ a[from] = x
  THEN /\ Hole("up", a, from)
       /\ UNCHANGED <<queue, last, op, more, given, taken>>
  ELSE Store(op, a, given, taken)

\* Mutation: a sift that stops does not write the element it carries.
Place_missing == Placed(es)

Place == Placed([es EXCEPT ![k] = x])

\* Mutation: the hole does not move with the element.
Move_stays(child) ==
  /\ es' = [es EXCEPT ![k] = es[child]]
  /\ UNCHANGED <<queue, last, op, dir, k, x, from, more, given, taken>>

Move(child) ==
  /\ es' = [es EXCEPT ![k] = es[child]] /\ k' = child
  /\ UNCHANGED <<queue, last, op, dir, x, from, more, given, taken>>

\* A comparator that throws answers nothing, which counts as equal, and is not
\* called again before the member ends.
Compares(needed) ==
  \E throws \in BOOLEAN :
    /\ throws => needed /\ ~pending
    /\ pending' = (pending \/ throws) /\ ordered' = (ordered /\ ~throws)

pq_sift_up ==
  /\ op # "none" /\ dir = "up"
  /\ Compares(k > 1)
  /\ IF k > 1 /\ ~pending' /\ Less(x, es[k \div 2]) THEN Move(k \div 2) ELSE Place

\* The smaller child of the hole, the left one if they are equal.
Child ==
  IF 2 * k + 1 <= Len(es) /\ Less(es[2 * k + 1], es[2 * k]) THEN 2 * k + 1 ELSE 2 * k

pq_sift_down ==
  /\ op # "none" /\ dir = "down"
  /\ Compares(2 * k <= Len(es))
  /\ IF 2 * k <= Len(es) /\ ~pending' /\ Less(es[Child], x) THEN Move(Child) ELSE Place

(* ---- the members ---------------------------------------------------------------------- *)

\* A member starts to place an element, or ends at once.
Begin(name, in, out) ==
  /\ op = "none" /\ op' = name /\ given' = in /\ taken' = out
  /\ last' = NoCall /\ pending' = FALSE /\ UNCHANGED <<queue, ordered>>

AtOnce(name, a, in, out) ==
  /\ op = "none" /\ Store(name, a, in, out) /\ pending' = FALSE
  /\ UNCHANGED ordered

\* #pqInit of a new queue: the source collection is heapified in place.
Construct(src) ==
  /\ IF Len(src) < 2
     THEN AtOnce("construct", src, src, <<>>)
     ELSE /\ Begin("construct", src, <<>>) /\ more' = <<>>
          /\ Hole("down", src, Len(src) \div 2)

Offer(e) ==
  /\ Begin("offer", <<e>>, <<>>) /\ more' = <<>>
  /\ Hole("up", Append(queue, e), Len(queue) + 1)

AddAll(s) ==
  /\ Begin("addAll", s, <<>>) /\ more' = Tail(s)
  /\ Hole("up", Append(queue, Head(s)), Len(queue) + 1)

\* The last element takes the place of slot i, but is still to be placed.
Vacate(name, i, out) ==
  LET a == SubSeq(queue, 1, Len(queue) - 1) IN
    IF i > Len(a)
    THEN AtOnce(name, a, <<>>, out)
    ELSE /\ Begin(name, <<>>, out) /\ more' = <<>>
         /\ dir' = "down" /\ es' = a /\ k' = i /\ from' = i /\ x' = queue[Len(queue)]

Poll ==
  /\ queue # <<>>
  /\ Vacate("poll", 1, <<queue[1]>>)

\* remove(o): the first element equal to o.
RemoveElement(e) ==
  /\ \E i \in DOMAIN queue :
       /\ queue[i] = e /\ \A j \in 1..(i - 1) : queue[j] # e
       /\ Vacate("remove", i, <<e>>)

\* The elements of a that are in S, in the order of a.
Those(a, S) ==
  LET at == {i \in DOMAIN a : a[i] \in S}
      nth(j) == CHOOSE i \in at : Cardinality(at \cap 1..i) = j IN
    [j \in 1..Cardinality(at) |-> a[nth(j)]]

\* removeIf, removeAll and retainAll are the list's: they compact the array, and what is
\* left need be no heap. From then on no order is promised.
RemoveIf(dropped) ==
  /\ op = "none"
  /\ Store("removeIf", Those(queue, Elements \ dropped), <<>>, Those(queue, dropped))
  /\ pending' = FALSE /\ ordered' = FALSE

Next ==
  \/ pq_sift_up \/ pq_sift_down
  \/ queue = <<>> /\ \E n \in 0..MaxSize : \E src \in [1..n -> Elements] : Construct(src)
  \/ Len(queue) < MaxSize /\ \E e \in Elements : Offer(e)
  \/ \E n \in 1..MaxAdded :
       Len(queue) + n <= MaxSize /\ \E s \in [1..n -> Elements] : AddAll(s)
  \/ Poll
  \/ \E e \in Elements : RemoveElement(e)
  \/ \E dropped \in SUBSET Elements : RemoveIf(dropped)

Spec == Init /\ [][Next]_vars

\* The interpreter runs on; no comparator is bound to throw.
Turn == (pq_sift_up \/ pq_sift_down) /\ pending' = pending
FairSpec == Spec /\ WF_vars(Turn)

(* ---- properties ------------------------------------------------------------------------ *)

Arrays == UNION {[1..n -> Elements] : n \in 0..MaxSize}

TypeOK ==
  /\ queue \in Seq(Elements) /\ es \in Seq(Elements) /\ more \in Seq(Elements)
  /\ given \in Seq(Elements) /\ taken \in Seq(Elements)
  /\ ordered \in BOOLEAN /\ pending \in BOOLEAN /\ x \in Elements
  /\ op \in {"none", "construct", "offer", "addAll", "poll", "remove"} /\ dir \in {"up", "down"}
  /\ op # "none" => k \in 1..Len(es) /\ from \in 1..Len(es)

\* Between calls the list object holds "the queue's binary-heap ARRAY"
\* (host.rs:876): no element precedes its parent, whatever order the members
\* were called in and however the elements compare.
HeapOrdered ==
  op = "none" /\ ordered => \A j \in 2..Len(queue) : ~Less(queue[j], queue[j \div 2])

\* The queue is a bag whose poll answers an element none precedes; no sift
\* loses or doubles an element, even when the comparator throws in the middle.
Promise ==
  INSTANCE JavaQueue WITH
    held <- ToBag(queue),
    last <- [op |-> last.op, given |-> ToBag(last.given), taken |-> ToBag(last.taken)]
KeepsPromise == Promise!Spec

\* Every member ends: the sifts come to the root or to a leaf.
MembersEnd == op # "none" ~> op = "none"

(* ---- the queues of run queue: two elements compare as equal ------------------------------ *)

Three == 1..3
TwoEqual == <<1, 2, 2>>
=============================================================================

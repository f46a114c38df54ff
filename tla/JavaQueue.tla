------------------------------- MODULE JavaQueue -------------------------------
(***************************************************************************)
(* What java.util.PriorityQueue promises: a bag of elements from which poll *)
(* takes one that no other precedes.  When the comparator throws, the call  *)
(* fails: no element is lost or doubled, but from then on no order is       *)
(* promised.  Nor is one after removeIf and its like, which kotlinrs leaves  *)
(* to the list under the queue (the JVM builds the heap anew).               *)
(***************************************************************************)
EXTENDS Integers, Bags

CONSTANT Key   \* the comparator compares the keys of two elements

VARIABLES held,    \* the bag
          ordered, \* no comparator has thrown, and nothing was removed in bulk
          last     \* the last call: its name, the bags it was given and it took

Init == held = EmptyBag /\ ordered = TRUE /\ last.op = "none"

\* A new queue over a collection.
Construct ==
  /\ last'.op = "construct" /\ last'.taken = EmptyBag
  /\ held' = last'.given

Add ==
  /\ last'.op \in {"offer", "addAll"} /\ last'.taken = EmptyBag
  /\ held' = held (+) last'.given

Least(e) == \A other \in BagToSet(held) : Key[e] <= Key[other]

Take ==
  /\ last'.op \in {"poll", "remove"} /\ last'.given = EmptyBag
  /\ \E e \in BagToSet(held) :
       /\ last'.taken = SetToBag({e})
       /\ last'.op = "poll" /\ ordered' => Least(e)
  /\ held' = held (-) last'.taken

\* removeIf, removeAll and retainAll.
TakeAll ==
  /\ last'.op = "removeIf" /\ last'.given = EmptyBag
  /\ last'.taken \sqsubseteq held /\ ~ordered'
  /\ held' = held (-) last'.taken

\* A call starts, or its comparator throws.
Runs == last'.op = "none" /\ UNCHANGED held

Next == (ordered' => ordered) /\ (Construct \/ Add \/ Take \/ TakeAll \/ Runs)

vars == <<held, ordered, last>>

Spec == Init /\ [][Next]_vars
=============================================================================

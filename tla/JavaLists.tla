----------------------------- MODULE JavaLists -----------------------------
(***************************************************************************)
(* What the lists of the Java library promise a single-threaded program:   *)
(* an ArrayList (object 1), views of it made by subList and by Kotlin's    *)
(* asReversed, views of those, and an open for loop.                       *)
(*                                                                         *)
(* The elements exist once, in the list.  A view is a window on its        *)
(* backing object, so it cannot disagree with it; and a subList whose list *)
(* changed its structure behind its back - a change of size, or a sort -   *)
(* is stale: every use of it raises ConcurrentModificationException.  A    *)
(* change through a window keeps that window and those it is cut from.     *)
(* An iterator ends where the size is its cursor, and is otherwise stale   *)
(* like a subList.                                                         *)
(*                                                                         *)
(* Reads change nothing: what one answers is a function of the state       *)
(* (Refused, Elements, Pass).  Making a view of a stale subList counts as  *)
(* a use; the library would make a view that is stale.                     *)
(***************************************************************************)
EXTENDS Integers, Sequences, FiniteSets, SequencesExt

CONSTANTS Initial,     \* the elements of the list at the start
          Values       \* the elements a program writes

VARIABLES items,   \* the elements of the list
          window,  \* object -> what it shows
          loop     \* the open for loop

vars == <<items, window, loop>>

TheList == [kind |-> "list", of |-> 0, from |-> 0, size |-> 0, stale |-> FALSE]
NoLoop  == [over |-> 0, next |-> 1, stale |-> FALSE]

Objects == DOMAIN window

RECURSIVE Size(_), At(_, _), Above(_), Refused(_), WithElements(_, _)

Size(o) == CASE window[o].kind = "list" -> Len(items)
             [] window[o].kind = "sub"  -> window[o].size
             [] window[o].kind = "rev"  -> Size(window[o].of)

At(o, i) == CASE window[o].kind = "list" -> items[i]
              [] window[o].kind = "sub"  -> At(window[o].of, window[o].from + i)
              [] window[o].kind = "rev"  -> At(window[o].of, Size(o) + 1 - i)

Elements(o) == [i \in 1..Size(o) |-> At(o, i)]

\* The object and everything it is a view of.
Above(o) == IF window[o].kind = "list" THEN {o} ELSE {o} \cup Above(window[o].of)

\* A reversed view has no count of its own: it asks the object it reverses.
Refused(o) == IF window[o].kind = "rev" THEN Refused(window[o].of) ELSE window[o].stale

\* What the next pass of the loop does; only one that would deliver an
\* element looks for a change.
Pass == IF loop.next = Size(loop.over) + 1 THEN "end"
        ELSE IF loop.stale THEN "CME" ELSE "more"

\* The list once o shows xs.
WithElements(o, xs) ==
    LET w == window[o]
    IN  CASE w.kind = "list" -> xs
          [] w.kind = "sub"  ->
               LET all == Elements(w.of)
               IN  WithElements(w.of, SubSeq(all, 1, w.from) \o xs
                                        \o SubSeq(all, w.from + w.size + 1, Len(all)))
          [] w.kind = "rev"  -> WithElements(w.of, Reverse(xs))

Init == /\ items = Initial
        /\ window = <<TheList>>
        /\ loop = NoLoop

View(kind, o, from, size) ==
    /\ window' = Append(window, [kind |-> kind, of |-> o, from |-> from,
                                 size |-> size, stale |-> FALSE])
    /\ UNCHANGED <<items, loop>>

SubList(o, from, to) == from <= to /\ View("sub", o, from, to - from)

AsReversed(o) == View("rev", o, 0, 0)

\* A structural write is noticed by every subList that is not above the
\* object it went through, and by the open loop.
Write(o, xs, structural) ==
    /\ items' = WithElements(o, xs)
    /\ window' = [u \in Objects |->
                    LET w == window[u]
                    IN  IF w.kind # "sub" THEN w
                        ELSE IF u \in Above(o)
                             THEN [w EXCEPT !.size = @ + Len(xs) - Size(o)]
                             ELSE [w EXCEPT !.stale = @ \/ structural]]
    /\ loop' = IF loop = NoLoop THEN loop ELSE [loop EXCEPT !.stale = @ \/ structural]

Set(o, i, e) == LET xs == Elements(o)
                IN  Write(o, SubSeq(xs, 1, i - 1) \o <<e>> \o SubSeq(xs, i + 1, Len(xs)), FALSE)

Add(o, e) == Write(o, Append(Elements(o), e), TRUE)

RemoveNth(o, i) == Write(o, RemoveAt(Elements(o), i), TRUE)

Descending(xs) == SortSeq(xs, >)

\* Kotlin sorts nothing when there is nothing to sort.  ArrayList.sort counts
\* as a structural change; a view is sorted element by element, with set.
SortDescending(o) == Write(o, Descending(Elements(o)),
                           window[o].kind = "list" /\ Size(o) > 1)

\* The elements at the given places go, all at once.
RemoveIf(o, dropped) ==
    LET xs   == Elements(o)
        kept == SelectSeq([i \in 1..Len(xs) |-> i], LAMBDA i : i \notin dropped)
    IN  Write(o, [k \in 1..Len(kept) |-> xs[kept[k]]], Len(kept) < Len(xs))

LoopStart(o) == /\ loop = NoLoop
                /\ loop' = [over |-> o, next |-> 1, stale |-> FALSE]
                /\ UNCHANGED <<items, window>>

LoopStep == /\ loop # NoLoop
            /\ loop' = IF Pass = "more" THEN [loop EXCEPT !.next = @ + 1] ELSE NoLoop
            /\ UNCHANGED <<items, window>>

Next == \/ LoopStep
        \/ \E o \in Objects :
              /\ ~Refused(o)
              /\ \/ AsReversed(o)
                 \/ SortDescending(o)
                 \/ LoopStart(o)
                 \/ \E from, to \in 0..Size(o) : SubList(o, from, to)
                 \/ \E i \in 1..Size(o) : RemoveNth(o, i)
                 \/ \E dropped \in SUBSET (1..Size(o)) : RemoveIf(o, dropped)
                 \/ \E e \in Values : Add(o, e) \/ \E i \in 1..Size(o) : Set(o, i, e)

Spec == Init /\ [][Next]_vars
=============================================================================

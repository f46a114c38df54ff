----------------------------- MODULE ListViews -----------------------------
(***************************************************************************)
(* Lists and their views as the host keeps them.                           *)
(*                                                                         *)
(* A view is a heap object of its own that holds a COPY of the elements it *)
(* shows, taken again when it is read and its backing object was written   *)
(* since (BACKING_WRITES against VIEW_SEEN).  A write through a view runs  *)
(* on the copy, with the view taken out of its table meanwhile, and is     *)
(* then carried into the backing object.  Structural changes are counted   *)
(* apart (MOD_COUNTS), by the member that was called and for the object it *)
(* was called on; a subList remembers its backing's count (SUB_MOD), an    *)
(* open for loop that of what it walks.                                    *)
(*                                                                         *)
(* The host's thread-locals are one record, because an operation goes      *)
(* through several states of them; heap handles are positions 1, 2, ...    *)
(* The program has one open for loop or one running removeIf at most; in   *)
(* the body of the one and in the predicate of the other it may do         *)
(* whatever it can do elsewhere.  It names elements by the first and the   *)
(* last position, and the one beyond.                                      *)
(***************************************************************************)
EXTENDS Integers, Sequences, FiniteSets, SequencesExt

CONSTANTS StartSize,   \* of the list at the start
          Values,      \* the elements a program writes
          MaxObjects,  \* a bound on the list and its views together
          MaxWrites,   \* a bound on the writes of the program
          Careful      \* whether the program keeps to what is noticed

\* The elements of the list at the start.
Initial == SubSeq(<<1, 2, 3>>, 1, StartSize)

VARIABLES host,    \* heap and side tables
          loop,    \* the slots of the open for loop: iterable, i, n, modCount
          call,    \* the removeIf whose predicate runs: receiver, its view, sizes
          running, \* FALSE once the interpreter has panicked
          writes   \* writes done, for the bound only

vars == <<host, loop, call, running, writes>>

Untracked == -1     \* no entry in the table
NoView    == [kind |-> "none", of |-> 0, from |-> 0, to |-> 0]
NoLoop    == [over |-> 0, i |-> 0, n |-> 0, mod |-> 0]
NoCall    == [on |-> 0, view |-> NoView, items |-> 0, len |-> 0]

Objects == DOMAIN host.heap

Init == /\ host = [heap   |-> <<Initial>>,
                   view   |-> <<NoView>>,       \* SUBLISTS and REVERSED_VIEWS
                   seen   |-> <<Untracked>>,    \* VIEW_SEEN
                   writes |-> <<Untracked>>,    \* BACKING_WRITES
                   mods   |-> <<0>>,            \* MOD_COUNTS
                   submod |-> <<0>>]            \* SUB_MOD
        /\ loop = NoLoop
        /\ call = NoCall
        /\ running = TRUE
        /\ writes = 0

-----------------------------------------------------------------------------
(* The host's functions.                                                   *)

\* Only a write of an object that backs a view is counted.
note_backing_write(h, o) ==
    [h EXCEPT !.writes[o] = IF @ = Untracked THEN @ ELSE @ + 1]

\* with_obj_mut, storing xs.
with_obj_mut(h, o, xs) == [note_backing_write(h, o) EXCEPT !.heap[o] = xs]

track_view(h, v, b) ==
    LET now == IF h.writes[b] = Untracked THEN 0 ELSE h.writes[b]
    IN  [h EXCEPT !.writes[b] = now, !.seen[v] = now]

set_sublist(h, v, of, from, to) ==
    [track_view(h, v, of) EXCEPT
        !.submod[v] = h.mods[of],
        !.view[v] = [kind |-> "sub", of |-> of, from |-> from, to |-> to]]

detach(h, v) == [h EXCEPT !.view[v] = NoView]

CME == -1
OutOfBounds == -2

Lesser(a, b) == IF a < b THEN a ELSE b

Clamped(range, xs) == LET to == Lesser(range.to, Len(xs))
                      IN  [range EXCEPT !.to = to, !.from = Lesser(@, to)]

Shown(view, xs) == IF view.kind = "rev" THEN Reverse(xs)
                   ELSE LET r == Clamped(view, xs) IN SubSeq(xs, r.from + 1, r.to)

splice(xs, from, to, new) ==
    LET r == Clamped([from |-> from, to |-> to], xs)
    IN  SubSeq(xs, 1, r.from) \o new \o SubSeq(xs, r.to + 1, Len(xs))

RECURSIVE refresh_view(_, _), view_len(_, _), iter_at(_, _, _),
          splice_into(_, _, _, _, _), SplicePanics(_, _), index_get(_, _, _)

\* A view of a view refreshes its backing first.
refresh_view(h, v) ==
    IF h.view[v].kind = "none" THEN h
    ELSE LET b  == h.view[v].of
             hb == refresh_view(h, b)
             now == hb.writes[b]
         IN  IF now = h.seen[v] THEN hb
             ELSE [with_obj_mut(hb, v, Shown(h.view[v], hb.heap[b]))
                     EXCEPT !.seen[v] = now]

\* What a loop reads goes past the copies, to the list at the bottom.
view_len(h, o) ==
    LET w == h.view[o]
    IN  CASE w.kind = "none" -> Len(h.heap[o])
          [] w.kind = "rev"  -> view_len(h, w.of)
          [] w.kind = "sub"  ->
               LET to == Lesser(w.to, view_len(h, w.of))
               IN  to - Lesser(w.from, to)

iter_at(h, o, i) ==
    LET w == h.view[o]
    IN  CASE w.kind = "none" -> h.heap[o][i]
          [] w.kind = "rev"  -> iter_at(h, w.of, view_len(h, o) + 1 - i)
          [] w.kind = "sub"  -> iter_at(h, w.of, w.from + i)

sublist_comodified(h, o) == /\ h.view[o].kind = "sub"
                            /\ h.mods[h.view[o].of] # h.submod[o]

\* Mutation: the list at the bottom is not reached.
splice_once(h, b, from, to, new) == with_obj_mut(h, b, splice(h.heap[b], from, to, new))

\* Replace a range of b; a subList passes the change on to its own backing.
splice_into(h, b, from, to, new) ==
    LET w == h.view[b]
    IN  IF w.kind = "sub"
        THEN LET hb    == refresh_view(h, b)
                 end   == Lesser(to, Len(hb.heap[b]))
                 whole == splice(hb.heap[b], Lesser(from, end), end, new)
             IN  set_sublist(splice_into(with_obj_mut(hb, b, whole), w.of, w.from, w.to, whole),
                             b, w.of, w.from, w.from + Len(whole))
        ELSE with_obj_mut(h, b, splice(h.heap[b], from, to, new))

\* Rust's Vec::splice: a range that ends beyond the list ends the interpreter.
\* Only the splice into the list at the bottom can: the others are clamped.
SplicePanics(h, w) ==
    /\ w.kind = "sub"
    /\ IF h.view[w.of].kind = "sub" THEN SplicePanics(h, h.view[w.of])
       ELSE w.to > Len(h.heap[w.of])

\* An indexed read inside the range of a subList is a read of its backing;
\* CME where a subList on the way is comodified.
index_get(h, o, i) ==
    IF sublist_comodified(h, o) THEN CME
    ELSE IF h.view[o].kind = "sub" /\ i \in 1..(h.view[o].to - h.view[o].from)
    THEN index_get(h, h.view[o].of, h.view[o].from + i)
    ELSE LET xs == refresh_view(h, o).heap[o]
         IN  IF i \in 1..Len(xs) THEN xs[i] ELSE OutOfBounds

\* Mutation: a sort is not counted.
note_mod_size(h, o, before, reorders) ==
    IF view_len(h, o) # before THEN [h EXCEPT !.mods[o] = @ + 1] ELSE h

note_mod(h, o, before, reorders) ==
    LET after == view_len(h, o)
    IN  IF after # before \/ (reorders /\ after > 1)
        THEN [h EXCEPT !.mods[o] = @ + 1] ELSE h

-----------------------------------------------------------------------------
(* A write: what it makes of the elements, as an operator on a sequence.   *)

\* Before the member runs the view is read again from its backing's range.
sublist_begin(h, o) ==
    LET w == h.view[o]
    IN  CASE w.kind = "sub" ->
               LET hp == refresh_view(h, w.of)
               IN  detach(with_obj_mut(hp, o, Shown(w, hp.heap[w.of])), o)
          [] w.kind = "rev" -> detach(refresh_view(h, o), o)
          [] w.kind = "none" -> h

\* What the splice after the member replaces: the range as it was before.
RangeBefore(h, o) == LET w == h.view[o]
                     IN  IF w.kind = "sub"
                         THEN Clamped(w, refresh_view(h, w.of).heap[w.of])
                         ELSE w

\* Mutation: the range keeps its end.
sublist_end_same_range(h, o, w) ==
    IF w.kind = "sub"
    THEN set_sublist(splice_into(h, w.of, w.from, w.to, h.heap[o]), o, w.of, w.from, w.to)
    ELSE h

\* The view's elements go into the backing object, and the view is a view
\* again.  A reversed view reaches its backing object only.
sublist_end(h, o, w) ==
    LET now == h.heap[o]
    IN  CASE w.kind = "sub" ->
               set_sublist(splice_into(h, w.of, w.from, w.to, now),
                           o, w.of, w.from, w.from + Len(now))
          [] w.kind = "rev" ->
               LET hb == with_obj_mut(h, w.of, Reverse(now))
               IN  track_view([hb EXCEPT !.view[o] = w], o, w.of)
          [] w.kind = "none" -> h

\* What a member makes of the elements; a place beyond them is refused.
Member(name, i, e) == [name |-> name, i |-> i, e |-> e]
Applied(m, xs) ==
    CASE m.name = "set" -> splice(xs, m.i - 1, m.i, <<m.e>>)
      [] m.name = "add" -> Append(xs, m.e)
      [] m.name = "removeAt" -> IF m.i \in DOMAIN xs THEN RemoveAt(xs, m.i) ELSE xs
      [] m.name = "sortDescending" -> SortSeq(xs, >)

sublist_write(h, o, member) ==
    LET hb == sublist_begin(h, o)
        hw == with_obj_mut(hb, o, Applied(member, hb.heap[o]))
    IN  sublist_end(hw, o, RangeBefore(h, o))

-----------------------------------------------------------------------------
(* A program that is Careful keeps to writes that everyone who has to      *)
(* notice them can notice.                                                 *)

RECURSIVE AboveIn(_, _)
AboveIn(view, o) == IF view[o].kind = "none" THEN {o} ELSE {o} \cup AboveIn(view, view[o].of)

\* Counted apart for each object: a structural write is seen by the subLists
\* made of the very object that was called, and by a loop over it.
Noticed(view, o) ==
    /\ \A u \in Objects : view[u].kind = "sub" /\ u \notin AboveIn(view, o) =>
          /\ view[u].of = o \/ host.mods[view[u].of] # host.submod[u]
          /\ \A x \in Objects : view[x].of # u
    /\ loop # NoLoop => loop.over = o

\* A reversed view carries its writes one level down only and counts none for
\* its list; sorting a subList counts, although it is no structural change.
Trackable(view, o, structural, sorts) ==
    /\ view[o].kind = "rev" =>
          /\ view[view[o].of].kind = "none"
          /\ structural => /\ \A u \in Objects : view[u].kind # "sub"
                           /\ loop = NoLoop
    /\ structural => Noticed(view, o)
    /\ sorts /\ view[o].kind = "sub" =>
          /\ \A u \in Objects : view[u].of # o
          /\ loop.over # o

-----------------------------------------------------------------------------
(* The operations of a program.  Every one but the for loop asks           *)
(* comod_check first, and changes nothing when it refuses.                 *)

\* What o is, whether or not it is in its table just now.
ViewOf(o) == IF call.on = o THEN call.view ELSE host.view[o]

Accepts(o) == ~sublist_comodified(host, o)

View(o, h, w) ==
    /\ Len(host.heap) < MaxObjects
    /\ LET v == Len(h.heap) + 1
           grown == [heap   |-> Append(h.heap, Shown(w, h.heap[o])),
                     view   |-> Append(h.view, NoView),
                     seen   |-> Append(h.seen, Untracked),
                     writes |-> Append(h.writes, Untracked),
                     mods   |-> Append(h.mods, 0),
                     submod |-> Append(h.submod, 0)]
       IN  host' = IF w.kind = "sub" THEN set_sublist(grown, v, o, w.from, w.to)
                   ELSE [track_view(grown, v, o) EXCEPT !.view[v] = w]
    /\ UNCHANGED <<loop, call, running, writes>>

\* Lists and their subLists only: a subList of a reversed view is not modelled.
SubList(o, from, to) ==
    /\ Accepts(o)
    /\ ViewOf(o).kind # "rev"
    /\ LET h == refresh_view(host, o)
       IN  /\ from <= to /\ to <= Len(h.heap[o])
           /\ View(o, h, [kind |-> "sub", of |-> o, from |-> from, to |-> to])

AsReversed(o) ==
    /\ Accepts(o)
    /\ View(o, refresh_view(host, o), [kind |-> "rev", of |-> o, from |-> 0, to |-> 0])

\* A member that reads, or a render: the view is copied again when it must be.
ToList(o) == /\ Accepts(o)
             /\ host' = refresh_view(host, o)
             /\ UNCHANGED <<loop, call, running, writes>>

Write(o, member, structural, sorts) ==
    /\ Accepts(o)
    /\ Careful => call = NoCall /\ Trackable(host.view, o, structural, sorts)
    /\ writes < MaxWrites
    /\ writes' = writes + 1
    /\ LET h == refresh_view(host, o)
       IN  IF SplicePanics(h, RangeBefore(h, o))
           THEN running' = FALSE /\ UNCHANGED host
           ELSE /\ host' = note_mod(sublist_write(h, o, member), o, view_len(h, o), sorts)
                /\ UNCHANGED running
    /\ UNCHANGED <<loop, call>>

Set(o, i, e) == /\ i \in 1..view_len(host, o)
                /\ Write(o, Member("set", i, e), FALSE, FALSE)

Add(o, e) == Write(o, Member("add", 0, e), TRUE, FALSE)

\* A place beyond the elements is refused by the member, after the view was
\* taken out of its table and before it is put back.
RemoveNth(o, i) ==
    Write(o, Member("removeAt", i, 0), i \in 1..view_len(host, o), FALSE)

SortDescending(o) ==
    Write(o, Member("sortDescending", 0, 0),
          host.view[o].kind = "none" /\ view_len(host, o) > 1, TRUE)

-----------------------------------------------------------------------------
(* The for loop over a list: its slots are filled at the head, KT_ITER_MORE *)
(* tests them before each pass.  Neither asks comod_check.                 *)

LoopStart(o) ==
    /\ loop = NoLoop /\ call = NoCall
    /\ Careful => host.view[o].kind # "rev" /\ Accepts(o)
    /\ loop' = [over |-> o, i |-> 0, n |-> view_len(host, o), mod |-> host.mods[o]]
    /\ UNCHANGED <<host, call, running, writes>>

iter_more == LET cur == view_len(host, loop.over)
             IN  IF cur = loop.n /\ host.mods[loop.over] = loop.mod
                 THEN IF loop.i < loop.n THEN "more" ELSE "end"
                 ELSE IF loop.i = cur THEN "end" ELSE "CME"

LoopStep ==
    /\ loop # NoLoop
    /\ loop' = IF iter_more = "more" THEN [loop EXCEPT !.i = @ + 1] ELSE NoLoop
    /\ UNCHANGED <<host, call, running, writes>>

-----------------------------------------------------------------------------
(* removeIf.  The predicate is asked about a copy of the elements while    *)
(* the view is out of its table; what it keeps is known by position.       *)

RemoveIfCalls(o) ==
    /\ call = NoCall /\ loop = NoLoop
    /\ Accepts(o)
    /\ writes < MaxWrites
    /\ LET h == refresh_view(host, o)
       IN  /\ host' = sublist_begin(h, o)
           /\ call' = [on |-> o, view |-> RangeBefore(h, o),
                       items |-> Len(host'.heap[o]), len |-> view_len(h, o)]
    /\ writes' = writes + 1
    /\ UNCHANGED <<loop, running>>

RemoveIfEnds(dropped) ==
    /\ call # NoCall
    /\ dropped \subseteq 1..call.items
    /\ Careful => Trackable([host.view EXCEPT ![call.on] = call.view], call.on,
                            dropped # {}, FALSE)
    /\ LET o    == call.on
           xs   == host.heap[o]
           kept == SelectSeq([i \in 1..Len(xs) |-> i], LAMBDA i : i \notin dropped)
           hw   == with_obj_mut(host, o, [k \in 1..Len(kept) |-> xs[kept[k]]])
       IN  IF SplicePanics(host, call.view)
           THEN running' = FALSE /\ UNCHANGED host
           ELSE /\ host' = note_mod(sublist_end(hw, o, call.view), o, call.len, FALSE)
                /\ UNCHANGED running
    /\ call' = NoCall
    /\ UNCHANGED <<loop, writes>>

-----------------------------------------------------------------------------
Next == /\ running
        /\ \/ LoopStep
           \/ \E dropped \in SUBSET (1..2) : RemoveIfEnds(dropped)
           \/ \E o \in Objects :
                 \/ AsReversed(o)
                 \/ ToList(o)
                 \/ SortDescending(o)
                 \/ LoopStart(o)
                 \/ RemoveIfCalls(o)
                 \/ \E from, to \in 0..Len(host.heap[o]) : SubList(o, from, to)
                 \/ \E i \in {1, view_len(host, o) + 1} : RemoveNth(o, i)
                 \/ \E e \in Values :
                       \/ Add(o, e)
                       \/ \E i \in {1, view_len(host, o)} : Set(o, i, e)

Spec == Init /\ [][Next]_vars

-----------------------------------------------------------------------------
(* The lists the program sees, as the Java library has them.               *)

JavaWindow(o) ==
    LET w == ViewOf(o)
    IN  [kind |-> IF w.kind = "none" THEN "list" ELSE w.kind, of |-> w.of, from |-> w.from,
         size |-> w.to - w.from,
         stale |-> w.kind = "sub" /\ host.mods[w.of] # host.submod[o]]

JavaLoop == IF loop = NoLoop THEN [over |-> 0, next |-> 1, stale |-> FALSE]
            ELSE [over |-> loop.over, next |-> loop.i + 1,
                  stale |-> \/ view_len(host, loop.over) # loop.n
                            \/ host.mods[loop.over] # loop.mod]

Java == INSTANCE JavaLists WITH items <- host.heap[1],
                                window <- [o \in Objects |-> JavaWindow(o)],
                                loop <- JavaLoop

\* Every step of a careful program is a step of the Java library's lists, or
\* one that changes nothing a program can see.
KeepsPromise == [][Java!Next]_(Java!vars)

\* Whatever was written through whatever view, what a read of any object would
\* answer now is what the list holds: a member that reads, an indexed read, and
\* the next pass of an open loop.
ReadsAreLive ==
    /\ \A o \in Objects : ~Java!Refused(o) =>
          /\ refresh_view(host, o).heap[o] = Java!Elements(o)
          /\ \A i \in 1..Java!Size(o) :
                /\ index_get(host, o, i) = Java!At(o, i)
                /\ iter_at(host, o, i) = Java!At(o, i)
          /\ view_len(host, o) = Java!Size(o)
    /\ loop # NoLoop => iter_more = Java!Pass

\* No write takes the interpreter down.
Survives == running

TypeOK ==
    /\ \A o \in Objects :
         /\ host.heap[o] \in Seq(Range(Initial) \cup Values)
         /\ host.view[o].of \in 0..(o - 1)
         /\ host.seen[o] \in Nat \cup {Untracked}
         /\ host.writes[o] \in Nat \cup {Untracked}
         /\ host.mods[o] \in Nat /\ host.submod[o] \in Nat
    /\ loop.over \in Objects \cup {0} /\ call.on \in Objects \cup {0}
    /\ running \in BOOLEAN /\ writes \in 0..MaxWrites

=============================================================================

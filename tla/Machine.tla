------------------------------ MODULE Machine ------------------------------
(***************************************************************************)
(* A fusevm machine and the operations that touch nothing else: the        *)
(* operand stack, the call frames and the host builtins that called back   *)
(* into the machine.  OwnMachines gives one machine to the program and one *)
(* to every sequence block; Coroutine runs them all on a single one.       *)
(***************************************************************************)
EXTENDS Integers, Sequences

CONSTANTS Iter,     \* the iterator { ... } objects of a chunk
          Exc,      \* throwables
          Val,      \* operand values
          Undef,    \* Value::Undef, what a pop of an empty stack answers
          EndMark,  \* ITER_END, the marker a spent lazy loop source answers
          Yes, No,  \* the booleans hasNext answers
          None      \* no value, no throwable, no iterator

LocalOps == {"load", "pop", "set", "get", "inc", "jump", "jumpIfEnd", "call", "return"}
Asks == {"next", "has", "pull"}
OpName == LocalOps \cup Asks \cup
  {"println", "raise", "check", "take", "depth", "cut", "stash", "unstash", "each", "yield"}

Op == [ op : OpName, to : Nat, arg : Val, exc : Exc, it : Iter, n : Nat ]

\* A frame keeps one local of the program and, in another, the depth a try saved;
\* `own' is that depth above the frame's base as it was then (history: nothing in
\* the code reads it).  A run is a vm.run() a host builtin started: forEach, or a
\* pull.
Frame == [ ret : Nat, base : Int, slot : Val, depth : Nat, own : Nat ]
Run == [ kind : {"each"} \cup Asks, it : Iter \cup {None}, left : Nat,
         base : Int, frame : Int, ip : Nat ]

ASSUME ValuesAssumption ==
  /\ {Undef, EndMark, Yes, No} \subseteq Val /\ 0..9 \subseteq Val
  /\ None \notin Val /\ None \notin Exc /\ None \notin Iter
  /\ {"StackOverflowError", "NoSuchElementException"} \subseteq Exc

End(c) == Len(c.ops) + 1
OpAt(c, m) == c.ops[m.ip]
Front(s) == SubSeq(s, 1, Len(s) - 1)
Tip(s) == IF s = <<>> THEN Undef ELSE s[Len(s)]
Truncate(s, n) == IF n <= Len(s) THEN SubSeq(s, 1, n) ELSE s
Drop(s, n) == SubSeq(s, n + 1, Len(s))

Top(m) == m.frames[Len(m.frames)]
Advance(m) == [m EXCEPT !.ip = @ + 1]
Push(m, v) == [m EXCEPT !.stack = Append(@, v)]
PopOne(m) == [m EXCEPT !.stack = Front(@)]
Enter(m, entry, ret, base) ==
  [m EXCEPT !.ip = entry,
            !.frames = Append(@, [ret |-> ret, base |-> base, slot |-> Undef, depth |-> 0, own |-> 0])]
SetSlot(m, v) == [m EXCEPT !.frames[Len(m.frames)].slot = v]

NoMachine == [ ip |-> 0, frames |-> <<>>, stack |-> <<>>, runs |-> <<>> ]

\* ReturnValue drops what the frame left above its base.
Leave(m) ==
  [m EXCEPT !.ip = Top(m).ret,
            !.stack = Append(Truncate(Front(@), Top(m).base), Tip(@)),
            !.frames = Front(@)]

\* One local operation.
After(c, m) ==
  LET o == OpAt(c, m)
      v == Tip(m.stack)
  IN  CASE o.op = "load"      -> Advance(Push(m, o.arg))
        [] o.op = "pop"       -> Advance(PopOne(m))
        [] o.op = "set"       -> Advance(PopOne(SetSlot(m, v)))
        [] o.op = "get"       -> Advance(Push(m, Top(m).slot))
        [] o.op = "inc"       -> Advance(Push(PopOne(m), IF v \in 0..8 THEN v + 1 ELSE v))
        [] o.op = "jump"      -> [m EXCEPT !.ip = o.to]
        [] o.op = "jumpIfEnd" -> [PopOne(m) EXCEPT !.ip = IF v = EndMark THEN o.to ELSE @ + 1]
        [] o.op = "call"      -> Enter(m, o.to, m.ip + 1, Len(m.stack))
        [] o.op = "return"    -> Leave(m)

(***************************************************************************)
(* forEach { ... }: a builtin that runs a closure once per element, each   *)
(* in a run of its own.  quiet says a throwable is unwinding, full that    *)
(* no further run may start.                                               *)
(***************************************************************************)
Each(m, n) ==
  [m EXCEPT !.runs = Append(@, [kind |-> "each", it |-> None, left |-> n,
                                base |-> Len(m.stack), frame |-> Len(m.frames), ip |-> m.ip + 1])]

\* invoke_closure on the next element, or the builtin's answer after the last
\* one.  An unwinding throwable suppresses the elements that are left.
Element(c, m, quiet) ==
  LET r == m.runs[Len(m.runs)]
      o == c.ops[r.ip - 1]
  IN  IF r.left = 0 \/ quiet
      THEN [m EXCEPT !.runs = Front(@), !.ip = r.ip, !.stack = Append(@, Undef)]
      ELSE Enter([m EXCEPT !.runs[Len(m.runs)].left = @ - 1,
                           !.stack = Append(@, o.n - r.left + 1)],
                 o.to, End(c), Len(m.stack))
\* run_sub refuses the first element with the parameter already on the stack,
\* and the throwable it raises suppresses the others.
Refused(c, m) == Advance(Push(Push(m, 1), Undef))
=============================================================================

---------------------------- MODULE MCCoroutine ----------------------------
(***************************************************************************)
(* Programs for Coroutine.  A program is assembled from pieces: main, the  *)
(* blocks of the iterators a and b, a function f the blocks may call, and  *)
(* the closure g a forEach runs.  Jumps are relative to their piece.        *)
(***************************************************************************)
EXTENDS Coroutine, TLC

CONSTANTS a, b, boom

Excs == {boom, "StackOverflowError", "NoSuchElementException"}
Vals == {Undef, EndMark, Yes, No} \cup 0..9

I == [op |-> "pop", to |-> 0, arg |-> Undef, exc |-> boom, it |-> a, n |-> 0]
Do(name)      == [I EXCEPT !.op = name]
Load(v)       == [I EXCEPT !.op = "load", !.arg = v]
To(name, t)   == [I EXCEPT !.op = name, !.to = t]
Ask(name, k)  == [I EXCEPT !.op = name, !.it = k]
RaiseOp(e)    == [I EXCEPT !.op = "raise", !.exc = e]
EachOf(n)     == [I EXCEPT !.op = "each", !.to = 5, !.n = n]
CallF         == To("call", 4)

PopIt == Do("pop")
EndUnit == <<Load(Undef), Do("return")>>
YieldIt(v) == <<Load(v), Do("yield"), PopIt>>
Show == <<Do("println"), PopIt>>

Jumps == {"jump", "check", "jumpIfEnd"}
Located(piece, at, entries) ==
  [i \in DOMAIN piece |->
     IF piece[i].op \in Jumps THEN [piece[i] EXCEPT !.to = @ + at]
     ELSE IF piece[i].op \in {"call", "each"} THEN [piece[i] EXCEPT !.to = entries[@]]
     ELSE piece[i]]
Assemble(p) ==
  LET at[i \in 1..5] == IF i = 1 THEN 0 ELSE at[i - 1] + Len(p[i - 1])
      entries == [i \in 1..5 |-> at[i] + 1]
      placed == [i \in 1..5 |-> Located(p[i], at[i], entries)]
  IN  [ ops |-> placed[1] \o placed[2] \o placed[3] \o placed[4] \o placed[5],
        main |-> 1,
        block |-> (a :> [entry |-> entries[2], captures |-> <<7>>]
                @@ b :> [entry |-> entries[3], captures |-> <<7>>]) ]

(* ---- blocks: the prologue stores the capture in the block's local --------- *)

Prologue == <<Do("set")>>
Finite == Prologue \o YieldIt(1) \o YieldIt(2) \o EndUnit
\* var n = 7; while (true) yield(n++)
Endless == Prologue \o <<Do("get"), Do("yield"), PopIt, Do("get"), Do("inc"), Do("set"), To("jump", 2)>>
\* 7 + (yield(1); n): an operand stays below across the suspension.
Operand == Prologue \o <<Load(5)>> \o YieldIt(1) \o Show \o YieldIt(2) \o EndUnit
\* The yield is in a function the block calls.
Helper == Prologue \o <<CallF, PopIt, Do("get"), Do("yield"), PopIt>> \o EndUnit
Fails == Prologue \o YieldIt(1) \o <<RaiseOp(boom), PopIt, To("check", 8)>> \o EndUnit
\* try { throw boom } catch { } finally { }, then yield
Recovers == Prologue \o <<Do("depth"), Load(3), RaiseOp(boom), PopIt, To("check", 8), To("jump", 10),
                          Do("cut"), Do("take"), Do("stash"), Do("unstash")>> \o YieldIt(1) \o EndUnit
\* for (x in a) yield(x)
All == Prologue \o <<Ask("pull", a), Do("set"), To("check", 11), Do("get"), To("jumpIfEnd", 11),
                     Do("get"), Do("yield"), PopIt, To("jump", 2)>> \o EndUnit
\* if (a.hasNext()) yield(a.next()); println inside a forEach
Peeks == Prologue \o <<Ask("has", a), PopIt, To("check", 13), Ask("next", a), Do("set"),
                       To("check", 13), Do("get"), Do("yield"), PopIt, EachOf(2), PopIt>> \o EndUnit

F == YieldIt(3) \o <<Load(4)>> \o <<Do("return")>>
Gulp == <<Do("set"), Ask("next", b)>> \o Show \o <<To("check", 6), Load(Undef), Do("return")>>
Says == <<Do("set"), Do("get")>> \o Show \o EndUnit

(* ---- mains: statements over an operand, under a try ----------------------- *)

\* Each statement leaves the stack as it found it and ends in an unwind check.
Handler == 20
Statement ==
  { <<Ask("next", a)>> \o Show, <<Ask("next", b)>> \o Show,
    <<Ask("has", a)>> \o Show, <<EachOf(2), PopIt>> }
Guarded(s) == s \o <<To("check", Handler)>>
Padded(s) == s \o [i \in 1..(18 - Len(s)) |-> To("check", Handler)]
\* n = 9; 5 + try { s1; s2; s3 } catch { } finally { a.next() }; println(n)
Main(s1, s2, s3) ==
  Padded(<<Load(9), Do("set"), Load(5), Do("depth")>> \o Guarded(s1) \o Guarded(s2) \o Guarded(s3))
  \o <<To("jump", 22), Do("cut"), Do("take"),
       Do("stash"), Ask("next", a), PopIt, Do("unstash"), To("check", 32)>>
  \o Show \o <<Do("get")>> \o Show \o EndUnit
\* for (x in b) n = x: nothing is printed, so that going round it again is
\* the same state again.
Loop == <<Load(9), Do("set"), Ask("pull", b), Do("set"), To("check", 9), Do("get"), To("jumpIfEnd", 9),
          To("jump", 3)>> \o EndUnit

Mains == {Main(s1, s2, s3) : s1, s2, s3 \in Statement}
BlocksOfA == {Finite, Endless, Operand, Helper, Fails, Recovers}
BlocksOfB == {All, Peeks}
Closures == {Gulp, Says}

PlainChunks ==
  {Assemble(<<m, x, y, F, g>>) : m \in Mains, x \in BlocksOfA, y \in BlocksOfB, g \in Closures}
  \cup {Assemble(<<Loop, x, y, F, Says>>) : x \in BlocksOfA \ {Endless}, y \in {All, Finite, Helper}}

(* ---- a map of every chunk --------------------------------------------------- *)

Least(S) == CHOOSE x \in S : \A y \in S : x <= y
\* What the operation at i leaves: one operand more, one less, ...
Effect(o) ==
  CASE o.op \in {"load", "get", "raise", "call", "each"} \cup Asks -> 1
    [] o.op \in {"pop", "set", "jumpIfEnd", "return"} -> -1
    [] OTHER -> 0
\* The operations before j that control comes from.
Into(c, jumps, j) ==
  {i \in {j - 1} \ {0} : c.ops[i].op \notin {"jump", "return"}}
  \cup {i \in jumps : i < j /\ c.ops[i].to = j}
\* Code nothing leads to starts a closure, unless it is main or called.
EntryHeight(c, e) ==
  IF e = c.main \/ \E i \in DOMAIN c.ops : c.ops[i].op = "call" /\ c.ops[i].to = e THEN 0 ELSE 1
\* Blocks and the function they call, but neither main nor a forEach closure.
MayYield(c) ==
  {i \in DOMAIN c.ops : /\ \E k \in Iter : c.block[k].entry <= i
                       /\ \A j \in DOMAIN c.ops : c.ops[j].op = "each" => i < c.ops[j].to}
\* What the operation at i leaves, reached with f.h operands and f.s spared.
Leaves(o, f) ==
  CASE o.op = "depth" -> [f EXCEPT !.s = f.h]
    [] o.op = "cut" -> [f EXCEPT !.h = Least({f.h, f.s})]
    [] o.op = "yield" -> [f EXCEPT !.s = Lost]
    [] o.op = "call" -> [h |-> f.h + 1, s |-> Lost]
    [] OTHER -> [f EXCEPT !.h = @ + Effect(o)]
MapOf(c) ==
  LET jumps == {i \in DOMAIN c.ops : c.ops[i].op \in Jumps}
      Reached(at, j) ==
        LET from == {Leaves(c.ops[i], at[i]) : i \in Into(c, jumps, j)}
        IN  IF from = {} THEN [h |-> EntryHeight(c, j), s |-> Lost]
            ELSE [h |-> Least({f.h : f \in from}), s |-> Least({f.s : f \in from})]
      upTo[j \in 0..Len(c.ops)] ==
        IF j = 0 THEN <<>> ELSE LET at == upTo[j - 1] IN Append(at, Reached(at, j))
      at == upTo[Len(c.ops)]
  IN  [ height |-> [j \in DOMAIN c.ops |-> at[j].h], saved |-> [j \in DOMAIN c.ops |-> at[j].s],
        yields |-> MayYield(c) ]

(* ---- an account of every chunk where no block waits for itself ---------------- *)

\* The last three pieces - block b, f and the closure - end in their one return.
FromEnd(c, n) == {i \in DOMAIN c.ops :
  c.block[b].entry <= i /\ Cardinality({j \in i..Len(c.ops) : c.ops[j].op = "return"}) = n}
Asking(c, S) == \E i \in S : c.ops[i].op \in Asks
\* main asks both blocks, and so may its closures; b asks a.
RankOf(c) ==
  LET closure == FromEnd(c, 1)
      top == (1..c.block[a].entry - 1) \cup IF Asking(c, closure) THEN closure ELSE {}
      middle == FromEnd(c, 3)
  IN  [i \in DOMAIN c.ops |-> IF i \in top THEN 2 ELSE IF i \in middle THEN 1 ELSE 0]
\* How many finalizers are open at i, and whether nothing can be in flight.
Opens(o) == CASE o.op = "stash" -> 1 [] o.op = "unstash" -> -1 [] OTHER -> 0
Quiet(c, i, j, calm) ==
  LET o == c.ops[i]
  IN  CASE o.op = "check" -> j # o.to
        [] o.op \in {"take", "stash", "yield"} -> TRUE
        [] o.op \in {"raise", "unstash", "call", "each"} \cup Asks -> FALSE
        [] OTHER -> calm
AccountOf(c) ==
  LET jumps == {i \in DOMAIN c.ops : c.ops[i].op \in Jumps}
      Reached(at, j) ==
        LET from == Into(c, jumps, j)
            calls == {i \in DOMAIN at : c.ops[i].op = "call" /\ c.ops[i].to = j}
        IN  [ open |-> IF from = {} THEN 0 ELSE LET i == Least(from) IN at[i].open + Opens(c.ops[i]),
              calm |-> /\ \A i \in from : Quiet(c, i, j, at[i].calm)
                       /\ \A i \in calls : at[i].calm ]
      upTo[j \in 0..Len(c.ops)] ==
        IF j = 0 THEN <<>> ELSE LET at == upTo[j - 1] IN Append(at, Reached(at, j))
      at == upTo[Len(c.ops)]
  IN  [ parks |-> [i \in DOMAIN c.ops |-> at[i].open], rank |-> RankOf(c),
        calm |-> {i \in DOMAIN c.ops : at[i].calm} ]
\* A block that runs a closure that asks it waits for itself.
Circular(c) == Asking(c, FromEnd(c, 1)) /\ \E i \in FromEnd(c, 3) : c.ops[i].op = "each"

\* try { yield(1); throw boom } catch { yield(2) }, resumed one operand deeper:
\* listOf(it.next()), then listOf(8, it.next()).
TryAcrossYield ==
  Prologue \o <<Do("depth")>> \o YieldIt(1) \o
  <<RaiseOp(boom), PopIt, To("check", 9), Do("cut"), Do("take")>> \o YieldIt(2) \o EndUnit
TwoDepths == <<Ask("next", a)>> \o Show \o <<Load(8), Ask("next", a)>> \o Show \o Show \o EndUnit
DeepTry == {Assemble(<<TwoDepths, TryAcrossYield, Finite, F, Says>>)}

\* xs.forEach { yield(it) }
YieldInEach == Prologue \o <<EachOf(2), PopIt>> \o EndUnit
YieldsIt == <<Do("set"), Do("get"), Do("yield"), PopIt>> \o EndUnit
EachYields == {Assemble(<<Loop, Finite, YieldInEach, F, YieldsIt>>)}

\* finally { yield(1) }, pulled from a finalizer of the consumer
YieldInFinally == Prologue \o <<Do("stash")>> \o YieldIt(1) \o <<Do("unstash"), To("check", 8)>> \o EndUnit
PullInFinally ==
  <<Do("depth"), RaiseOp(boom), PopIt, Do("stash"), Ask("next", a)>> \o Show \o
  <<Do("unstash"), To("check", 10)>> \o EndUnit
FinallyYields == {Assemble(<<PullInFinally, YieldInFinally, Finite, F, Says>>)}

\* Every chunk the runs use is one the theorems of Coroutine speak of.
ASSUME BalancedAssumption ==
  \A c \in PlainChunks :
    LET a_map == MapOf(c)
        account == AccountOf(c)
    IN  /\ a_map \in Maps(c) /\ Verified(c, a_map)
        /\ ~Circular(c) => account \in Accounts(c) /\ Apart(c, a_map, account)
=============================================================================

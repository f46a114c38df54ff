------------------------------- MODULE Kotlin -------------------------------
(***************************************************************************)
(* The statements the exception protocol is about, and what Kotlin says     *)
(* they do: a big-step reference semantics in terms of completions, after   *)
(* the rules for try, finally and jumps the tests in tests/lang.rs and      *)
(* tests/data/parity_expected.txt were captured from.  Module Lowering       *)
(* compiles the same statements the way src/compiler.rs does.               *)
(*                                                                          *)
(* A program is a record of function bodies, each a sequence of statements; *)
(* main prints what f returns.  What a program does is the sequence of its  *)
(* effects: what it prints, assigns to x and adds to xs.                    *)
(***************************************************************************)
EXTENDS Naturals, Sequences

Log(m)            == [ k |-> "log", m |-> m ]             \* println(m)
ThrowE(e)         == [ k |-> "throw", e |-> e ]
FaultE(e)         == [ k |-> "fault", e |-> e ]           \* 1 / 0
Ret(m)            == [ k |-> "ret", m |-> m ]             \* return m
RetCall(g)        == [ k |-> "retcall", g |-> g ]         \* return g()
Brk(lvl)          == [ k |-> "brk", lvl |-> lvl ]         \* lvl loops out
Cont(lvl)         == [ k |-> "cont", lvl |-> lvl ]
CallF(g)          == [ k |-> "callf", g |-> g ]
Show(g)           == [ k |-> "show", g |-> g ]            \* println(g())
Arg(m, s)         == [ k |-> "arg", m |-> m, s |-> s ]    \* println(m + s)
Assign(g)         == [ k |-> "assign", g |-> g ]          \* x = g()
Put(m, s)         == [ k |-> "put", m |-> m, s |-> s ]    \* xs.add(m + s)
Block(body)       == [ k |-> "block", body |-> body ]     \* if (true) { }, as operand
Loop(body)        == [ k |-> "loop", body |-> body ]      \* for (i in 1..2)
While(at, g, body) ==                                     \* while (i++ < at || g())
  [ k |-> "while", at |-> at, g |-> g, body |-> body ]
Each(body)        == [ k |-> "each", body |-> body ]      \* xs.forEach { }
Catching(body)    == [ k |-> "catching", body |-> body ]  \* runCatching { }
Arm(ty, body)     == [ ty |-> ty, body |-> body ]
Try(b, arms, fin) == [ k |-> "try", body |-> b, arms |-> arms, fin |-> fin ]

\* How often a loop body or a forEach lambda runs when nothing leaves it.
Times == 2

(* ---- completions ------------------------------------------------------- *)

Normal      == [ t |-> "normal", v |-> "", n |-> 0 ]
Thrown(e)   == [ t |-> "throw", v |-> e, n |-> 0 ]
Returned(v) == [ t |-> "return", v |-> v, n |-> 0 ]
Broken(n)   == [ t |-> "break", v |-> "", n |-> n ]
Continued(n) == [ t |-> "continue", v |-> "", n |-> n ]

Result(o, c) == [ out |-> o, c |-> c ]

\* r, and then, when r completed normally, s.
Then(r, s) == IF r.c = Normal THEN Result(r.out \o s.out, s.c) ELSE r

ArmFor(arms, e) ==
  LET hits == { i \in 1..Len(arms) : arms[i].ty \in {"Throwable", e} }
  IN  IF hits = {} THEN 0 ELSE CHOOSE i \in hits : \A j \in hits : i <= j

RECURSIVE Do(_, _), DoAll(_, _), Iterate(_, _, _)

DoAll(body, funs) ==
  IF body = <<>> THEN Result(<<>>, Normal)
  ELSE Then(Do(Head(body), funs), DoAll(Tail(body), funs))

\* A call completes normally with a value, or throws.
DoCall(g, funs) ==
  LET r == DoAll(funs[g], funs)
  IN  IF r.c.t = "throw" THEN r ELSE Result(r.out, Normal)

CallValue(g, funs) ==
  LET c == DoAll(funs[g], funs).c
  IN  IF c.t = "return" THEN c.v ELSE "Unit"

\* n more iterations of a body, whose own breaks and continues end there.
Iterate(n, body, funs) ==
  IF n = 0 THEN Result(<<>>, Normal)
  ELSE LET r == DoAll(body, funs)
       IN  CASE r.c \in {Normal, Continued(0)} ->
                  Then(Result(r.out, Normal), Iterate(n - 1, body, funs))
             [] r.c = Broken(0) -> Result(r.out, Normal)
             [] r.c.t \in {"break", "continue"} ->
                  Result(r.out, [r.c EXCEPT !.n = @ - 1])
             [] OTHER -> r

RECURSIVE IterateWhile(_, _, _)
IterateWhile(n, s, funs) ==
  LET c == IF Times - n + 1 < s.at THEN Result(<<>>, Normal) ELSE DoCall(s.g, funs)
      r == DoAll(s.body, funs)
  IN  IF n = 0 \/ c.c # Normal THEN c
      ELSE Then(c,
             IF r.c \in {Normal, Continued(0)}
             THEN Then(Result(r.out, Normal), IterateWhile(n - 1, s, funs))
             ELSE IF r.c = Broken(0) THEN Result(r.out, Normal)
             ELSE IF r.c.t \in {"break", "continue"}
                  THEN Result(r.out, [r.c EXCEPT !.n = @ - 1]) ELSE r)

\* The finalizer runs however the body and its handler completed, and what
\* it completes with, when it does not complete normally, replaces that.
DoTry(s, funs) ==
  LET b == DoAll(s.body, funs)
      i == IF b.c.t = "throw" THEN ArmFor(s.arms, b.c.v) ELSE 0
      h == IF i = 0 THEN b
           ELSE LET r == DoAll(s.arms[i].body, funs) IN Result(b.out \o r.out, r.c)
      f == DoAll(s.fin, funs)
  IN  Result(h.out \o f.out, IF f.c = Normal THEN h.c ELSE f.c)

Do(s, funs) ==
  CASE s.k = "log" -> Result(<<s.m>>, Normal)
    [] s.k \in {"throw", "fault"} -> Result(<<>>, Thrown(s.e))
    [] s.k = "ret" -> Result(<<>>, Returned(s.m))
    [] s.k = "retcall" -> Then(DoCall(s.g, funs),
                               Result(<<>>, Returned(CallValue(s.g, funs))))
    [] s.k = "brk" -> Result(<<>>, Broken(s.lvl))
    [] s.k = "cont" -> Result(<<>>, Continued(s.lvl))
    [] s.k = "callf" -> DoCall(s.g, funs)
    [] s.k \in {"show", "assign"} -> Then(DoCall(s.g, funs),
      Result(<<CallValue(s.g, funs)>>, Normal))
    [] s.k \in {"arg", "put"} -> Then(Do(s.s, funs), Result(<<s.m>>, Normal))
    [] s.k \in {"loop", "each"} -> Iterate(Times, s.body, funs)
    [] s.k = "while" -> IterateWhile(Times, s, funs)
    [] s.k = "block" -> DoAll(s.body, funs)
    [] s.k = "catching" ->
         LET r == DoAll(s.body, funs)
         IN  IF r.c.t = "throw" THEN Result(r.out, Normal) ELSE r
    [] s.k = "try" -> DoTry(s, funs)

(***************************************************************************)
(* What the whole program does: what it printed, and the throwable the run *)
(* reports when one leaves main.                                           *)
(***************************************************************************)
Main == << Show("f") >>

Meaning(prog) ==
  LET r == DoAll(Main, prog)
  IN  [ out |-> r.out, report |-> IF r.c.t = "throw" THEN r.c.v ELSE "none" ]

=============================================================================

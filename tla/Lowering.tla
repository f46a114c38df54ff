------------------------------ MODULE Lowering ------------------------------
(***************************************************************************)
(* The compile-time half of the exception protocol: how src/compiler.rs     *)
(* lowers the statements of module Kotlin to the operations of module       *)
(* Unwind.  Code is built with symbolic labels, which stand for the forward *)
(* jumps the compiler collects and patches; Resolve turns them into         *)
(* addresses.  A context is the part of the Compiler's state the lowering   *)
(* of a statement reads:                                                    *)
(*    unwind  the innermost UnwindFrame: its kind and where its jumps go    *)
(*    rets    finally_returns: the slot and the return path of each try     *)
(*            that owns a finally, innermost last                           *)
(*    exits   finally_exits: loops open at entry, and the path of the try   *)
(*    loops   the break and continue targets of the open loops              *)
(*    nlr     whether this function claims a non-local return (nlr_catch)   *)
(*    lambda  whether a return here is non-local                            *)
(*    slot    the next free slot (Scope::temp)                              *)
(*    has     has_try: whether unwind checks are emitted at all             *)
(*    parked, depth   static picture: finalizers of this frame running, and *)
(*            operands under the statement                                  *)
(***************************************************************************)
EXTENDS Kotlin, SequencesExt, FiniteSets

NoLabel == << <<>>, "" >>
Label(p, name) == << p, name >>

O(c, op) ==
  [ op |-> op, to |-> NoLabel, arg |-> "Undef", exc |-> "Throwable",
    fun |-> c.fn, slot |-> 0, n |-> 0, parked |-> c.parked, depth |-> c.depth ]
OTo(c, op, l)   == << [O(c, op) EXCEPT !.to = l] >>
OArg(c, op, v)  == << [O(c, op) EXCEPT !.arg = v] >>
OSlot(c, op, s) == << [O(c, op) EXCEPT !.slot = s] >>
OExc(c, op, e)  == << [O(c, op) EXCEPT !.exc = e] >>
Mark(c, l)      == OTo(c, "label", l)
LoadUndef(c)    == OArg(c, "load", "Undef")
Pops(c, n)      == [ i \in 1..n |-> O(c, "pop") ]
CallTo(c, g)    == OTo(c, "call", Label(<<>>, g))

Deeper(c) == [c EXCEPT !.depth = @ + 1]

(* ---- what the program contains ------------------------------------------ *)

RECURSIVE Has(_, _)
\* body_any: whether a statement for which a kind is in ks sits in body,
\* nested bodies included.
Has(body, ks) ==
  \E i \in 1..Len(body) :
    LET s == body[i]
    IN  \/ s.k \in ks
        \/ s.k \in {"loop", "while", "each", "catching", "block", "try"} /\ Has(s.body, ks)
        \/ s.k \in {"arg", "put"} /\ Has(<<s.s>>, ks)
        \/ s.k = "try" /\ Has(s.fin, ks)
        \/ s.k = "try" /\ \E a \in 1..Len(s.arms) : Has(s.arms[a].body, ks)

RECURSIVE HasNonlocalReturn(_)
HasNonlocalReturn(body) ==
  \E i \in 1..Len(body) :
    LET s == body[i]
    IN  \/ s.k \in {"each", "catching"} /\ Has(s.body, {"ret", "retcall"})
        \/ s.k \in {"loop", "while", "block", "try"} /\ HasNonlocalReturn(s.body)
        \/ s.k \in {"arg", "put"} /\ HasNonlocalReturn(<<s.s>>)
        \/ s.k = "try" /\ HasNonlocalReturn(s.fin)
        \/ s.k = "try" /\ \E a \in 1..Len(s.arms) : HasNonlocalReturn(s.arms[a].body)

UsesExceptions(prog) ==
  \E g \in DOMAIN prog :
    Has(prog[g], {"try", "throw", "catching"}) \/ HasNonlocalReturn(prog[g])

(* ---- the unwind check ---------------------------------------------------- *)

\* Where a check goes when a throwable is in flight.
Unwinding(c, p) ==
  IF c.unwind.kind # "frame" THEN OTo(c, "jump", c.unwind.to)
  ELSE (IF c.nlr
        THEN OTo(c, "nlrMatch", Label(p, "other")) \o << O(c, "nlrTake"), O(c, "return") >>
             \o Mark(c, Label(p, "other"))
        ELSE <<>>)
       \o LoadUndef(c) \o << O(c, "return") >>

CheckDropping(c, p, n) ==
  IF ~c.has THEN <<>>
  ELSE << [O(c, "jumpNotPending") EXCEPT !.to = Label(p, "ok"), !.depth = @ + n] >>
       \o Pops(c, n) \o Unwinding(c, p)
       \o Mark(c, Label(p, "ok"))

Check(c, p) == CheckDropping(c, p, 0)

(* ---- jumps that leave a try ------------------------------------------------ *)

ExitLabel(p, isBreak, target) ==
  Label(p \o << IF isBreak THEN 1 ELSE 0, target >>, "exit")

\* Mutation: a loop opened just before the try counts as inside it.
RouteLoopExitPast(c, isBreak, target) ==
  IF c.exits # <<>> /\ target < Last(c.exits).loops
  THEN OTo(c, "jump", ExitLabel(Last(c.exits).path, isBreak, target))
  ELSE OTo(c, "jump", IF isBreak THEN c.loops[target].brk ELSE c.loops[target].cont)

\* route_loop_exit: parked on the innermost try with a finally when the
\* target loop was opened before that try.
RouteLoopExit(c, isBreak, target) ==
  IF c.exits # <<>> /\ target <= Last(c.exits).loops
  THEN OTo(c, "jump", ExitLabel(Last(c.exits).path, isBreak, target))
  ELSE OTo(c, "jump", IF isBreak THEN c.loops[target].brk ELSE c.loops[target].cont)

\* The tail of a return: leave the frame, or park the value for the return
\* path of the innermost try with a finally.
ParkReturn(c) ==
  IF c.rets = <<>> THEN << O(c, "return") >>
  ELSE OSlot(c, "set", Last(c.rets).slot) \o OTo(c, "jump", Last(c.rets).to)

(* ---- statements -------------------------------------------------------------- *)

RECURSIVE Stmt(_, _, _), Expr(_, _, _), Stmts(_, _, _), Arms(_, _, _, _, _)

IsExpr(s) == s.k \in {"log", "throw", "fault", "callf", "show", "arg", "put", "each",
                      "catching", "block", "try"}

Stmts(body, c, p) ==
  IF body = <<>> THEN <<>>
  ELSE Stmts(Front(body), c, p) \o Stmt(Last(body), c, p \o << Len(body) >>)

\* compile_block_value: the last statement's value is the block's.
BlockValue(body, c, p) ==
  IF body = <<>> THEN LoadUndef(c)
  ELSE Stmts(Front(body), c, p)
       \o LET s == Last(body)
              q == p \o <<Len(body)>>
          IN  IF IsExpr(s) THEN Expr(s, c, q) ELSE Stmt(s, c, q) \o LoadUndef(c)

\* compile_lambda_body: a frame of its own, entered only by host builtins.
LambdaCtx(c) ==
  [c EXCEPT !.unwind = [kind |-> "frame", to |-> NoLabel], !.rets = <<>>,
            !.exits = <<>>, !.loops = <<>>, !.nlr = FALSE, !.lambda = TRUE,
            !.slot = 0, !.parked = 0, !.depth = 0]

Lambda(body, c, p, n) ==
  LET l == LambdaCtx(c)
  IN  OTo(c, "jump", Label(p, "past")) \o Mark(l, Label(p, "lambda"))
      \o BlockValue(body, l, p) \o << O(l, "pop") >> \o LoadUndef(l) \o << O(l, "return") >>
      \o Mark(c, Label(p, "past"))
      \o << [O(c, "invoke") EXCEPT !.to = Label(p, "lambda"), !.n = n] >>

\* Mutation: the finalizer runs without parking the throwable in flight.
EmitFinallyBare(fin, c, p) == Stmts(fin, c, p)

\* Mutation: a throwable in the finalizer leaves it without the unstash.
EmitFinallySkips(fin, c, p) ==
  LET f == [c EXCEPT !.unwind = [kind |-> "try", to |-> Label(p, "unstash")],
                     !.parked = @ + 1]
  IN  << O(c, "stash") >> \o Stmts(fin, f, p)
      \o << O(f, "unstash") >> \o Mark(f, Label(p, "unstash"))

\* emit_finally: one copy of a finalizer.
EmitFinally(fin, c, p) ==
  LET f == [c EXCEPT !.unwind = [kind |-> "try", to |-> Label(p, "unstash")],
                     !.parked = @ + 1]
  IN  << O(c, "stash") >> \o Stmts(fin, f, p) \o Mark(f, Label(p, "unstash"))
      \o << O(f, "unstash") >>

JumpsTo(code, l) == \E i \in 1..Len(code) : code[i].op = "jump" /\ code[i].to = l

\* The handlers, tried in order; h is the context their bodies run under.
Arms(arms, c, h, p, fin) ==
  IF arms = <<>> THEN <<>>
  ELSE LET a == Last(arms)
           q == p \o << 10 + Len(arms) >>
       IN  Arms(Front(arms), c, h, p, fin)
           \o << [O(c, "match") EXCEPT !.exc = a.ty, !.to = Label(q, "next")], O(c, "take") >>
           \o BlockValue(a.body, h, q) \o OSlot(c, "set", c.slot) \o Check(h, q)
           \o OTo(c, "jump", fin) \o Mark(c, Label(q, "next"))

RECURSIVE ExitPaths(_, _, _, _, _)
\* The loop-exit paths: a copy of the finalizer for each break or continue
\* that was parked on this try, to the loops from the t-th inward.
ExitPaths(s, code, c, p, t) ==
  LET path(isBreak) ==
        LET l == ExitLabel(p, isBreak, t)
        IN  IF ~JumpsTo(code, l) THEN <<>>
            ELSE Mark(c, l)
                 \o EmitFinally(s.fin, [c EXCEPT !.slot = @ + 3],
                                p \o << 7, IF isBreak THEN 1 ELSE 0, t >>)
                 \o RouteLoopExit(c, isBreak, t)
  IN  IF t > Len(c.loops) THEN <<>>
      ELSE path(TRUE) \o path(FALSE) \o ExitPaths(s, code, c, p, t + 1)

\* compile_try.
TryExpr(s, c, p) ==
  LET hasFinally == s.fin # <<>>
      res == c.slot
      dep == c.slot + 1
      ret == c.slot + 2
      \* the context while this try's own return path and exits are open
      own == [c EXCEPT !.slot = @ + 3,
                !.rets = IF hasFinally
                         THEN Append(@, [slot |-> ret, to |-> Label(p, "ret")]) ELSE @,
                !.exits = IF hasFinally
                          THEN Append(@, [loops |-> Len(c.loops), path |-> p]) ELSE @]
      out == [c EXCEPT !.slot = @ + 3]
      b == [own EXCEPT !.unwind = [kind |-> "try", to |-> Label(p, "dispatch")]]
      h == [own EXCEPT !.unwind = [kind |-> "try", to |-> Label(p, "fin")]]
      guarded ==
        OSlot(c, "depth", dep)
        \o BlockValue(s.body, b, p \o <<10>>) \o OSlot(c, "set", res) \o Check(b, p \o <<6>>)
        \o OTo(c, "jump", Label(p, "fin"))
        \o Mark(c, Label(p, "dispatch")) \o OSlot(c, "cut", dep)
        \o LoadUndef(c) \o OSlot(c, "set", res)
        \o Arms(s.arms, c, h, p, Label(p, "fin"))
        \o Mark(c, Label(p, "fin"))
        \o (IF hasFinally THEN EmitFinally(s.fin, own, p \o <<9>>) ELSE <<>>)
      retPath ==
        IF ~JumpsTo(guarded, Label(p, "ret")) THEN <<>>
        ELSE Mark(c, Label(p, "ret"))
             \o EmitFinally(s.fin, out, p \o <<8>>)
             \o OSlot(c, "get", ret) \o ParkReturn(c)
  IN  guarded \o OSlot(c, "get", res) \o OTo(c, "jump", Label(p, "over"))
      \o retPath \o ExitPaths(s, guarded, c, p, 1) \o Mark(c, Label(p, "over"))

Expr(s, c, p) ==
  CASE s.k = "log" -> OArg(c, "load", s.m) \o << O(c, "println") >>
    [] s.k \in {"throw", "fault"} -> OExc(c, s.k, s.e)
    [] s.k = "callf" -> CallTo(c, s.g)
    [] s.k = "show" -> CallTo(c, s.g) \o << O(c, "println") >>
    \* the concatenation of m and the operand is left as m
    [] s.k = "arg" -> OArg(c, "load", s.m) \o Expr(s.s, Deeper(c), p \o <<1>>)
                      \o << O(c, "pop"), O(c, "println") >>
    [] s.k = "put" -> OArg(c, "load", s.m) \o Expr(s.s, Deeper(c), p \o <<1>>)
                      \o << O(c, "pop"), O(c, "store") >> \o OArg(c, "load", "Unit")
    [] s.k = "block" -> BlockValue(s.body, c, p)
    [] s.k = "each" -> Lambda(s.body, c, p, Times)
    [] s.k = "catching" -> Lambda(s.body, c, p, 0)
    [] s.k = "try" -> TryExpr(s, c, p)
    \* Expr::Jump: a jump as an operand
    [] OTHER -> Stmt(s, c, p) \o LoadUndef(c)

Return(value, c, p) ==
  IF c.lambda THEN value \o << O(c, "nlrRaise"), O(c, "pop") >>
  ELSE value \o (IF c.nlr THEN CheckDropping(c, p \o <<1>>, 1) ELSE <<>>) \o ParkReturn(c)

\* compile_for: rotated, so the bounds test appears twice; a continue still
\* advances the counter.
For(s, c, p) ==
  LET done == Label(p, "done")
      l == [c EXCEPT !.slot = @ + 1, !.unwind = [kind |-> "loop", to |-> done],
              !.loops = Append(@, [brk |-> done, cont |-> Label(p, "cont")])]
      test == OArg(c, "load", "i")
              \o << [O(c, "test") EXCEPT !.slot = c.slot, !.n = Times] >>
  IN  OSlot(c, "count", c.slot)
      \o test \o OTo(c, "jumpIfFalse", done) \o Check(l, p \o <<1>>)
      \o Mark(c, Label(p, "top")) \o Stmts(s.body, l, p \o <<2>>)
      \o Mark(c, Label(p, "cont"))
      \o << [O(c, "count") EXCEPT !.slot = c.slot, !.n = Times + 1] >>
      \o test \o OTo(c, "jumpIfTrue", Label(p, "top")) \o Mark(c, done)

\* The condition i++ < at || g(), over the count of the evaluations.
Condition(s, c, p) ==
  LET count(n) == << [O(c, "test") EXCEPT !.slot = c.slot, !.n = n] >>
  IN  OArg(c, "load", "i") \o count(s.at - 1) \o OTo(c, "jumpIfTrue", Label(p, "short"))
      \o CallTo(c, s.g) \o OTo(c, "jump", Label(p, "both"))
      \o Mark(c, Label(p, "short")) \o OArg(c, "load", "i")
      \o Mark(c, Label(p, "both")) \o count(Times)

\* Mutation: the bottom test has no check of its own.
WhileLoopUnchecked(s, c, p) ==
  LET done == Label(p, "done")
      l == [c EXCEPT !.slot = @ + 1, !.unwind = [kind |-> "loop", to |-> done],
              !.loops = Append(@, [brk |-> done, cont |-> Label(p, "cont")])]
      test(q) == Condition(s, c, q)
  IN  OSlot(c, "count", c.slot)
      \o test(p \o <<4>>) \o OTo(c, "jumpIfFalse", done) \o Check(l, p \o <<1>>)
      \o Mark(c, Label(p, "top")) \o Stmts(s.body, l, p \o <<2>>)
      \o Mark(c, Label(p, "cont"))
      \o << [O(c, "count") EXCEPT !.slot = c.slot, !.n = Times + 1] >>
      \o test(p \o <<5>>) \o OTo(c, "jumpIfTrue", Label(p, "top")) \o Mark(c, done)

\* StmtKind::While: the bottom copy of the condition has a check of its own.
WhileLoop(s, c, p) ==
  LET done == Label(p, "done")
      l == [c EXCEPT !.slot = @ + 1, !.unwind = [kind |-> "loop", to |-> done],
              !.loops = Append(@, [brk |-> done, cont |-> Label(p, "cont")])]
      test(q) == Condition(s, c, q)
  IN  OSlot(c, "count", c.slot)
      \o test(p \o <<4>>) \o OTo(c, "jumpIfFalse", done) \o Check(l, p \o <<1>>)
      \o Mark(c, Label(p, "top")) \o Stmts(s.body, l, p \o <<2>>)
      \o Mark(c, Label(p, "cont"))
      \o << [O(c, "count") EXCEPT !.slot = c.slot, !.n = Times + 1] >>
      \o test(p \o <<5>>) \o CheckDropping(l, p \o <<3>>, 1)
      \o OTo(c, "jumpIfTrue", Label(p, "top")) \o Mark(c, done)

StmtInner(s, c, p) ==
  CASE s.k = "ret" -> Return(OArg(c, "load", s.m), c, p)
    [] s.k = "retcall" -> Return(CallTo(c, s.g), c, p)
    \* a raise in the value must not be committed to the variable
    [] s.k = "assign" -> CallTo(c, s.g) \o CheckDropping(c, p \o <<1>>, 1) \o << O(c, "store") >>
    [] s.k = "brk" -> RouteLoopExit(c, TRUE, Len(c.loops) - s.lvl)
    [] s.k = "cont" -> RouteLoopExit(c, FALSE, Len(c.loops) - s.lvl)
    [] s.k = "loop" -> For(s, c, p)
    [] s.k = "while" -> WhileLoop(s, c, p)
    [] OTHER -> Expr(s, c, p) \o << O(c, "pop") >>

\* compile_stmt: the statement, then the unwind check.
Stmt(s, c, p) == StmtInner(s, c, p) \o Check(c, p)

(* ---- functions and the chunk ---------------------------------------------- *)

FunCtx(name, nlr, has) ==
  [ unwind |-> [kind |-> "frame", to |-> NoLabel], rets |-> <<>>, exits |-> <<>>,
    loops |-> <<>>, fn |-> name, nlr |-> nlr, lambda |-> FALSE, slot |-> 0,
    has |-> has, parked |-> 0, depth |-> 0 ]

FunCode(name, body, has, p) ==
  LET c == FunCtx(name, HasNonlocalReturn(body), has)
  IN  Mark(c, Label(<<>>, name)) \o Stmts(body, c, p)
      \o OArg(c, "load", "Unit") \o << O(c, "return") >>

\* The program's entry: call main, report what walked out of it.
Entry(has) ==
  LET c == FunCtx("main", FALSE, has)
  IN  CallTo(c, "main") \o << O(c, "pop") >>
      \o (IF has THEN OTo(c, "jumpNotPending", Label(<<>>, "ok"))
                      \o << O(c, "abort"), O(c, "pop") >> \o Mark(c, Label(<<>>, "ok"))
          ELSE <<>>)
      \o << O(c, "exit") >>

\* patch_jump: labels become addresses.
Resolve(raw) ==
  LET labels == { i \in 1..Len(raw) : raw[i].op = "label" }
      addr == [ l \in { raw[i].to : i \in labels } |->
                  LET i == CHOOSE i \in labels : raw[i].to = l
                  IN  1 + i - Cardinality({ j \in labels : j <= i }) ]
      real == SelectSeq(raw, LAMBDA o : o.op # "label")
  IN  [ i \in 1..Len(real) |->
          [real[i] EXCEPT !.to = IF @ = NoLabel THEN 0 ELSE addr[@]] ]

Compile(prog) ==
  LET has == UsesExceptions(prog)
  IN  [ ops |-> Resolve(Entry(has)
                        \o FunCode("main", Main, has, <<1>>)
                        \o FunCode("f", prog.f, has, <<2>>)
                        \o FunCode("g", prog.g, has, <<3>>)),
        catchable |-> has, prog |-> prog ]

=============================================================================

------------------------------ MODULE MCUnwind ------------------------------
(***************************************************************************)
(* Families of Kotlin programs, compiled by Lowering and run by Unwind.     *)
(***************************************************************************)
EXTENDS Unwind, TLC, FiniteSetsExt

CONSTANT Programs   \* the programs of a run: one of the families below

K == INSTANCE Kotlin
L == INSTANCE Lowering

(* ---- families ------------------------------------------------------------ *)

Handled(ty) == << K!Arm(ty, << K!Log("catch") >>) >>

\* What a guarded block may do to leave it.
Leaving ==
  { << K!Log("body") >>, << K!ThrowE("E1"), K!Log("dead") >>, << K!ThrowE("E2") >>,
    << K!FaultE("E1") >>, << K!Ret("r") >>, << K!CallF("g"), K!Log("called") >>,
    << K!Arg("arg", K!CallF("g")) >>, << K!Assign("g") >> }

Jumps == { << K!Brk(0) >>, << K!Cont(0), K!Log("dead") >> }

Fins == { <<>>, << K!Log("fin") >>,
          << K!Try(<< K!ThrowE("E2") >>, Handled("E2"), << K!Log("fin") >>) >> }

ArmsOf == { <<>>, Handled("E1"),
            << K!Arm("E1", << K!ThrowE("E2") >>) >>,
            << K!Arm("E2", << K!Ret("h") >>), K!Arm("Throwable", << K!CallF("g") >>) >> }

Tries(bodies) ==
  { K!Try(b, a, f) : b \in bodies, a \in ArmsOf, f \in Fins }
    \ { K!Try(b, <<>>, <<>>) : b \in bodies }

Callees == { << K!ThrowE("E1") >>, << K!Log("g"), K!Ret("v") >>,
             << K!Each(<< K!Ret("w") >>) >> }

Prog(body, g) == [ f |-> body \o << K!Log("end"), K!Ret("z") >>, g |-> g ]

Outer(t) ==
  { << t, K!Log("after") >>,
    << K!Try(<< t, K!Log("after") >>, <<>>, << K!Log("FIN") >>) >>,
    << K!Try(<< t >>, Handled("E2"), << K!Log("FIN") >>) >>,
    << K!Arg("x", t) >>,
    << K!Each(<< t, K!Log("after") >>) >>,
    << K!Catching(<< t >>) >> }

InLoop(t) ==
  { << K!Loop(<< t, K!Log("after") >>) >>,
    << K!Loop(<< K!Try(<< t, K!Log("after") >>, <<>>, << K!Log("FIN") >>) >>) >>,
    << K!Try(<< K!Loop(<< t >>) >>, Handled("Throwable"), << K!Log("FIN") >>) >> }

CleanPrograms ==
  UNION { { Prog(body, g) : body \in Outer(t), g \in Callees } : t \in Tries(Leaving) }
LoopPrograms ==
  UNION { { Prog(body, g) : body \in InLoop(t), g \in Callees }
          : t \in Tries(Leaving \cup Jumps) }
NestedPrograms == CleanPrograms \cup LoopPrograms


\* Operands under an abandoned statement, loops whose condition raises.
Staying == { t \in Tries(Leaving \ { << K!Ret("r") >> }) : t.arms \in { <<>>, Handled("E1") } }
Operand(t) == { << K!Try(<< K!Arg("x", K!Block(<< t, K!Log("after") >>)) >>,
                         Handled("Throwable"), << K!Log("FIN") >>) >> }
OperandPrograms ==
  UNION { { Prog(body, g) : body \in Operand(t), g \in Callees }
          : t \in Staying \cup {K!CallF("g"), K!ThrowE("E1")} }

Bodies == { <<>>, << K!Log("body") >>, << K!Brk(0) >>, << K!Cont(0) >>, << K!ThrowE("E2") >> }
Whiles(w) == { << w >>, << K!Try(<< w >>, <<>>, << K!Log("fin") >>) >>,
               << K!Loop(<< w >>) >>, << K!Each(<< w >>) >> }
WhilePrograms ==
  UNION { { Prog(<< K!Try(body, Handled(ty), <<>>) >>, g) :
              body \in Whiles(K!While(at, "g", b)), g \in Callees, ty \in {"E1", "E2"} }
          : at \in {1, 2}, b \in Bodies }

\* No try, no throw: a fault is uncatchable and halts the run at once.
UncatchablePrograms ==
  { Prog(<< K!Log("body"), s >>, << K!FaultE("E1") >>) :
      s \in { K!CallF("g"), K!While(1, "g", <<>>), K!Each(<< K!CallF("g") >>) } }

AllPrograms == NestedPrograms \cup OperandPrograms \cup WhilePrograms \cup UncatchablePrograms

(* ---- families where the code and Kotlin part ways ------------------------- *)

\* try { return g() } catch ...
ReturnedCall == { Prog(<< K!Try(<< K!RetCall("g") >>, Handled("E1"), <<>>) >>, g) : g \in Callees }

\* try { try { return } finally { throw } } catch ...
ThrowOnTheWayOut ==
  { Prog(<< K!Try(<< K!Try(<< b >>, <<>>, << f >>) >>, Handled("E1"), <<>>) >>, g) :
      b \in {K!Ret("r"), K!Log("body")}, f \in {K!ThrowE("E1"), K!CallF("g")}, g \in Callees }

\* finally { return }
JumpFromFinally ==
  { Prog(<< K!Try(<< b >>, <<>>, << K!Log("fin"), K!Ret("h") >>) >>, g) :
      b \in {K!Log("body"), K!ThrowE("E1")}, g \in Callees }

\* A finalizer that runs a whole non-local return of its own.
ReturnInFinally ==
  { Prog(<< K!Try(<< K!Each(<< K!Ret("r") >>) >>, <<>>, << K!CallF("g") >>) >>, g) :
      g \in Callees }

\* x ?: break, as an operand
OperandJump ==
  { Prog(<< K!Loop(<< K!Arg("x", j) >>), K!Log("after") >>, g) :
      j \in { K!Brk(0), K!Cont(0), K!Log("body") }, g \in Callees }

\* x + try { try { throw } catch (e) { y + g() } finally { fin } } ...: the finalizer
\* of a handler abandoned inside an operand runs over what it left there.
HandlerOperand ==
  { Prog(<< K!Try(<< K!Try(<< K!ThrowE("E1") >>,
                           << K!Arm("E1", << K!Arg("x", K!Block(<< K!CallF("g"), K!Log("after") >>)) >>) >>,
                           << K!Log("fin") >>) >>, Handled("Throwable"), <<>>),
            K!Log("after") >>, g) : g \in Callees }

\* xs.add(g())
MutatedAnyway ==
  { Prog(<< K!Try(<< K!Put("p", K!CallF("g")) >>, Handled("E1"), <<>>) >>, g) : g \in Callees }

MCChunks == { L!Compile(p) : p \in Programs }
MCVal == { "Undef", "false", "true", "Unit", "i", "body", "dead", "r", "called", "arg",
           "fin", "h", "v", "w", "z", "end", "after", "FIN", "x", "catch", "g", "p" }
MCExc == { "E1", "E2", "Throwable", "$return" }

(* ---- the operands ----------------------------------------------------------- *)

\* What two ways to an operation have in common.
Weaker(e, n) == IF e.flight = "some" \/ (e.exact # "no" /\ e.depth = n) THEN "calm" ELSE "no"
Join(p, q) ==
  LET n == IF p.depth <= q.depth THEN p.depth ELSE q.depth
  IN  [ depth |-> n,
        exact |-> IF {p.exact, q.exact} = {"yes"} /\ p.depth = q.depth THEN "yes"
                  ELSE IF {Weaker(p, n), Weaker(q, n)} = {"calm"} THEN "calm" ELSE "no",
        flight |-> IF p.flight = q.flight THEN p.flight ELSE "any",
        marks |-> p.marks \cap q.marks, outer |-> p.outer /\ q.outer ]

\* One pass over the chunk, with what an earlier one knew for the jumps back:
\* for each operation the one fact known there, or nothing if it is not reached.
Extended(c, at, before) ==
  LET j == Len(at) + 1
      over == IF j > 1 /\ c.ops[j - 1].op \in Falls
              THEN { Behind(c.ops[j - 1], p) : p \in at[j - 1] } ELSE {}
      jumps == { i \in DOMAIN c.ops : c.ops[i].op \in Names /\ c.ops[i].to = j }
      ways == UNION { { Ahead(c.ops[i], p) : p \in IF i < j THEN at[i] ELSE before[i] } : i \in jumps }
              \cup over \cup (IF j = 1 THEN { Started } ELSE {})
  IN  Append(at, IF ways = {} THEN {} ELSE { FoldSet(Join, CHOOSE w \in ways : TRUE, ways) })

RECURSIVE Further(_, _, _, _)
\* By halves, so that TLC's stack stays shallow.
Further(c, at, before, n) ==
  IF n = 1 THEN Extended(c, at, before)
  ELSE CHOOSE r \in { Further(c, half, before, n - (n \div 2))
                      : half \in { Further(c, at, before, n \div 2) } } : TRUE
Pass(c, before) == Further(c, <<>>, before, Len(c.ops))

FactsOf(c) ==
  LET none == [ j \in 1..Len(c.ops) |-> {} ]
      known == Pass(c, Pass(c, Pass(c, none)))
  IN  [ j \in { j \in 1..Len(c.ops) : known[j] # {} } |-> CHOOSE p \in known[j] : TRUE ]

\* Every chunk of the run is one the theorems of Unwind speak of.
ASSUME SizedAssumption ==
  \A c \in MCChunks : LET a == FactsOf(c)
                        IN  (\A i \in DOMAIN a : a[i] \in Fact) /\ SizedBy(c, a)

(* ---- properties ------------------------------------------------------------ *)

AgreesWithKotlin ==
  status # "run" =>
    LET m == K!Meaning(chunk.prog)
    IN  /\ out = m.out
        /\ (report = None) = (m.report = "none")
        /\ report # None => report = m.report

=============================================================================

------------------------------- MODULE MCParser --------------------------------
(***************************************************************************)
(* Syntax trees spelled as Kotlin spells them (KotlinSyntax), on one line or on   *)
(* many, and read by Parser: the trees that come out are the ones that went in.   *)
(***************************************************************************)
EXTENDS Parser

CONSTANT Careful     \* of the one who writes

VARIABLES program,   \* what is being read, as trees
          layout     \* and how it was written

Kotlin == INSTANCE KotlinSyntax

ASSUME CarefulAssumption == Careful \subseteq Kotlin!Situations

A == Var("a")
B == Var("b")
C == Var("c")
F == Node("call", "f", << B >>)
T == Node("type", "T", <<>>)
Inc == Node("after", "++", << A >>)

(* ---- every operator of the language once ---------------------------------- *)

Plain(op, name) == [op |-> op, name |-> name]
TwoOperands ==
  { Plain("binary", o) : o \in {"||", "&&", "==", "<", ">", "+", "-", "*"} } \cup
  { Plain("method", w) : w \in {"and", "union", "foo", "m"} } \cup
  { Plain("range", w) : w \in {"..", "until"} } \cup
  { Plain("in", ""), Plain("!in", ""), Plain("elvis", ""), Plain("pair", ""), Plain("step", ""),
    Plain("index", ""), Plain("?method", "m"), Plain("invoke", "") }
OneOperand ==
  { Plain("prefix", "-"), Plain("prefix", "!"), Plain("method", "unaryPlus"), Plain("notnull", ""),
    Plain("member", "m"), Plain("?member", "m"), Plain("method", "m"), Plain("is", ""), Plain("!is", ""),
    Plain("as", ""), Plain("as?", ""), Plain("call", "f"), Plain("throw", ""), Plain("return", ""),
    Plain("if", ""), Plain("when", ""), Plain("lambda", ""), Plain("funref", "m"), Plain("member", "class"),
    Plain("call", "step") }

Of2(o, l, r) == IF o.op = "invoke" THEN Node(o.op, "", << l >>) ELSE Node(o.op, o.name, << l, r >>)
Of1(o, e) ==
  CASE o.op \in {"is", "!is", "as", "as?"} -> Node(o.op, "", << e, T >>)
    [] o.op = "if" -> Node("if", "", << A, List(<< B >>), List(<< e >>) >>)
    [] o.op = "when" -> Node("when", "", << None, Node("arm", "", << List(<< A >>), List(<< e >>) >>),
                                            Node("arm", "", << None, List(<< B >>) >>) >>)
    [] o.op = "lambda" -> Node("call", "f", << Node("lambda", "", << List(<<>>), List(<< e >>) >>) >>)
    [] OTHER -> Node(o.op, o.name, << e >>)

\* e as an operand of each of them.
Around(e, two, one) ==
  UNION { { Of2(o, e, C), Of2(o, C, e) } : o \in two } \cup { Of1(o, e) : o \in one }
Over(es, two, one) == UNION { Around(e, two, one) : e \in es }

\* Chains of three, of one operator a level.
Two3 == { o \in TwoOperands : o.name \notin {"||", ">", "-", "union", "foo", "until"} /\ o.op \notin {"!in", "?method", "step"} }
One3 == { o \in OneOperand : o.name \notin {"!", "unaryPlus", "class"} /\ o.op \notin {"!is", "as?", "?member", "return", "call"} }

Once == Over({A, F, Inc}, TwoOperands, OneOperand)
Twice == Over(Over({A}, Two3, One3), Two3, One3)

(* ---- statements one after another ------------------------------------------------ *)

Val(x, e) == Node("val", x, << e >>)
Set(lhs, o, e) == Node("assign", o, << lhs, e >>)
Index(e, i) == Node("index", "", << e, i >>)
Member(e) == Node("member", "m", << e >>)
Method(e, name, args) == Node("method", name, << e >> \o args)
Plus(l, r) == Node("binary", "+", << l, r >>)
Less(l, r) == Node("binary", "<", << l, r >>)
Is(e) == Node("is", "", << e, T >>)
Lambda(params, body) == Node("lambda", "", << List(params), List(body) >>)
If(c, then) == Node("if", "", << c, List(then) >>)
IfElse(c, then, els) == Node("if", "", << c, List(then), List(els) >>)
Return == Node("return", "", <<>>)

Ends(e) == { << e >>, << Val("c", e) >>, << Set(A, "+=", e) >>, << Node("return", "", << e >>) >>,
             << If(A, << e >>) >>, << Node("call", "f", << Lambda(<<>>, << Val("c", e) >>) >>) >> }
Begins == { A, Var("union"), Var("and"), Var("step"), Node("call", "step", <<A>>), Node("call", "to", <<A>>),
            Node("funref", "f", <<>>), Method(Plus(A, B), "m", <<>>), Node("prefix", "-", <<A>>), Inc,
            Node("before", "++", <<A>>), Node("method", "unaryPlus", <<A>>), Set(Index(A, B), "-=", C),
            Node("prefix", "!", << Node("prefix", "!", <<A>>) >>), IfElse(A, <<B>>, <<C>>), Return }
Pairs == UNION { { e \o << b >> : e \in Ends(x), b \in Begins } : x \in Once \cup {Inc, Plus(Inc, A)} }

(* ---- assignments, calls, lambdas -------------------------------------------------- *)

Method2(e) == Method(e, "get", <<B, C>>)
Stores ==
  { << Set(l, o, e) >> : l \in {A, Member(F), Index(Member(A), B), Member(Node("notnull", "", <<A>>))},
                        o \in {"=", "+=", "*="}, e \in {B, Less(A, B), Is(A), Lambda(<<A>>, <<B>>)} } \cup
  { << Method(l, "set", << B, C, e >>) >> : l \in {A, F, Method2(A)},
       e \in {A, Inc} } \cup
  { << Method(l, "set", << B, C, Plus(Method2(l), e) >>) >> : l \in {A}, e \in {A} } \cup
  { << Method(l, "plusAssign", << e >>) >> : l \in {F, Node("notnull", "", <<F>>), Method(A, "m", <<>>)},
                                            e \in {B, Less(A, B)} }

Args_ == { B, Less(A, B), Node("spread", "", << Index(A, B) >>), Node("named", "b", << Plus(A, B) >>),
           Node("named", "step", << B >>), Lambda(<<>>, << A, B >>), Lambda(<< A, List(<<B, C>>) >>, << C >>),
           Lambda(<< Node("var", "a", << Var("T") >>), B >>, << C >>),
           Lambda(<< List(<<A>>) >>, <<>>), Lambda(<<>>, << Plus(A, B), Method(Plus(A, B), "m", <<>>) >>),
           Node("elvis", "", << A, Node("throw", "", <<B>>) >>) }
Calls == { << Node("call", f, args) >> : f \in {"f", "step"},
             args \in { <<x, y>> : x, y \in Args_ } \cup { <<x>> : x \in Args_ } \cup {<<>>} }
Generic == { Node("reify", "", << List(ts), c >>) :
               ts \in { << Var("T") >>, << Var("T"), Var("a") >> },
               c \in { Node("call", "f", << B >>), Node("call", "f", << B, Lambda(<<>>, <<A>>) >>),
                       Method(A, "m", << Less(A, B) >>), Method(F, "m", << Lambda(<<A>>, <<Is(A)>>) >>) } }
Reified == { << e >> : e \in Generic } \cup { << Node("invoke", "", << e >>) >> : e \in Generic }

(* ---- branches, arms and loops -------------------------------------------------------- *)

Bodies == { <<>>, << A >>, << Inc, F >>, << Return >>, << If(A, << F >>) >>, << Node("break", "", <<>>) >>,
            << Set(A, "=", IfElse(A, <<B>>, <<C>>)) >>, << Node("return", "", << Is(A) >>) >>,
            << Node("do", "", << List(<< F >>), Less(A, B) >>) >>,
            << Node("for", "a", << Node("range", "until", <<A, B>>), List(<<F>>) >>) >> }
Branches == { << IfElse(Less(A, B), t, e), F >> : t \in Bodies, e \in Bodies } \cup
            { << If(Is(A), t), F >> : t \in Bodies } \cup
            { << Node("while", "", << Node("in", "", <<A, B>>), List(t) >>), A >> : t \in Bodies }

IsArm(negated, type) == Node(IF negated THEN "!is" ELSE "is", "", << None, type >>)
InArm(e) == Node("in", "", << None, e >>)
Types == { T, Node("type?", "T", <<>>), Node("type", "L", <<>>) }
Conditions == { << c >> : c \in { A, F, Node("prefix", "-", <<B>>), Plus(A, B), IsArm(FALSE, T), IsArm(TRUE, T),
                                  InArm(A), InArm(Node("range", "..", << A, Plus(B, C) >>)),
                                  InArm(Node("step", "", << Node("range", "until", <<A, B>>), C >>)) } \cup
                                { IsArm(FALSE, t) : t \in Types } }
              \cup { << A, InArm(Node("range", "downTo", <<A, B>>)) >>, << IsArm(FALSE, T), B >> }
Arm(conds, body) == Node("arm", "", << List(conds), List(body) >>)
ArmBodies == { << A >>, << Is(A) >>, << F >>, << Inc >>, << If(A, <<B>>) >>, << Member(A) >>, << F, A >>,
               << Node("elvis", "", << A, B >>) >>, << Node("as", "", << A, T >>) >>,
               << Node("when", "", << None, Arm(<< Is(A) >>, << B >>), Arm(<< Is(B) >>, << C >>) >>) >> }
Whens ==
  { << Node("when", "", << A, Arm(c, x), Arm(d, y) >>), F >> :
      c \in Conditions, d \in Conditions, x \in ArmBodies, y \in {<<A>>} } \cup
  { << Node("when", "", << None, Arm(<<c>>, x), Arm(<<d>>, << F >>), Node("arm", "", << None, List(<<B>>) >>) >>) >> :
      c \in {Is(A), Less(A, B), F}, d \in {Is(B), Node("binary", ">", << B, IfElse(A, <<B>>, <<C>>) >>), Node("prefix", "!", <<A>>),
             Node("call", "f", << Lambda(<<A>>, << Is(A) >>) >>)}, x \in ArmBodies }

\* A type makes a difference only to lambdas.
Given(p) == /\ program = p
            /\ layout \in Kotlin!Layouts \ (IF p \in Calls THEN {} ELSE {"typed"})
            /\ toks = <<>>
            /\ pos = 0
            /\ stmts = <<>>

\* An operator around an operator, chains of three of them, and everything else.
Init == \/ \E x \in Once : \E e \in Around(x, TwoOperands, OneOperand) : Given(<< e >>)
        \/ \E x \in Twice : \E e \in Around(x, Two3, One3) : Given(<< e >>)
        \/ \E p \in Pairs \cup Stores \cup Calls \cup Reified \cup Branches \cup Whens : Given(p)

\* The lexer hands over the tokens.
Write == /\ pos = 0
         /\ toks' = Kotlin!Spelled(program, layout)
         /\ pos' = 1
         /\ UNCHANGED <<stmts, program, layout>>

Finished == pos > Len(toks) /\ UNCHANGED <<vars, program, layout>>

MCNext == \/ Write
          \/ (pos > 0 /\ Next /\ UNCHANGED <<program, layout>>)
          \/ Finished
Spec == Init /\ [][MCNext]_<<vars, program, layout>>

\* A program is read as it was written, one statement after the other.
ReadAsWritten ==
  /\ Len(stmts) <= Len(program)
  /\ \A i \in DOMAIN stmts : stmts[i] = program[i]
  /\ pos > Len(toks) => Len(stmts) = Len(program)
=============================================================================

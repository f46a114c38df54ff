----------------------------- MODULE KotlinSyntax ------------------------------
(***************************************************************************)
(* How Kotlin spells a syntax tree: parentheses only where the precedence of the *)
(* language asks for them, and line breaks where its grammar lets an expression   *)
(* go on. A tree written so and read back must be the same tree.                  *)
(***************************************************************************)
EXTENDS Naturals, Sequences

CONSTANTS Idents,      \* the names a program uses
          InfixNames,  \* the functions declared infix
          Careful      \* where a careful writer writes more than the language needs (below)

\* The situations of Careful: an `as` before `?:`, a call of `e!!`, a link after `i++`, a bare
\* return before else, comparisons side by side, a statement that begins like the rest of one, a
\* call by the name of a soft keyword with nothing but a lambda.
Situations == {"cast_elvis", "sure_call", "counted_link", "return_else", "comparisons",
               "statement_starts", "soft_call"}

\* A token that may begin a line, and the place between two statements.
Tok(k) == << [k |-> k, br |-> FALSE] >>
NewStatement == Tok("NL")
May(s) == IF s = <<>> THEN s ELSE << [Head(s) EXCEPT !.br = TRUE] >> \o Tail(s)
Last_(s) == s[Len(s)].k
Spells(s, k) == \E i \in DOMAIN s : s[i].k = k

(* ---- precedence --------------------------------------------------------------- *)

Binaries == [o \in {"||", "&&", "==", "!=", "===", "!==", "<", ">", "<=", ">=", "+", "-", "*", "/", "%"} |->
               CASE o = "||" -> 1 [] o = "&&" -> 2 [] o \in {"==", "!=", "===", "!=="} -> 3
                 [] o \in {"<", ">", "<=", ">="} -> 4 [] o \in {"+", "-"} -> 9 [] OTHER -> 10]
Bitwise_ == {"and", "or", "xor", "shl", "shr", "ushr"}
StdlibInfix == {"union", "intersect", "subtract", "zip", "contentEquals", "matches"}
IsInfixCall(e) == /\ e.op = "method" /\ Len(e.kids) = 2
                  /\ e.name \in InfixNames \cup Bitwise_ \cup StdlibInfix
IsSoft(k) == k \in {"until", "downTo", "step", "data"}
IsType(k) == k \in {"T", "L"}

\* What has no place in an operand without parentheses is 0, what is closed 14.
Prec(e) ==
  CASE e.op = "binary" -> Binaries[e.name]
    [] e.op \in {"is", "!is", "in", "!in"} -> 5
    [] e.op = "elvis" -> 6
    [] IsInfixCall(e) \/ e.op \in {"pair", "step"} -> 7
    [] e.op = "range" -> IF e.name = ".." THEN 8 ELSE 7
    [] e.op \in {"as", "as?"} -> 11
    [] e.op = "prefix" \/ (e.op = "method" /\ e.name = "unaryPlus") -> 12
    [] e.op = "before" -> 12
    [] e.op = "after" -> IF "counted_link" \in Careful THEN 12 ELSE 13
    [] e.op = "funref" -> 12
    [] e.op \in {"if", "when", "throw", "return", "assign", "val", "while"} -> 0
    [] OTHER -> 13

\* What a call may follow without parentheses: for the language anything but a name, whose
\* call is another tree.
RECURSIVE Callable(_)
Callable(e) == \/ e.op \in {"call", "reify", "invoke", "index", "lambda"} \/ (e.op = "method" /\ Prec(e) = 13)
               \/ e.op = "notnull" /\ ("sure_call" \in Careful => Callable(e.kids[1]))
Jumps == {"throw", "return"}

(* ---- spelling --------------------------------------------------------------------- *)

RECURSIVE Sep(_, _)
Sep(seqs, between) == IF Len(seqs) < 2 THEN IF seqs = <<>> THEN <<>> ELSE Head(seqs)
                      ELSE Head(seqs) \o between \o Sep(Tail(seqs), between)
Enclosed(open, s, close) == Tok(open) \o s \o (IF close = "}" THEN May(Tok(close)) ELSE Tok(close))
TypeOf(t) == Tok(t.name) \o (IF t.name = "L" THEN Tok("<") \o Tok("T") \o Tok(">") ELSE <<>>)
             \o (IF t.op = "type?" THEN Tok("?") ELSE <<>>)

\* e as an operand of level n, and two more places: where anything may stand that is no
\* statement, and as a whole statement, or where nothing goes on behind it. Defined last.
RECURSIVE Write(_, _)
Whole == 20
Bare(e) == Write(e, 0)
Written(e) == Write(e, Whole)
In_(s) == Enclosed("(", s, ")")

\* e spelled before the operator o of level n: a type is read on over `<`, and by a `?:`.
Left(e, n, o) ==
  LET s == Write(e, n)
      swallowed == \/ o = "<" /\ \E k \in {"T", ">", "?"} : Last_(s) = k
                   \/ o = "?" /\ "cast_elvis" \in Careful /\ \E k \in {"T", ">"} : Last_(s) = k
  IN IF swallowed THEN In_(s) ELSE s

\* A right operand: a jump needs no parentheses where nothing follows, that is in a ?: that is
\* no operand itself.
Tail_(e, n) == IF e.op \in Jumps THEN Bare(e) ELSE Write(e, n)

Comparison(s) == IF "comparisons" \in Careful /\ Spells(s, "<") THEN In_(s) ELSE s

\* The parameters of a lambda; one without a type may get one that its tree does not keep.
Parameter(p) == Tok(p.name) \o (IF p.kids = <<>> THEN Tok("TYPE") ELSE Tok(":") \o Tok(p.kids[1].name))
Parameters(ps) ==
  Sep([i \in DOMAIN ps |->
         IF ps[i].op = "list"
         THEN In_(Sep([j \in DOMAIN ps[i].kids |-> Parameter(ps[i].kids[j])], Tok(",")))
         ELSE Parameter(ps[i])], Tok(","))

\* Positional and named arguments; a lambda at the end goes behind the parenthesis, and needs
\* none if it is all there is.
Argument(a) ==
  CASE a.op = "spread" -> Tok("*") \o Write(a.kids[1], 1)
    [] a.op = "named" -> Tok(a.name) \o Tok("=") \o Write(a.kids[1], 1)
    [] OTHER -> Bare(a)
Arguments(args, parens) ==
  LET trailing == args # <<>> /\ args[Len(args)].op = "lambda"
      inside == IF trailing THEN SubSeq(args, 1, Len(args) - 1) ELSE args
      spelled == [i \in DOMAIN inside |-> IF Len(inside) > 1 THEN Comparison(Argument(inside[i]))
                                          ELSE Argument(inside[i])]
  IN (IF inside = <<>> /\ trailing /\ ~parens THEN <<>> ELSE In_(Sep(spelled, Tok(","))))
     \o (IF trailing THEN Bare(args[Len(args)]) ELSE <<>>)

Link(e) == (IF e.op \in {"?member", "?method"} THEN May(Tok("?")) \o Tok(".") ELSE May(Tok(".")))
           \o Tok(e.name)

(* ---- statements --------------------------------------------------------------------- *)

\* A statement that in another place could be the rest of the one before it.
Continues(before, s) ==
  \/ Head(s).k \in {"-", "+", "++", "--", "::", "to", "until", "downTo", "step"} \cup Bitwise_
  \/ Len(s) > 1 /\ s[1].k = "!" /\ s[2].k = "!"
  \/ Head(s).k = "(" /\ Last_(before) \in Idents
Between(before, s) ==
  IF "statement_starts" \in Careful /\ Continues(before, s) THEN Tok(";") ELSE NewStatement
RECURSIVE Joined(_)
Joined(seqs) == IF Len(seqs) < 2 THEN IF seqs = <<>> THEN <<>> ELSE Head(seqs)
                ELSE Head(seqs) \o Between(Head(seqs), seqs[2]) \o Joined(Tail(seqs))
Statements(body) == Joined([i \in DOMAIN body |-> Written(body[i])])

Branch(body, before_else) ==
  LET s == Statements(body)
      braces == \/ Len(body) # 1 \/ Head(s).k = "{"
                \/ before_else /\ \/ Spells(s, "if")
                                  \/ "return_else" \in Careful /\ Last_(s) = "return"
  IN IF braces THEN Enclosed("{", s, "}") ELSE s

Condition(c) ==
  LET k == c.kids IN
  CASE c.op \in {"is", "!is"} /\ k[1].op = "none" ->
         (IF c.op = "is" THEN <<>> ELSE Tok("!")) \o Tok("is") \o TypeOf(k[2])
    [] c.op \in {"in", "!in"} /\ k[1].op = "none" ->
         (IF c.op = "in" THEN <<>> ELSE Tok("!")) \o Tok("in") \o Comparison(Write(k[2], 1))
    [] OTHER -> Comparison(Write(c, 1))

Arm(a) == (IF a.kids[1].op = "none" THEN Tok("else")
           ELSE Sep([i \in DOMAIN a.kids[1].kids |-> Condition(a.kids[1].kids[i])], Tok(",")))
          \o Tok("->") \o May(Branch(a.kids[2].kids, FALSE))

Stored(e, value, o) == Write(e, 13) \o Tok(o) \o May(value)
Compounds == [m \in {"plusAssign", "minusAssign", "timesAssign"} |->
                CASE m = "plusAssign" -> "+=" [] m = "minusAssign" -> "-=" [] OTHER -> "*="]

Expression(e) ==
  LET k == e.kids
      one == k[1]
      two == k[2]
      Infix(o, n) == Left(one, n, o[1].k) \o o \o May(Write(two, n + 1))
  IN CASE e.op \in {"var", "literal"} -> Tok(e.name)
       [] e.op = "binary" /\ e.name \in {"<", ">", "<=", ">="} ->
            Left(one, 5, e.name) \o Tok(e.name) \o May(Write(two, 5))
       [] e.op = "binary" -> Infix(IF Binaries[e.name] < 3 THEN May(Tok(e.name)) ELSE Tok(e.name),
                                   Binaries[e.name])
       [] e.op \in {"in", "!in"} -> Left(one, 5, "in") \o (IF e.op = "in" THEN <<>> ELSE Tok("!"))
                                    \o Tok("in") \o May(Write(two, 6))
       [] e.op \in {"is", "!is"} -> Left(one, 5, "is") \o (IF e.op = "is" THEN <<>> ELSE Tok("!"))
                                    \o Tok("is") \o TypeOf(two)
       [] e.op = "elvis" -> Left(one, 7, "?") \o May(Tok("?")) \o Tok(":") \o May(Write(two, 6))
       [] IsInfixCall(e) -> Infix(Tok(e.name), 7)
       [] e.op = "pair" -> Infix(Tok("to"), 7)
       [] e.op = "step" -> Infix(Tok("step"), 7)
       [] e.op = "range" -> Infix(Tok(e.name), Prec(e))
       [] e.op \in {"as", "as?"} -> Write(one, 11) \o May(Tok("as")) \o
                                    (IF e.op = "as" THEN <<>> ELSE Tok("?")) \o TypeOf(two)
       [] e.op = "prefix" -> Tok(e.name) \o Write(one, 12)
       [] e.op = "method" /\ e.name = "unaryPlus" -> Tok("+") \o Write(one, 12)
       [] e.op = "before" -> Tok(e.name) \o Write(one, 13)
       [] e.op = "after" -> Write(one, 13) \o Tok(e.name)
       [] e.op = "funref" -> (IF k = <<>> THEN <<>> ELSE Write(one, 13)) \o Tok("::") \o Tok(e.name)
       [] e.op = "notnull" -> Write(one, 13) \o Tok("!") \o Tok("!")
       [] e.op = "index" -> Write(one, 13) \o Enclosed("[", Bare(two), "]")
       [] e.op = "method" /\ e.name = "get" /\ Len(k) > 2 ->
            Write(one, 13) \o Enclosed("[", Sep([i \in DOMAIN Tail(k) |-> Comparison(Bare(k[i + 1]))], Tok(",")), "]")
       [] e.op = "member" /\ e.name = "class" -> Write(one, 13) \o Tok("::") \o Tok("class")
       [] e.op \in {"member", "?member"} -> Write(one, 13) \o Link(e)
       [] e.op \in {"method", "?method"} -> Write(one, 13) \o Link(e) \o Arguments(Tail(k), FALSE)
       [] e.op = "invoke" -> (IF Callable(one) THEN Bare(one) ELSE In_(Bare(one))) \o In_(<<>>)
       [] e.op = "call" -> Tok(e.name) \o Arguments(k, "soft_call" \in Careful /\ IsSoft(e.name))
       [] e.op = "reify" -> LET c == two
                                types == Enclosed("<", Sep([i \in DOMAIN one.kids |-> Tok(one.kids[i].name)],
                                                           Tok(",")), ">")
                                named == IF c.op = "call" THEN Tok(c.name) ELSE Write(c.kids[1], 13) \o Link(c)
                            IN named \o types \o Arguments(IF c.op = "call" THEN c.kids ELSE Tail(c.kids), FALSE)
       [] e.op = "lambda" ->
            Enclosed("{", (IF one.kids = <<>> THEN <<>>
                           ELSE Parameters(one.kids) \o Tok("->"))
                          \o May(Statements(two.kids)), "}")
       [] OTHER -> Written(e)

StatementText(e) ==
  LET k == e.kids IN
  CASE e.op = "val" -> Tok(e.op) \o Tok(e.name) \o Tok("=") \o May(Written(k[1]))
    [] e.op = "assign" -> Stored(k[1], Written(k[2]), e.name)
    [] e.op = "method" /\ e.name = "set" /\ Len(k) = 4 ->
         Stored([e EXCEPT !.name = "get", !.kids = SubSeq(k, 1, 3)], Written(k[4]), "=")
    [] e.op = "method" /\ e.name \in DOMAIN Compounds -> Stored(k[1], Written(k[2]), Compounds[e.name])
    [] e.op = "elvis" -> Left(k[1], 7, "?") \o May(Tok("?")) \o Tok(":") \o May(Tail_(k[2], 6))
    [] e.op \in Jumps -> Tok(e.op) \o (IF k = <<>> THEN <<>> ELSE Written(k[1]))
    [] e.op \in {"break", "continue"} -> Tok(e.op)
    [] e.op = "if" -> Tok("if") \o In_(Bare(k[1])) \o May(Branch(k[2].kids, Len(k) = 3))
                      \o (IF Len(k) = 3 THEN May(Tok("else")) \o May(Branch(k[3].kids, FALSE)) ELSE <<>>)
    [] e.op = "while" -> Tok("while") \o In_(Bare(k[1])) \o May(Branch(k[2].kids, FALSE))
    [] e.op = "do" -> Tok("do") \o May(Branch(k[1].kids, FALSE)) \o Tok("while") \o In_(Bare(k[2]))
    [] e.op = "for" -> Tok("for") \o In_(Tok(e.name) \o Tok("in") \o Bare(k[1]))
                       \o May(Branch(k[2].kids, FALSE))
    [] e.op = "when" -> Tok("when") \o (IF k[1].op = "none" THEN <<>> ELSE In_(Bare(k[1])))
                        \o Enclosed("{", May(Joined([i \in DOMAIN Tail(k) |-> Arm(k[i + 1])])), "}")
    [] OTHER -> Bare(e)

Write(e, n) == CASE n = Whole -> StatementText(e)
                 [] Prec(e) < n -> In_(Expression(e))
                 [] OTHER -> Expression(e)

(* ---- lines --------------------------------------------------------------------------- *)

\* "narrow": a line per statement; "wide": a line wherever one may begin; "joined": one line;
\* "typed": a line per statement, and every parameter of a lambda with a type.
Layouts == {"narrow", "wide", "joined", "typed"}
FunctionType == <<":", "(", "L", "<", "T", ">", ")", "->", "T", "?">>
RECURSIVE OnLines(_, _, _)
OnLines(s, layout, line) ==
  IF s = <<>> THEN <<>>
  ELSE LET t == Head(s)
           breaks == layout # "joined" /\ (t.k = "NL" \/ (layout = "wide" /\ t.br))
           at == IF breaks THEN line + 1 ELSE line
       IN (CASE t.k = "TYPE" -> IF layout # "typed" THEN <<>>
                                ELSE [i \in DOMAIN FunctionType |-> [k |-> FunctionType[i], line |-> at]]
             [] t.k # "NL" -> << [k |-> t.k, line |-> at] >>
             [] layout = "joined" -> << [k |-> ";", line |-> at] >>
             [] OTHER -> <<>>) \o OnLines(Tail(s), layout, at)
Spelled(program, layout) == OnLines(Statements(program), layout, 1)
=============================================================================

-------------------------------- MODULE Parser ---------------------------------
(***************************************************************************)
(* The expressions and statements of parser.rs, read by recursive descent over  *)
(* a token stream from which the lexer has dropped the line breaks: a token      *)
(* keeps the line it stood on, and only some rules look at it (glued_to_prev).   *)
(* The lexer itself, declarations, labels and the resolution of `return` to the  *)
(* body it leaves are not modelled.                                              *)
(***************************************************************************)
EXTENDS Integers, Sequences

CONSTANTS Idents,      \* the identifiers a program uses
          InfixNames   \* infix_names: those an `infix fun` of the program declares

ASSUME IdentsAssumption == InfixNames \subseteq Idents

VARIABLES toks,   \* the tokens: what each spells (k) and its line
          pos,    \* the next one
          stmts   \* the statements read so far

(* ---- syntax trees (ast.rs) ------------------------------------------------ *)

Node(op, name, kids) == [op |-> op, name |-> name, kids |-> kids]
Var(x) == Node("var", x, <<>>)
List(kids) == Node("list", "", kids)
None == Node("none", "", <<>>)
\* In the place of what could not be read.
Bad == Node("bad", "", <<>>)

IsBitwiseInfix(w) == w \in {"and", "or", "xor", "shl", "shr", "ushr"}
IsStdlibInfix(w) == w \in {"union", "intersect", "subtract", "zip", "contentEquals", "matches"}
SoftKeywords == {"until", "downTo", "step", "data"}
Numbers == {"0", "1"}
Literals == Numbers \cup {"null", "true"}
AssignOperators ==
  [op \in {"+=", "-=", "*=", "/=", "%="} |->
     CASE op = "+=" -> [op |-> "+", method |-> "plusAssign"]
       [] op = "-=" -> [op |-> "-", method |-> "minusAssign"]
       [] op = "*=" -> [op |-> "*", method |-> "timesAssign"]
       [] op = "/=" -> [op |-> "/", method |-> "divAssign"]
       [] op = "%=" -> [op |-> "%", method |-> "remAssign"]]

RECURSIVE invocable(_)
invocable(e) == \/ e.op \in {"call", "reify", "invoke", "index", "method", "lambda"}
                \/ e.op = "notnull" /\ invocable(e.kids[1])

reify_wrap(targ, call) == IF targ = <<>> THEN call ELSE Node("reify", "", << List(targ), call >>)

(* ---- the cursor: where the parser is, with the tree it has just read --------- *)

\* subjectless: the condition of an arm of a `when` without a subject is being read.
Start(i) == [at |-> i, e |-> None, subjectless |-> FALSE]

Peek(r, n) == IF r.at + n \in DOMAIN toks THEN toks[r.at + n].k ELSE "Eof"
At(r, k) == Peek(r, 0) = k
IsIdent(k) == k \in Idents
\* Mutation: line breaks are forgotten altogether.
on_any_line(r) == r.at > 1 /\ r.at \in DOMAIN toks
glued_to_prev(r) == r.at > 1 /\ r.at \in DOMAIN toks /\ toks[r.at - 1].line = toks[r.at].line

Advance(r, n) == [r EXCEPT !.at = @ + n]
Yield(r, e) == [r EXCEPT !.e = e]
\* An error ends the reading: the cursor goes past the last token.
Fail(r) == [r EXCEPT !.at = Len(toks) + 1, !.e = Bad]
Eat(r, k) == IF At(r, k) THEN Advance(r, 1) ELSE Fail(r)
\* ident: a name, its own or a soft keyword's.
Ident(r) == IF Peek(r, 0) \in Idents \cup SoftKeywords
            THEN Yield(Advance(r, 1), Var(Peek(r, 0))) ELSE Fail(r)
\* What `::` refers to is an identifier: not a soft keyword.
Referred(r) == IF IsIdent(Peek(r, 0)) THEN Yield(Advance(r, 1), Var(Peek(r, 0))) ELSE Fail(r)

(* ---- type arguments ------------------------------------------------------------ *)

\* Past the `>` that ends what looks like the type arguments of a call, 0 if nothing does.
RECURSIVE TypeArgsEnd(_, _, _)
TypeArgsEnd(i, depth, paren) ==
  LET k == IF i \in DOMAIN toks THEN toks[i].k ELSE "Eof" IN
  CASE k = "(" -> TypeArgsEnd(i + 1, depth, paren + 1)
    [] k = ")" -> IF paren = 0 THEN 0 ELSE TypeArgsEnd(i + 1, depth, paren - 1)
    [] k = "->" -> TypeArgsEnd(i + 1, depth, paren)
    [] k = "<" -> TypeArgsEnd(i + 1, depth + 1, paren)
    [] k = ">" /\ paren = 0 -> IF depth = 1 THEN i + 1 ELSE TypeArgsEnd(i + 1, depth - 1, paren)
    [] k \in Idents \cup {",", ".", "?", "*"} -> TypeArgsEnd(i + 1, depth, paren)
    [] OTHER -> 0

\* The list is one only if a call's arguments follow.
skip_call_type_args(r) ==
  LET end == IF At(r, "<") THEN TypeArgsEnd(r.at + 1, 1, 0) ELSE 0
  IN IF end # 0 /\ (IF end \in DOMAIN toks THEN toks[end].k ELSE "Eof") \in {"(", "{"}
     THEN [r EXCEPT !.at = end] ELSE r

\* The heads of the arguments between from and to, <<>> when one of them is no name.
RECURSIVE type_arg_names(_, _, _, _)
type_arg_names(i, to, depth, names) ==
  IF i = to THEN names
  ELSE LET k == toks[i].k
           at_start == depth = 0 /\ toks[i - 1].k \in {"<", ","}
       IN IF at_start THEN IF IsIdent(k) THEN type_arg_names(i + 1, to, depth, Append(names, Var(k)))
                           ELSE <<>>
          ELSE type_arg_names(i + 1, to, depth + (CASE k = "<" -> 1 [] k = ">" -> -1 [] OTHER -> 0),
                              names)

\* The type arguments a call keeps, and the cursor past them.
call_type_arg(r) ==
  LET past == skip_call_type_args(r)
      len == past.at - r.at
      several == type_arg_names(r.at + 1, past.at - 1, 0, <<>>)
  IN [past |-> past,
      names |-> IF len < 3 THEN <<>>
                ELSE IF IsIdent(Peek(r, 1)) /\ (len = 3 \/ Peek(r, 2) = "<") THEN << Var(Peek(r, 1)) >>
                ELSE IF Len(several) > 1 THEN several ELSE <<>>]

RECURSIVE qualified_ident(_), type_args_list(_, _)

\* A dotted name; the tree keeps its last part.
qualified_ident(r) ==
  LET n == Ident(r) IN IF At(n, ".") /\ IsIdent(Peek(n, 1)) THEN qualified_ident(Advance(n, 1)) ELSE n

TypeNode(name, args) ==
  LET nullable == At(args, "?")
  IN Yield(Advance(args, IF nullable THEN 1 ELSE 0),
           Node(IF nullable THEN "type?" ELSE "type", name.e.name, args.e.kids))
type_args(name) ==
  TypeNode(name, IF At(name, "<") THEN type_args_list(Advance(name, 1), <<>>) ELSE Yield(name, List(<<>>)))
is_type(r) == type_args(qualified_ident(r))

\* t: the argument read, after args.
NextTypeArg(t, args) ==
  CASE At(t, ",") -> type_args_list(Advance(t, 1), Append(args, t.e))
    [] At(t, ">") -> Yield(Advance(t, 1), List(Append(args, t.e)))
    [] OTHER -> Fail(t)
type_args_list(r, args) ==
  NextTypeArg(IF At(r, "*") THEN Yield(Advance(r, 1), Var("*")) ELSE is_type(r), args)

(* ---- is `is T ->` ahead ------------------------------------------------------------ *)

RECURSIVE DotsEnd(_, _), AnglesEnd(_, _, _)
DotsEnd(r, i) == IF Peek(r, i) = "." /\ IsIdent(Peek(r, i + 1)) THEN DotsEnd(r, i + 2) ELSE i
AnglesEnd(r, i, depth) ==
  CASE Peek(r, i) = "<" -> AnglesEnd(r, i + 1, depth + 1)
    [] Peek(r, i) = ">" /\ depth = 1 -> i + 1
    [] Peek(r, i) = ">" -> AnglesEnd(r, i + 1, depth - 1)
    [] Peek(r, i) = "Eof" -> i
    [] OTHER -> AnglesEnd(r, i + 1, depth)

at_when_is_arm(r) ==
  LET off == IF At(r, "!") THEN 1 ELSE 0
      dots == DotsEnd(r, off + 2)
      angles == IF Peek(r, dots) = "<" THEN AnglesEnd(r, dots, 0) ELSE dots
      arrow == IF Peek(r, angles) = "?" THEN angles + 1 ELSE angles
  IN /\ ~r.subjectless
     /\ Peek(r, off) = "is" /\ IsIdent(Peek(r, off + 1))
     /\ Peek(r, arrow) = "->"

(* ---- expressions, loosest operator first ----------------------------------------------- *)

\* The operators of the levels that are nothing but a loop over left-associative ones.
Operators == << {"||"}, {"&&"}, {"==", "!=", "===", "!=="}, {"<", ">", "<=", ">="}, {}, {}, {}, {},
                {"+", "-"}, {"*", "/", "%"} >>
OrLevel == 1
InLevel == 5
ElvisLevel == 6
InfixLevel == 7
RangeLevel == 8
AdditiveLevel == 9
AsLevel == 11

AStatement == 0

\* A statement, or an operand of a level: what the rules below need of one another, defined last.
RECURSIVE Operand(_, _)
expr(r) == Operand(OrLevel, r)
a_stmt(r) == Operand(AStatement, r)

\* l op r, the right operand one level tighter.
Binary(l, n, width, op, name) ==
  LET r == Operand(n + 1, Advance(l, width)) IN Yield(r, Node(op, name, << l.e, r.e >>))

\* A step of a level's loop after its left operand; l itself when the loop ends.
binary_step(l, n) == IF Peek(l, 0) \in Operators[n] THEN Binary(l, n, 1, "binary", Peek(l, 0)) ELSE l

in_step(l) ==
  LET negated == At(l, "!")
      word == Peek(l, IF negated THEN 1 ELSE 0)
      width == IF negated THEN 2 ELSE 1
      type == is_type(Advance(l, width))
  IN CASE at_when_is_arm(l) \/ ~glued_to_prev(l) -> l
       [] word = "is" -> Yield(type, Node(IF negated THEN "!is" ELSE "is", "",
                                          << l.e, Node(type.e.op, type.e.name, <<>>) >>))
       [] word = "in" -> Binary(l, InLevel, width, IF negated THEN "!in" ELSE "in", "")
       [] OTHER -> l

\* elvis_expr: right-associative.
elvis(l) ==
  IF ~(At(l, "?") /\ Peek(l, 1) = ":") THEN l
  ELSE LET r == Operand(ElvisLevel, Advance(l, 2)) IN Yield(r, Node("elvis", "", << l.e, r.e >>))

infix_step(l) ==
  LET w == Peek(l, 0) IN
  CASE w = "to" -> Binary(l, InfixLevel, 1, "pair", "")
    [] IsIdent(w) /\ (IsBitwiseInfix(w) \/ ((IsStdlibInfix(w) \/ w \in InfixNames) /\ glued_to_prev(l)))
         -> Binary(l, InfixLevel, 1, "method", w)
    [] w \in {"until", "downTo"} -> Binary(l, InfixLevel, 1, "range", w)
    [] w = "step" -> Binary(l, InfixLevel, 1, "step", "")
    [] OTHER -> l

range_step(l) ==
  CASE ~At(l, "..") -> l
    [] Peek(l, 1) = "<" -> Binary(l, RangeLevel, 2, "range", "until")
    [] OTHER -> Binary(l, RangeLevel, 1, "range", "..")

as_step(l) ==
  LET safe == Peek(l, 1) = "?"
      type == is_type(Advance(l, IF safe THEN 2 ELSE 1))
  IN IF At(l, "as") THEN Yield(type, Node(IF safe THEN "as?" ELSE "as", "", << l.e, type.e >>)) ELSE l

Step(l, n) == CASE n = InLevel -> in_step(l)
                [] n = InfixLevel -> infix_step(l)
                [] n = RangeLevel -> range_step(l)
                [] n = AsLevel -> as_step(l)
                [] OTHER -> binary_step(l, n)

RECURSIVE Loop(_, _), Climb(_, _, _)
Loop(l, n) == LET next == Step(l, n) IN IF next.at = l.at THEN l ELSE Loop(next, n)

\* A level m is entered with the operand read one level tighter, so from unary up: m, then
\* m - 1, to the level n asked for. (An error stops it; asking for one is what makes TLC read
\* the operand before it goes on.)
Climb(l, m, n) == IF l.e = Bad \/ m < n THEN l
                  ELSE Climb(IF m = ElvisLevel THEN elvis(l) ELSE Loop(l, m), m - 1, n)

(* ---- lambdas ------------------------------------------------------------------------------ *)

NoParams(r) == [r EXCEPT !.at = 0]

\* Past the annotation of a parameter, whatever it is made of: up to a `,`, a `->` or a `)`
\* that no bracket of it holds, but for the arrow of a function type. at is 0 at a block's end.
RECURSIVE skip_lambda_param_type(_, _)
skip_lambda_param_type(r, depth) ==
  LET k == Peek(r, 0)
      past == Advance(r, 1)
  IN CASE depth = 0 /\ k \in {",", "->", ")"} -> r
       [] k \in {"<", "(", "["} -> skip_lambda_param_type(past, depth + 1)
       [] k = ")" /\ depth = 1 /\ At(past, "->") -> skip_lambda_param_type(Advance(past, 1), 0)
       [] k \in {">", ")", "]"} -> skip_lambda_param_type(past, depth - 1)
       [] k \in {"}", "Eof"} -> NoParams(r)
       [] OTHER -> skip_lambda_param_type(past, depth)
Annotated(r) == IF At(r, ":") THEN skip_lambda_param_type(Advance(r, 1), 0) ELSE r

\* A parameter at r, its annotation ending at past: kept if it is a name alone.
Param(r, past) ==
  Yield(past, Node("var", Peek(r, 0), IF past.at = r.at + 3 /\ IsIdent(Peek(r, 2))
                                      THEN << Var(Peek(r, 2)) >> ELSE <<>>))

\* The parameters of a lambda from r on; at is 0 unless a list of them ends in `->`. A
\* destructuring group is a list.
RECURSIVE Slots(_, _), Group(_, _)
Group(r, names) ==
  LET past == Annotated(Advance(r, 1))
      more == Append(names, Var(Peek(r, 0)))
  IN CASE ~IsIdent(Peek(r, 0)) -> NoParams(r)
       [] At(past, ",") -> Group(Advance(past, 1), more)
       [] At(past, ")") -> Yield(Advance(past, 1), List(more))
       [] OTHER -> NoParams(r)
NextSlot(slot, params) ==
  CASE slot.at = 0 -> slot
    [] At(slot, ",") -> Slots(Advance(slot, 1), Append(params, slot.e))
    [] At(slot, "->") -> Yield(Advance(slot, 1), List(Append(params, slot.e)))
    [] OTHER -> NoParams(slot)
Slots(r, params) ==
  NextSlot(CASE At(r, "(") -> Group(Advance(r, 1), <<>>)
             [] IsIdent(Peek(r, 0)) -> Param(r, Annotated(Advance(r, 1)))
             [] OTHER -> NoParams(r),
           params)

\* Statements up to the `}`, past it; the tree is their list.
RECURSIVE Body(_, _)
Body(r, body) ==
  CASE At(r, "}") -> Yield(Advance(r, 1), List(body))
    [] At(r, "Eof") -> Fail(r)
    [] At(r, ";") -> Body(Advance(r, 1), body)
    [] OTHER -> LET s == a_stmt(r) IN Body(s, Append(body, s.e))

\* slots: what Slots made of the tokens from open on.
Params(open, slots) ==
  CASE At(open, "->") -> Yield(Advance(open, 1), List(<<>>))
    [] slots.at = 0 -> Yield(open, List(<<>>))
    [] OTHER -> slots
lambda_inner(params) ==
  LET body == Body(params, <<>>) IN Yield(body, Node("lambda", "", << params.e, body.e >>))
lambda(r) == LET open == Eat(r, "{") IN lambda_inner(Params(open, Slots(open, <<>>)))

(* ---- branches ----------------------------------------------------------------------------- *)

block(r) == Body(Eat(r, "{"), <<>>)
branch_body(r) == IF At(r, "{") THEN block(r) ELSE LET s == a_stmt(r) IN Yield(s, List(<< s.e >>))
\* `( e )`
Parenthesized(r) == Eat(expr(Eat(r, "(")), ")")

if_expr(r) ==
  LET cond == Parenthesized(Advance(r, 1))
      then == branch_body(cond)
      els == branch_body(Advance(then, 1))
  IN IF At(then, "else") THEN Yield(els, Node("if", "", << cond.e, then.e, els.e >>))
     ELSE Yield(then, Node("if", "", << cond.e, then.e >>))

(* ---- when ------------------------------------------------------------------------------------ *)

\* when_literal_range: `a..b`, `a until b` or `a downTo b` of additive bounds; at is 0 for
\* anything else.
when_literal_range(r) ==
  LET start == Operand(AdditiveLevel, r)
      kind == CASE At(start, "..") /\ Peek(start, 1) = "<" -> "until" [] OTHER -> Peek(start, 0)
      end == Operand(AdditiveLevel, Advance(start, IF kind # Peek(start, 0) THEN 2 ELSE 1))
  IN IF kind \in {"..", "until", "downTo"} THEN Yield(end, Node("range", kind, << start.e, end.e >>))
     ELSE NoParams(r)

when_range(r) ==
  LET literal == when_literal_range(r)
  IN IF literal.at # 0 /\ Peek(literal, 0) \in {"->", ","} THEN literal ELSE expr(r)

when_cond(r, has_subject) ==
  LET negated == At(r, "!") /\ Peek(r, 1) \in {"in", "is"}
      word == Peek(r, IF negated THEN 1 ELSE 0)
      past == Advance(r, IF negated THEN 2 ELSE 1)
      type == is_type(past)
      range == when_range(past)
      cond == expr([r EXCEPT !.subjectless = TRUE])
  IN CASE ~has_subject -> [cond EXCEPT !.subjectless = FALSE]
       [] word = "in" -> Yield(range, Node(IF negated THEN "!in" ELSE "in", "", << None, range.e >>))
       [] word = "is" -> Yield(type, Node(IF negated THEN "!is" ELSE "is", "",
                                          << None, Node(type.e.op, type.e.name, <<>>) >>))
       [] OTHER -> expr(r)

RECURSIVE Conds(_, _, _), Arms(_, _)
NextCond(c, has_subject, conds) ==
  LET more == Append(conds, c.e)
  IN IF At(c, ",") THEN Conds(Advance(c, 1), has_subject, more) ELSE Yield(c, List(more))
Conds(r, has_subject, conds) == NextCond(when_cond(r, has_subject), has_subject, conds)

\* arms: the list with what is known to be before them, [subject, arms].
Arms(r, w) ==
  LET conds == IF At(r, "else") THEN Yield(Advance(r, 1), None)
               ELSE Conds(r, w.kids[1] # None, <<>>)
      body == branch_body(Eat(conds, "->"))
  IN CASE At(r, "}") -> Yield(Advance(r, 1), w)
       [] At(r, "Eof") -> Fail(r)
       [] At(r, ";") -> Arms(Advance(r, 1), w)
       [] OTHER -> Arms(body, [w EXCEPT !.kids = Append(@, Node("arm", "", << conds.e, body.e >>))])

when_expr(r) ==
  LET inner == [Advance(r, 1) EXCEPT !.subjectless = FALSE]
      subject == IF At(inner, "(") THEN Parenthesized(inner) ELSE Yield(inner, None)
      arms == Arms(Eat(subject, "{"), Node("when", "", << subject.e >>))
  IN [arms EXCEPT !.subjectless = r.subjectless]

(* ---- unary operators, postfix chains and what they start from -------------------------- *)

at_lambda(r) == At(r, "{")

\* The arguments from past the `(` on, ending past the `)`; the tree is their list.
call_arg(r) ==
  LET named == Peek(r, 0) \in Idents \cup (SoftKeywords \ {"data"}) /\ Peek(r, 1) = "="
      value == expr(Advance(r, IF named THEN 2 ELSE IF At(r, "*") THEN 1 ELSE 0))
  IN CASE At(r, "*") -> Yield(value, Node("spread", "", << value.e >>))
       [] named -> Yield(value, Node("named", Peek(r, 0), << value.e >>))
       [] OTHER -> value
RECURSIVE Args(_, _, _)
Args(r, close, args) ==
  IF At(r, close) THEN Yield(Advance(r, 1), List(args))
  ELSE LET a == IF close = ")" THEN call_arg(r) ELSE expr(r)
           more == Append(args, a.e)
       IN IF At(a, ",") THEN Args(Advance(a, 1), close, more)
          ELSE LET end == Eat(a, close)
               IN IF end.e = Bad THEN end ELSE Yield(end, List(more))

\* `[args] [{ … }]` after a name or a value, as one list of arguments; parens tells whether
\* the parenthesis was there.
Trailing(args) ==
  LET trailing == lambda(args)
  IN IF at_lambda(args) THEN Yield(trailing, List(Append(args.e.kids, trailing.e))) ELSE args
CallArgs(r, parens) == Trailing(IF parens THEN Args(Advance(r, 1), ")", <<>>) ELSE Yield(r, List(<<>>)))

(* a link of a postfix chain after l; grouped: l is a parenthesized primary *)
index_step(l) ==
  LET indices == Args(Advance(l, 1), "]", <<>>)
  IN Yield(indices, IF Len(indices.e.kids) = 1 THEN Node("index", "", << l.e, indices.e.kids[1] >>)
                    ELSE Node("method", "get", << l.e >> \o indices.e.kids))

\* args: what follows the name and its type arguments targ.
LinkNode(l, safe, name, targ, args) ==
  LET op(plain) == IF safe THEN [method |-> "?method", member |-> "?member"][plain] ELSE plain
  IN IF args.at # targ.past.at
     THEN Yield(args, reify_wrap(targ.names, Node(op("method"), name.e.name, << l.e >> \o args.e.kids)))
     ELSE Yield(targ.past, Node(op("member"), name.e.name, << l.e >>))
member_step(l, safe) ==
  LET name == Ident(Advance(l, IF safe THEN 2 ELSE 1))
      targ == call_type_arg(name)
  IN LinkNode(l, safe, name, targ, CallArgs(targ.past, At(targ.past, "(")))

RECURSIVE Postfix(_, _)
Postfix(l, grouped) ==
  LET name == Referred(Advance(l, 1))
      args == CallArgs(l, TRUE)
      safe == At(l, "?") /\ Peek(l, 1) = "."
  IN CASE At(l, "!") /\ Peek(l, 1) = "!" ->
            Postfix(Yield(Advance(l, 2), Node("notnull", "", << l.e >>)), FALSE)
       [] At(l, "::") /\ Peek(l, 1) = "class" ->
            Postfix(Yield(Advance(l, 2), Node("member", "class", << l.e >>)), FALSE)
       [] At(l, "::") -> Postfix(Yield(name, Node("funref", name.e.name, << l.e >>)), FALSE)
       [] At(l, "(") /\ glued_to_prev(l) /\ (grouped \/ invocable(l.e)) ->
            Postfix(Yield(args, Node("invoke", "", << l.e >> \o args.e.kids)), FALSE)
       [] At(l, "[") -> Postfix(index_step(l), FALSE)
       [] At(l, ".") \/ safe -> Postfix(member_step(l, safe), FALSE)
       [] OTHER -> l

\* A call by a name that is a soft keyword: it takes no type arguments, and has parentheses.
primary_call(name) ==
  LET args == Args(Eat(name, "("), ")", <<>>)
      last == lambda(args)
      node(kids) == Node("call", name.e.name, kids)
  IN IF At(args, "{") THEN Yield(last, node(Append(args.e.kids, last.e))) ELSE Yield(args, node(args.e.kids))

CallNode(name, targ, args) ==
  LET node == Node("call", name.e.name, args.e.kids)
  IN IF args.at = targ.past.at THEN name
     ELSE Yield(args, IF At(targ.past, "(") THEN reify_wrap(targ.names, node) ELSE node)
call(r) ==
  LET name == Ident(r)
      targ == call_type_arg(name)
  IN CallNode(name, targ, CallArgs(targ.past, At(targ.past, "(")))

primary(r) ==
  LET k == Peek(r, 0)
      inner == expr(Advance(r, 1))
      name == Referred(Advance(r, 1))
  IN CASE k = "::" -> Yield(name, Node("funref", name.e.name, <<>>))
       [] k \in Literals -> Yield(Advance(r, 1), Node("literal", k, <<>>))
       [] k = "if" -> if_expr(r)
       [] k = "when" -> when_expr(r)
       [] k \in {"return", "break", "continue"} -> a_stmt(r)
       [] k = "throw" -> Yield(inner, Node("throw", "", << inner.e >>))
       [] k = "{" -> lambda(r)
       [] k = "(" -> Eat(inner, ")")
       [] k \in SoftKeywords -> IF Peek(r, 1) = "(" THEN primary_call(Ident(r)) ELSE Ident(r)
       [] k \in Idents -> call(r)
       [] OTHER -> Fail(r)

counted(chain) ==
  IF Peek(chain, 0) \in {"++", "--"}
  THEN Yield(Advance(chain, 1), Node("after", Peek(chain, 0), << chain.e >>)) ELSE chain

RECURSIVE unary(_)
unary(r) ==
  LET k == Peek(r, 0)
      operand == unary(Advance(r, 1))
  IN CASE k \in {"-", "!"} -> Yield(operand, Node("prefix", k, << operand.e >>))
       [] k = "+" -> IF operand.e.op = "literal" /\ operand.e.name \in Numbers THEN operand
                     ELSE Yield(operand, Node("method", "unaryPlus", << operand.e >>))
       [] k \in {"++", "--"} -> Yield(operand, Node("before", k, << operand.e >>))
       [] OTHER -> counted(Postfix(primary(r), At(r, "(")))

(* ---- statements -------------------------------------------------------------------------- *)

while_stmt(r) ==
  LET cond == Parenthesized(Advance(r, 1))
      body == branch_body(cond)
  IN Yield(body, Node("while", "", << cond.e, body.e >>))

do_while_stmt(r) ==
  LET body == branch_body(Advance(r, 1))
      cond == Parenthesized(Eat(body, "while"))
  IN Yield(cond, Node("do", "", << body.e, cond.e >>))

for_stmt(r) ==
  LET name == Ident(Eat(Advance(r, 1), "("))
      iter == Eat(expr(Eat(name, "in")), ")")
      body == branch_body(iter)
  IN Yield(body, Node("for", name.e.name, << iter.e, body.e >>))

let_decl(r) ==
  LET name == Ident(Advance(r, 1))
      init == expr(Eat(name, "="))
  IN Yield(init, Node(Peek(r, 0), name.e.name, << init.e >>))

\* `return` has no operand at the end of its line, nor before what closes something.
return_kind(r) ==
  LET past == Advance(r, 1)
      value == expr(past)
  IN IF ~glued_to_prev(past) \/ Peek(past, 0) \in {"}", ";", "Eof", ")", ",", "]"}
     THEN Yield(past, Node("return", "", <<>>))
     ELSE Yield(value, Node("return", "", << value.e >>))

\* An operand that can be rebound is; `m[i, j]` goes through set, anything else through
\* the …Assign convention of the operator.
assign_to(lhs, op, value) ==
  LET compound == op # "="
      kids == lhs.kids
      stored == IF compound THEN Node("binary", AssignOperators[op].op, << lhs, value >>) ELSE value
  IN CASE lhs.op \in {"var", "member", "index"} -> Node("assign", op, << lhs, value >>)
       [] lhs.op = "method" /\ lhs.name = "get" /\ Len(kids) > 2 -> Node("method", "set", Append(kids, stored))
       [] compound -> Node("method", AssignOperators[op].method, << lhs, value >>)
       [] OTHER -> Bad

assign_or_expr(r) ==
  LET lhs == expr(r)
      op == Peek(lhs, 0)
      value == expr(Advance(lhs, 1))
      target == assign_to(lhs.e, op, value.e)
  IN IF op \notin {"="} \cup DOMAIN AssignOperators THEN lhs
     ELSE IF target = Bad THEN Fail(value) ELSE Yield(value, target)

stmt(r) ==
  LET k == Peek(r, 0) IN
  CASE k \in {"val", "var"} -> let_decl(r)
    [] k = "return" -> return_kind(r)
    [] k = "while" -> while_stmt(r)
    [] k = "do" -> do_while_stmt(r)
    [] k = "for" -> for_stmt(r)
    [] k = "if" -> if_expr(r)
    [] k = "when" -> when_expr(r)
    [] k \in {"break", "continue"} -> Yield(Advance(r, 1), Node(k, "", <<>>))
    [] OTHER -> assign_or_expr(r)

Operand(n, r) == IF n = AStatement THEN stmt(r) ELSE Climb(unary(r), AsLevel, n)

(* ---- the statements of a body, one after another ------------------------------------------------- *)

vars == <<toks, pos, stmts>>

Semi == /\ At(Start(pos), ";")
        /\ pos' = pos + 1
        /\ UNCHANGED <<toks, stmts>>

Statement == /\ pos \in DOMAIN toks
             /\ ~At(Start(pos), ";")
             /\ LET s == a_stmt(Start(pos)) IN pos' = s.at /\ stmts' = Append(stmts, s.e)
             /\ UNCHANGED toks

Next == Semi \/ Statement
=============================================================================

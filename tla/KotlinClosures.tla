---------------------------- MODULE KotlinClosures -----------------------------
(***************************************************************************)
(* The programs of module Closures and what they mean in Kotlin: a name stands *)
(* for the innermost declaration where the name is written, and a function or   *)
(* lambda shares the variables that were in sight where it was written, for as   *)
(* long as it lives.  This is the reference for Closures, written from the       *)
(* language.                                                                      *)
(***************************************************************************)
EXTENDS Integers, Sequences

Lit(v) == [k |-> "lit", v |-> v]
Name(n) == [k |-> "name", n |-> n]
Minus1(n) == [k |-> "less", n |-> n]
PostInc(n) == [k |-> "inc", n |-> n]
Lambda(ps, body) == [k |-> "lambda", ps |-> ps, body |-> body]

Val(n, e) == [k |-> "let", n |-> n, e |-> e, mutable |-> FALSE]
Var(n, e) == [k |-> "let", n |-> n, e |-> e, mutable |-> TRUE]
Set(n, e) == [k |-> "set", n |-> n, e |-> e]
Show(e) == [k |-> "show", e |-> e]
Call(n, args) == [k |-> "call", n |-> n, args |-> args]
Fun(n, ps, body) == [k |-> "fun", n |-> n, ps |-> ps, body |-> body]
If(n, body) == [k |-> "if", n |-> n, body |-> body]        \* if (n > 0)
While(n, body) == [k |-> "while", n |-> n, body |-> body]  \* while (n > 0)

Unit == <<"unit">>
Number(v) == <<"int", v>>

\* What happened so far: the variables there are, and what was printed.
Blank == [vars |-> <<>>, out |-> <<>>]

Meant(env, n) == env[CHOOSE i \in DOMAIN env :
                       env[i].n = n /\ \A j \in DOMAIN env : env[j].n = n => j <= i]
ValueOf(st, env, n) == st.vars[Meant(env, n).at]
\* A declaration is a variable of its own each time it is reached.
Declare(st, env, n, v) ==
  [st |-> [st EXCEPT !.vars = Append(@, v)],
   env |-> Append(env, [n |-> n, at |-> Len(st.vars) + 1])]

Evaluate(st, env, e) ==
  CASE e.k = "lit" -> [st |-> st, v |-> Number(e.v)]
    [] e.k = "name" -> [st |-> st, v |-> ValueOf(st, env, e.n)]
    [] e.k = "less" -> [st |-> st, v |-> Number(ValueOf(st, env, e.n)[2] - 1)]
    [] e.k = "inc" ->
         LET v == ValueOf(st, env, e.n)
         IN  [st |-> [st EXCEPT !.vars[Meant(env, e.n).at] = Number(v[2] + 1)], v |-> v]
    [] e.k = "lambda" -> [st |-> st, v |-> <<"fun", e.ps, e.body, env>>]

RECURSIVE Bind(_, _, _, _)
Bind(st, env, ps, vs) ==
  IF ps = <<>> THEN [st |-> st, env |-> env]
  ELSE LET d == Declare(st, env, Head(ps), Head(vs)) IN Bind(d.st, d.env, Tail(ps), Tail(vs))

RECURSIVE Arguments(_, _, _)
Arguments(st, env, es) ==
  IF es = <<>> THEN [st |-> st, vs |-> <<>>]
  ELSE LET first == Evaluate(st, env, Head(es))
           rest == Arguments(first.st, env, Tail(es))
       IN  [st |-> rest.st, vs |-> <<first.v>> \o rest.vs]

\* A local function sees itself.
RECURSIVE Run(_, _, _)
Run(st, env, body) ==
  IF body = <<>> THEN st
  ELSE
    LET s == Head(body)
        Then(st2) == Run(st2, env, Tail(body))
        Positive == ValueOf(st, env, s.n)[2] > 0
    IN  CASE s.k = "let" ->
               LET r == Evaluate(st, env, s.e)
                   d == Declare(r.st, env, s.n, r.v)
               IN  Run(d.st, d.env, Tail(body))
          [] s.k = "set" ->
               LET r == Evaluate(st, env, s.e)
               IN  Then([r.st EXCEPT !.vars[Meant(env, s.n).at] = r.v])
          [] s.k = "show" ->
               LET r == Evaluate(st, env, s.e) IN Then([r.st EXCEPT !.out = Append(@, r.v)])
          [] s.k = "fun" ->
               LET d == Declare(st, env, s.n, <<"local", s.ps, s.body, env, s.n>>)
               IN  Run(d.st, d.env, Tail(body))
          [] s.k = "call" ->
               LET f == ValueOf(st, env, s.n)
                   args == Arguments(st, env, s.args)
                   own == IF f[1] = "local" THEN Append(f[4], Meant(env, s.n)) ELSE f[4]
                   inside == Bind(args.st, own, f[2], args.vs)
               IN  Then(Run(inside.st, inside.env, f[3]))
          [] s.k = "if" -> Then(IF Positive THEN Run(st, env, s.body) ELSE st)
          [] s.k = "while" -> IF Positive THEN Run(Run(st, env, s.body), env, body) ELSE Then(st)

Printed(program) == Run(Blank, <<>>, program).out
=============================================================================

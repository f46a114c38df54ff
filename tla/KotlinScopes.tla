----------------------------- MODULE KotlinScopes ------------------------------
(***************************************************************************)
(* What the Kotlin language says of a function's locals: a name means its     *)
(* innermost declaration, the type of that is what was written, and a test or  *)
(* an assignment may prove more of it until the flows join.  This is the       *)
(* reference for Scopes, written from the language.  Where it proves less than  *)
(* Kotlin does, fewer programs count as lawful.                                 *)
(***************************************************************************)
EXTENDS Naturals, Sequences

CONSTANTS Sub(_, _),   \* subtyping
          Read(_),     \* the type of the property v through a receiver
          Result(_),   \* the result type of a function
          Vals, Nothing

VARIABLES decls,   \* the live declarations, oldest first
          frames,  \* the branches that are open, with what was known at their ends
          lawful   \* every statement so far is valid Kotlin

flow_vars == <<decls, frames, lawful>>

NullType == [name |-> "Nothing", args |-> <<>>, null |-> TRUE]
NotNull(t) == [t EXCEPT !.null = FALSE]

InSight(n) == \E i \in DOMAIN decls : decls[i].name = n
Innermost(ds, n) ==
  CHOOSE i \in DOMAIN ds : ds[i].name = n /\ \A j \in DOMAIN ds : ds[j].name = n => j <= i
Meant(n) == decls[Innermost(decls, n)]
Known(d) == IF d.fact = Nothing THEN d.ty ELSE d.fact

\* The type of an expression, as precisely as it is known.
TypeOf(e) ==
  CASE e.k \in {"lit", "new"} -> e.t
    [] e.k = "null" -> NullType
    [] e.k = "var" -> Known(Meant(e.n))
    [] e.k = "read" -> Read(Known(Meant(e.n)))
    [] e.k = "call" -> Result(e.f)

Declare(n, t) ==
  decls' = Append(decls, [name |-> n, ty |-> t, var |-> n \notin Vals, fact |-> Nothing])

Let(n, t, e) ==
  /\ lawful' = (t = Nothing \/ Sub(TypeOf(e), t))
  /\ Declare(n, IF t = Nothing THEN TypeOf(e) ELSE t)
  /\ UNCHANGED frames

\* What was assigned proves something if it is a subtype, other than the type itself.
Assign(n, e) ==
  LET i == Innermost(decls, n)
      t == TypeOf(e)
  IN  /\ lawful' = (decls[i].var /\ Sub(t, decls[i].ty))
      /\ decls' = [decls EXCEPT ![i].fact =
                     IF t = NullType \/ Sub(decls[i].ty, t) THEN Nothing ELSE t]
      /\ UNCHANGED frames

\* A test proves a type that is more precise than what is known.
Prove(d, t) == IF Sub(Known(d), t) THEN d ELSE IF Sub(t, d.ty) THEN [d EXCEPT !.fact = t] ELSE d

RECURSIVE Refine(_, _, _)
Refine(ds, cond, holds) ==
  CASE cond.k = "is" /\ holds ->
         [ds EXCEPT ![Innermost(ds, cond.n)] = Prove(@, [name |-> cond.t, args |-> cond.args, null |-> FALSE])]
    [] cond.k = "nonnull" /\ holds ->
         [ds EXCEPT ![Innermost(ds, cond.n)] = Prove(@, NotNull(Known(@)))]
    [] cond.k = "and" /\ holds -> Refine(Refine(ds, cond.l, TRUE), cond.r, TRUE)
    [] cond.k = "or" /\ ~holds -> Refine(Refine(ds, cond.l, FALSE), cond.r, FALSE)
    [] cond.k = "not" -> Refine(ds, cond.c, ~holds)
    [] OTHER -> ds

\* What both ends of the flow know.
Join(a, b) == [i \in DOMAIN a |-> IF a[i] = b[i] THEN a[i] ELSE [a[i] EXCEPT !.fact = Nothing]]

Inner == frames[Len(frames)]
Outer(ds, f) == SubSeq(ds, 1, Len(f.before))

Then(cond) ==
  /\ frames' = Append(frames, [cond |-> cond, before |-> decls, after |-> <<>>])
  /\ decls' = Refine(decls, cond, TRUE)
  /\ UNCHANGED lawful

EndThen ==
  /\ frames' = [frames EXCEPT ![Len(frames)].after = Outer(decls, Inner)]
  /\ decls' = Inner.before
  /\ UNCHANGED lawful

Else == decls' = Refine(Inner.before, Inner.cond, FALSE) /\ UNCHANGED <<frames, lawful>>

EndElse ==
  /\ decls' = Join(Outer(decls, Inner), Inner.after)
  /\ frames' = SubSeq(frames, 1, Len(frames) - 1)
  /\ UNCHANGED lawful

NoElse ==
  /\ decls' = Join(Refine(Inner.before, Inner.cond, FALSE), Inner.after)
  /\ frames' = SubSeq(frames, 1, Len(frames) - 1)
  /\ UNCHANGED lawful

FlowInit(ps) ==
  /\ decls = [i \in DOMAIN ps |-> [name |-> ps[i].name, ty |-> ps[i].ty, var |-> FALSE, fact |-> Nothing]]
  /\ frames = <<>> /\ lawful = TRUE
=============================================================================

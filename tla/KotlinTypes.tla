----------------------------- MODULE KotlinTypes -------------------------------
(***************************************************************************)
(* Which Kotlin type is a subtype of which, for the types written as in      *)
(* Variance and a few classes of the standard library.  This is the          *)
(* reference the checks of kotlinrs are compared with, so it is written from  *)
(* the language and not from the program: a class's arguments are compared    *)
(* by containment of projections, and the class hierarchy is explicit.        *)
(***************************************************************************)
EXTENDS Naturals, Sequences

CONSTANTS Generics  \* the variance of the parameters of each generic class

IsClass(t) == "name" \in DOMAIN t
Plain(name) == [name |-> name, args |-> <<>>, null |-> FALSE]
AnyOrNull == [name |-> "Any", args |-> <<>>, null |-> TRUE]

\* The direct supertypes of a type that is not null.
Supertypes(t) ==
  CASE t.name \in {"Int", "Double"} ->
         {Plain("Number"),
          [name |-> "Comparable", args |-> << [v |-> "inv", ty |-> Plain(t.name)] >>, null |-> FALSE]}
    [] t.name = "String" ->
         { [name |-> "Comparable", args |-> << [v |-> "inv", ty |-> Plain("String")] >>, null |-> FALSE] }
    [] t.name \in {"MutableList", "ArrayList"} -> { [t EXCEPT !.name = "List", !.null = FALSE] }
    [] OTHER -> {}

\* The projection an argument amounts to where the parameter has variance v.
Effective(v, arg) ==
  IF arg.v = "star" THEN [v |-> "out", ty |-> AnyOrNull]
  ELSE IF arg.v = "inv" THEN [arg EXCEPT !.v = v] ELSE arg

\* What a function takes: its receiver is one more parameter.
Taken(f) == f.recv \o f.params

RECURSIVE Sub(_, _)

\* Every type that the argument x may stand for is one that y allows.
Contains(y, x) ==
  LET upper == IF x.v = "in" THEN AnyOrNull ELSE x.ty
  IN  CASE y.v = "out" -> Sub(upper, y.ty)
        [] y.v = "in" -> x.v # "out" /\ Sub(y.ty, x.ty)
        [] y.v = "inv" -> x.v = "inv" /\ Sub(x.ty, y.ty) /\ Sub(y.ty, x.ty)

Sub(a, d) ==
  IF ~IsClass(a) \/ ~IsClass(d) THEN
    \/ IsClass(d) /\ d.name = "Any"
    \/ /\ ~IsClass(a) /\ ~IsClass(d) /\ Len(Taken(a)) = Len(Taken(d))
       /\ \A i \in DOMAIN Taken(a) : Sub(Taken(d)[i], Taken(a)[i])
       /\ Sub(a.ret, d.ret)
    \/ IsClass(a) /\ a.name = "Nothing" /\ ~a.null
  ELSE
    /\ a.null => d.null
    /\ \/ d.name = "Any" \/ a.name = "Nothing"
       \/ /\ a.name = d.name
          /\ \A i \in DOMAIN a.args :
               Contains(Effective(Generics[a.name][i], d.args[i]),
                        Effective(Generics[a.name][i], a.args[i]))
       \/ \E s \in Supertypes(a) : Sub(s, d)

Equal(a, d) == Sub(a, d) /\ Sub(d, a)
=============================================================================

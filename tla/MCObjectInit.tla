---------------------------- MODULE MCObjectInit ----------------------------
(***************************************************************************)
(* Programs for ObjectInit: two objects whose initializers use each other, *)
(* fail and print, and a main that uses them over and over.                 *)
(***************************************************************************)
EXTENDS ObjectInit

CONSTANTS a, b, exception, error, one, two

X == [k |-> "lit", v |-> Undef, e |-> exception, of |-> a, at |-> 1]
LitOf(v)     == [X EXCEPT !.v = v]
Throws(e)    == [X EXCEPT !.k = "raise", !.e = e]
ReadOf(o, p) == [X EXCEPT !.k = "read", !.of = o, !.at = p]
Say          == [X EXCEPT !.k = "print"]

Property(p, atoms) == [kind |-> "prop", at |-> p, atoms |-> atoms]
Statement(atoms)   == [kind |-> "stmt", at |-> 1, atoms |-> atoms]
Guarded(atoms)     == [kind |-> "try", at |-> 1, atoms |-> atoms]

\* val x = first; init { second }; val y = 2
Bodies(other) ==
  { << Property(1, first), Statement(second), Property(2, <<LitOf(two)>>) >> :
      first \in { <<LitOf(one)>>, <<ReadOf(other, 1)>>, <<Throws(exception)>>,
                  <<Throws(error)>>, <<Throws(exception), ReadOf(other, 2)>> },
      second \in { <<LitOf(one), Say>>, <<ReadOf(other, 2), Say>>, <<Throws(exception)>> } }

Uses == { <<ReadOf(a, 1), Say>>, <<ReadOf(b, 2), ReadOf(a, 2), Say>>, <<Throws(exception), ReadOf(b, 1)>> }

Mains == { <<Guarded(u1), Guarded(u2), Statement(u3), Guarded(<<ReadOf(b, 1), Say>>)>> : u1, u2, u3 \in Uses }

MCPrograms ==
  { [main |-> m, body |-> [o \in Obj |-> IF o = a THEN x ELSE y], catchable |-> TRUE] :
      m \in Mains, x \in Bodies(b), y \in Bodies(a) }
  \cup
  { [main |-> <<Statement(u)>>, body |-> [o \in Obj |-> IF o = a THEN x ELSE y], catchable |-> FALSE] :
      u \in Uses, x \in Bodies(b), y \in Bodies(a) }

\* a uses b, whose initializer fails; then a is used again.
NestedFailure ==
  { [ main |-> <<Guarded(<<ReadOf(a, 2), Say>>), Guarded(<<ReadOf(a, 2), Say>>)>>,
      body |-> [o \in Obj |-> IF o = a THEN <<Statement(<<ReadOf(b, 1)>>), Property(2, <<LitOf(two)>>)>>
                              ELSE <<Statement(<<Throws(exception)>>)>>],
      catchable |-> TRUE ] }

\* println(fails() + b.x), and b.x again
ForeignFailure ==
  { [ main |-> <<Guarded(<<Throws(exception), ReadOf(b, 1)>>), Guarded(<<ReadOf(b, 1), Say>>)>>,
      body |-> [o \in Obj |-> <<Property(1, <<LitOf(one)>>)>>],
      catchable |-> TRUE ] }
=============================================================================

-------------------------------- MODULE Scopes ---------------------------------
(***************************************************************************)
(* What the compiler knows of a function's locals while it lowers the body:   *)
(* Scope in src/src/compiler.rs, its undo log, its smart casts, and the       *)
(* checks of declarations and assignments that read it.                       *)
(*                                                                            *)
(* A binding has the coarse type code is lowered by (ty) and the type as it   *)
(* was written (written), which the checks of variance.rs read.  A smart cast  *)
(* changes the first and clears the second, until the block ends.  Classes,    *)
(* element types and type arguments of bindings are left out, but for the      *)
(* class a cast sets (declared).                                               *)
(***************************************************************************)
EXTENDS Variance

CONSTANTS Names,  \* of locals
          Vals    \* those declared with val

VARIABLES map,       \* Scope::map: the bindings in sight
          undo,      \* Scope::undo: what each declaration or cast displaced
          next_slot, \* Scope::next_slot
          marks,     \* the blocks that are open, each with its ScopeMark
          refused    \* the program is refused

scope == <<map, undo, next_slot>>
scope_vars == <<map, undo, next_slot, marks, refused>>

\* Type::from_name; every name it does not list is Unknown.
from_name(name) ==
  IF name \in {"Int", "Byte", "Short", "Long", "Double", "Float", "Boolean", "Char", "String",
               "Unit"} THEN name ELSE "Unknown"

\* The coarse type of an annotation: it keeps no null but String's.
coarse(t) ==
  CASE t.name = "String" /\ t.null -> "NullableString"
    [] t.name # "String" /\ from_name(t.name) = "Unknown" -> "Obj"
    [] OTHER -> from_name(t.name)

Bind(slot, ty, mutable) ==
  [slot |-> slot, ty |-> ty, written |-> None, mutable |-> mutable, declared |-> None]
Seen(m) == { n \in Names : m[n] # None }

(* ---- the scope ------------------------------------------------------------- *)

\* A scope as a value: the statements below go through several of its operations.
Scope(m, u, s) == [map |-> m, undo |-> u, next |-> s]
Now == Scope(map, undo, next_slot)
Becomes(sc) == map' = sc.map /\ undo' = sc.undo /\ next_slot' = sc.next

displace(sc, n, b) ==
  [sc EXCEPT !.map[n] = b, !.undo = Append(@, [name |-> n, prev |-> sc.map[n]])]

\* Mutation: the slot of a binding that is shadowed is used again.
declare_over(sc, n, ty, mutable) ==
  LET slot == IF sc.map[n] = None THEN sc.next ELSE sc.map[n].slot
  IN  [displace(sc, n, Bind(slot, ty, mutable)) EXCEPT !.next = IF slot = @ THEN @ + 1 ELSE @]
declare_full(sc, n, ty, mutable) ==
  [displace(sc, n, Bind(sc.next, ty, mutable)) EXCEPT !.next = @ + 1]

set_written(sc, n, t) ==
  IF sc.map[n] = None THEN sc ELSE [sc EXCEPT !.map[n].written = t]

\* Mutation: a smart cast leaves what was written.
narrow_written(sc, n, ty) ==
  IF sc.map[n] = None THEN sc ELSE displace(sc, n, [sc.map[n] EXCEPT !.ty = ty])
\* Mutation: a smart cast is not undone.
narrow_for_good(sc, n, ty) ==
  IF sc.map[n] = None THEN sc
  ELSE [sc EXCEPT !.map[n].ty = ty, !.map[n].written = None, !.map[n].declared = None]
narrow(sc, n, ty) ==
  IF sc.map[n] = None THEN sc
  ELSE displace(sc, n, [sc.map[n] EXCEPT !.ty = ty, !.written = None, !.declared = None])
narrow_declared(sc, n, class) ==
  IF sc.map[n] = None THEN sc
  ELSE displace(sc, n, [sc.map[n] EXCEPT !.declared = class, !.written = None])

enter == [next_slot |-> next_slot, undo_len |-> Len(undo)]

\* Undone from the last entry to the first: what a name meant at the mark is what
\* the first of its entries displaced.
exit(sc, mark) ==
  LET since == (mark.undo_len + 1)..Len(sc.undo)
      of_(n) == {i \in since : sc.undo[i].name = n}
  IN  Scope([n \in Names |-> IF of_(n) = {} THEN sc.map[n]
                             ELSE sc.undo[CHOOSE i \in of_(n) : \A j \in of_(n) : i <= j].prev],
            SubSeq(sc.undo, 1, mark.undo_len), mark.next_slot)

(* ---- smart casts -------------------------------------------------------------- *)

\* The operands that must hold, or fail, where the whole condition does: through and,
\* or and not.
RECURSIVE Proved(_, _)
Proved(cond, holds) ==
  CASE cond.k = "and" -> IF holds THEN Proved(cond.l, TRUE) \o Proved(cond.r, TRUE) ELSE <<>>
    [] cond.k = "or" -> IF holds THEN <<>> ELSE Proved(cond.l, FALSE) \o Proved(cond.r, FALSE)
    [] cond.k = "not" -> Proved(cond.c, ~holds)
    [] OTHER -> << [test |-> cond, holds |-> holds] >>

\* The tests x is T that hold.
IsTests(sc, cond, holds) ==
  SelectSeq(Proved(cond, holds),
            LAMBDA p : p.test.k = "is" /\ p.holds /\ sc.map[p.test.n] # None)

\* A primitive or String the binding is not already known to be.
smart_cast_of(sc, test) == from_name(test.t) \notin {"Unknown", "Unit", sc.map[test.n].ty}
smart_casts(sc, cond, holds) ==
  SelectSeq(IsTests(sc, cond, holds), LAMBDA p : smart_cast_of(sc, p.test))
class_casts(sc, cond, holds) ==
  SelectSeq(IsTests(sc, cond, holds), LAMBDA p : from_name(p.test.t) = "Unknown")

RECURSIVE narrow_all(_, _)
narrow_all(sc, casts) ==
  IF casts = <<>> THEN sc
  ELSE LET test == Head(casts).test
       IN  narrow_all(IF from_name(test.t) = "Unknown" THEN narrow_declared(sc, test.n, test.t)
                      ELSE narrow(sc, test.n, test.t), Tail(casts))

narrow_cond(sc, cond, holds) ==
  LET cast == narrow_all(sc, smart_casts(sc, cond, holds))
  IN  narrow_all(cast, class_casts(cast, cond, holds))

(* ---- declarations and assignments ------------------------------------------- *)

IsNum(ty) == ty \in {"Int", "Double"}

\* The number type an expression certainly has.
certain_num(e) ==
  CASE e.k = "lit" /\ IsNum(e.t.name) -> e.t.name
    [] e.k = "var" -> IF IsNum(map[e.n].ty) THEN map[e.n].ty ELSE None
    [] OTHER -> None
num_mismatch(want, e) == IsNum(want) /\ certain_num(e) \notin {None, want}

written_recv(n) == map[n].written
built(e) == IF e.k = "new" THEN construction_type(e.t) ELSE None
actual(e) ==
  CASE e.k = "new" -> built(e)
    [] e.k = "var" -> written_recv(e.n)
    [] e.k = "call" -> fun_ret(e.f)
    [] OTHER -> None

\* Refused: an initializer that is no subtype, or a captured type read into a
\* declaration of anything but Any?.
unsuitable(t, type) == type # None /\ initializer_mismatch(t, type)
mismatched_initializer(t, e) ==
  \/ unsuitable(t, actual(e))
  \/ /\ t # Named("Any", <<>>, TRUE)
     /\ e.k = "read" /\ written_recv(e.n) # None
     /\ projected_read(written_recv(e.n), "v", FALSE, FALSE) # None

check_written_initializer(t, e) == t # None /\ mismatched_initializer(t, e)

\* The type of an initializer without annotation.
infer(e) ==
  CASE e.k = "lit" -> coarse(e.t)
    [] e.k \in {"new", "call"} -> "Obj"
    [] e.k = "var" -> map[e.n].ty
    [] OTHER -> "Unknown"

Refuse == refused' = TRUE /\ UNCHANGED <<map, undo, next_slot, marks>>

\* StmtKind::Let.
Let(n, t, e) ==
  LET ty == IF t = None THEN infer(e) ELSE coarse(t)
  IN  IF check_written_initializer(t, e) \/ (t # None /\ num_mismatch(ty, e)) THEN Refuse
      ELSE /\ Becomes(set_written(declare_full(Now, n, ty, n \notin Vals), n,
                                  IF t = None THEN built(e) ELSE t))
           /\ UNCHANGED <<marks, refused>>

\* StmtKind::Assign to a local.
Assign(n, e) ==
  /\ map[n] # None
  /\ \/ (~map[n].mutable \/ num_mismatch(map[n].ty, e)) /\ Refuse
     \/ map[n].mutable /\ ~num_mismatch(map[n].ty, e) /\ UNCHANGED scope_vars

(* ---- blocks ---------------------------------------------------------------------- *)

\* if (cond) { ... } else { ... }: each branch in a scope of its own, with what the
\* condition proves there.
Then(cond) ==
  /\ marks' = Append(marks, [cond |-> cond, mark |-> enter, branch |-> "then"])
  /\ Becomes(narrow_cond(Now, cond, TRUE))
  /\ UNCHANGED refused

Inner == marks[Len(marks)]

EndThen ==
  /\ marks # <<>> /\ Inner.branch = "then"
  /\ Becomes(exit(Now, Inner.mark))
  /\ marks' = [marks EXCEPT ![Len(marks)].branch = "else?"]
  /\ UNCHANGED refused

Else ==
  /\ marks # <<>> /\ Inner.branch = "else?"
  /\ marks' = [marks EXCEPT ![Len(marks)].branch = "else", ![Len(marks)].mark = enter]
  /\ Becomes(narrow_cond(Now, Inner.cond, FALSE))
  /\ UNCHANGED refused

EndElse ==
  /\ marks # <<>> /\ Inner.branch = "else"
  /\ Becomes(exit(Now, Inner.mark))
  /\ marks' = SubSeq(marks, 1, Len(marks) - 1)
  /\ UNCHANGED refused

NoElse ==
  /\ marks # <<>> /\ Inner.branch = "else?"
  /\ marks' = SubSeq(marks, 1, Len(marks) - 1)
  /\ UNCHANGED <<map, undo, next_slot, refused>>

\* The parameters take the first slots, and are vals.
RECURSIVE declare_params(_, _)
declare_params(sc, ps) ==
  IF ps = <<>> THEN sc
  ELSE declare_params(set_written(declare_full(sc, Head(ps).name, coarse(Head(ps).ty), FALSE),
                                  Head(ps).name, Head(ps).ty), Tail(ps))

ScopeInit(ps) ==
  LET sc == declare_params(Scope([n \in Names |-> None], <<>>, 0), ps)
  IN  /\ map = sc.map /\ undo = sc.undo /\ next_slot = sc.next
      /\ marks = <<>> /\ refused = FALSE
=============================================================================

------------------------------- MODULE Delegates -------------------------------
(***************************************************************************)
(* How kotlinrs reads and writes lazy, delegated and lateinit properties:  *)
(* the builtins KT_LAZY_GET, KT_DELEG_GET and KT_DELEG_SET, which call back *)
(* into the program with the cell released, and the code around them.       *)
(*                                                                          *)
(* The program is the most general one.  A throwable in flight does not     *)
(* stop anything by itself: the statement it was raised in runs to its end, *)
(* over operands that are garbage, up to the check after it (or, for the    *)
(* result expression of a lambda, which has no check, to its return).       *)
(***************************************************************************)
EXTENDS Integers, Sequences

CONSTANTS Lazy, Observable, Vetoable, Late, Values, Unset, Nothing,
          Undef,    \* what an abandoned expression leaves on the stack
          MaxRuns,  \* NESTED_RUN_LIMIT
          Careful   \* what is assigned is computed without failing, and so is
                    \* the result of a handler

ASSUME KindsAssumption ==
  /\ \A p \in Lazy : p \notin Observable \cup Vetoable \cup Late
  /\ \A p \in Observable : p \notin Vetoable \cup Late
  /\ \A p \in Vetoable : p \notin Late
  /\ Unset \notin Values /\ Undef \notin Values \cup {Unset} /\ Nothing \notin Values
  /\ MaxRuns \in Nat /\ Careful \in BOOLEAN

VARIABLES value,   \* HeapObj::Lazy and HeapObj::Observed: value; a lateinit's slot
          frames,  \* the nested runs of thunks and handlers, with what the
                   \* builtin that runs each one has in its locals
          pending, \* PENDING
          answer   \* what the last read of the statement left on the stack

vars == <<value, frames, pending, answer>>

Property == Lazy \cup Observable \cup Vetoable \cup Late
Operand == Values \cup {Undef}
Frame == [of : Property, old : Values \cup {Unset}, new : Values \cup {Unset}]
unwinding == pending
Top == frames[Len(frames)]
Below == SubSeq(frames, 1, Len(frames) - 1)
Ends(kind) == frames # <<>> /\ Top.of \in kind

Init ==
  /\ value \in [Property -> Values \cup {Unset}]
  /\ \A p \in Property : value[p] = Unset <=> p \in Lazy \cup Late
  /\ frames = <<>> /\ pending = FALSE /\ answer = Nothing

\* No call while unwinding, and none beyond the budget, which raises.
invoke_closure(p, old, new) ==
  IF unwinding THEN UNCHANGED <<frames, pending>>
  ELSE IF Len(frames) >= MaxRuns THEN pending' = TRUE /\ UNCHANGED frames
  ELSE /\ frames' = Append(frames, [of |-> p, old |-> old, new |-> new])
       /\ UNCHANGED pending

store(p, v) == value' = [value EXCEPT ![p] = v]

\* Nobody reads the answer that a failed statement still gets.
answers(v) == answer' = IF unwinding THEN answer ELSE v

(* ---- reads ----------------------------------------------------------------- *)

\* Mutation: the cell is not asked whether it holds a value.
lazy_get_again(l) == invoke_closure(l, Unset, Unset) /\ UNCHANGED <<value, answer>>

lazy_get(l) ==
  IF value[l] # Unset
  THEN answers(value[l]) /\ UNCHANGED <<value, frames, pending>>
  ELSE invoke_closure(l, Unset, Unset) /\ UNCHANGED <<value, answer>>

\* The thunk has returned: nothing is cached on the way out.
LazyEnds(v) ==
  /\ Ends(Lazy)
  /\ IF unwinding THEN UNCHANGED value ELSE store(Top.of, v)
  /\ answers(v)
  /\ frames' = Below
  /\ UNCHANGED pending

\* The marker of an unset property is a value like any other; meeting it faults.
deleg_get(p) ==
  IF value[p] = Unset
  THEN pending' = TRUE /\ UNCHANGED <<value, frames, answer>>
  ELSE answers(value[p]) /\ UNCHANGED <<value, frames, pending>>

(* ---- writes ---------------------------------------------------------------- *)

\* Mutation: a vetoable property is stored before its handler is asked.
deleg_set_first(p, v) ==
  /\ store(p, v)
  /\ IF p \in Late THEN UNCHANGED <<frames, pending>> ELSE invoke_closure(p, value[p], v)
  /\ UNCHANGED answer

deleg_set(p, v) ==
  /\ IF p \in Vetoable THEN UNCHANGED value ELSE store(p, v)
  /\ IF p \in Late THEN UNCHANGED <<frames, pending>> ELSE invoke_closure(p, value[p], v)
  /\ UNCHANGED answer

\* The handler answered: what it says counts, whatever else is going on.
VetoableEnds(verdict) ==
  /\ Ends(Vetoable)
  /\ IF verdict THEN store(Top.of, Top.new) ELSE UNCHANGED value
  /\ frames' = Below
  /\ UNCHANGED <<pending, answer>>

ObservableEnds ==
  /\ Ends(Observable)
  /\ frames' = Below
  /\ UNCHANGED <<value, pending, answer>>

(* ---- the program --------------------------------------------------------------- *)

ReadLazy == \E l \in Lazy : lazy_get(l)
ReadDelegated == \E p \in Property \ Lazy : deleg_get(p)

\* The operand of an assignment is a value, or the garbage of a failed call:
\* there is no check between the operand and KT_DELEG_SET.
Assign == \E p \in Property \ Lazy, v \in Operand :
  /\ v = Undef <=> unwinding
  /\ Careful => ~unwinding
  /\ deleg_set(p, v)

ThunkReturns == \E v \in Operand : (unwinding \/ v # Undef) /\ LazyEnds(v)

\* What the statements of a handler raise ends it without a verdict; a result
\* expression that fails is computed all the same: `!risky(new)` is true.
HandlerReturns ==
  \/ \E verdict \in BOOLEAN : (Careful /\ unwinding => ~verdict) /\ VetoableEnds(verdict)
  \/ ObservableEnds

Throw == ~unwinding /\ pending' = TRUE /\ UNCHANGED <<value, frames, answer>>

\* The check after a statement under a try, in whatever frame.
Catch == unwinding /\ pending' = FALSE /\ answer' = Nothing /\ UNCHANGED <<value, frames>>

Next == ReadLazy \/ ReadDelegated \/ Assign \/ ThunkReturns \/ HandlerReturns \/ Throw \/ Catch

Spec == Init /\ [][Next]_vars

(* ---- properties --------------------------------------------------------------- *)

\* A property holds a value of the program, and only those that start without
\* one are ever without.
TypeOK ==
  /\ value \in [Property -> Values \cup {Unset}]
  /\ frames \in Seq(Frame)
  /\ pending \in BOOLEAN
  /\ answer \in Values \cup {Nothing}
  /\ \A p \in Observable \cup Vetoable : value[p] # Unset
  /\ \A i \in DOMAIN frames : frames[i].of \in Vetoable => frames[i].new # Unset

\* The initializer of l is over: it has a value and none of its runs is open.
Settled(l) == value[l] # Unset /\ \A i \in DOMAIN frames : frames[i].of # l

\* A lazy property that was initialized is, for good: its initializer never
\* runs again and it never answers anything else.  (While runs of it are open,
\* because it read itself, the outer one still overwrites what the inner one
\* cached, here as on the JVM.)
OnceForAll == [][\A l \in Lazy : Settled(l) => Settled(l)' /\ value'[l] = value[l]]_vars

Promise == INSTANCE KotlinProperties WITH runs <- frames, abrupt <- pending

\* Every access is Kotlin's: initializers, handlers and stores in its order,
\* under every nesting of reads and assignments, failures and catches.
KeepsPromise == Promise!Init /\ [][Promise!Next]_(Promise!vars)
=============================================================================

---------------------------- MODULE KotlinProperties ----------------------------
(***************************************************************************)
(* What Kotlin promises of a property whose accesses run code of the       *)
(* program: `by lazy`, Delegates.observable, Delegates.vetoable, and the    *)
(* ones that start without a value (lateinit, Delegates.notNull).          *)
(*                                                                          *)
(* The code that runs is anything: it reads and assigns the same properties *)
(* again, throws, and catches.  A throwable on its way out ends statement,  *)
(* run and access alike: nothing happens until somebody catches it.         *)
(***************************************************************************)
EXTENDS Integers, Sequences

CONSTANTS Lazy, Observable, Vetoable, Late, \* the properties, by kind
          Values,
          Unset,   \* no value yet
          Nothing  \* no answer: a statement has just begun

VARIABLES value,   \* per property, or Unset
          runs,    \* initializers and handlers that run, innermost last
          abrupt,  \* a throwable is on its way out
          answer   \* what the last read of the statement answered

vars == <<value, runs, abrupt, answer>>

Property == Lazy \cup Observable \cup Vetoable \cup Late
Innermost == runs[Len(runs)]
Outer == SubSeq(runs, 1, Len(runs) - 1)
Called(p, old, new) == Append(runs, [of |-> p, old |-> old, new |-> new])
Running(kind) == ~abrupt /\ runs # <<>> /\ Innermost.of \in kind

Init ==
  /\ value \in [Property -> Values \cup {Unset}]
  /\ \A p \in Property : value[p] = Unset <=> p \in Lazy \cup Late
  /\ runs = <<>> /\ abrupt = FALSE /\ answer = Nothing

Read(p) ==
  /\ ~abrupt /\ value[p] # Unset
  /\ answer' = value[p]
  /\ UNCHANGED <<value, runs, abrupt>>

\* The first read of a lazy property runs its initializer; so does a read by
\* that initializer itself.
Force(l) ==
  /\ ~abrupt /\ value[l] = Unset
  /\ runs' = Called(l, Unset, Unset)
  /\ UNCHANGED <<value, abrupt, answer>>

Initialized(v) ==
  /\ Running(Lazy)
  /\ value' = [value EXCEPT ![Innermost.of] = v]
  /\ answer' = v
  /\ runs' = Outer
  /\ UNCHANGED abrupt

AssignLate(p, v) ==
  /\ ~abrupt
  /\ value' = [value EXCEPT ![p] = v]
  /\ UNCHANGED <<runs, abrupt, answer>>

\* An observable property has changed when its handler is told.
AssignObservable(p, v) ==
  /\ ~abrupt
  /\ value' = [value EXCEPT ![p] = v]
  /\ runs' = Called(p, value[p], v)
  /\ UNCHANGED <<abrupt, answer>>

Told ==
  /\ Running(Observable)
  /\ runs' = Outer
  /\ UNCHANGED <<value, abrupt, answer>>

\* A vetoable one changes when its handler agrees.
AssignVetoable(p, v) ==
  /\ ~abrupt
  /\ runs' = Called(p, value[p], v)
  /\ UNCHANGED <<value, abrupt, answer>>

Judged(agreed) ==
  /\ Running(Vetoable)
  /\ value' = IF agreed THEN [value EXCEPT ![Innermost.of] = Innermost.new] ELSE value
  /\ runs' = Outer
  /\ UNCHANGED <<abrupt, answer>>

\* A statement of the program fails: it throws, reads a property that has no
\* value, or finds no stack left for the code an access would run.
Throw ==
  /\ ~abrupt
  /\ abrupt' = TRUE
  /\ UNCHANGED <<value, runs, answer>>

\* The stack ends between the change of an observable property and its handler.
ThrowUntold(p, v) ==
  /\ ~abrupt
  /\ value' = [value EXCEPT ![p] = v]
  /\ abrupt' = TRUE
  /\ UNCHANGED <<runs, answer>>

\* It ends the innermost run, which leaves no trace.
Leave ==
  /\ abrupt /\ runs # <<>>
  /\ runs' = Outer
  /\ UNCHANGED <<value, abrupt, answer>>

Catch ==
  /\ abrupt
  /\ abrupt' = FALSE
  /\ answer' = Nothing
  /\ UNCHANGED <<value, runs>>

Next ==
  \/ \E p \in Property : Read(p)
  \/ \E l \in Lazy : Force(l)
  \/ \E v \in Values : Initialized(v)
  \/ \E v \in Values : \E p \in Late : AssignLate(p, v)
  \/ \E v \in Values : \E p \in Observable : AssignObservable(p, v) \/ ThrowUntold(p, v)
  \/ \E v \in Values : \E p \in Vetoable : AssignVetoable(p, v)
  \/ \E agreed \in BOOLEAN : Judged(agreed)
  \/ Told \/ Throw \/ Leave \/ Catch

Spec == Init /\ [][Next]_vars
=============================================================================

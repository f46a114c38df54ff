------------------------------ MODULE ClassInit ------------------------------
(***************************************************************************)
(* The class initialization procedure of the JVM, for one thread: what an  *)
(* object promises whoever uses it.  Its initializer runs once, on first    *)
(* use; while it runs its own code may use the half-built instance; and    *)
(* once it failed nobody gets to see the instance again.                    *)
(***************************************************************************)
EXTENDS Integers, Sequences, Throwables

CONSTANTS Prop, Val, Zero

VARIABLES state,    \* per object: "unused", "initializing", "ready" or "erroneous"
          fields,   \* per object, the properties of its instance
          cause,    \* per object, what its initializer threw
          running,  \* the objects whose initializers run, innermost last
          pending,  \* the throwable on its way out, or None
          out,      \* what was printed
          reads,    \* what reads of properties were answered
          report    \* what left main

vars == <<state, fields, cause, running, pending, out, reads, report>>

Fresh == [p \in Prop |-> Zero]
Innermost == running[Len(running)]
Outer == SubSeq(running, 1, Len(running) - 1)

Init ==
  /\ state = [o \in Obj |-> "unused"]
  /\ fields = [o \in Obj |-> Fresh]
  /\ cause = [o \in Obj |-> None]
  /\ running = <<>>
  /\ pending = None
  /\ out = <<>> /\ reads = <<>> /\ report = None

Println(v) ==
  /\ pending = None
  /\ out' = Append(out, v)
  /\ UNCHANGED <<state, fields, cause, running, pending, reads, report>>

Throw(e) ==
  /\ pending = None
  /\ pending' = e
  /\ UNCHANGED <<state, fields, cause, running, out, reads, report>>

\* The first use of an object.
Begin(o) ==
  /\ pending = None /\ state[o] = "unused"
  /\ state' = [state EXCEPT ![o] = "initializing"]
  /\ running' = Append(running, o)
  /\ UNCHANGED <<fields, cause, pending, out, reads, report>>

\* A use of an object that failed.
Refuse(o) ==
  /\ pending = None /\ state[o] = "erroneous"
  /\ pending' = NotDefined(o, cause[o])
  /\ UNCHANGED <<state, fields, cause, running, out, reads, report>>

\* There is one thread: an object that is being initialized is used by code
\* its own initializer runs.
Read(o, p) ==
  /\ pending = None /\ state[o] \in {"initializing", "ready"}
  /\ reads' = Append(reads, [of |-> o, at |-> p, v |-> fields[o][p]])
  /\ UNCHANGED <<state, fields, cause, running, pending, out, report>>

\* An initializer writes its own properties.  What it writes after it failed
\* nobody will read.
Write(p, v) ==
  /\ running # <<>>
  /\ fields' = [fields EXCEPT ![Innermost][p] = v]
  /\ UNCHANGED <<state, cause, running, pending, out, reads, report>>

Complete ==
  /\ running # <<>> /\ pending = None
  /\ state' = [state EXCEPT ![Innermost] = "ready"]
  /\ running' = Outer
  /\ UNCHANGED <<fields, cause, pending, out, reads, report>>

\* An initializer completes abruptly.
Fail ==
  /\ running # <<>> /\ pending # None
  /\ state' = [state EXCEPT ![Innermost] = "erroneous"]
  /\ fields' = [fields EXCEPT ![Innermost] = Fresh]
  /\ cause' = [cause EXCEPT ![Innermost] = pending]
  /\ running' = Outer
  /\ pending' = IF IsError(pending) THEN pending ELSE InInitializer(pending)
  /\ UNCHANGED <<out, reads, report>>

\* main's catch prints what it caught.
Catch ==
  /\ running = <<>> /\ pending # None
  /\ out' = Append(out, pending)
  /\ pending' = None
  /\ UNCHANGED <<state, fields, cause, running, reads, report>>

LeaveMain ==
  /\ running = <<>> /\ pending # None
  /\ report' = pending
  /\ pending' = None
  /\ UNCHANGED <<state, fields, cause, running, out, reads>>

Next ==
  \/ \E v \in Val : Println(v)
  \/ \E e \in Raised : Throw(e)
  \/ \E o \in Obj : Begin(o) \/ Refuse(o)
  \/ \E o \in Obj, p \in Prop : Read(o, p)
  \/ \E p \in Prop, v \in Val : Write(p, v)
  \/ Complete \/ Fail \/ Catch \/ LeaveMain

Spec == Init /\ [][Next]_vars
=============================================================================

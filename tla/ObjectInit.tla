----------------------------- MODULE ObjectInit -----------------------------
(***************************************************************************)
(* How kotlinrs builds an object on its first use: the code                 *)
(* emit_object_first_use puts at every reference, the subroutine            *)
(* build_object_in_place makes of the initializer, and the builtins         *)
(* KT_OBJ_INIT_ENTER and KT_OBJ_INIT_EXIT between them.                     *)
(*                                                                          *)
(* A program is main's lines and each object's: property initializers,      *)
(* statements of init blocks, in main also statements under a try.  A line  *)
(* evaluates its atoms in order; the last one's value is what it answers.   *)
(* Between the atoms of a line, and between property initializers, nobody   *)
(* asks whether a throwable is on its way out.                              *)
(***************************************************************************)
EXTENDS Integers, Sequences, Throwables

CONSTANTS Programs, \* the programs that may be run
          Prop,     \* the properties of an object
          Val,      \* property values
          Zero,     \* what a property holds before its initializer ran
          Undef     \* fusevm's Value::Undef

Atom == [ k : {"lit", "raise", "read", "print"}, v : Val, e : Raised, of : Obj, at : Prop ]
Line == [ kind : {"prop", "stmt", "try"}, at : Prop, atoms : Seq(Atom) ]
Frame == [ of : Obj \cup {None}, line : Nat \ {0}, atom : Nat \ {0} ]

ASSUME ProgramAssumption ==
  /\ Zero \in Val /\ Undef \in Val
  /\ \A o \in Obj : o # None
  /\ None \notin [Prop -> Val]
  /\ \A p \in Programs :
       /\ p.main \in Seq({l \in Line : l.kind # "prop"})
       /\ p.body \in [Obj -> Seq({l \in Line : l.kind # "try"})]
       /\ p.catchable \in BOOLEAN

VARIABLES program,   \* the program being run, constant over a run
          frames,    \* main's frame, and one per initializer that runs
          operand,   \* the value on top of the operand stack
          global,    \* per object: its instance in the global, or None
          failed,    \* FAILED_INIT: what an object's initializer threw, or None
          depth,     \* INIT_DEPTH
          pending,   \* PENDING
          out,       \* what was printed
          reads,     \* what reads of properties were answered, outside of unwinding
          report,    \* the uncaught throwable, or None
          status     \* "run", then "ok" or "halted"

vars == <<program, frames, operand, global, failed, depth, pending, out, reads, report, status>>
object_vars == <<global, failed, depth>>
log_vars == <<out, reads, report, status>>

Top == frames[Len(frames)]
Below == SubSeq(frames, 1, Len(frames) - 1)
Body(o) == IF o = None THEN program.main ELSE program.body[o]
InLine == status = "run" /\ Top.line <= Len(Body(Top.of))
Here == Body(Top.of)[Top.line]
LineDone == InLine /\ Top.atom > Len(Here.atoms)
At(k) == InLine /\ ~LineDone /\ Here.atoms[Top.atom].k = k
Cur == Here.atoms[Top.atom]

unwinding == pending # None
NextAtom(fs) == [fs EXCEPT ![Len(fs)].atom = @ + 1]
NextLine(fs) == [fs EXCEPT ![Len(fs)] = [of |-> @.of, line |-> @.line + 1, atom |-> 1]]
ZeroFields == [p \in Prop |-> Zero]

Init ==
  /\ program \in Programs
  /\ frames = << [of |-> None, line |-> 1, atom |-> 1] >>
  /\ operand = Undef
  /\ global = [o \in Obj |-> None]
  /\ failed = [o \in Obj |-> None]
  /\ depth = 0
  /\ pending = None
  /\ out = <<>> /\ reads = <<>> /\ report = None
  /\ status = "run"

(* ---- atoms --------------------------------------------------------------- *)

Lit ==
  /\ At("lit")
  /\ operand' = Cur.v
  /\ frames' = NextAtom(frames)
  /\ UNCHANGED <<program, object_vars, pending, log_vars>>

\* uncaught_line: an Exception no catch can stop, inside an initializer.
Uncaught(e) == IF depth > 0 /\ ~IsError(e) THEN InInitializer(e) ELSE e

\* raise: dropped while unwinding, parked if the program can catch, else final.
Raise ==
  /\ At("raise")
  /\ operand' = Undef
  /\ frames' = NextAtom(frames)
  /\ IF unwinding THEN UNCHANGED <<pending, report, status>>
     ELSE IF program.catchable THEN pending' = Cur.e /\ UNCHANGED <<report, status>>
     ELSE report' = Uncaught(Cur.e) /\ status' = "halted" /\ UNCHANGED pending
  /\ UNCHANGED <<program, object_vars, out, reads>>

Println ==
  /\ At("print")
  /\ out' = IF unwinding THEN out ELSE Append(out, operand)
  /\ frames' = NextAtom(frames)
  /\ UNCHANGED <<program, operand, object_vars, pending, reads, report, status>>

(* ---- the use of an object -------------------------------------------------- *)

\* Mutation: an instance still at zero values is taken for none.
UnbuiltZero(o) == global[o] \in {None, ZeroFields}
\* The test of the global at every reference.
Unbuilt(o) == global[o] = None

Read ==
  /\ At("read") /\ ~Unbuilt(Cur.of)
  /\ operand' = global[Cur.of][Cur.at]
  /\ reads' = IF unwinding THEN reads
              ELSE Append(reads, [of |-> Cur.of, at |-> Cur.at, v |-> operand'])
  /\ frames' = NextAtom(frames)
  /\ UNCHANGED <<program, object_vars, pending, out, report, status>>

\* KT_OBJ_INIT_ENTER on an object whose initializer failed.
Refuse ==
  /\ At("read") /\ Unbuilt(Cur.of) /\ failed[Cur.of] # None
  /\ operand' = Undef
  /\ pending' = IF unwinding THEN pending ELSE NotDefined(Cur.of, failed[Cur.of])
  /\ frames' = NextAtom(frames)
  /\ UNCHANGED <<program, object_vars, log_vars>>

\* KT_OBJ_INIT_ENTER, the call, and the instance published at zero values.
Enter ==
  /\ At("read") /\ Unbuilt(Cur.of) /\ failed[Cur.of] = None
  /\ depth' = depth + 1
  /\ frames' = Append(frames, [of |-> Cur.of, line |-> 1, atom |-> 1])
  /\ global' = [global EXCEPT ![Cur.of] = ZeroFields]
  /\ UNCHANGED <<program, operand, failed, pending, log_vars>>

(* ---- the end of a line ------------------------------------------------------ *)

\* A property initializer stores what it evaluated to, whatever that is.
Store ==
  /\ LineDone /\ Here.kind = "prop"
  /\ global' = [global EXCEPT ![Top.of][Here.at] = operand]
  /\ frames' = NextLine(frames)
  /\ UNCHANGED <<program, operand, failed, depth, pending, log_vars>>

\* A statement that completed, under a try or not.
Complete ==
  /\ LineDone /\ Here.kind # "prop" /\ ~unwinding
  /\ frames' = NextLine(frames)
  /\ UNCHANGED <<program, operand, object_vars, pending, log_vars>>

\* main's catch prints what it caught.
Catch ==
  /\ LineDone /\ Here.kind = "try" /\ unwinding
  /\ out' = Append(out, pending)
  /\ pending' = None
  /\ frames' = NextLine(frames)
  /\ UNCHANGED <<program, operand, object_vars, reads, report, status>>

LeaveMain ==
  /\ LineDone /\ Here.kind = "stmt" /\ unwinding /\ Top.of = None
  /\ report' = pending
  /\ pending' = None
  /\ status' = "halted"
  /\ UNCHANGED <<program, frames, operand, object_vars, out, reads>>

Finish ==
  /\ status = "run" /\ ~InLine /\ Top.of = None
  /\ status' = "ok"
  /\ UNCHANGED <<program, frames, operand, object_vars, pending, out, reads, report>>

(* ---- the end of an initializer ------------------------------------------------ *)

\* The check after a statement of an init block returns Undef at once; after
\* the last line the instance is the answer.
GaveUp == LineDone /\ Here.kind = "stmt" /\ unwinding
Leaving == status = "run" /\ Top.of # None /\ (~InLine \/ GaveUp)

\* Mutation: the global is cleared, what happened is not recorded.
ForgotWhy(o) ==
  /\ pending' = InInitializer(pending)
  /\ global' = [global EXCEPT ![o] = None]
  /\ UNCHANGED failed
\* KT_OBJ_INIT_EXIT on an Exception: wrapped, remembered, and the global cleared.
Forget(o) ==
  /\ failed' = [failed EXCEPT ![o] = pending]
  /\ pending' = InInitializer(pending)
  /\ global' = [global EXCEPT ![o] = None]

\* Mutation: the count goes back only for an initializer that succeeded.
LeftOnSuccess(d) == IF unwinding THEN d ELSE d - 1
Left(d) == d - 1

\* Back at the reference, which goes on to read the property; on a value that
\* is no instance that answers Undef.
Exit ==
  /\ Leaving
  /\ depth' = Left(depth)
  /\ IF unwinding /\ ~IsError(pending) THEN Forget(Top.of) ELSE UNCHANGED <<failed, pending, global>>
  /\ LET caller == Below[Len(Below)]
         asked == Body(caller.of)[caller.line].atoms[caller.atom].at
     IN  IF unwinding
         THEN /\ operand' = IF GaveUp THEN Undef ELSE global[Top.of][asked]
              /\ frames' = NextAtom(Below)
         ELSE frames' = Below /\ UNCHANGED operand
  /\ UNCHANGED <<program, log_vars>>

Next ==
  \/ Lit \/ Raise \/ Println \/ Read \/ Refuse \/ Enter
  \/ Store \/ Complete \/ Catch \/ LeaveMain \/ Finish \/ Exit

Spec == Init /\ [][Next]_vars

(* ---- properties --------------------------------------------------------------- *)

\* Every part of the state within its type; nothing failed for a reason that
\* is itself an Error, and an object that failed has no instance.
TypeOK ==
  /\ frames \in Seq(Frame) \ {<<>>}
  /\ operand \in Val
  /\ global \in [Obj -> [Prop -> Val] \cup {None}]
  /\ failed \in [Obj -> (Raised \ Errors) \cup {None}]
  /\ depth \in Nat
  /\ pending \in Throwable \cup {None}
  /\ status \in {"run", "ok", "halted"}
  /\ \A o \in Obj : failed[o] # None => global[o] = None

\* No object is under construction twice, however its initializer and those it
\* uses refer to each other: it is published before its first line runs.
BuiltOnce ==
  \A i, j \in DOMAIN frames : i # j => frames[i].of # frames[j].of

\* INIT_DEPTH counts the initializers that run, through every failure: what an
\* uncatchable fault is reported as depends on it.
DepthCounts == depth = Len(frames) - 1

(* ---- the promise: ClassInit ------------------------------------------------------ *)

Under == {frames[i].of : i \in DOMAIN frames}
StateOf(o) == IF failed[o] # None THEN "erroneous"
              ELSE IF Unbuilt(o) THEN "unused"
              ELSE IF o \in Under THEN "initializing" ELSE "ready"

\* The initializers that run: every frame but main's.
Running(fs) == [i \in 1..Len(fs) - 1 |-> fs[i + 1].of]

Promise == INSTANCE ClassInit WITH
  Val     <- Val \cup Throwable,
  state   <- [o \in Obj |-> StateOf(o)],
  fields  <- [o \in Obj |-> IF Unbuilt(o) THEN ZeroFields ELSE global[o]],
  cause   <- failed,
  running <- Running(frames)

\* Where kotlinrs keeps to the JVM's procedure: not where an object is first
\* used by a statement that already failed, nor where an Error leaves an
\* initializer, nor in a program that cannot catch, which ends on the spot.
Regular ==
  /\ program.catchable
  /\ unwinding /\ At("read") => ~Unbuilt(Cur.of) \/ failed[Cur.of] # None
  /\ unwinding /\ Leaving => ~IsError(pending)

\* Apart from those, every step is one of the JVM's procedure: an initializer
\* runs once, its failure is wrapped and remembered, and a half-built instance
\* is seen only by what its own initializer runs.
KeepsPromise == Promise!Init /\ [][Regular => Promise!Next]_(Promise!vars)
=============================================================================

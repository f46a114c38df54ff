-------------------------- MODULE ObjectInitProofs --------------------------
(***************************************************************************)
(* Theorems of module ObjectInit, for every program, every set of objects  *)
(* and throwables: types, that no initializer is entered twice, the count  *)
(* of running initializers, and that every regular step is a step of the   *)
(* JVM's class initialization procedure.                                    *)
(***************************************************************************)
EXTENDS ObjectInit, TLAPS, SequenceTheorems

(* ---- the inductive invariant ---------------------------------------------- *)

\* A frame below another one stands at the atom that used the object above it.
Waits(i) ==
  LET body == Body(frames[i].of)
      line == body[frames[i].line]
  IN  /\ frames[i].line <= Len(body)
      /\ frames[i].atom <= Len(line.atoms)

\* Only main's frame is at the bottom, and whatever is under construction has
\* been published: that is why the test of the global never enters it again.
Nested ==
  /\ frames[1].of = None
  /\ \A i \in 2..Len(frames) : frames[i].of # None /\ global[frames[i].of] # None
  /\ \A i \in 1..Len(frames) - 1 : Waits(i)

IInv == TypeOK /\ program \in Programs /\ BuiltOnce /\ DepthCounts /\ Nested

(* ---- frames ----------------------------------------------------------------- *)

LEMMA FramesLen ==
  ASSUME NEW fs \in Seq(Frame) \ {<<>>}
  PROVE  /\ Len(fs) \in Nat \ {0}
         /\ DOMAIN fs = 1..Len(fs)
         /\ \A i \in 1..Len(fs) : /\ fs[i] \in Frame
                                  /\ fs[i].of \in Obj \cup {None}
                                  /\ fs[i].line \in Nat \ {0} /\ fs[i].atom \in Nat \ {0}
<1>1. Len(fs) \in Nat \ {0} /\ DOMAIN fs = 1..Len(fs)
  BY LenProperties, EmptySeq
<1>2. \A i \in 1..Len(fs) : fs[i] \in Frame
  BY ElementOfSeq
<1>3. QED
  BY <1>1, <1>2 DEF Frame

LEMMA MovedFrame ==
  ASSUME NEW f \in Frame
  PROVE  /\ [f EXCEPT !.atom = @ + 1] \in Frame
         /\ [f EXCEPT !.atom = @ + 1].of = f.of
         /\ [of |-> f.of, line |-> f.line + 1, atom |-> 1] \in Frame
<1>1. [f EXCEPT !.atom = @ + 1] \in Frame
  BY DEF Frame
<1>2. [f EXCEPT !.atom = @ + 1].of = f.of
  BY DEF Frame
<1>3. [of |-> f.of, line |-> f.line + 1, atom |-> 1] \in Frame
  BY DEF Frame
<1>4. QED
  BY <1>1, <1>2, <1>3

\* Another frame with the same owner on top leaves every frame's owner and the
\* frames below.
LEMMA TopUpdate ==
  ASSUME NEW fs \in Seq(Frame) \ {<<>>}, NEW f \in Frame, f.of = fs[Len(fs)].of,
         NEW gs, gs = [fs EXCEPT ![Len(fs)] = f]
  PROVE  /\ gs \in Seq(Frame) \ {<<>>}
         /\ Len(gs) = Len(fs)
         /\ \A i \in 1..Len(fs) : gs[i].of = fs[i].of
         /\ \A i \in 1..Len(fs) - 1 : gs[i] = fs[i]
<1>1. Len(fs) \in Nat \ {0} /\ Len(fs) \in 1..Len(fs)
  BY FramesLen
<1>2. /\ gs \in Seq(Frame)
      /\ Len(gs) = Len(fs)
      /\ \A i \in 1..Len(fs) : gs[i] = IF i = Len(fs) THEN f ELSE fs[i]
  BY <1>1, ExceptSeq
<1>3. gs # <<>>
  BY <1>1, <1>2, EmptySeq
<1>4. \A i \in 1..Len(fs) : gs[i].of = fs[i].of
  BY <1>1, <1>2
<1>5. ASSUME NEW i \in 1..Len(fs) - 1 PROVE gs[i] = fs[i]
  <2>1. i \in 1..Len(fs) /\ i # Len(fs)
    BY <1>1
  <2>2. QED
    BY <1>2, <2>1
<1>6. QED
  BY <1>2, <1>3, <1>4, <1>5

LEMMA NextAtomFrames ==
  ASSUME NEW fs \in Seq(Frame) \ {<<>>}
  PROVE  /\ NextAtom(fs) \in Seq(Frame) \ {<<>>}
         /\ Len(NextAtom(fs)) = Len(fs)
         /\ \A i \in 1..Len(fs) : NextAtom(fs)[i].of = fs[i].of
         /\ \A i \in 1..Len(fs) - 1 : NextAtom(fs)[i] = fs[i]
<1>1. fs[Len(fs)] \in Frame
  BY FramesLen
<1>2. NextAtom(fs) = [fs EXCEPT ![Len(fs)] = [fs[Len(fs)] EXCEPT !.atom = @ + 1]]
  BY DEF NextAtom
<1>3. /\ [fs[Len(fs)] EXCEPT !.atom = @ + 1] \in Frame
      /\ [fs[Len(fs)] EXCEPT !.atom = @ + 1].of = fs[Len(fs)].of
  BY <1>1, MovedFrame
<1>4. QED
  BY <1>2, <1>3, TopUpdate

LEMMA NextLineFrames ==
  ASSUME NEW fs \in Seq(Frame) \ {<<>>}
  PROVE  /\ NextLine(fs) \in Seq(Frame) \ {<<>>}
         /\ Len(NextLine(fs)) = Len(fs)
         /\ \A i \in 1..Len(fs) : NextLine(fs)[i].of = fs[i].of
         /\ \A i \in 1..Len(fs) - 1 : NextLine(fs)[i] = fs[i]
<1>1. fs[Len(fs)] \in Frame
  BY FramesLen
<1>2. NextLine(fs) = [fs EXCEPT ![Len(fs)] = [of |-> fs[Len(fs)].of, line |-> fs[Len(fs)].line + 1, atom |-> 1]]
  BY DEF NextLine
<1>3. /\ [of |-> fs[Len(fs)].of, line |-> fs[Len(fs)].line + 1, atom |-> 1] \in Frame
      /\ [of |-> fs[Len(fs)].of, line |-> fs[Len(fs)].line + 1, atom |-> 1].of = fs[Len(fs)].of
  BY <1>1, MovedFrame
<1>4. QED
  BY <1>2, <1>3, TopUpdate

LEMMA BelowFrames ==
  ASSUME frames \in Seq(Frame), Len(frames) \in Nat, Len(frames) >= 2
  PROVE  /\ Below \in Seq(Frame) \ {<<>>}
         /\ Len(Below) = Len(frames) - 1
         /\ \A i \in 1..Len(frames) - 1 : Below[i] = frames[i]
<1> DEFINE n == Len(frames) - 1
<1>1. n \in Nat \ {0} /\ \A i \in 1..n : frames[i] \in Frame
  BY ElementOfSeq
<1>2. Below = SubSeq(frames, 1, n)
  BY DEF Below
<1> HIDE DEF n
<1>3. /\ SubSeq(frames, 1, n) \in Seq(Frame)
      /\ Len(SubSeq(frames, 1, n)) = n
      /\ \A i \in 1..n : SubSeq(frames, 1, n)[i] = frames[i]
  BY <1>1, SubSeqProperties
<1>4. Below # <<>>
  BY <1>1, <1>2, <1>3, EmptySeq
<1>5. QED
  BY <1>2, <1>3, <1>4 DEF n

(* ---- programs ------------------------------------------------------------------ *)

LEMMA BodyLines ==
  ASSUME program \in Programs, NEW o \in Obj \cup {None}
  PROVE  /\ Body(o) \in Seq(Line)
         /\ Len(Body(o)) \in Nat
         /\ \A i \in 1..Len(Body(o)) :
              /\ Body(o)[i] \in Line
              /\ Body(o)[i].atoms \in Seq(Atom)
              /\ Body(o)[i].kind = "prop" => o # None
              /\ Body(o)[i].kind = "try" => o = None
<1>1. CASE o = None
  <2> DEFINE S == {l \in Line : l.kind # "prop"}
  <2>1. Body(o) = program.main /\ program.main \in Seq(S)
    BY <1>1, ProgramAssumption DEF Body
  <2>2. \A i \in 1..Len(program.main) : program.main[i] \in S
    BY <2>1, ElementOfSeq
  <2>3. program.main \in Seq(Line) /\ Len(program.main) \in Nat
    BY <2>1, <2>2, SeqDef, LenProperties
  <2>4. QED
    BY <1>1, <2>1, <2>2, <2>3 DEF Line
<1>2. CASE o # None
  <2> DEFINE S == {l \in Line : l.kind # "try"}
  <2>1. Body(o) = program.body[o] /\ program.body[o] \in Seq(S)
    BY <1>2, ProgramAssumption DEF Body
  <2>2. \A i \in 1..Len(program.body[o]) : program.body[o][i] \in S
    BY <2>1, ElementOfSeq
  <2>3. program.body[o] \in Seq(Line) /\ Len(program.body[o]) \in Nat
    BY <2>1, <2>2, SeqDef, LenProperties
  <2>4. QED
    BY <1>2, <2>1, <2>2, <2>3 DEF Line
<1>3. QED
  BY <1>1, <1>2
\* The line and the atom the machine is at.
LEMMA HereLine ==
  ASSUME IInv, InLine
  PROVE  /\ Here \in Line /\ Here.atoms \in Seq(Atom) /\ Here.at \in Prop
         /\ Here.kind = "prop" => Top.of \in Obj
         /\ Here.kind = "try" => Top.of = None
<1>1. Top.of \in Obj \cup {None} /\ Top.line \in Nat \ {0}
  BY FramesLen DEF IInv, TypeOK, Top
<1>2. Top.line \in 1..Len(Body(Top.of)) /\ program \in Programs
  BY <1>1, BodyLines DEF IInv, InLine
<1>3. QED
  BY <1>1, <1>2, BodyLines DEF Here, Line

LEMMA CurAtom ==
  ASSUME IInv, InLine, ~LineDone
  PROVE  /\ Cur \in Atom /\ Cur.v \in Val /\ Cur.e \in Raised /\ Cur.of \in Obj /\ Cur.at \in Prop
         /\ Waits(Len(frames))
<1>1. Here.atoms \in Seq(Atom) /\ Len(Here.atoms) \in Nat
  BY HereLine, LenProperties
<1>2. Top.atom \in Nat \ {0} /\ Top = frames[Len(frames)]
  BY FramesLen DEF IInv, TypeOK, Top
<1>3. Top.atom <= Len(Here.atoms)
  BY <1>1, <1>2 DEF LineDone
<1>4. Cur \in Atom
  BY <1>1, <1>2, <1>3, ElementOfSeq DEF Cur
<1>5. Waits(Len(frames))
  BY <1>2, <1>3 DEF Waits, InLine, Here
<1>6. QED
  BY <1>4, <1>5 DEF Atom

(* ---- the invariant is inductive -------------------------------------------- *)

LEMMA IInvInit == Init => IInv
<1> SUFFICES ASSUME Init PROVE IInv
  OBVIOUS
<1> DEFINE f == [of |-> None, line |-> 1, atom |-> 1]
<1>1. frames = <<f>> /\ f \in Frame /\ f.of = None
  BY DEF Init, Frame
<1> HIDE DEF f
<1>2. frames \in Seq(Frame) \ {<<>>} /\ Len(frames) = 1 /\ DOMAIN frames = 1..1 /\ frames[1] = f
  BY <1>1
<1>3. TypeOK
  BY <1>2, ProgramAssumption DEF Init, TypeOK
<1>4. BuiltOnce /\ DepthCounts /\ Nested
  BY <1>1, <1>2 DEF BuiltOnce, DepthCounts, Nested, Init
<1>5. QED
  BY <1>3, <1>4 DEF Init, IInv

\* A step that enters and leaves no initializer, and takes back no instance of
\* an object under construction.
LEMMA SameFrames ==
  ASSUME IInv, frames' \in Seq(Frame) \ {<<>>}, Len(frames') = Len(frames),
         \A i \in 1..Len(frames) : frames'[i].of = frames[i].of,
         \A i \in 1..Len(frames) - 1 : frames'[i] = frames[i],
         program' = program, depth' = depth,
         \A o \in Obj : global[o] # None => global'[o] # None
  PROVE  program' \in Programs /\ BuiltOnce' /\ DepthCounts' /\ Nested'
<1> DEFINE n == Len(frames)
<1>1. n \in Nat \ {0} /\ DOMAIN frames = 1..n /\ DOMAIN frames' = 1..n
  BY FramesLen DEF IInv, TypeOK
<1>2. BuiltOnce'
  BY <1>1 DEF IInv, BuiltOnce
<1>3. DepthCounts'
  BY DEF IInv, DepthCounts
<1>4. frames'[1].of = None
  BY <1>1 DEF IInv, Nested
<1>5. ASSUME NEW i \in 2..n PROVE frames'[i].of # None /\ global'[frames'[i].of] # None
  <2>1. i \in 1..n /\ frames[i].of \in Obj /\ global[frames[i].of] # None
    BY <1>1, FramesLen DEF IInv, Nested, TypeOK
  <2>2. QED
    BY <2>1, <1>5 DEF IInv, Nested
<1>6. ASSUME NEW i \in 1..n - 1 PROVE Waits(i)'
  <2>1. Waits(i) /\ frames'[i] = frames[i]
    BY DEF IInv, Nested
  <2>2. QED
    BY <2>1 DEF Waits, Body
<1>7. QED
  BY <1>2, <1>3, <1>4, <1>5, <1>6 DEF IInv, Nested

\* Nothing that tells an object's state apart changes.
LEMMA LitStep == ASSUME IInv, Lit PROVE IInv'
<1>1. Cur.v \in Val
  BY CurAtom DEF Lit, At
<1>2. TypeOK'
  BY <1>1, NextAtomFrames DEF Lit, IInv, TypeOK, object_vars, log_vars
<1>3. QED
  BY <1>2, NextAtomFrames, SameFrames DEF Lit, IInv, TypeOK, object_vars

LEMMA RaiseStep == ASSUME IInv, Raise PROVE IInv'
<1>1. Cur.e \in Throwable
  BY CurAtom DEF Raise, At, Throwable
<1>2. TypeOK'
  BY <1>1, ProgramAssumption, NextAtomFrames DEF Raise, IInv, TypeOK, object_vars
<1>3. QED
  BY <1>2, NextAtomFrames, SameFrames DEF Raise, IInv, TypeOK, object_vars

LEMMA PrintStep == ASSUME IInv, Println PROVE IInv'
<1>1. TypeOK'
  BY NextAtomFrames DEF Println, IInv, TypeOK, object_vars
<1>2. QED
  BY <1>1, NextAtomFrames, SameFrames DEF Println, IInv, TypeOK, object_vars

LEMMA ReadStep == ASSUME IInv, Read PROVE IInv'
<1>1. Cur.of \in Obj /\ Cur.at \in Prop /\ global[Cur.of] \in [Prop -> Val]
  BY CurAtom DEF Read, At, Unbuilt, IInv, TypeOK
<1>2. operand' \in Val
  BY <1>1 DEF Read
<1>3. TypeOK'
  BY <1>2, NextAtomFrames DEF Read, IInv, TypeOK, object_vars
<1>4. QED
  BY <1>3, NextAtomFrames, SameFrames DEF Read, IInv, TypeOK, object_vars

LEMMA RefuseStep == ASSUME IInv, Refuse PROVE IInv'
<1>1. Cur.of \in Obj /\ failed[Cur.of] \in Raised
  BY CurAtom DEF Refuse, At, IInv, TypeOK
<1>2. NotDefined(Cur.of, failed[Cur.of]) \in Throwable
  BY <1>1 DEF Throwable
<1>3. TypeOK'
  BY <1>2, ProgramAssumption, NextAtomFrames DEF Refuse, IInv, TypeOK, object_vars, log_vars
<1>4. QED
  BY <1>3, NextAtomFrames, SameFrames DEF Refuse, IInv, TypeOK, object_vars

\* The test of the global keeps an object under construction from being entered.
LEMMA EnterStep == ASSUME IInv, Enter PROVE IInv'
<1> DEFINE n == Len(frames)
           f == [of |-> Cur.of, line |-> 1, atom |-> 1]
<1>1. /\ Cur.of \in Obj /\ Cur.of # None /\ global[Cur.of] = None /\ failed[Cur.of] = None
      /\ Waits(n)
  BY CurAtom, ProgramAssumption DEF Enter, At, Unbuilt
<1>2. f \in Frame /\ f.of = Cur.of
  BY <1>1 DEF Frame
<1>3. frames' = Append(frames, f)
  BY DEF Enter
<1> HIDE DEF f
<1>4. n \in Nat \ {0} /\ DOMAIN frames = 1..n /\ \A i \in 1..n : frames[i].of \in Obj \cup {None}
  BY FramesLen DEF IInv, TypeOK
<1>5. /\ frames' \in Seq(Frame) /\ Len(frames') = n + 1 /\ DOMAIN frames' = 1..n + 1
      /\ \A i \in 1..n : frames'[i] = frames[i]
      /\ frames'[n + 1] = f
  BY <1>2, <1>3, <1>4, AppendProperties, LenProperties DEF IInv, TypeOK
<1>6. frames' # <<>>
  BY <1>4, <1>5, EmptySeq
<1>7. global' = [global EXCEPT ![Cur.of] = ZeroFields] /\ ZeroFields \in [Prop -> Val]
  BY ProgramAssumption DEF Enter, ZeroFields
<1>8. TypeOK'
  BY <1>1, <1>5, <1>6, <1>7, ProgramAssumption DEF Enter, IInv, TypeOK, log_vars
<1>9. ASSUME NEW i \in 1..n PROVE frames[i].of # Cur.of
  <2>1. CASE i = 1
    BY <1>1, <2>1 DEF IInv, Nested
  <2>2. CASE i # 1
    BY <1>1, <1>4, <2>2 DEF IInv, Nested
  <2>3. QED
    BY <2>1, <2>2
<1>10. BuiltOnce'
  BY <1>2, <1>4, <1>5, <1>9 DEF IInv, BuiltOnce
<1>11. DepthCounts'
  BY <1>4, <1>5 DEF Enter, IInv, DepthCounts
<1>12. Nested'
  <2>1. frames'[1].of = None
    BY <1>4, <1>5 DEF IInv, Nested
  <2>2. ASSUME NEW i \in 2..n + 1 PROVE frames'[i].of # None /\ global'[frames'[i].of] # None
    <3>1. CASE i = n + 1
      BY <1>1, <1>2, <1>5, <1>7, <3>1, ProgramAssumption DEF IInv, TypeOK
    <3>2. CASE i # n + 1
      <4>1. /\ i \in 1..n /\ i \in 2..n /\ frames'[i] = frames[i]
            /\ frames[i].of # None /\ global[frames[i].of] # None
        BY <1>4, <1>5, <3>2 DEF IInv, Nested
      <4>2. QED
        BY <1>4, <1>7, <1>9, <4>1 DEF IInv, TypeOK
    <3>3. QED
      BY <3>1, <3>2
  <2>3. ASSUME NEW i \in 1..n PROVE Waits(i)'
    <3>1. Waits(i)
      BY <1>1, <1>4 DEF IInv, Nested
    <3>2. QED
      BY <1>5, <3>1 DEF Waits, Body, Enter
  <2>4. QED
    BY <1>4, <1>5, <2>1, <2>2, <2>3 DEF Nested
<1>13. QED
  BY <1>8, <1>10, <1>11, <1>12 DEF IInv, Enter

LEMMA StoreStep == ASSUME IInv, Store PROVE IInv'
<1> DEFINE n == Len(frames)
<1>1. Top.of \in Obj /\ Here.at \in Prop
  BY HereLine DEF Store, LineDone
<1>2. n \in Nat \ {0} /\ Top = frames[n] /\ n \in 2..n
  BY <1>1, FramesLen, ProgramAssumption DEF IInv, TypeOK, Nested, Top
<1>3. global[Top.of] # None /\ global[Top.of] \in [Prop -> Val]
  BY <1>1, <1>2 DEF IInv, TypeOK, Nested
<1>4. [global[Top.of] EXCEPT ![Here.at] = operand] \in [Prop -> Val]
  BY <1>3 DEF IInv, TypeOK
<1>5. global' = [global EXCEPT ![Top.of] = [global[Top.of] EXCEPT ![Here.at] = operand]]
  BY DEF Store
<1>6. /\ global' \in [Obj -> [Prop -> Val] \cup {None}]
      /\ \A o \in Obj : global[o] # None <=> global'[o] # None
  BY <1>1, <1>3, <1>4, <1>5, ProgramAssumption DEF IInv, TypeOK
<1>7. TypeOK'
  BY <1>6, NextLineFrames DEF Store, IInv, TypeOK, log_vars
<1>8. QED
  BY <1>6, <1>7, NextLineFrames, SameFrames DEF Store, IInv, TypeOK

\* The ends of main's lines, and of statements that completed.
LEMMA LineEndStep == ASSUME IInv, Complete \/ Catch \/ LeaveMain \/ Finish PROVE IInv'
<1>1. CASE Complete
  <2>1. TypeOK'
    BY <1>1, NextLineFrames DEF Complete, IInv, TypeOK, object_vars, log_vars
  <2>2. QED
    BY <1>1, <2>1, NextLineFrames, SameFrames DEF Complete, IInv, TypeOK, object_vars
<1>2. CASE Catch
  <2>1. TypeOK'
    BY <1>2, NextLineFrames DEF Catch, IInv, TypeOK, object_vars
  <2>2. QED
    BY <1>2, <2>1, NextLineFrames, SameFrames DEF Catch, IInv, TypeOK, object_vars
<1>3. CASE LeaveMain \/ Finish
  <2>1. TypeOK'
    BY <1>3 DEF LeaveMain, Finish, IInv, TypeOK, object_vars
  <2>2. QED
    BY <1>3, <2>1, SameFrames DEF LeaveMain, Finish, IInv, TypeOK, object_vars
<1>4. QED
  BY <1>1, <1>2, <1>3

\* An initializer has a frame below its own, which waits at a use of an object.
LEMMA LeavingFrame ==
  ASSUME IInv, Leaving
  PROVE  /\ Len(frames) \in Nat /\ Len(frames) >= 2
         /\ Top = frames[Len(frames)] /\ Top.of \in Obj
         /\ global[Top.of] \in [Prop -> Val] /\ global[Top.of] # None
         /\ \A i \in 1..Len(frames) - 1 : frames[i].of # Top.of
         /\ Below \in Seq(Frame) \ {<<>>}
         /\ Len(Below) = Len(frames) - 1
         /\ \A i \in 1..Len(frames) - 1 : Below[i] = frames[i]
<1> DEFINE n == Len(frames)
<1>1. n \in Nat \ {0} /\ DOMAIN frames = 1..n /\ Top = frames[n] /\ Top.of \in Obj \cup {None}
  BY FramesLen DEF IInv, TypeOK, Top
<1>2. Top.of # None /\ n >= 2
  BY <1>1 DEF Leaving, IInv, Nested
<1>3. Top.of \in Obj /\ global[Top.of] # None /\ global[Top.of] \in [Prop -> Val]
  BY <1>1, <1>2 DEF IInv, Nested, TypeOK
<1>4. \A i \in 1..n - 1 : frames[i].of # Top.of
  BY <1>1, <1>2 DEF IInv, BuiltOnce
<1>5. QED
  BY <1>1, <1>2, <1>3, <1>4, BelowFrames DEF IInv, TypeOK

\* What the frame below asked for is a property.
LEMMA AskedProp ==
  ASSUME IInv, Leaving, NEW caller, caller = Below[Len(Below)]
  PROVE  Body(caller.of)[caller.line].atoms[caller.atom].at \in Prop
<1> DEFINE k == Len(frames) - 1
<1>1. k \in Nat \ {0} /\ k \in 1..Len(frames) /\ caller = frames[k]
  BY LeavingFrame
<1>2. caller.of \in Obj \cup {None} /\ caller.line \in Nat \ {0} /\ caller.atom \in Nat \ {0}
  BY <1>1, FramesLen DEF IInv, TypeOK
<1>3. Waits(k)
  BY <1>1, LeavingFrame DEF IInv, Nested
<1>4. caller.line \in 1..Len(Body(caller.of)) /\ caller.atom <= Len(Body(caller.of)[caller.line].atoms)
  BY <1>1, <1>2, <1>3, BodyLines DEF Waits, IInv
<1>5. Body(caller.of)[caller.line].atoms \in Seq(Atom)
  BY <1>2, <1>4, BodyLines DEF IInv
<1>6. Body(caller.of)[caller.line].atoms[caller.atom] \in Atom
  BY <1>2, <1>4, <1>5, ElementOfSeq, LenProperties
<1>7. QED
  BY <1>6 DEF Atom

LEMMA ExitStep == ASSUME IInv, Exit PROVE IInv'
<1> DEFINE n == Len(frames)
<1>1. Leaving
  BY DEF Exit
<1>2. n \in Nat /\ n >= 2 /\ DOMAIN frames = 1..n
  BY <1>1, LeavingFrame, FramesLen DEF IInv, TypeOK
<1>3. /\ frames' \in Seq(Frame) \ {<<>>} /\ Len(frames') = n - 1 /\ DOMAIN frames' = 1..n - 1
      /\ \A i \in 1..n - 1 : frames'[i].of = frames[i].of
      /\ \A i \in 1..n - 2 : frames'[i] = frames[i]
  <2>1. frames' = Below \/ frames' = NextAtom(Below)
    BY DEF Exit
  <2>2. /\ Below \in Seq(Frame) \ {<<>>} /\ Len(Below) = n - 1
        /\ \A i \in 1..n - 1 : Below[i] = frames[i]
    BY <1>1, LeavingFrame
  <2>3. CASE frames' = Below
    <3>1. ASSUME NEW i \in 1..n - 2 PROVE Below[i] = frames[i]
      <4>1. i \in 1..n - 1
        BY <1>2
      <4>2. QED
        BY <2>2, <4>1
    <3>2. DOMAIN Below = 1..n - 1
      BY <2>2, FramesLen
    <3>3. QED
      BY <2>2, <2>3, <3>1, <3>2
  <2>4. CASE frames' = NextAtom(Below)
    <3>1. /\ NextAtom(Below) \in Seq(Frame) \ {<<>>} /\ Len(NextAtom(Below)) = n - 1
          /\ \A i \in 1..n - 1 : NextAtom(Below)[i].of = Below[i].of
          /\ \A i \in 1..(n - 1) - 1 : NextAtom(Below)[i] = Below[i]
      BY <2>2, NextAtomFrames
    <3>2. DOMAIN NextAtom(Below) = 1..n - 1
      BY <3>1, FramesLen
    <3>3. ASSUME NEW i \in 1..n - 2 PROVE NextAtom(Below)[i] = frames[i]
      <4>1. i \in 1..n - 1 /\ i \in 1..(n - 1) - 1
        BY <1>2
      <4>2. QED
        BY <2>2, <3>1, <4>1
    <3>4. \A i \in 1..n - 1 : NextAtom(Below)[i].of = frames[i].of
      BY <2>2, <3>1
    <3>5. QED
      BY <2>4, <3>1, <3>2, <3>3, <3>4
  <2>5. QED
    BY <2>1, <2>3, <2>4
<1>4. operand' \in Val
  <2>c. PICK caller : caller = Below[Len(Below)]
    OBVIOUS
  <2>a. PICK asked : asked = Body(caller.of)[caller.line].atoms[caller.atom].at
    OBVIOUS
  <2>1. asked \in Prop
    BY <1>1, <2>c, <2>a, AskedProp
  <2>2. global[Top.of] \in [Prop -> Val]
    BY <1>1, LeavingFrame
  <2>3. operand' \in {Undef, global[Top.of][asked], operand}
    BY <2>c, <2>a DEF Exit
  <2>4. operand \in Val
    BY DEF IInv, TypeOK
  <2>5. QED
    BY <2>1, <2>2, <2>3, <2>4, ProgramAssumption
<1>5. /\ \/ UNCHANGED <<failed, pending, global>>
         \/ /\ pending \in Raised \ Errors
            /\ failed' = [failed EXCEPT ![Top.of] = pending]
            /\ pending' = InInitializer(pending)
            /\ global' = [global EXCEPT ![Top.of] = None]
      /\ \A i \in 2..n - 1 : global'[frames[i].of] = global[frames[i].of]
  <2>1. \/ UNCHANGED <<failed, pending, global>>
        \/ /\ pending \in Raised \ Errors
           /\ failed' = [failed EXCEPT ![Top.of] = pending]
           /\ pending' = InInitializer(pending)
           /\ global' = [global EXCEPT ![Top.of] = None]
    BY DEF Exit, Forget, IsError
  <2>2. ASSUME NEW i \in 2..n - 1 PROVE global'[frames[i].of] = global[frames[i].of]
    <3>1. i \in 1..n - 1 /\ i \in 2..n
      BY <1>2
    <3>2. frames[i].of # Top.of
      BY <1>1, <3>1, LeavingFrame
    <3>3. frames[i].of \in Obj
      <4>1. frames[i].of # None
        BY <3>1 DEF IInv, Nested
      <4>2. frames[i].of \in Obj \cup {None}
        BY <1>2, <3>1, FramesLen DEF IInv, TypeOK
      <4>3. QED
        BY <4>1, <4>2
    <3>4. QED
      BY <2>1, <3>2, <3>3 DEF IInv, TypeOK
  <2>3. QED
    BY <2>1, <2>2
<1>6. TypeOK'
  <2>1. depth' \in Nat
    <3>1. depth' = depth - 1
      BY DEF Exit, Left
    <3>2. depth = n - 1
      BY DEF IInv, DepthCounts
    <3>3. QED
      BY <1>2, <3>1, <3>2
  <2>2. CASE UNCHANGED <<failed, pending, global>>
    BY <1>3, <1>4, <2>1, <2>2 DEF Exit, IInv, TypeOK, log_vars
  <2>3. CASE /\ pending \in Raised \ Errors
             /\ failed' = [failed EXCEPT ![Top.of] = pending]
             /\ pending' = InInitializer(pending)
             /\ global' = [global EXCEPT ![Top.of] = None]
    <3>1. pending' \in Throwable
      BY <2>3 DEF Throwable
    <3>2. Top.of \in Obj
      BY <1>1, LeavingFrame
    <3>3. QED
      BY <1>3, <1>4, <2>1, <2>3, <3>1, <3>2 DEF Exit, IInv, TypeOK, log_vars
  <2>4. QED
    BY <1>5, <2>2, <2>3
<1>7. BuiltOnce'
  BY <1>2, <1>3 DEF IInv, BuiltOnce
<1>8. DepthCounts'
  BY <1>2, <1>3 DEF Exit, Left, IInv, DepthCounts
<1>9. Nested'
  <2>1. frames'[1].of = None
    BY <1>2, <1>3 DEF IInv, Nested
  <2>2. ASSUME NEW i \in 2..n - 1 PROVE frames'[i].of # None /\ global'[frames'[i].of] # None
    <3>1. i \in 1..n - 1 /\ i \in 2..n
      BY <1>2
    <3>2. QED
      BY <1>3, <1>5, <3>1 DEF IInv, Nested
  <2>3. ASSUME NEW i \in 1..n - 2 PROVE Waits(i)'
    <3>1. Waits(i) /\ frames'[i] = frames[i]
      BY <1>2, <1>3 DEF IInv, Nested
    <3>2. QED
      BY <3>1 DEF Waits, Body, Exit
  <2>4. QED
    BY <1>2, <1>3, <2>1, <2>2, <2>3 DEF Nested
<1>10. QED
  BY <1>6, <1>7, <1>8, <1>9 DEF IInv, Exit

LEMMA IInvNext == IInv /\ [Next]_vars => IInv'
<1> SUFFICES ASSUME IInv, [Next]_vars PROVE IInv'
  OBVIOUS
<1>1. CASE Next
  BY <1>1, LitStep, RaiseStep, PrintStep, ReadStep, RefuseStep, EnterStep, StoreStep,
     LineEndStep, ExitStep DEF Next
<1>2. CASE UNCHANGED vars
  BY <1>2 DEF vars, IInv, TypeOK, BuiltOnce, DepthCounts, Nested, Waits, Body
<1>3. QED
  BY <1>1, <1>2

LEMMA Invariant == Spec => []IInv
  BY IInvInit, IInvNext, PTL DEF Spec

\* Every part of the state stays within its type; only an Exception is ever
\* remembered as an object's failure, and a failed object has no instance.
THEOREM TypeCorrect == Spec => []TypeOK
<1>1. IInv => TypeOK
  BY DEF IInv
<1>2. QED
  BY <1>1, Invariant, PTL

\* However initializers use one another, none is entered while it runs.
THEOREM EnteredOnce == Spec => []BuiltOnce
<1>1. IInv => BuiltOnce
  BY DEF IInv
<1>2. QED
  BY <1>1, Invariant, PTL

\* INIT_DEPTH is the number of initializers that run, whatever they throw.
THEOREM DepthExact == Spec => []DepthCounts
<1>1. IInv => DepthCounts
  BY DEF IInv
<1>2. QED
  BY <1>1, Invariant, PTL

(* ---- the refinement of ClassInit, for every program ---------------------- *)

\* What the refinement mapping makes of the state.
AbsState == [o \in Obj |-> StateOf(o)]
AbsFields == [o \in Obj |-> IF Unbuilt(o) THEN ZeroFields ELSE global[o]]

(* ---- the initializers that run ---------------------------------------------- *)

\* Main's frame is at the bottom, the frames above it are initializers'.
Stacked(fs) == fs \in Seq(Frame) \ {<<>>} /\ \A i \in 2..Len(fs) : fs[i].of \in Obj

LEMMA FramesStacked == IInv => Stacked(frames)
  BY FramesLen DEF IInv, TypeOK, Nested, Stacked

LEMMA RunningSeq ==
  ASSUME NEW fs, Stacked(fs)
  PROVE  /\ Running(fs) \in Seq(Obj)
         /\ Len(Running(fs)) = Len(fs) - 1
         /\ \A i \in 1..Len(fs) - 1 : Running(fs)[i] = fs[i + 1].of
<1> DEFINE n == Len(fs) - 1
<1>1. n \in Nat
  BY FramesLen DEF Stacked
<1>2. \A i \in 1..n : fs[i + 1].of \in Obj
  BY <1>1 DEF Stacked
<1>3. Running(fs) = [i \in 1..n |-> fs[i + 1].of]
  BY DEF Running
<1> HIDE DEF n
<1>4. Running(fs) \in [1..n -> Obj]
  BY <1>2, <1>3
<1>5. Running(fs) \in Seq(Obj)
  BY <1>1, <1>4, SeqDef
<1>6. DOMAIN Running(fs) = 1..n /\ DOMAIN Running(fs) = 1..Len(Running(fs)) /\ Len(Running(fs)) \in Nat
  BY <1>4, <1>5, LenProperties
<1>7. Len(Running(fs)) = n
  BY <1>1, <1>6
<1>8. QED
  BY <1>3, <1>5, <1>7 DEF n

LEMMA RunningSame ==
  ASSUME NEW fs, NEW gs, Stacked(fs), Stacked(gs), Len(fs) = Len(gs),
         \A i \in 1..Len(fs) : gs[i].of = fs[i].of
  PROVE  Running(gs) = Running(fs)
<1>1. Len(fs) \in Nat \ {0}
  BY FramesLen DEF Stacked
<1>2. ASSUME NEW i \in 1..Len(fs) - 1 PROVE Running(gs)[i] = Running(fs)[i]
  <2>1. i + 1 \in 1..Len(fs)
    BY <1>1
  <2>2. QED
    BY <2>1, RunningSeq
<1>3. QED
  BY <1>2, RunningSeq, SeqEqual

LEMMA RunningPush ==
  ASSUME NEW fs, NEW gs, Stacked(fs), Stacked(gs), Len(gs) = Len(fs) + 1,
         \A i \in 1..Len(fs) : gs[i].of = fs[i].of
  PROVE  Running(gs) = Append(Running(fs), gs[Len(gs)].of)
<1> DEFINE n == Len(fs)
           o == gs[Len(gs)].of
<1>1. n \in Nat \ {0} /\ o \in Obj
  BY FramesLen DEF Stacked
<1> HIDE DEF o
<1>2. /\ Append(Running(fs), o) \in Seq(Obj)
      /\ Len(Append(Running(fs), o)) = n
      /\ \A i \in 1..n - 1 : Append(Running(fs), o)[i] = Running(fs)[i]
      /\ Append(Running(fs), o)[n] = o
  BY <1>1, RunningSeq, AppendProperties
<1>3. Running(gs) \in Seq(Obj) /\ Len(Running(gs)) = n
  BY <1>1, RunningSeq
<1>4. ASSUME NEW i \in 1..n PROVE Running(gs)[i] = Append(Running(fs), o)[i]
  <2>1. Running(gs)[i] = gs[i + 1].of
    BY <1>1, RunningSeq
  <2>2. CASE i = n
    BY <1>1, <1>2, <2>1, <2>2 DEF o
  <2>3. CASE i # n
    <3>1. i \in 1..n - 1 /\ i + 1 \in 1..n
      BY <1>1, <2>3
    <3>2. QED
      BY <1>2, <2>1, <3>1, RunningSeq
  <2>4. QED
    BY <2>2, <2>3
<1>5. Running(gs) = Append(Running(fs), o)
  BY <1>2, <1>3, <1>4, SeqEqual
<1>6. QED
  BY <1>5 DEF o

LEMMA RunningPop ==
  ASSUME NEW fs, NEW gs, Stacked(fs), Stacked(gs), Len(fs) = Len(gs) + 1,
         \A i \in 1..Len(gs) : gs[i].of = fs[i].of
  PROVE  Running(gs) = SubSeq(Running(fs), 1, Len(Running(fs)) - 1)
<1> DEFINE n == Len(gs) - 1
           r == Running(fs)
<1>1. n \in Nat /\ Len(gs) \in Nat
  BY FramesLen DEF Stacked
<1>2. r \in Seq(Obj) /\ Len(r) = n + 1 /\ \A i \in 1..n + 1 : r[i] = fs[i + 1].of
  BY <1>1, RunningSeq
<1>3. \A i \in 1..n : r[i] \in Obj
  BY <1>1, <1>2, ElementOfSeq
<1> HIDE DEF n, r
<1>4. /\ SubSeq(r, 1, n) \in Seq(Obj) /\ Len(SubSeq(r, 1, n)) = n
      /\ \A i \in 1..n : SubSeq(r, 1, n)[i] = r[i]
  BY <1>1, <1>3, SubSeqProperties
<1>5. Running(gs) \in Seq(Obj) /\ Len(Running(gs)) = n
  BY RunningSeq DEF n
<1>6. ASSUME NEW i \in 1..n PROVE Running(gs)[i] = SubSeq(r, 1, n)[i]
  <2>1. i + 1 \in 1..Len(gs) /\ i \in 1..n + 1 /\ i \in 1..Len(gs) - 1
    BY <1>1 DEF n
  <2>2. Running(gs)[i] = gs[i + 1].of
    BY <2>1, RunningSeq
  <2>3. QED
    BY <1>2, <1>4, <2>1, <2>2
<1>7. Running(gs) = SubSeq(r, 1, n)
  BY <1>4, <1>5, <1>6, SeqEqual
<1>8. Len(r) - 1 = n
  BY <1>1, <1>2
<1>9. QED
  BY <1>7, <1>8 DEF r

(* ---- steps that keep the objects as they are ---------------------------------- *)

LEMMA KeptObjects ==
  ASSUME IInv, IInv', failed' = failed, global' = global, Len(frames') = Len(frames),
         \A i \in 1..Len(frames) : frames'[i].of = frames[i].of
  PROVE  /\ AbsState' = AbsState /\ AbsFields' = AbsFields
         /\ Running(frames)' = Running(frames)
<1>1. DOMAIN frames = 1..Len(frames) /\ DOMAIN frames' = 1..Len(frames')
  BY FramesLen DEF IInv, TypeOK
<1>2. Under' = Under
  BY <1>1 DEF Under
<1>3. AbsState' = AbsState
  BY <1>2 DEF AbsState, StateOf, Unbuilt
<1>4. AbsFields' = AbsFields
  BY DEF AbsFields, Unbuilt, ZeroFields
<1>5. Stacked(frames) /\ Stacked(frames')
  BY FramesLen DEF IInv, TypeOK, Nested, Stacked
<1>6. Running(frames') = Running(frames)
  BY <1>5, RunningSame
<1>7. QED
  BY <1>3, <1>4, <1>6

\* Inside a line the promise sees a throw, a print, a use or nothing.
LEMMA SimulateAtom ==
  ASSUME IInv, IInv', Lit \/ Raise \/ Println, program.catchable
  PROVE  Promise!Next \/ UNCHANGED Promise!vars
<1>1. frames' = NextAtom(frames) /\ failed' = failed /\ global' = global
  BY DEF Lit, Raise, Println, object_vars
<1>2. /\ AbsState' = AbsState /\ AbsFields' = AbsFields
      /\ Running(frames)' = Running(frames)
  BY <1>1, NextAtomFrames, KeptObjects DEF IInv, TypeOK
<1>3. CASE Lit
  BY <1>1, <1>2, <1>3 DEF Lit, object_vars, log_vars, Promise!vars, AbsState, AbsFields
<1>4. CASE Raise
  <2>1. CASE unwinding
    BY <1>1, <1>2, <1>4, <2>1 DEF Raise, Promise!vars, AbsState, AbsFields
  <2>2. CASE ~unwinding
    <3>1. Cur.e \in Raised
      BY <1>4, CurAtom DEF Raise, At
    <3>2. Promise!Throw(Cur.e)
      BY <1>1, <1>2, <1>4, <2>2 DEF Raise, unwinding, Promise!Throw, AbsState, AbsFields
    <3>3. QED
      BY <3>1, <3>2 DEF Promise!Next
  <2>3. QED
    BY <2>1, <2>2
<1>5. CASE Println
  <2>1. CASE unwinding
    BY <1>1, <1>2, <1>5, <2>1 DEF Println, Promise!vars, AbsState, AbsFields
  <2>2. CASE ~unwinding
    <3>1. operand \in Val \cup Throwable
      BY DEF IInv, TypeOK
    <3>2. Promise!Println(operand)
      BY <1>1, <1>2, <1>5, <2>2 DEF Println, unwinding, Promise!Println, AbsState, AbsFields
    <3>3. QED
      BY <3>1, <3>2 DEF Promise!Next
  <2>3. QED
    BY <2>1, <2>2
<1>6. QED
  BY <1>3, <1>4, <1>5

LEMMA SimulateUse ==
  ASSUME IInv, IInv', Read \/ Refuse
  PROVE  Promise!Next \/ UNCHANGED Promise!vars
<1>1. frames' = NextAtom(frames) /\ failed' = failed /\ global' = global
  BY DEF Read, Refuse, object_vars
<1>2. /\ AbsState' = AbsState /\ AbsFields' = AbsFields
      /\ Running(frames)' = Running(frames)
  BY <1>1, NextAtomFrames, KeptObjects DEF IInv, TypeOK
<1>3. Cur.of \in Obj /\ Cur.at \in Prop
  BY CurAtom DEF Read, Refuse, At
<1>4. CASE unwinding
  BY <1>1, <1>2, <1>4 DEF Read, Refuse, Promise!vars, AbsState, AbsFields, log_vars
<1>5. CASE ~unwinding /\ Read
  <2>1. failed[Cur.of] = None /\ ~Unbuilt(Cur.of)
    BY <1>3, <1>5 DEF Read, Unbuilt, IInv, TypeOK
  <2>2. AbsState[Cur.of] \in {"initializing", "ready"}
    BY <1>3, <2>1 DEF AbsState, StateOf
  <2>3. AbsFields[Cur.of] = global[Cur.of]
    BY <1>3, <2>1 DEF AbsFields
  <2>4. Promise!Read(Cur.of, Cur.at)
    BY <1>1, <1>2, <1>5, <2>2, <2>3 DEF Read, unwinding, Promise!Read, AbsState, AbsFields
  <2>5. QED
    BY <1>3, <2>4 DEF Promise!Next
<1>6. CASE ~unwinding /\ Refuse
  <2>1. AbsState[Cur.of] = "erroneous"
    BY <1>3, <1>6 DEF Refuse, AbsState, StateOf
  <2>2. Promise!Refuse(Cur.of)
    BY <1>1, <1>2, <1>6, <2>1 DEF Refuse, unwinding, log_vars, Promise!Refuse, AbsState, AbsFields,
       Promise!NotDefined, NotDefined
  <2>3. QED
    BY <1>3, <2>2 DEF Promise!Next
<1>7. QED
  BY <1>4, <1>5, <1>6

(* ---- first uses, writes, the ends of initializers -------------------------------- *)

LEMMA SimulateEnter ==
  ASSUME IInv, IInv', Enter, Regular
  PROVE  Promise!Next
<1> DEFINE n == Len(frames)
           o == Cur.of
<1>1. o \in Obj /\ o # None /\ global[o] = None /\ failed[o] = None /\ pending = None
  BY CurAtom, ProgramAssumption DEF Enter, At, Unbuilt, Regular, unwinding
<1>2. frames' = Append(frames, [of |-> o, line |-> 1, atom |-> 1]) /\ frames \in Seq(Frame)
  BY DEF Enter, IInv, TypeOK
<1> HIDE DEF o
<1>3. /\ n \in Nat \ {0} /\ DOMAIN frames = 1..n /\ DOMAIN frames' = 1..n + 1
      /\ Len(frames') = n + 1
      /\ \A i \in 1..n : frames'[i] = frames[i]
      /\ frames'[n + 1].of = o
  <2>1. [of |-> o, line |-> 1, atom |-> 1] \in Frame
    BY <1>1 DEF Frame
  <2>2. n \in Nat \ {0} /\ DOMAIN frames = 1..n
    BY FramesLen DEF IInv, TypeOK
  <2>3. QED
    BY <1>2, <2>1, <2>2, AppendProperties, LenProperties
<1>4. global' = [global EXCEPT ![o] = ZeroFields] /\ ZeroFields # None /\ failed' = failed
  BY ProgramAssumption DEF Enter, ZeroFields, o
<1>5. Under' = Under \cup {o}
  <2>1. \A x : x \in Under' <=> \E i \in 1..n + 1 : x = frames'[i].of
    BY <1>3 DEF Under
  <2>2. \A x : x \in Under <=> \E i \in 1..n : x = frames[i].of
    BY <1>3 DEF Under
  <2>3. \A i : i \in 1..n + 1 <=> i \in 1..n \/ i = n + 1
    BY <1>3
  <2>4. QED
    BY <1>3, <2>1, <2>2, <2>3
<1>6. AbsState[o] = "unused"
  BY <1>1 DEF AbsState, StateOf, Unbuilt
<1>7. AbsState' = [AbsState EXCEPT ![o] = "initializing"]
  <2>1. ASSUME NEW p \in Obj
        PROVE  StateOf(p)' = IF p = o THEN "initializing" ELSE StateOf(p)
    BY <1>1, <1>4, <1>5 DEF StateOf, Unbuilt, IInv, TypeOK
  <2>2. QED
    BY <1>1, <2>1 DEF AbsState
<1>8. AbsFields' = AbsFields
  <2>1. ASSUME NEW p \in Obj
        PROVE  (IF Unbuilt(p) THEN ZeroFields ELSE global[p])'
                 = IF Unbuilt(p) THEN ZeroFields ELSE global[p]
    BY <1>1, <1>4 DEF Unbuilt, ZeroFields, IInv, TypeOK
  <2>2. QED
    BY <2>1 DEF AbsFields
<1>9. Running(frames)' = Append(Running(frames), o)
  <2>1. Stacked(frames) /\ Stacked(frames')
    BY FramesLen DEF IInv, TypeOK, Nested, Stacked
  <2>2. QED
    BY <1>3, <2>1, RunningPush
<1>10. Promise!Begin(o)
  BY <1>1, <1>4, <1>6, <1>7, <1>8, <1>9 DEF Promise!Begin, AbsState, AbsFields, Enter, log_vars
<1>11. QED
  BY <1>1, <1>10 DEF Promise!Next

\* The innermost initializer is the one of the frame on top.
LEMMA InnermostTop ==
  ASSUME IInv, Top.of \in Obj
  PROVE  /\ Running(frames) # <<>> /\ Promise!Innermost = Top.of
         /\ Len(frames) \in Nat /\ Len(frames) >= 2 /\ Top = frames[Len(frames)]
<1>1. Len(frames) \in Nat \ {0} /\ Top = frames[Len(frames)]
  BY FramesLen DEF IInv, TypeOK, Top
<1>2. Len(frames) >= 2
  BY <1>1, ProgramAssumption DEF IInv, Nested
<1>3. /\ Running(frames) \in Seq(Obj) /\ Len(Running(frames)) = Len(frames) - 1
      /\ Running(frames)[Len(frames) - 1] = frames[Len(frames)].of
  <2>1. Stacked(frames)
    BY FramesStacked
  <2>2. Len(frames) - 1 \in 1..Len(frames) - 1 /\ (Len(frames) - 1) + 1 = Len(frames)
    BY <1>1, <1>2
  <2>3. QED
    BY <2>1, <2>2, RunningSeq
<1>4. QED
  BY <1>1, <1>2, <1>3, EmptySeq DEF Promise!Innermost

LEMMA SimulateStore ==
  ASSUME IInv, IInv', Store
  PROVE  Promise!Next
<1>1. PICK o \in Obj, p \in Prop, w \in Val \cup Throwable :
        o = Top.of /\ p = Here.at /\ w = operand
  BY HereLine DEF Store, LineDone, IInv, TypeOK
<1>2. global[o] # None /\ global[o] \in [Prop -> Val]
  BY <1>1, InnermostTop DEF IInv, TypeOK, Nested
<1>3. /\ global' = [global EXCEPT ![o] = [global[o] EXCEPT ![p] = w]]
      /\ failed' = failed /\ frames' = NextLine(frames)
  BY <1>1 DEF Store
<1>4. [global[o] EXCEPT ![p] = w] # None
  BY <1>1, <1>2, ProgramAssumption DEF IInv, TypeOK
<1>5. ASSUME NEW x \in Obj
      PROVE  global'[x] = IF x = o THEN [global[o] EXCEPT ![p] = w] ELSE global[x]
  BY <1>1, <1>3 DEF IInv, TypeOK
<1>6. /\ DOMAIN frames = 1..Len(frames) /\ DOMAIN frames' = 1..Len(frames)
      /\ \A i \in 1..Len(frames) : frames'[i].of = frames[i].of
      /\ Len(frames') = Len(frames)
  BY <1>3, NextLineFrames, FramesLen DEF IInv, TypeOK
<1>7. AbsState' = AbsState
  <2>1. Under' = Under
    BY <1>6 DEF Under
  <2>2. ASSUME NEW x \in Obj PROVE StateOf(x)' = StateOf(x)
    BY <1>2, <1>3, <1>4, <1>5, <2>1 DEF StateOf, Unbuilt
  <2>3. QED
    BY <2>2 DEF AbsState
<1>8. AbsFields' = [AbsFields EXCEPT ![o] = [AbsFields[o] EXCEPT ![p] = w]]
  <2>1. AbsFields[o] = global[o]
    BY <1>1, <1>2 DEF AbsFields, Unbuilt
  <2>2. ASSUME NEW x \in Obj
        PROVE  (IF Unbuilt(x) THEN ZeroFields ELSE global[x])'
                 = IF x = o THEN [global[o] EXCEPT ![p] = w]
                   ELSE IF Unbuilt(x) THEN ZeroFields ELSE global[x]
    BY <1>2, <1>4, <1>5 DEF Unbuilt, ZeroFields
  <2>3. QED
    BY <1>1, <2>1, <2>2 DEF AbsFields
<1>9. Running(frames)' = Running(frames)
  <2>1. Stacked(frames) /\ Stacked(frames')
    BY FramesLen DEF IInv, TypeOK, Nested, Stacked
  <2>2. QED
    BY <1>6, <2>1, RunningSame
<1>10. Running(frames) # <<>> /\ Promise!Innermost = o
  BY <1>1, InnermostTop
<1>11. Promise!Write(p, w)
  BY <1>3, <1>7, <1>8, <1>9, <1>10 DEF Promise!Write, AbsState, AbsFields, Store, log_vars
<1>12. QED
  BY <1>1, <1>11 DEF Promise!Next

LEMMA SimulateLineEnd ==
  ASSUME IInv, IInv', Complete \/ Catch \/ LeaveMain \/ Finish
  PROVE  Promise!Next \/ UNCHANGED Promise!vars
<1>1. /\ \A i \in 1..Len(frames) : frames'[i].of = frames[i].of
      /\ Len(frames') = Len(frames) /\ failed' = failed /\ global' = global
  BY NextLineFrames DEF Complete, Catch, LeaveMain, Finish, IInv, TypeOK, object_vars
<1>2. /\ AbsState' = AbsState /\ AbsFields' = AbsFields
      /\ Running(frames)' = Running(frames)
  BY <1>1, KeptObjects
<1>3. CASE Complete \/ Finish
  BY <1>1, <1>2, <1>3 DEF Complete, Finish, log_vars, Promise!vars, AbsState, AbsFields
<1>4. Top.of = None => Running(frames) = <<>>
  <2> SUFFICES ASSUME Top.of = None PROVE Running(frames) = <<>>
    OBVIOUS
  <2>1. Len(frames) \in Nat \ {0}
    BY FramesLen DEF IInv, TypeOK
  <2>2. Len(frames) = 1
    <3>1. Len(frames) \in Nat /\ Len(frames) >= 1
      BY <2>1
    <3>2. CASE Len(frames) >= 2
      <4>1. Len(frames) \in 2..Len(frames)
        BY <3>1, <3>2
      <4>2. QED
        BY <4>1 DEF IInv, Nested, Top
    <3>3. \A n \in Nat : n >= 1 /\ ~(n >= 2) => n = 1
      OBVIOUS
    <3>4. QED
      BY <3>1, <3>2, <3>3
  <2>3. Running(frames) \in Seq(Obj) /\ Len(Running(frames)) = 0
    BY <2>2, FramesStacked, RunningSeq
  <2>4. QED
    BY <2>3, EmptySeq
<1>5. CASE Catch
  <2>1. Running(frames) = <<>> /\ pending # None
    BY <1>4, <1>5, HereLine DEF Catch, LineDone, unwinding
  <2>2. Promise!Catch
    BY <1>1, <1>2, <1>5, <2>1 DEF Catch, Promise!Catch, AbsState, AbsFields
  <2>3. QED
    BY <2>2 DEF Promise!Next
<1>6. CASE LeaveMain
  <2>1. Running(frames) = <<>> /\ pending # None
    BY <1>4, <1>6 DEF LeaveMain, unwinding
  <2>2. Promise!LeaveMain
    BY <1>1, <1>2, <1>6, <2>1 DEF LeaveMain, Promise!LeaveMain, AbsState, AbsFields
  <2>3. QED
    BY <2>2 DEF Promise!Next
<1>7. QED
  BY <1>3, <1>5, <1>6

LEMMA SimulateExit ==
  ASSUME IInv, IInv', Exit, Regular
  PROVE  Promise!Next
<1>1. PICK o \in Obj : o = Top.of
  BY LeavingFrame DEF Exit
<1>2. /\ Len(frames) \in Nat /\ Len(frames) >= 2 /\ frames[Len(frames)].of = o
      /\ global[o] # None /\ failed[o] = None
      /\ \A i \in 1..Len(frames) - 1 : frames[i].of # o
  BY <1>1, LeavingFrame DEF Exit, IInv, TypeOK
<1>3. /\ Len(frames') = Len(frames) - 1
      /\ \A i \in 1..Len(frames) - 1 : frames'[i].of = frames[i].of
  <2>1. frames' = Below \/ frames' = NextAtom(Below)
    BY DEF Exit
  <2>2. /\ Below \in Seq(Frame) \ {<<>>} /\ Len(Below) = Len(frames) - 1
        /\ \A i \in 1..Len(frames) - 1 : Below[i] = frames[i]
    BY LeavingFrame DEF Exit
  <2>3. /\ Len(NextAtom(Below)) = Len(frames) - 1
        /\ \A i \in 1..Len(frames) - 1 : NextAtom(Below)[i].of = Below[i].of
    BY <2>2, NextAtomFrames
  <2>4. QED
    BY <2>1, <2>2, <2>3
<1>4. /\ o \notin Under'
      /\ \A x \in Obj \ {o} : x \in Under' <=> x \in Under
  <2>1. DOMAIN frames = 1..Len(frames) /\ DOMAIN frames' = 1..Len(frames) - 1
    BY <1>3, FramesLen DEF IInv, TypeOK
  <2>2. \A x : x \in Under' <=> \E i \in 1..Len(frames) - 1 : x = frames[i].of
    BY <1>3, <2>1 DEF Under
  <2>3. \A x : x \in Under <=> \E i \in 1..Len(frames) : x = frames[i].of
    BY <2>1 DEF Under
  <2>4. \A i : i \in 1..Len(frames) <=> i \in 1..Len(frames) - 1 \/ i = Len(frames)
    BY <1>2
  <2>5. QED
    BY <1>2, <2>2, <2>3, <2>4
<1>5. Running(frames)' = SubSeq(Running(frames), 1, Len(Running(frames)) - 1)
  <2>1. Stacked(frames) /\ Stacked(frames')
    BY FramesLen DEF IInv, TypeOK, Nested, Stacked
  <2>2. Len(frames) = Len(frames') + 1
    BY <1>2, <1>3
  <2>3. \A i \in 1..Len(frames') : frames'[i].of = frames[i].of
    BY <1>3
  <2>4. QED
    BY <2>1, <2>2, <2>3, RunningPop
<1>6. Running(frames) # <<>> /\ Promise!Innermost = o
  BY <1>1, InnermostTop
<1>7. Promise!Outer = SubSeq(Running(frames), 1, Len(Running(frames)) - 1)
  BY DEF Promise!Outer
<1>8. CASE ~unwinding
  <2>1. pending = None /\ failed' = failed /\ global' = global /\ pending' = pending
    BY <1>8 DEF Exit, unwinding
  <2>2. AbsState' = [AbsState EXCEPT ![o] = "ready"]
    <3>1. ASSUME NEW x \in Obj PROVE StateOf(x)' = IF x = o THEN "ready" ELSE StateOf(x)
      BY <1>2, <1>4, <2>1 DEF StateOf, Unbuilt
    <3>2. QED
      BY <3>1 DEF AbsState
  <2>3. AbsFields' = AbsFields
    BY <2>1 DEF AbsFields, Unbuilt, ZeroFields
  <2>4. Promise!Complete
    BY <1>5, <1>6, <1>7, <2>1, <2>2, <2>3 DEF Promise!Complete, AbsState, AbsFields, Exit, log_vars
  <2>5. QED
    BY <2>4 DEF Promise!Next
<1>9. CASE unwinding
  <2>1. /\ pending # None /\ ~IsError(pending)
        /\ failed' = [failed EXCEPT ![o] = pending]
        /\ pending' = InInitializer(pending)
        /\ global' = [global EXCEPT ![o] = None]
    BY <1>1, <1>9 DEF Exit, Regular, Forget, unwinding
  <2>2. AbsState' = [AbsState EXCEPT ![o] = "erroneous"]
    <3>1. ASSUME NEW x \in Obj PROVE StateOf(x)' = IF x = o THEN "erroneous" ELSE StateOf(x)
      BY <1>2, <1>4, <2>1 DEF StateOf, Unbuilt, IInv, TypeOK
    <3>2. QED
      BY <3>1 DEF AbsState
  <2>3. AbsFields' = [AbsFields EXCEPT ![o] = ZeroFields]
    <3>1. ASSUME NEW x \in Obj
          PROVE  (IF Unbuilt(x) THEN ZeroFields ELSE global[x])'
                   = IF x = o THEN ZeroFields ELSE IF Unbuilt(x) THEN ZeroFields ELSE global[x]
      BY <1>2, <2>1 DEF Unbuilt, ZeroFields, IInv, TypeOK
    <3>2. QED
      BY <3>1 DEF AbsFields
  <2>4. Promise!Fail
    BY <1>5, <1>6, <1>7, <2>1, <2>2, <2>3 DEF Promise!Fail, Promise!Fresh, ZeroFields, Promise!IsError,
       IsError, Promise!InInitializer, InInitializer, AbsState, AbsFields, Exit, log_vars
  <2>5. QED
    BY <2>4 DEF Promise!Next
<1>10. QED
  BY <1>8, <1>9

(* ---- the refinement --------------------------------------------------------------- *)

LEMMA SimulateInit == Init => Promise!Init
<1> SUFFICES ASSUME Init PROVE Promise!Init
  OBVIOUS
<1>1. Len(frames) = 1
  BY DEF Init
<1>2. \A o \in Obj : StateOf(o) = "unused" /\ Unbuilt(o)
  BY DEF Init, StateOf, Unbuilt
<1>3. Running(frames) = <<>>
  <2>1. IInv
    BY IInvInit
  <2>2. Running(frames) \in Seq(Obj) /\ Len(Running(frames)) = 0
    BY <1>1, <2>1, FramesStacked, RunningSeq
  <2>3. QED
    BY <2>2, EmptySeq
<1>4. QED
  BY <1>2, <1>3 DEF Promise!Init, Promise!Fresh, ZeroFields, Init

LEMMA SimulateNext ==
  ASSUME IInv, IInv', [Next]_vars
  PROVE  [Regular => Promise!Next]_(Promise!vars)
<1>1. CASE Next
  <2>1. ASSUME Regular PROVE Promise!Next \/ UNCHANGED Promise!vars
    <3>1. program.catchable
      BY <2>1 DEF Regular
    <3>2. QED
      BY <1>1, <2>1, <3>1, SimulateAtom, SimulateUse, SimulateEnter, SimulateStore, SimulateLineEnd,
         SimulateExit DEF Next
  <2>2. QED
    BY <2>1
<1>2. CASE UNCHANGED vars
  <2>1. AbsState' = AbsState /\ AbsFields' = AbsFields /\ Running(frames)' = Running(frames)
    BY <1>2, KeptObjects DEF vars
  <2>2. QED
    BY <1>2, <2>1 DEF vars, Promise!vars, AbsState, AbsFields
<1>3. QED
  BY <1>1, <1>2

\* kotlinrs initializes objects as the JVM does wherever no throwable is on its
\* way when an object is first used, and no Error leaves an initializer.
THEOREM Implements == Spec => KeepsPromise
<1>1. Init => Promise!Init
  BY SimulateInit
<1>2. IInv /\ IInv' /\ [Next]_vars => [Regular => Promise!Next]_(Promise!vars)
  BY SimulateNext
<1>3. QED
  BY <1>1, <1>2, Invariant, PTL DEF Spec, KeepsPromise
=============================================================================

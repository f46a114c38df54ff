---------------------------- MODULE UnwindProofs ----------------------------
(***************************************************************************)
(* Theorems of module Unwind, for every set of chunks, values, throwables   *)
(* and functions: the type invariant; the balance of the stash for all      *)
(* chunks that pass the verifier WellParked; and, for those that pass Sized *)
(* too, the balance of the operand stack at statement boundaries, an idle   *)
(* end, and that no frame disturbs the operands of its callers.             *)
(***************************************************************************)
EXTENDS Unwind, TLAPS, SequenceTheorems

(* ---- sequences --------------------------------------------------------- *)

LEMMA FrontSeq ==
  ASSUME NEW S, NEW s \in Seq(S), s # <<>>
  PROVE  /\ Front(s) \in Seq(S)
         /\ Len(Front(s)) = Len(s) - 1
         /\ \A i \in 1..Len(s) - 1 : Front(s)[i] = s[i]
<1> DEFINE n == Len(s) - 1
<1>1. n \in Nat /\ \A i \in 1..n : s[i] \in S
  BY LenProperties, EmptySeq, ElementOfSeq
<1>2. Front(s) = SubSeq(s, 1, n)
  BY DEF Front
<1> HIDE DEF n
<1>3. /\ SubSeq(s, 1, n) \in Seq(S)
      /\ Len(SubSeq(s, 1, n)) = n
      /\ \A i \in 1..n : SubSeq(s, 1, n)[i] = s[i]
  BY <1>1, SubSeqProperties
<1>4. QED
  BY <1>2, <1>3 DEF n

LEMMA TipIn ==
  ASSUME NEW S, NEW s \in Seq(S), s # <<>>
  PROVE  Tip(s) \in S /\ Len(s) \in Nat \ {0}
  BY LenProperties, ElementOfSeq, EmptySeq DEF Tip

LEMMA TruncateSeq ==
  ASSUME NEW S, NEW s \in Seq(S), NEW n \in Nat
  PROVE  Truncate(s, n) \in Seq(S)
<1>1. Len(s) \in Nat
  BY LenProperties
<1>2. CASE n <= Len(s)
  BY <1>1, <1>2, SubSeqProperties, ElementOfSeq DEF Truncate
<1>3. CASE ~(n <= Len(s))
  BY <1>3 DEF Truncate
<1>4. QED
  BY <1>2, <1>3

(* ---- types --------------------------------------------------------------- *)

TInv == TypeOK /\ chunk \in Chunks

\* The operation at hand is one of the machine's.
LEMMA CurOp ==
  ASSUME TInv, pc \in DOMAIN chunk.ops
  PROVE  /\ Cur \in Op /\ Cur.to \in Nat /\ Cur.arg \in Val /\ Cur.exc \in Exc
         /\ Cur.fun \in Fun /\ Cur.slot \in Slot /\ Cur.n \in Nat
         /\ Cur.parked \in Nat /\ Cur.depth \in Nat
<1>1. chunk.ops \in Seq(Op)
  BY ConstantsAssumption DEF TInv
<1>2. chunk.ops[pc] \in Op
  BY <1>1, ElementOfSeq, LenProperties
<1>3. QED
  BY <1>2 DEF Cur, Op

LEMMA TopFrame ==
  ASSUME TInv
  PROVE  /\ Top \in Frame /\ Top.ret \in Nat /\ Top.base \in Nat /\ Top.parked \in Nat
         /\ \A s \in Slot : Top.vals[s] \in Val /\ Top.nums[s] \in Nat
         /\ Len(frames) \in Nat \ {0}
<1>1. Top \in Frame /\ Len(frames) \in Nat \ {0}
  BY TipIn DEF TInv, TypeOK, Tip, Top
<1>2. QED
  BY <1>1 DEF Frame

LEMMA EndNat == TInv => End \in Nat
  BY ConstantsAssumption, LenProperties DEF TInv, End

\* A frame whose slot changed is still a frame.
LEMMA FramesUpdate ==
  ASSUME TInv, NEW f \in Frame
  PROVE  [frames EXCEPT ![Len(frames)] = f] \in Seq(Frame) \ {<<>>}
<1>1. frames \in Seq(Frame) /\ Len(frames) \in 1..Len(frames)
  BY TopFrame DEF TInv, TypeOK
<1>2. /\ [frames EXCEPT ![Len(frames)] = f] \in Seq(Frame)
      /\ Len([frames EXCEPT ![Len(frames)] = f]) = Len(frames)
  BY <1>1, ExceptSeq
<1>3. QED
  BY <1>1, <1>2, EmptySeq

LEMMA FramePush ==
  ASSUME TInv, NEW ret \in Nat, NEW base \in Nat
  PROVE  Append(frames, NewFrame(ret, base)) \in Seq(Frame) \ {<<>>}
<1>1. NewFrame(ret, base) \in Frame
  BY ConstantsAssumption, LenProperties DEF NewFrame, Frame, TInv, TypeOK
<1>2. QED
  BY <1>1, AppendProperties, SMTT(30) DEF TInv, TypeOK

LEMMA PushVal == ASSUME TInv, NEW v \in Val PROVE Append(stack, v) \in Seq(Val)
  BY AppendProperties DEF TInv, TypeOK

LEMMA TInit == ASSUME Init PROVE TInv
<1>1. [ ret |-> 0, base |-> 0, vals |-> [s \in Slot |-> Undef],
        nums |-> [s \in Slot |-> 0], parked |-> 0 ] \in Frame
  BY ConstantsAssumption DEF Frame
<1>2. frames \in Seq(Frame) \ {<<>>}
  BY <1>1 DEF Init
<1>3. QED
  BY <1>2 DEF Init, TInv, TypeOK

\* The actions that change the operand stack and the program counter only.
LEMMA TStackStep ==
  ASSUME TInv,
         \/ Load \/ Pop \/ Jump \/ Test \/ JumpIfFalse \/ JumpIfTrue \/ GetSlot
         \/ Cut \/ JumpNotPending \/ Match \/ NlrMatch
  PROVE  TInv'
<1> USE DEF TInv, TypeOK, host_vars, At
<1>1. CASE Load \/ GetSlot
  <2>1. CASE Load
    BY <2>1, CurOp, PushVal DEF Load
  <2>2. CASE GetSlot
    BY <2>2, CurOp, TopFrame, PushVal DEF GetSlot
  <2>3. QED
    BY <1>1, <2>1, <2>2
<1>2. CASE Pop
  BY <1>2, FrontSeq DEF Pop
<1>3. CASE Jump \/ JumpNotPending \/ Match \/ NlrMatch
  BY <1>3, CurOp DEF Jump, JumpNotPending, Match, NlrMatch
<1>4. CASE Test
  <2>1. Front(stack) \in Seq(Val)
    BY <1>4, FrontSeq DEF Test
  <2>2. PICK b \in {"true", "false"} : stack' = Append(Front(stack), b)
    BY <1>4 DEF Test
  <2>3. stack' \in Seq(Val)
    BY <2>1, <2>2, ConstantsAssumption, AppendProperties
  <2>4. QED
    BY <1>4, <2>3 DEF Test
<1>5. CASE JumpIfFalse \/ JumpIfTrue
  BY <1>5, CurOp, FrontSeq DEF JumpIfFalse, JumpIfTrue, JumpIf
<1>6. CASE Cut
  <2>1. Truncate(stack, Top.nums[Cur.slot]) \in Seq(Val)
    BY <1>6, CurOp, TopFrame, TruncateSeq DEF Cut
  <2>2. QED
    BY <1>6, <2>1 DEF Cut
<1>7. QED
  BY <1>1, <1>2, <1>3, <1>4, <1>5, <1>6

\* The actions that change the frames.
LEMMA TFrameStep ==
  ASSUME TInv, SetSlot \/ Count \/ Depth \/ Call \/ Return
  PROVE  TInv'
<1> USE DEF TInv, TypeOK, host_vars, At
<1>1. CASE SetSlot
  <2>1. Tip(stack) \in Val /\ Front(stack) \in Seq(Val)
    BY <1>1, TipIn, FrontSeq DEF SetSlot
  <2>2. [Top EXCEPT !.vals[Cur.slot] = Tip(stack)] \in Frame
    BY <1>1, <2>1, CurOp, TopFrame DEF SetSlot, Frame
  <2>3. frames' = [frames EXCEPT ![Len(frames)] = [Top EXCEPT !.vals[Cur.slot] = Tip(stack)]]
    BY <1>1 DEF SetSlot, Top
  <2>4. QED
    <3>1. frames' \in Seq(Frame) \ {<<>>}
      BY <2>2, <2>3, FramesUpdate
    <3>2. QED
      BY <1>1, <2>1, <3>1 DEF SetSlot
<1>2. CASE Count
  <2> DEFINE n == Top.nums[Cur.slot]
             m == IF Cur.n = 0 THEN 1 ELSE IF n < Cur.n THEN n + 1 ELSE n
  <2>1. [Top EXCEPT !.nums[Cur.slot] = m] \in Frame
    <3>1. Cur.slot \in Slot /\ Cur.n \in Nat
      BY <1>2, CurOp DEF Count
    <3>2. Top \in Frame /\ n \in Nat
      BY <3>1, TopFrame
    <3>3. m \in Nat
      BY <3>1, <3>2
    <3> HIDE DEF m
    <3>4. QED
      BY <3>1, <3>2, <3>3 DEF Frame
  <2>2. frames' = [frames EXCEPT ![Len(frames)] = [Top EXCEPT !.nums[Cur.slot] = m]]
    BY <1>2 DEF Count, Top
  <2>3. QED
    <3>1. frames' \in Seq(Frame) \ {<<>>}
      BY <2>1, <2>2, FramesUpdate
    <3>2. QED
      BY <1>2, <3>1 DEF Count
<1>3. CASE Depth
  <2>1. [Top EXCEPT !.nums[Cur.slot] = Len(stack)] \in Frame
    BY <1>3, CurOp, TopFrame, LenProperties DEF Depth, Frame
  <2>2. frames' = [frames EXCEPT ![Len(frames)] = [Top EXCEPT !.nums[Cur.slot] = Len(stack)]]
    BY <1>3 DEF Depth, Top
  <2>3. QED
    <3>1. frames' \in Seq(Frame) \ {<<>>}
      BY <2>1, <2>2, FramesUpdate
    <3>2. QED
      BY <1>3, <3>1 DEF Depth
<1>4. CASE Call
  <2>1. frames' \in Seq(Frame) \ {<<>>}
    BY <1>4, FramePush, LenProperties DEF Call
  <2>2. QED
    BY <1>4, <2>1, CurOp DEF Call
<1>5. CASE Return
  <2>1. Front(frames) \in Seq(Frame) \ {<<>>}
    BY <1>5, FrontSeq, EmptySeq DEF Return
  <2>2. Tip(stack) \in Val /\ Front(stack) \in Seq(Val)
    BY <1>5, TipIn, FrontSeq DEF Return
  <2>3. Truncate(Front(stack), Top.base) \in Seq(Val)
    BY <2>2, TopFrame, TruncateSeq
  <2>4. stack' \in Seq(Val) /\ pc' \in Nat
    BY <1>5, <2>2, <2>3, TopFrame, AppendProperties DEF Return
  <2>5. QED
    BY <1>5, <2>1, <2>4 DEF Return
<1>6. QED
  BY <1>1, <1>2, <1>3, <1>4, <1>5

\* The actions of the exception machine.
LEMMA TUnwindStep ==
  ASSUME TInv,
         \/ Throw \/ Fault \/ Println \/ Store \/ Take \/ Stash \/ Unstash \/ Abort
         \/ NlrRaise \/ NlrTake \/ Finish
  PROVE  TInv'
<1> USE DEF TInv, TypeOK, host_vars, At
<1>1. \A e \in Exc : Raise(e) => /\ pending' \in Exc \cup {None}
                                 /\ report' \in Exc \cup {None}
                                 /\ status' \in {"run", "ok", "halted"}
  BY DEF Raise
<1>2. CASE Throw \/ Fault
  <2>1. Cur.exc \in Exc
    BY <1>2, CurOp DEF Throw, Fault
  <2>2. stack' \in Seq(Val)
    BY <1>2, ConstantsAssumption, PushVal DEF Throw, Fault
  <2>3. QED
    BY <1>1, <1>2, <2>1, <2>2 DEF Throw, Fault
<1>3. CASE Println \/ Store
  <2>1. Tip(stack) \in Val /\ Front(stack) \in Seq(Val)
    BY <1>3, TipIn, FrontSeq DEF Println, Store
  <2>2. stack' \in Seq(Val) /\ out' \in Seq(Val)
    <3>1. Append(out, Tip(stack)) \in Seq(Val)
      BY <2>1, AppendProperties
    <3>2. Append(Front(stack), Undef) \in Seq(Val)
      BY <2>1, ConstantsAssumption, AppendProperties
    <3>3. QED
      BY <1>3, <2>1, <3>1, <3>2 DEF Println, Store
  <2>3. QED
    BY <1>3, <2>2 DEF Println, Store
<1>4. CASE Take \/ Abort \/ Finish
  BY <1>4 DEF Take, Abort, Finish
<1>5. CASE Stash
  BY <1>5, AppendProperties DEF Stash
<1>6. CASE Unstash
  <2>1. stash # <<>> => /\ Front(stash) \in Seq(Exc \cup {None})
                        /\ Tip(stash) \in Exc \cup {None}
    BY FrontSeq, TipIn
  <2>2. QED
    BY <1>6, <2>1 DEF Unstash
<1>7. CASE NlrRaise
  <2>1. Tip(stack) \in Val /\ Front(stack) \in Seq(Val)
    BY <1>7, TipIn, FrontSeq DEF NlrRaise
  <2>2. stack' \in Seq(Val)
    BY <1>7, <2>1, ConstantsAssumption, AppendProperties DEF NlrRaise
  <2>3. nlr' \in [fun : Fun, val : Val] \cup {None}
    BY <1>7, <2>1, CurOp DEF NlrRaise
  <2>4. QED
    BY <1>1, <1>7, <2>2, <2>3, ConstantsAssumption DEF NlrRaise
<1>8. CASE NlrTake
  <2>1. nlr # None => nlr.val \in Val
    OBVIOUS
  <2>2. QED
    BY <1>8, <2>1, ConstantsAssumption, AppendProperties DEF NlrTake
<1>9. QED
  BY <1>2, <1>3, <1>4, <1>5, <1>6, <1>7, <1>8

\* The actions of the host builtins that call back into the VM.
LEMMA THostStep ==
  ASSUME TInv, Invoke \/ EachNext \/ Caught
  PROVE  TInv'
<1> USE DEF TInv, TypeOK, host_vars, At, Nested
<1>1. CASE Invoke
  <2> DEFINE h == [ kind |-> IF Cur.n = 0 THEN "catching" ELSE "each",
                    left |-> Cur.n, entry |-> Cur.to,
                    frame |-> Len(frames) + 1, ip |-> pc + 1 ]
  <2>1. h \in Host
    BY <1>1, CurOp, TopFrame DEF Invoke, Host
  <2>2. Append(hosts, h) \in Seq(Host)
    BY <2>1, AppendProperties
  <2>3. Append(frames, NewFrame(End, Len(stack))) \in Seq(Frame) \ {<<>>}
    BY FramePush, EndNat, LenProperties
  <2>4. Append(stack, Undef) \in Seq(Val)
    BY ConstantsAssumption, AppendProperties
  <2>5. CASE unwinding
    <3>1. /\ stack' = Append(stack, Undef)
          /\ pc' = pc + 1
          /\ UNCHANGED <<chunk, out, frames, hosts, host_vars>>
      BY <1>1, <2>5 DEF Invoke
    <3>2. QED
      BY <2>4, <3>1
  <2>6. CASE ~unwinding
    BY <1>1, <2>2, <2>3, <2>6, CurOp DEF Invoke, Enter
  <2>7. QED
    BY <2>5, <2>6
<1>2. CASE EachNext
  <2>1. Tip(hosts) \in Host /\ Len(hosts) \in 1..Len(hosts) /\ Front(hosts) \in Seq(Host)
    BY <1>2, TipIn, FrontSeq DEF EachNext
  <2>2. /\ Front(stack) \in Seq(Val)
        /\ Append(Front(stack), Undef) \in Seq(Val)
        /\ Len(stack) - 1 \in Nat
    BY <1>2, FrontSeq, TipIn, ConstantsAssumption, AppendProperties DEF EachNext
  <2>3. CASE Tip(hosts).left > 1 /\ ~unwinding
    <3> DEFINE h == [Tip(hosts) EXCEPT !.left = @ - 1]
    <3>1. h \in Host
      <4>1. Tip(hosts).left - 1 \in Nat
        BY <2>1, <2>3 DEF Host
      <4>2. QED
        BY <2>1, <4>1 DEF Host
    <3>2. hosts' = [hosts EXCEPT ![Len(hosts)] = h]
      BY <1>2, <2>3 DEF EachNext, Tip
    <3>3. hosts' \in Seq(Host)
      BY <2>1, <3>1, <3>2, ExceptSeq
    <3>4. frames' \in Seq(Frame) \ {<<>>}
      BY <1>2, <2>2, <2>3, FramePush, EndNat DEF EachNext
    <3>5. QED
      BY <1>2, <2>1, <2>2, <2>3, <3>3, <3>4 DEF EachNext, Host
  <2>4. CASE ~(Tip(hosts).left > 1 /\ ~unwinding)
    BY <1>2, <2>1, <2>2, <2>4 DEF EachNext, Host
  <2>5. QED
    BY <2>3, <2>4
<1>3. CASE Caught
  <2>1. Tip(hosts) \in Host /\ Front(hosts) \in Seq(Host)
    BY <1>3, TipIn, FrontSeq DEF Caught
  <2>2. Append(Front(stack), Undef) \in Seq(Val)
    BY <1>3, FrontSeq, ConstantsAssumption, AppendProperties DEF Caught
  <2>3. QED
    BY <1>3, <2>1, <2>2 DEF Caught, Host
<1>4. QED
  BY <1>1, <1>2, <1>3

LEMMA TNext == ASSUME TInv, [Next]_vars PROVE TInv'
<1>1. CASE UNCHANGED vars
  BY <1>1 DEF vars, TInv, TypeOK
<1>2. CASE Stopped
  BY <1>2, <1>1 DEF Stopped
<1>3. CASE Step
  BY <1>3, TStackStep, TFrameStep, TUnwindStep, THostStep DEF Step
<1>4. QED
  BY <1>1, <1>2, <1>3 DEF Next

\* Whatever the chunks are, the machine's state stays within its types: no
\* operation of src/host.rs's exception protocol leaves the operand stack, the
\* frames or the parked exceptions in a shape another one cannot read.
THEOREM TypeCorrect == Spec => []TypeOK
<1>1. Init => TInv
  BY TInit
<1>2. TInv /\ [Next]_vars => TInv'
  BY TNext
<1>3. TInv => TypeOK
  BY DEF TInv
<1>4. QED
  BY <1>1, <1>2, <1>3, PTL DEF Spec

(* ---- the balance of the stash ---------------------------------------------- *)

\* Where a call resumes owns the entries between its frame and the caller's.
CallLinked ==
  \A i \in 2..Len(frames) :
    \/ /\ frames[i].ret \in 1..Len(chunk.ops)
       /\ frames[i].parked = frames[i - 1].parked + chunk.ops[frames[i].ret].parked
    \/ /\ frames[i].ret = End
       /\ \E j \in 1..Len(hosts) : hosts[j].frame = i

\* The same for a frame a host builtin entered, which resumes where the
\* builtin was called.
HostLinked ==
  \A j \in 1..Len(hosts) :
    /\ hosts[j].ip \in 1..Len(chunk.ops)
    /\ hosts[j].entry \in 1..Len(chunk.ops)
    /\ chunk.ops[hosts[j].entry].parked = 0
    /\ hosts[j].frame \in 2..Len(frames) + 1
    /\ hosts[j].frame <= Len(frames) =>
         /\ frames[hosts[j].frame].ret = End
         /\ frames[hosts[j].frame].parked =
              frames[hosts[j].frame - 1].parked + chunk.ops[hosts[j].ip].parked
    /\ \A k \in 1..j - 1 : hosts[k].frame < hosts[j].frame

\* The chunk is executing: the current frame is the innermost one.
Executing ==
  /\ pc \in 1..Len(chunk.ops)
  /\ \A j \in 1..Len(hosts) : hosts[j].frame <= Len(frames)
  /\ Len(stash) = Top.parked + Cur.parked

\* A lambda returned to the builtin that called it.
Returned ==
  /\ pc = End
  /\ hosts # <<>>
  /\ Tip(hosts).frame = Len(frames) + 1
  /\ Len(stash) = Top.parked + chunk.ops[Tip(hosts).ip].parked

IInv ==
  /\ TInv
  /\ WellParked(chunk)
  /\ status = "run" => CallLinked /\ HostLinked /\ (Executing \/ Returned)

LEMMA Opcode ==
  ASSUME IInv, pc \in 1..Len(chunk.ops)
  PROVE  /\ pc \in DOMAIN chunk.ops
         /\ WellParkedOp(chunk.ops, pc)
         /\ Len(chunk.ops) \in Nat
         /\ \A i \in 1..Len(chunk.ops) : chunk.ops[i].parked \in Nat
<1>1. chunk.ops \in Seq(Op)
  BY ConstantsAssumption DEF IInv, TInv
<1>2. DOMAIN chunk.ops = 1..Len(chunk.ops) /\ Len(chunk.ops) \in Nat
  BY <1>1, LenProperties
<1>3. \A i \in 1..Len(chunk.ops) : chunk.ops[i] \in Op
  BY <1>1, ElementOfSeq
<1>4. QED
  BY <1>2, <1>3 DEF IInv, WellParked, Op

\* An operation is executing whenever an action of the chunk is enabled.
LEMMA AtExecuting ==
  ASSUME IInv, NEW name, At(name)
  PROVE  Executing /\ CallLinked /\ HostLinked /\ status = "run"
<1>1. chunk.ops \in Seq(Op) /\ DOMAIN chunk.ops = 1..Len(chunk.ops) /\ Len(chunk.ops) \in Nat
  BY ConstantsAssumption, LenProperties DEF IInv, TInv
<1>2. pc # End
  BY <1>1 DEF At, End
<1>3. QED
  BY <1>2 DEF IInv, At, Returned

\* A step within a frame: control goes to an operation where as many
\* finalizers of the frame are running as entries were added to the stash.
LEMMA WithinFrame ==
  ASSUME IInv, TInv', Executing, CallLinked, HostLinked,
         UNCHANGED <<chunk, hosts>>,
         Len(frames') = Len(frames),
         \A i \in 1..Len(frames) : /\ frames'[i].ret = frames[i].ret
                                   /\ frames'[i].parked = frames[i].parked,
         pc' \in 1..Len(chunk.ops),
         Len(stash') = Top.parked + chunk.ops[pc'].parked
  PROVE  IInv'
<1>1. Len(frames) \in 1..Len(frames)
  BY TopFrame DEF IInv
<1>2. End' = End /\ Top'.parked = Top.parked /\ Cur'.parked = chunk.ops[pc'].parked
  BY <1>1 DEF End, Top, Cur
<1> HIDE DEF End
<1>3. CallLinked'
  <2>1. SUFFICES ASSUME NEW i \in 2..Len(frames)
        PROVE \/ /\ frames'[i].ret \in 1..Len(chunk.ops)
                 /\ frames'[i].parked = frames'[i - 1].parked + chunk.ops[frames'[i].ret].parked
              \/ /\ frames'[i].ret = End
                 /\ \E j \in 1..Len(hosts) : hosts[j].frame = i
    BY <1>2 DEF CallLinked
  <2>2. i \in 1..Len(frames) /\ i - 1 \in 1..Len(frames)
    BY <1>1
  <2>3. QED
    BY <2>2 DEF CallLinked
<1>4. HostLinked'
  <2>1. \A j \in 1..Len(hosts) : hosts[j].frame <= Len(frames) =>
          hosts[j].frame \in 1..Len(frames) /\ hosts[j].frame - 1 \in 1..Len(frames)
    BY <1>1 DEF HostLinked
  <2>2. QED
    BY <1>2, <2>1 DEF HostLinked
<1>5. Executing'
  BY <1>2 DEF Executing
<1>6. WellParked(chunk)'
  BY DEF IInv
<1>7. QED
  BY <1>3, <1>4, <1>5, <1>6 DEF IInv

\* What the verifier says of the operations that may follow this one.
Flows(i, n) == i \in 1..Len(chunk.ops) /\ chunk.ops[i].parked = n

LEMMA Successors ==
  ASSUME IInv, pc \in 1..Len(chunk.ops)
  PROVE  /\ Cur.op \in {"load", "pop", "set", "get", "println", "store", "throw", "fault",
                        "take", "depth", "cut", "nlrRaise", "nlrTake", "count", "test"} =>
              Flows(pc + 1, Cur.parked)
         /\ Cur.op = "jump" => Flows(Cur.to, Cur.parked)
         /\ Cur.op \in {"jumpNotPending", "match", "nlrMatch", "jumpIfFalse", "jumpIfTrue"} =>
              Flows(Cur.to, Cur.parked) /\ Flows(pc + 1, Cur.parked)
         /\ Cur.op \in {"call", "invoke"} => Flows(Cur.to, 0) /\ Flows(pc + 1, Cur.parked)
         /\ Cur.op = "return" => Cur.parked = 0
         /\ Cur.op = "stash" => Flows(pc + 1, Cur.parked + 1)
         /\ Cur.op = "unstash" => Cur.parked > 0 /\ Flows(pc + 1, Cur.parked - 1)
  BY Opcode DEF WellParkedOp, Flows, Cur

\* The actions that leave the frames and the stash alone.
LEMMA PPlainStep ==
  ASSUME IInv, TInv',
         \/ Load \/ Pop \/ GetSlot \/ Jump \/ Test \/ JumpIfFalse \/ JumpIfTrue
         \/ Throw \/ Fault \/ Println \/ Store \/ JumpNotPending \/ Match \/ Take \/ Cut
         \/ NlrRaise \/ NlrMatch \/ NlrTake
  PROVE  IInv'
<1>1. /\ \E name \in OpName : At(name)
      /\ UNCHANGED <<chunk, frames, hosts, stash>>
  BY DEF Load, Pop, GetSlot, Jump, Test, JumpIfFalse, JumpIfTrue, JumpIf, Throw, Fault,
         Println, Store, JumpNotPending, Match, Take, Cut, NlrRaise, NlrMatch, NlrTake,
         host_vars, OpName
<1>2. Executing /\ CallLinked /\ HostLinked /\ status = "run"
  BY <1>1, AtExecuting
<1>3. pc \in 1..Len(chunk.ops)
  BY <1>2 DEF Executing
<1>4. Flows(pc', Cur.parked)
  <2>1. CASE Load \/ Pop \/ GetSlot \/ Test \/ Take \/ Cut
    BY <1>3, <2>1, Successors DEF Load, Pop, GetSlot, Test, Take, Cut, At
  <2>2. CASE Throw \/ Fault \/ Println \/ Store \/ NlrRaise \/ NlrTake
    BY <1>3, <2>2, Successors DEF Throw, Fault, Println, Store, NlrRaise, NlrTake, At
  <2>3. CASE Jump \/ JumpIfFalse \/ JumpIfTrue \/ JumpNotPending \/ Match \/ NlrMatch
    BY <1>3, <2>3, Successors
    DEF Jump, JumpIfFalse, JumpIfTrue, JumpIf, JumpNotPending, Match, NlrMatch, At
  <2>4. QED
    BY <2>1, <2>2, <2>3
<1>5. Len(stash') = Top.parked + chunk.ops[pc'].parked
  BY <1>1, <1>2, <1>4 DEF Flows, Executing
<1>6. QED
  BY <1>1, <1>2, <1>4, <1>5, WithinFrame DEF Flows

\* The actions that write a slot of the current frame.
LEMMA PSlotStep ==
  ASSUME IInv, TInv', SetSlot \/ Count \/ Depth
  PROVE  IInv'
<1>1. /\ \E name \in {"set", "count", "depth"} : At(name)
      /\ UNCHANGED <<chunk, hosts, stash>>
      /\ pc' = pc + 1
  BY DEF SetSlot, Count, Depth, host_vars
<1>2. Executing /\ CallLinked /\ HostLinked /\ status = "run"
  BY <1>1, AtExecuting
<1>3. Flows(pc', Cur.parked)
  BY <1>1, <1>2, Successors DEF At, Executing
<1>4. /\ frames \in Seq(Frame) /\ Len(frames) \in 1..Len(frames)
      /\ \A i \in 1..Len(frames) : frames[i] \in Frame
  BY TopFrame, ElementOfSeq DEF IInv, TInv, TypeOK
<1>5. /\ Len(frames') = Len(frames)
      /\ \A i \in 1..Len(frames) : /\ frames'[i].ret = frames[i].ret
                                   /\ frames'[i].parked = frames[i].parked
  <2>1. CASE SetSlot
    BY <1>4, <2>1 DEF SetSlot, Frame
  <2>2. CASE Count
    BY <1>4, <2>2 DEF Count, Frame
  <2>3. CASE Depth
    BY <1>4, <2>3 DEF Depth, Frame
  <2>4. QED
    BY <2>1, <2>2, <2>3
<1>6. Len(stash') = Top.parked + chunk.ops[pc'].parked
  BY <1>1, <1>2, <1>3 DEF Flows, Executing
<1>7. QED
  BY <1>1, <1>2, <1>3, <1>5, <1>6, WithinFrame DEF Flows

\* The actions that open and close a finalizer.
LEMMA PStashStep ==
  ASSUME IInv, TInv', Stash \/ Unstash
  PROVE  IInv'
<1>1. /\ \E name \in {"stash", "unstash"} : At(name)
      /\ UNCHANGED <<chunk, hosts, frames>>
      /\ pc' = pc + 1
  BY DEF Stash, Unstash
<1>2. Executing /\ CallLinked /\ HostLinked /\ status = "run"
  BY <1>1, AtExecuting
<1>3. /\ stash \in Seq(Exc \cup {None}) /\ Len(stash) \in Nat
      /\ pc \in 1..Len(chunk.ops) /\ Cur.parked \in Nat /\ Top.parked \in Nat
      /\ Len(stash) = Top.parked + Cur.parked
  BY <1>2, CurOp, TopFrame, Opcode, LenProperties DEF IInv, TInv, TypeOK, Executing
<1>4. CASE Stash
  <2>1. Len(stash') = Len(stash) + 1
    BY <1>3, <1>4, AppendProperties DEF Stash, IInv, TInv, TypeOK
  <2>2. Flows(pc', Cur.parked + 1)
    BY <1>3, <1>4, Successors DEF Stash, At
  <2>3. QED
    BY <1>1, <1>2, <1>3, <2>1, <2>2, WithinFrame DEF Flows
<1>5. CASE Unstash
  <2>1. Cur.parked > 0 /\ Flows(pc', Cur.parked - 1)
    BY <1>3, <1>5, Successors DEF Unstash, At
  <2>2. Len(stash') = Len(stash) - 1
    BY <1>3, <1>5, <2>1, FrontSeq, EmptySeq DEF Unstash
  <2>3. QED
    BY <1>1, <1>2, <1>3, <2>1, <2>2, WithinFrame DEF Flows
<1>6. QED
  BY <1>4, <1>5

LEMMA PushFrame ==
  ASSUME TInv, NEW ret \in Nat, NEW base \in Nat,
         frames' = Append(frames, NewFrame(ret, base))
  PROVE  /\ Len(frames') = Len(frames) + 1
         /\ \A i \in 1..Len(frames) : frames'[i] = frames[i]
         /\ Top' = frames'[Len(frames) + 1]
         /\ Top'.ret = ret /\ Top'.parked = Len(stash)
<1>1. NewFrame(ret, base) \in Frame
  BY ConstantsAssumption, LenProperties DEF NewFrame, Frame, TInv, TypeOK
<1>2. frames \in Seq(Frame)
  BY DEF TInv, TypeOK
<1>3. /\ Len(frames') = Len(frames) + 1
      /\ \A i \in 1..Len(frames) : frames'[i] = frames[i]
      /\ frames'[Len(frames) + 1] = NewFrame(ret, base)
  BY <1>1, <1>2, AppendProperties
<1>4. QED
  BY <1>3 DEF Top, NewFrame

\* The host builtins keep their links over a step that keeps the frames they
\* entered and the ones below those.
LEMMA HostsKept ==
  ASSUME HostLinked, UNCHANGED <<chunk, hosts>>,
         \A j \in 1..Len(hosts) :
           /\ hosts[j].frame \in 2..Len(frames') + 1
           /\ hosts[j].frame <= Len(frames') =>
                /\ hosts[j].frame <= Len(frames)
                /\ frames'[hosts[j].frame] = frames[hosts[j].frame]
                /\ frames'[hosts[j].frame - 1] = frames[hosts[j].frame - 1]
  PROVE  HostLinked'
<1>1. End' = End
  BY DEF End
<1>2. SUFFICES ASSUME NEW j \in 1..Len(hosts)
      PROVE /\ hosts[j].ip \in 1..Len(chunk.ops)
            /\ hosts[j].entry \in 1..Len(chunk.ops)
            /\ chunk.ops[hosts[j].entry].parked = 0
            /\ hosts[j].frame \in 2..Len(frames') + 1
            /\ hosts[j].frame <= Len(frames') =>
                 /\ frames'[hosts[j].frame].ret = End
                 /\ frames'[hosts[j].frame].parked =
                      frames'[hosts[j].frame - 1].parked + chunk.ops[hosts[j].ip].parked
            /\ \A k \in 1..j - 1 : hosts[k].frame < hosts[j].frame
  BY <1>1 DEF HostLinked
<1>3. QED
  BY DEF HostLinked

LEMMA PCallStep ==
  ASSUME IInv, TInv', Call
  PROVE  IInv'
<1>1. At("call") /\ UNCHANGED <<chunk, hosts, stash>> /\ pc' = Cur.to
  BY DEF Call, host_vars
<1>2. Executing /\ CallLinked /\ HostLinked /\ status = "run" /\ pc \in 1..Len(chunk.ops)
  BY <1>1, AtExecuting DEF Executing
<1>3. Flows(pc', 0) /\ Flows(pc + 1, Cur.parked)
  BY <1>1, <1>2, Successors DEF At
<1>4. /\ Len(frames') = Len(frames) + 1
      /\ \A i \in 1..Len(frames) : frames'[i] = frames[i]
      /\ Top' = frames'[Len(frames) + 1]
      /\ Top'.ret = pc + 1 /\ Top'.parked = Len(stash)
  BY <1>2, PushFrame, LenProperties DEF Call, IInv, TInv, TypeOK
<1>5. Len(frames) \in Nat \ {0} /\ Len(stash) \in Nat
  BY TopFrame, LenProperties DEF IInv, TInv, TypeOK
<1>6. CallLinked'
  <2>1. SUFFICES ASSUME NEW i \in 2..Len(frames) + 1
        PROVE \/ /\ frames'[i].ret \in 1..Len(chunk.ops)
                 /\ frames'[i].parked = frames'[i - 1].parked + chunk.ops[frames'[i].ret].parked
              \/ /\ frames'[i].ret = End
                 /\ \E j \in 1..Len(hosts) : hosts[j].frame = i
    BY <1>1, <1>4 DEF CallLinked, End
  <2>2. CASE i \in 2..Len(frames)
    <3>1. frames'[i] = frames[i] /\ frames'[i - 1] = frames[i - 1]
      BY <1>4, <1>5, <2>2
    <3>2. QED
      BY <1>2, <2>2, <3>1 DEF CallLinked
  <2>3. CASE i = Len(frames) + 1
    <3>1. frames'[i].ret = pc + 1 /\ frames'[i].parked = Len(stash) /\ frames'[i - 1] = Top
      BY <1>4, <1>5, <2>3 DEF Top
    <3>2. Len(stash) = Top.parked + chunk.ops[pc + 1].parked
      BY <1>2, <1>3 DEF Flows, Executing
    <3>3. QED
      BY <1>3, <3>1, <3>2 DEF Flows
  <2>4. QED
    BY <1>5, <2>2, <2>3
<1>7. HostLinked'
  <2>1. \A j \in 1..Len(hosts) :
          /\ hosts[j].frame \in 2..Len(frames)
          /\ frames'[hosts[j].frame] = frames[hosts[j].frame]
          /\ frames'[hosts[j].frame - 1] = frames[hosts[j].frame - 1]
    <3> SUFFICES ASSUME NEW j \in 1..Len(hosts)
        PROVE /\ hosts[j].frame \in 2..Len(frames)
              /\ frames'[hosts[j].frame] = frames[hosts[j].frame]
              /\ frames'[hosts[j].frame - 1] = frames[hosts[j].frame - 1]
      OBVIOUS
    <3>1. hosts[j].frame \in 2..Len(frames) + 1 /\ hosts[j].frame <= Len(frames)
      BY <1>2 DEF HostLinked, Executing
    <3>2. hosts[j].frame \in 2..Len(frames)
      BY <1>5, <3>1
    <3>3. QED
      BY <1>4, <1>5, <3>2
  <2>2. \A j \in 1..Len(hosts) : /\ hosts[j].frame \in 2..Len(frames') + 1
                                 /\ hosts[j].frame <= Len(frames)
    BY <1>4, <1>5, <2>1
  <2>3. QED
    BY <1>1, <1>2, <2>1, <2>2, HostsKept
<1>8. Executing'
  <2>1. Len(stash') = Top'.parked + Cur'.parked
    BY <1>1, <1>3, <1>4, <1>5 DEF Flows, Cur
  <2>2. \A j \in 1..Len(hosts') : hosts'[j].frame <= Len(frames')
    BY <1>1, <1>2, <1>4, <1>5 DEF Executing, HostLinked
  <2>3. QED
    BY <1>1, <1>3, <2>1, <2>2 DEF Executing, Flows
<1>9. QED
  BY <1>1, <1>2, <1>6, <1>7, <1>8 DEF IInv

\* The frame that returns is a called one, and its caller goes on, or it is
\* the lambda of the innermost host builtin.
LEMMA PReturnStep ==
  ASSUME IInv, TInv', Return
  PROVE  IInv'
<1> DEFINE n == Len(frames)
<1>1. At("return") /\ UNCHANGED <<chunk, hosts, stash>> /\ pc' = Top.ret
  BY DEF Return, host_vars
<1>2. Executing /\ CallLinked /\ HostLinked /\ status = "run" /\ pc \in 1..Len(chunk.ops)
  BY <1>1, AtExecuting DEF Executing
<1>3. Len(stash) = Top.parked
  BY <1>1, <1>2, Successors, TopFrame DEF At, Executing, IInv
<1>4. n \in 2..n /\ Top = frames[n]
  BY TopFrame DEF Return, IInv, Top
<1>5. Len(frames') = n - 1 /\ \A i \in 1..n - 1 : frames'[i] = frames[i]
  <2>1. frames \in Seq(Frame) /\ frames # <<>> /\ frames' = Front(frames)
    BY DEF Return, IInv, TInv, TypeOK
  <2>2. QED
    BY <2>1, FrontSeq
<1> HIDE DEF n
<1>6. \A j \in 1..Len(hosts) : hosts[j].frame \in 2..n
  BY <1>2, <1>4 DEF HostLinked, Executing, n
<1>7. Top' = frames[n - 1]
  BY <1>4, <1>5 DEF Top, n
<1>8. CallLinked'
  <2>1. SUFFICES ASSUME NEW i \in 2..n - 1
        PROVE \/ /\ frames'[i].ret \in 1..Len(chunk.ops)
                 /\ frames'[i].parked = frames'[i - 1].parked + chunk.ops[frames'[i].ret].parked
              \/ /\ frames'[i].ret = End
                 /\ \E j \in 1..Len(hosts) : hosts[j].frame = i
    BY <1>1, <1>5 DEF CallLinked, End
  <2>2. i \in 2..n /\ frames'[i] = frames[i] /\ frames'[i - 1] = frames[i - 1]
    BY <1>4, <1>5
  <2>3. QED
    BY <1>2, <2>2 DEF CallLinked, n
<1>9. HostLinked'
  <2>1. \A j \in 1..Len(hosts) : hosts[j].frame <= n - 1 =>
          /\ frames'[hosts[j].frame] = frames[hosts[j].frame]
          /\ frames'[hosts[j].frame - 1] = frames[hosts[j].frame - 1]
    BY <1>4, <1>5, <1>6
  <2>2. \A j \in 1..Len(hosts) : hosts[j].frame \in 2..Len(frames') + 1
    BY <1>4, <1>5, <1>6
  <2>3. \A j \in 1..Len(hosts) : hosts[j].frame <= Len(frames)
    BY <1>4, <1>6 DEF n
  <2>4. QED
    BY <1>1, <1>2, <1>5, <2>1, <2>2, <2>3, HostsKept
<1>10. CASE Top.ret \in 1..Len(chunk.ops)
  <2>1. Top.ret # End
    BY <1>10, Opcode, <1>2 DEF End
  <2>2. Len(stash) = frames[n - 1].parked + chunk.ops[Top.ret].parked
    BY <1>2, <1>3, <1>4, <2>1 DEF CallLinked, n
  <2>3. \A j \in 1..Len(hosts) : hosts[j].frame # n
    BY <1>2, <1>4, <2>1 DEF HostLinked, n
  <2>4. \A j \in 1..Len(hosts) : hosts[j].frame <= n - 1
    BY <1>4, <1>6, <2>3
  <2>5. Executing'
    BY <1>1, <1>5, <1>7, <1>10, <2>2, <2>4 DEF Executing, Cur
  <2>6. QED
    BY <1>1, <1>2, <1>8, <1>9, <2>5 DEF IInv
<1>11. CASE ~(Top.ret \in 1..Len(chunk.ops))
  <2>1. Top.ret = End /\ \E j \in 1..Len(hosts) : hosts[j].frame = n
    BY <1>2, <1>4, <1>11 DEF CallLinked, n
  <2>2. PICK j \in 1..Len(hosts) : hosts[j].frame = n
    BY <2>1
  <2>3. hosts # <<>> /\ Len(hosts) \in 1..Len(hosts)
    BY <2>2, EmptySeq, LenProperties DEF IInv, TInv, TypeOK
  <2>4. ~(j < Len(hosts))
    <3>1. SUFFICES ASSUME j < Len(hosts) PROVE FALSE
      OBVIOUS
    <3>2. j \in 1..Len(hosts) - 1
      BY <2>2, <2>3, <3>1
    <3>3. hosts[j].frame < hosts[Len(hosts)].frame
      BY <1>2, <2>3, <3>2 DEF HostLinked
    <3>4. QED
      BY <1>4, <1>6, <2>2, <2>3, <3>3
  <2>5. j = Len(hosts)
    BY <2>3, <2>4
  <2>6. Tip(hosts) = hosts[Len(hosts)] /\ Tip(hosts).frame = n
    BY <2>2, <2>5 DEF Tip
  <2>7. Len(stash) = frames[n - 1].parked + chunk.ops[Tip(hosts).ip].parked
    BY <1>2, <1>3, <1>4, <2>3, <2>6 DEF HostLinked, n
  <2>8. pc' = End' /\ Tip(hosts') = Tip(hosts)
    BY <1>1, <2>1 DEF End
  <2>9. Returned'
    BY <1>1, <1>4, <1>5, <1>7, <2>3, <2>6, <2>7, <2>8 DEF Returned
  <2>10. QED
    BY <1>1, <1>2, <1>8, <1>9, <2>9 DEF IInv
<1>12. QED
  BY <1>10, <1>11

\* A builtin enters its lambda: m builtins are outside it, and the innermost
\* one resumes where it was called once the lambda has returned.
LEMMA EnterLambda ==
  ASSUME IInv, TInv', CallLinked, HostLinked, UNCHANGED <<chunk, stash>>,
         NEW base \in Nat, frames' = Append(frames, NewFrame(End, base)),
         NEW m \in Nat, m <= Len(hosts), Len(hosts') = m + 1,
         \A j \in 1..m : hosts'[j] = hosts[j] /\ hosts[j].frame <= Len(frames),
         \A j \in m + 1..Len(hosts) : hosts[j].frame = Len(frames) + 1,
         NEW h, hosts'[m + 1] = h,
         h.frame = Len(frames) + 1,
         h.ip \in 1..Len(chunk.ops),
         Len(stash) = Top.parked + chunk.ops[h.ip].parked,
         Flows(h.entry, 0), pc' = h.entry
  PROVE  IInv'
<1>1. /\ Len(frames') = Len(frames) + 1
      /\ \A i \in 1..Len(frames) : frames'[i] = frames[i]
      /\ Top' = frames'[Len(frames) + 1]
      /\ Top'.ret = End /\ Top'.parked = Len(stash)
  BY PushFrame, EndNat DEF IInv
<1>2. /\ Len(frames) \in Nat \ {0} /\ Len(stash) \in Nat /\ Len(hosts) \in Nat
      /\ frames'[Len(frames)] = Top
  BY <1>1, TopFrame, LenProperties DEF IInv, TInv, TypeOK, Top
<1>3. End' = End
  BY DEF End
<1>outer. \A j \in 1..m : /\ j \in 1..Len(hosts) /\ hosts'[j] = hosts[j]
                          /\ hosts[j].frame \in 2..Len(frames)
  BY <1>2 DEF HostLinked
<1>order. \A j \in 1..m : \A k \in 1..j - 1 : hosts'[k].frame < hosts'[j].frame
  <2> SUFFICES ASSUME NEW j \in 1..m
      PROVE \A k \in 1..j - 1 : hosts'[k].frame < hosts'[j].frame
    OBVIOUS
  <2>2. j \in 1..Len(hosts) /\ hosts'[j] = hosts[j] /\ hosts[j].frame <= Len(frames)
    BY <1>2
  <2>3. \A k \in 1..j - 1 : hosts'[k] = hosts[k]
    BY <1>2
  <2>4. \A k \in 1..j - 1 : hosts[k].frame < hosts[j].frame
    BY <2>2 DEF HostLinked
  <2>5. QED
    BY <2>2, <2>3, <2>4
<1>4. CallLinked'
  <2>1. SUFFICES ASSUME NEW i \in 2..Len(frames) + 1
        PROVE \/ /\ frames'[i].ret \in 1..Len(chunk.ops)
                 /\ frames'[i].parked = frames'[i - 1].parked + chunk.ops[frames'[i].ret].parked
              \/ /\ frames'[i].ret = End
                 /\ \E j \in 1..m + 1 : hosts'[j].frame = i
    BY <1>1, <1>3 DEF CallLinked
  <2>2. CASE i \in 2..Len(frames)
    <3>1. frames'[i] = frames[i] /\ frames'[i - 1] = frames[i - 1]
      BY <1>1, <1>2, <2>2
    <3>2. \A j \in 1..Len(hosts) : hosts[j].frame = i => j \in 1..m
      BY <1>2, <2>2
    <3>3. QED
      BY <2>2, <3>1, <3>2, SMTT(30) DEF CallLinked
  <2>3. CASE i = Len(frames) + 1
    <3>1. m + 1 \in 1..m + 1 /\ hosts'[m + 1].frame = i
      BY <2>3
    <3>2. frames'[i].ret = End
      BY <1>1, <2>3
    <3>3. QED
      BY <3>1, <3>2
  <2>4. QED
    BY <1>2, <2>2, <2>3
<1>5. HostLinked'
  <2>1. SUFFICES ASSUME NEW j \in 1..m + 1
        PROVE /\ hosts'[j].ip \in 1..Len(chunk.ops)
              /\ hosts'[j].entry \in 1..Len(chunk.ops)
              /\ chunk.ops[hosts'[j].entry].parked = 0
              /\ hosts'[j].frame \in 2..Len(frames') + 1
              /\ hosts'[j].frame <= Len(frames') =>
                   /\ frames'[hosts'[j].frame].ret = End
                   /\ frames'[hosts'[j].frame].parked =
                        frames'[hosts'[j].frame - 1].parked + chunk.ops[hosts'[j].ip].parked
              /\ \A k \in 1..j - 1 : hosts'[k].frame < hosts'[j].frame
    BY <1>3 DEF HostLinked
  <2>2. CASE j \in 1..m
    <3>1. j \in 1..Len(hosts) /\ hosts'[j] = hosts[j] /\ hosts[j].frame \in 2..Len(frames)
      BY <2>2, <1>outer
    <3>2. /\ frames'[hosts[j].frame] = frames[hosts[j].frame]
          /\ frames'[hosts[j].frame - 1] = frames[hosts[j].frame - 1]
      BY <1>1, <1>2, <3>1, SMTT(30)
    <3>3. \A k \in 1..j - 1 : hosts'[k].frame < hosts'[j].frame
      BY <2>2, <1>order
    <3>4. hosts'[j].frame \in 2..Len(frames') + 1
      BY <1>1, <1>2, <3>1
    <3>5. hosts[j].frame <= Len(frames)
      BY <1>2, <3>1
    <3>6. QED
      BY <3>1, <3>2, <3>3, <3>4, <3>5 DEF HostLinked
  <2>3. CASE j = m + 1
    <3>1. j - 1 = m /\ hosts'[j] = h
      BY <2>3
    <3>2. \A k \in 1..j - 1 : hosts'[k].frame < hosts'[j].frame
      BY <1>2, <1>outer, <3>1
    <3>3. /\ hosts'[j].frame - 1 = Len(frames)
          /\ hosts'[j].frame = Len(frames) + 1
          /\ hosts'[j].frame \in 2..Len(frames') + 1
      BY <1>1, <1>2, <2>3
    <3>4. QED
      BY <1>1, <1>2, <3>1, <3>2, <3>3 DEF Flows
  <2>4. j \in 1..m \/ j = m + 1
    BY <2>1
  <2>5. QED
    BY <2>2, <2>3, <2>4
<1>6. Executing'
  <2>1. \A j \in 1..m + 1 : hosts'[j].frame <= Len(frames')
    <3>1. SUFFICES ASSUME NEW j \in 1..m + 1 PROVE hosts'[j].frame <= Len(frames')
      OBVIOUS
    <3>2. CASE j \in 1..m
      <4>1. hosts'[j] = hosts[j] /\ hosts[j].frame \in 2..Len(frames)
        BY <1>outer, <3>2
      <4>2. QED
        BY <1>1, <1>2, <4>1
    <3>3. CASE j = m + 1
      BY <1>1, <1>2, <3>3
    <3>4. QED
      BY <3>2, <3>3
  <2>2. Len(stash') = Top'.parked + Cur'.parked
    BY <1>1, <1>2 DEF Flows, Cur
  <2>3. QED
    BY <2>1, <2>2 DEF Executing, Flows
<1>7. QED
  BY <1>4, <1>5, <1>6 DEF IInv

\* A builtin is done and the chunk goes on behind its call.
LEMMA LeaveHost ==
  ASSUME IInv, TInv', Returned, CallLinked, HostLinked,
         UNCHANGED <<chunk, frames, stash>>,
         hosts' = Front(hosts), pc' = Tip(hosts).ip
  PROVE  IInv'
<1>1. hosts \in Seq(Host) /\ Len(hosts) \in Nat \ {0} /\ Len(frames) \in Nat \ {0}
  BY TipIn, TopFrame DEF IInv, TInv, TypeOK, Returned
<1>2. Len(hosts') = Len(hosts) - 1 /\ \A j \in 1..Len(hosts) - 1 : hosts'[j] = hosts[j]
  BY FrontSeq DEF Returned, IInv, TInv, TypeOK
<1>3. hosts[Len(hosts)].frame = Len(frames) + 1
  BY DEF Returned, Tip
<1>4. \A j \in 1..Len(hosts) - 1 : /\ hosts[j].frame \in 2..Len(frames) + 1
                                   /\ hosts[j].frame < Len(frames) + 1
  <2>1. Len(hosts) \in 1..Len(hosts)
    BY <1>1
  <2>2. \A j \in 1..Len(hosts) - 1 : hosts[j].frame < hosts[Len(hosts)].frame
    BY <2>1 DEF HostLinked
  <2>3. \A j \in 1..Len(hosts) - 1 : j \in 1..Len(hosts)
    BY <1>1
  <2>4. QED
    BY <1>3, <2>2, <2>3 DEF HostLinked
<1>5. End' = End
  BY DEF End
<1>6. CallLinked'
  <2>1. SUFFICES ASSUME NEW i \in 2..Len(frames)
        PROVE \/ /\ frames[i].ret \in 1..Len(chunk.ops)
                 /\ frames[i].parked = frames[i - 1].parked + chunk.ops[frames[i].ret].parked
              \/ /\ frames[i].ret = End
                 /\ \E j \in 1..Len(hosts) - 1 : hosts'[j].frame = i
    BY <1>2, <1>5 DEF CallLinked
  <2>2. \A j \in 1..Len(hosts) : hosts[j].frame = i =>
          j \in 1..Len(hosts) - 1 /\ hosts'[j].frame = i
    BY <1>1, <1>2, <1>3
  <2>3. QED
    BY <2>2 DEF CallLinked
<1>7. HostLinked'
  <2>1. SUFFICES ASSUME NEW j \in 1..Len(hosts) - 1
        PROVE /\ hosts'[j].ip \in 1..Len(chunk.ops)
              /\ hosts'[j].entry \in 1..Len(chunk.ops)
              /\ chunk.ops[hosts'[j].entry].parked = 0
              /\ hosts'[j].frame \in 2..Len(frames) + 1
              /\ hosts'[j].frame <= Len(frames) =>
                   /\ frames[hosts'[j].frame].ret = End
                   /\ frames[hosts'[j].frame].parked =
                        frames[hosts'[j].frame - 1].parked + chunk.ops[hosts'[j].ip].parked
              /\ \A k \in 1..j - 1 : hosts'[k].frame < hosts'[j].frame
    BY <1>2, <1>5 DEF HostLinked
  <2>2. j \in 1..Len(hosts) /\ hosts'[j] = hosts[j]
    BY <1>1, <1>2
  <2>3. \A k \in 1..j - 1 : hosts'[k] = hosts[k]
    BY <1>1, <1>2
  <2>4. QED
    BY <2>2, <2>3 DEF HostLinked
<1>8. Executing'
  <2>1. \A j \in 1..Len(hosts') : hosts'[j].frame <= Len(frames)
    BY <1>1, <1>2, <1>4
  <2>2. pc' \in 1..Len(chunk.ops)
    BY <1>1 DEF HostLinked, Tip
  <2>3. Len(stash') = Top'.parked + Cur'.parked
    BY DEF Returned, Top, Cur
  <2>4. QED
    BY <2>1, <2>2, <2>3 DEF Executing
<1>9. QED
  BY <1>6, <1>7, <1>8 DEF IInv

LEMMA AtNested ==
  ASSUME IInv, Nested
  PROVE  Returned /\ CallLinked /\ HostLinked
<1>1. Len(chunk.ops) \in Nat
  BY ConstantsAssumption, LenProperties DEF IInv, TInv
<1>2. ~(pc \in 1..Len(chunk.ops))
  BY <1>1 DEF Nested, End
<1>3. QED
  BY <1>2 DEF IInv, Nested, Executing

LEMMA PInvokeStep ==
  ASSUME IInv, TInv', Invoke
  PROVE  IInv'
<1>1. At("invoke") /\ UNCHANGED <<chunk, stash, status>>
  BY DEF Invoke, host_vars
<1>2. Executing /\ CallLinked /\ HostLinked /\ status = "run" /\ pc \in 1..Len(chunk.ops)
  BY <1>1, AtExecuting DEF Executing
<1>3. Flows(Cur.to, 0) /\ Flows(pc + 1, Cur.parked)
  BY <1>1, <1>2, Successors DEF At
<1>4. CASE unwinding
  <2>1. pc' = pc + 1 /\ UNCHANGED <<chunk, frames, hosts, stash>>
    BY <1>1, <1>4 DEF Invoke
  <2>2. Len(stash') = Top.parked + chunk.ops[pc'].parked
    BY <1>2, <1>3, <2>1 DEF Flows, Executing
  <2>3. QED
    BY <1>2, <1>3, <2>1, <2>2, WithinFrame DEF Flows
<1>5. CASE ~unwinding
  <2> DEFINE h == [ kind |-> IF Cur.n = 0 THEN "catching" ELSE "each",
                    left |-> Cur.n, entry |-> Cur.to,
                    frame |-> Len(frames) + 1, ip |-> pc + 1 ]
  <2>1. /\ frames' = Append(frames, NewFrame(End, Len(stack)))
        /\ hosts' = Append(hosts, h)
        /\ pc' = Cur.to
    BY <1>5 DEF Invoke, Enter
  <2>2. hosts \in Seq(Host) /\ Len(hosts) \in Nat /\ Len(stack) \in Nat
    BY LenProperties DEF IInv, TInv, TypeOK
  <2>3. h \in Host
    BY <1>1, CurOp, TopFrame DEF At, Host, IInv, TInv, TypeOK
  <2>4. h.frame = Len(frames) + 1 /\ h.ip = pc + 1 /\ h.entry = Cur.to
    OBVIOUS
  <2> HIDE DEF h
  <2>5. /\ Len(hosts') = Len(hosts) + 1
        /\ \A j \in 1..Len(hosts) : hosts'[j] = hosts[j]
        /\ hosts'[Len(hosts) + 1] = h
    BY <2>1, <2>2, <2>3, AppendProperties
  <2>6. /\ \A j \in 1..Len(hosts) : hosts[j].frame <= Len(frames)
        /\ \A j \in Len(hosts) + 1..Len(hosts) : hosts[j].frame = Len(frames) + 1
        /\ Len(hosts) <= Len(hosts)
    BY <1>2, <2>2 DEF Executing
  <2>7. /\ h.ip \in 1..Len(chunk.ops)
        /\ Len(stash) = Top.parked + chunk.ops[h.ip].parked
        /\ Flows(h.entry, 0) /\ pc' = h.entry
    BY <1>2, <1>3, <2>1, <2>4 DEF Flows, Executing
  <2>8. QED
    BY <1>1, <1>2, <2>1, <2>2, <2>4, <2>5, <2>6, <2>7, EnterLambda
<1>6. QED
  BY <1>4, <1>5

LEMMA PEachStep ==
  ASSUME IInv, TInv', EachNext
  PROVE  IInv'
<1>1. Nested /\ UNCHANGED <<chunk, stash, status>> /\ stack # <<>>
  BY DEF EachNext, host_vars
<1>2. Returned /\ CallLinked /\ HostLinked
  BY <1>1, AtNested
<1>3. CASE ~(Tip(hosts).left > 1 /\ ~unwinding)
  BY <1>1, <1>2, <1>3, LeaveHost DEF EachNext
<1>4. CASE Tip(hosts).left > 1 /\ ~unwinding
  <2> DEFINE h == [Tip(hosts) EXCEPT !.left = @ - 1]
             m == Len(hosts) - 1
  <2>1. /\ frames' = Append(frames, NewFrame(End, Len(stack) - 1))
        /\ hosts' = [hosts EXCEPT ![Len(hosts)] = h]
        /\ pc' = Tip(hosts).entry
    BY <1>4 DEF EachNext, Tip
  <2>2. hosts \in Seq(Host) /\ Len(hosts) \in Nat \ {0} /\ Tip(hosts) \in Host
    BY <1>2, TipIn DEF Returned, IInv, TInv, TypeOK
  <2>3. /\ h.frame = Tip(hosts).frame /\ h.ip = Tip(hosts).ip
        /\ h.entry = Tip(hosts).entry
        /\ h \in Host
    <3>1. Tip(hosts).left - 1 \in Nat
      BY <1>4, <2>2 DEF Host
    <3>2. QED
      BY <2>2, <3>1 DEF Host
  <2> HIDE DEF h
  <2>4. m \in Nat /\ m <= Len(hosts) /\ m + 1 = Len(hosts) /\ Len(stack) - 1 \in Nat
    BY <1>1, <2>2, TipIn DEF IInv, TInv, TypeOK
  <2>5. /\ Len(hosts') = m + 1
        /\ \A j \in 1..m : hosts'[j] = hosts[j]
        /\ hosts'[m + 1] = h
    <3>1. /\ Len([hosts EXCEPT ![Len(hosts)] = h]) = Len(hosts)
          /\ \A j \in 1..Len(hosts) :
               [hosts EXCEPT ![Len(hosts)] = h][j] = IF j = Len(hosts) THEN h ELSE hosts[j]
      BY <2>2, <2>3, ExceptSeq
    <3> HIDE DEF m
    <3>2. Len(hosts) \in 1..Len(hosts)
      BY <2>2
    <3>3. m + 1 \in 1..Len(hosts) /\ \A j \in 1..m : j \in 1..Len(hosts) /\ j # Len(hosts)
      BY <2>4, <3>2
    <3>4. QED
      BY <2>1, <2>4, <3>1, <3>3
  <2>6. Len(hosts) \in 1..Len(hosts) /\ hosts[Len(hosts)].frame = Len(frames) + 1
    BY <1>2, <2>2 DEF Returned, Tip
  <2>7. \A j \in 1..m : hosts[j].frame <= Len(frames)
    <3>1. \A j \in 1..m : /\ hosts[j].frame < hosts[Len(hosts)].frame
                          /\ hosts[j].frame \in 2..Len(frames) + 1
      BY <1>2, <2>4, <2>6 DEF HostLinked
    <3>2. QED
      BY <2>6, <3>1, TopFrame DEF IInv
  <2>8. \A j \in m + 1..Len(hosts) : hosts[j].frame = Len(frames) + 1
    BY <2>4, <2>6
  <2>9. /\ h.frame = Len(frames) + 1
        /\ h.ip \in 1..Len(chunk.ops)
        /\ Len(stash) = Top.parked + chunk.ops[h.ip].parked
        /\ Flows(h.entry, 0) /\ pc' = h.entry
    BY <1>2, <2>1, <2>3, <2>6 DEF Returned, HostLinked, Flows, Tip
  <2> HIDE DEF m
  <2>10. QED
    BY <1>1, <1>2, <2>1, <2>4, <2>5, <2>7, <2>8, <2>9, EnterLambda
<1>5. QED
  BY <1>3, <1>4

LEMMA PCaughtStep ==
  ASSUME IInv, TInv', Caught
  PROVE  IInv'
<1>1. Returned /\ CallLinked /\ HostLinked
  BY AtNested DEF Caught
<1>2. QED
  BY <1>1, LeaveHost DEF Caught

LEMMA PInit ==
  ASSUME \A c \in Chunks : WellParked(c), Init
  PROVE  IInv
<1>1. TInv /\ WellParked(chunk)
  BY TInit DEF Init
<1>2. /\ hosts = <<>> /\ Len(frames) = 1 /\ frames[1].parked = 0
      /\ stash = <<>> /\ pc = 1
  BY DEF Init
<1>3. pc \in 1..Len(chunk.ops) /\ Cur.parked = 0
  <2>1. Len(chunk.ops) \in Nat
    BY <1>1, ConstantsAssumption, LenProperties DEF TInv
  <2>2. QED
    BY <1>1, <1>2, <2>1 DEF WellParked, Cur
<1>4. CallLinked /\ HostLinked /\ Executing
  BY <1>2, <1>3 DEF CallLinked, HostLinked, Executing, Top
<1>5. QED
  BY <1>1, <1>4 DEF IInv

LEMMA PNext == ASSUME IInv, [Next]_vars PROVE IInv'
<1>1. TInv'
  BY TNext DEF IInv
<1>2. CASE UNCHANGED vars
  <2>1. UNCHANGED <<CallLinked, HostLinked, Executing, Returned, WellParked(chunk)>>
    BY <1>2 DEF vars, CallLinked, HostLinked, Executing, Returned, End, Top, Cur
  <2>2. QED
    BY <1>1, <1>2, <2>1 DEF IInv, vars
<1>3. CASE Abort \/ Finish
  BY <1>1, <1>3 DEF Abort, Finish, IInv
<1>4. CASE Step
  BY <1>1, <1>3, <1>4, PPlainStep, PSlotStep, PStashStep, PCallStep, PReturnStep,
     PInvokeStep, PEachStep, PCaughtStep DEF Step
<1>5. QED
  BY <1>2, <1>4 DEF Next, Stopped

\* In a run of chunks that pass the verifier, every running finalizer owns
\* exactly one entry of the stash, across calls, lambdas called back by host
\* builtins, non-local returns and throwables that unwind: emit_finally's
\* KT_EXC_STASH and KT_EXC_UNSTASH pair up on every path.
THEOREM StashBalanced ==
  ASSUME \A c \in Chunks : WellParked(c)
  PROVE  Spec => []ParkedBalanced
<1>1. Init => IInv
  BY PInit
<1>2. IInv /\ [Next]_vars => IInv'
  BY PNext
<1>3. IInv => ParkedBalanced
  <2>1. SUFFICES ASSUME IInv, status = "run", pc \in DOMAIN chunk.ops
        PROVE Len(stash) = Top.parked + Cur.parked
    BY DEF ParkedBalanced
  <2>2. chunk.ops \in Seq(Op)
    BY <2>1, ConstantsAssumption DEF IInv, TInv
  <2>3. pc # End
    BY <2>1, <2>2, LenProperties DEF End
  <2>4. QED
    BY <2>1, <2>3 DEF IInv, Executing, Returned
<1>4. QED
  BY <1>1, <1>2, <1>3, PTL DEF Spec

(* ---- the operands ---------------------------------------------------------- *)

\* The frame whose operands start at base holds what p says, when len operands
\* are on the stack and e is in flight.
Fit(p, e, base, len) ==
  /\ base + p.depth <= len
  /\ p.exact = "yes" => len = base + p.depth
  /\ p.exact = "calm" => e # None \/ len = base + p.depth
  /\ p.flight = "none" => e = None
  /\ p.flight = "some" => e # None

\* f, the k-th frame, holds the depths p says it saved.
Placed(p, f, k) ==
  /\ \A mark \in p.marks : f.nums[mark[1]] = f.base + mark[2]
  /\ p.outer => k = 1

Pictured(c, a) ==
  /\ DOMAIN a \subseteq 1..Len(c.ops)
  /\ \A i \in DOMAIN a : a[i] \in Fact
  /\ SizedBy(c, a)

\* f, the k-th frame, can go on at r once len operands are on the stack, whatever
\* is in flight by then.
Ready(a, f, k, r, len) ==
  /\ r \in DOMAIN a
  /\ \A e \in Exc \cup {None} : Fit(a[r], e, f.base, len)
  /\ f.base < len
  /\ Placed(a[r], f, k)

Resumes(a, k, r, len) == Ready(a, frames[k], k, r, len)

FramesSized(a) ==
  \A i \in 2..Len(frames) : frames[i].ret \in 1..Len(chunk.ops) =>
    Resumes(a, i - 1, frames[i].ret, frames[i].base + 1)

HostsSized(a) ==
  \A j \in 1..Len(hosts) :
    /\ hosts[j].entry \in DOMAIN a /\ Implies(Entered, a[hosts[j].entry])
    /\ hosts[j].frame <= Len(frames) =>
         Resumes(a, hosts[j].frame - 1, hosts[j].ip, frames[hosts[j].frame].base + 1)

TopSized(a) ==
  /\ pc \in DOMAIN a
  /\ Fit(a[pc], pending, Top.base, Len(stack))
  /\ Placed(a[pc], Top, Len(frames))

BasesOrdered == \A i, j \in 1..Len(frames) : i <= j => frames[i].base <= frames[j].base

\* A program that cannot catch has nothing in flight, and nothing parked.
NeverInFlight ==
  ~chunk.catchable => pending = None /\ \A i \in 1..Len(stash) : stash[i] = None

Running(a) ==
  /\ FramesSized(a) /\ HostsSized(a) /\ BasesOrdered /\ NeverInFlight
  /\ frames[1].parked = 0
  /\ pc # End => TopSized(a)
  /\ pc = End => Resumes(a, Len(frames), Tip(hosts).ip, Len(stack))

\* What ends normally has nothing parked and nothing in flight.
EndsIdle == status = "ok" => stash = <<>> /\ pending = None

Operands(a) ==
  /\ IInv
  /\ Pictured(chunk, a)
  /\ status = "run" => Running(a)
  /\ EndsIdle

(* ---- what is known, from one operation to the next ---------------------------- *)

LEMMA FitImplies ==
  ASSUME NEW p \in Fact, NEW q \in Fact, NEW e, NEW base \in Nat, NEW len \in Nat,
         Implies(p, q), Fit(p, e, base, len)
  PROVE  Fit(q, e, base, len)
  BY DEF Fit, Implies, Fact

LEMMA PlacedImplies ==
  ASSUME NEW p \in Fact, NEW q \in Fact, NEW f, NEW k, Implies(p, q), Placed(p, f, k)
  PROVE  Placed(q, f, k)
  BY DEF Placed, Implies

\* q says of the frame's slots no more than p does.
Same(p, q) == q \in Fact /\ q.marks = p.marks /\ q.outer = p.outer

LEMMA HoldingFact ==
  ASSUME NEW p \in Fact, NEW n \in Nat
  PROVE  /\ Same(p, Holding(p, n))
         /\ Holding(p, n).depth = n
         /\ Holding(p, n).exact = p.exact
         /\ Holding(p, n).flight = p.flight
  BY DEF Holding, Fact, Same

LEMMA RaisedFact ==
  ASSUME NEW p \in Fact
  PROVE  /\ Same(p, Raised(p))
         /\ Raised(p).depth = p.depth
         /\ Raised(p).exact = p.exact
         /\ Raised(p).flight = IF p.flight = "some" THEN "some" ELSE "any"
  BY DEF Raised, Fact, Same

LEMMA SettledFact ==
  ASSUME NEW p \in Fact
  PROVE  /\ Same(p, Settled(p))
         /\ Settled(p).depth = p.depth
         /\ Settled(p).exact = IF p.exact = "yes" THEN "yes" ELSE "no"
         /\ Settled(p).flight = "none"
  BY DEF Settled, Fact, Same

LEMMA AnsweredFact ==
  ASSUME NEW p \in Fact
  PROVE  /\ Same(p, Answered(p))
         /\ Answered(p).depth = p.depth + 1
         /\ Answered(p).exact = p.exact
         /\ Answered(p).flight = "any"
<1>1. p.depth + 1 \in Nat
  BY DEF Fact
<1>2. QED
  BY <1>1 DEF Answered, Fact, Same

LEMMA EnteredFact ==
  /\ Entered \in Fact /\ Started \in Fact
  /\ \A e, f, k : \A base \in Nat : Fit(Entered, e, base, base) /\ Placed(Entered, f, k)
  /\ \A f : f.base = 0 => Fit(Started, None, 0, 0) /\ Placed(Started, f, 1)
<1>1. /\ Entered \in Fact
      /\ Entered.depth = 0 /\ Entered.exact = "yes" /\ Entered.flight = "any"
      /\ Entered.marks = {} /\ Entered.outer = FALSE
  BY DEF Entered, Fact
<1>2. /\ Started \in Fact
      /\ Started.depth = 0 /\ Started.exact = "yes" /\ Started.flight = "none"
      /\ Started.marks = {}
  BY <1>1 DEF Started, Entered, Fact
<1>3. \A e, f, k : \A base \in Nat : Fit(Entered, e, base, base) /\ Placed(Entered, f, k)
  BY <1>1 DEF Fit, Placed
<1>4. \A f : f.base = 0 => Fit(Started, None, 0, 0) /\ Placed(Started, f, 1)
  BY <1>2 DEF Fit, Placed
<1>5. QED
  BY <1>1, <1>2, <1>3, <1>4

LEMMA FitGrow ==
  ASSUME NEW p \in Fact, NEW e, NEW base \in Nat, NEW len \in Nat, Fit(p, e, base, len)
  PROVE  Fit(Holding(p, p.depth + 1), e, base, len + 1)
<1>1. p.depth \in Nat /\ p.depth + 1 \in Nat
  BY DEF Fact
<1>2. QED
  BY <1>1, HoldingFact DEF Fit

LEMMA FitShrink ==
  ASSUME NEW p \in Fact, NEW e, NEW base \in Nat, NEW len \in Nat, Fit(p, e, base, len),
         p.depth > 0
  PROVE  Fit(Holding(p, p.depth - 1), e, base, len - 1) /\ base + 1 <= len
<1>1. p.depth \in Nat /\ p.depth - 1 \in Nat
  BY DEF Fact
<1>2. QED
  BY <1>1, HoldingFact DEF Fit

LEMMA FitRaised ==
  ASSUME NEW p \in Fact, NEW e, NEW d, NEW base \in Nat, NEW len \in Nat, Fit(p, e, base, len),
         e # None => d # None
  PROVE  Fit(Raised(p), d, base, len)
  BY RaisedFact DEF Fit, Fact

LEMMA FitSettled ==
  ASSUME NEW p \in Fact, NEW e, NEW base \in Nat, NEW len \in Nat, Fit(p, e, base, len)
  PROVE  Fit(Settled(p), None, base, len)
  BY SettledFact DEF Fit, Fact

LEMMA FitAnswered ==
  ASSUME NEW p \in Fact, NEW e, NEW d, NEW base \in Nat, NEW len \in Nat, Fit(p, e, base, len),
         p.exact = "yes"
  PROVE  Fit(Answered(p), d, base, len + 1) /\ base < len + 1
<1>1. p.depth \in Nat
  BY DEF Fact
<1>2. QED
  BY <1>1, AnsweredFact DEF Fit

LEMMA BehindOf ==
  ASSUME NEW o, NEW p
  PROVE  /\ o.op \in {"load", "get"} => Behind(o, p) = Holding(p, p.depth + 1)
         /\ o.op \in {"throw", "fault"} => Behind(o, p) = Raised(Holding(p, p.depth + 1))
         /\ o.op \in {"pop", "set", "store", "jumpIfFalse", "jumpIfTrue"} =>
              Behind(o, p) = Holding(p, p.depth - 1)
         /\ o.op \in {"nlrRaise", "unstash"} => Behind(o, p) = Raised(p)
         /\ o.op = "jumpNotPending" => Behind(o, p) = [p EXCEPT !.flight = "some"]
         /\ o.op \in {"take", "stash"} => Behind(o, p) = Settled(p)
         /\ o.op = "nlrTake" => Behind(o, p) = Settled(Holding(p, p.depth + 1))
         /\ o.op = "depth" =>
              Behind(o, p) = [p EXCEPT !.marks = Without(@, o.slot) \cup {<<o.slot, p.depth>>}]
         /\ o.op = "cut" => Behind(o, p) = [p EXCEPT !.exact = "yes"]
         /\ o.op = "count" => Behind(o, p) = [p EXCEPT !.marks = Without(@, o.slot)]
         /\ o.op \in {"call", "invoke"} => Behind(o, p) = Answered(p)
         /\ o.op \in {"println", "test", "match", "nlrMatch"} => Behind(o, p) = p
  BY DEF Behind, Drops

LEMMA AheadOf ==
  ASSUME NEW o, NEW p
  PROVE  /\ o.op \in {"call", "invoke"} => Ahead(o, p) = Entered
         /\ o.op = "jumpNotPending" =>
              Ahead(o, p) = [p EXCEPT !.exact = "yes", !.flight = "none"]
         /\ o.op \in {"jumpIfFalse", "jumpIfTrue"} => Ahead(o, p) = Holding(p, p.depth - 1)
         /\ o.op \in {"jump", "match", "nlrMatch"} => Ahead(o, p) = p
  BY DEF Ahead

(* ---- steps that stay in their frame --------------------------------------------- *)

\* What an operation that is about to run finds.
LEMMA Standing ==
  ASSUME NEW a, Operands(a), NEW name, At(name)
  PROVE  /\ pc \in DOMAIN a /\ a[pc] \in Fact /\ pc \in 1..Len(chunk.ops)
         /\ Cur.op = name /\ Able(chunk, Cur, a[pc])
         /\ name \in Falls => /\ pc + 1 \in DOMAIN a /\ a[pc + 1] \in Fact
                              /\ Implies(Behind(Cur, a[pc]), a[pc + 1])
         /\ name \in Names => /\ Cur.to \in DOMAIN a /\ a[Cur.to] \in Fact
                              /\ Implies(Ahead(Cur, a[pc]), a[Cur.to])
         /\ Fit(a[pc], pending, Top.base, Len(stack)) /\ Placed(a[pc], Top, Len(frames))
         /\ Top.base \in Nat /\ Len(stack) \in Nat /\ stack \in Seq(Val)
         /\ a[pc].depth \in Nat /\ Top.base + a[pc].depth <= Len(stack)
         /\ Running(a) /\ status = "run"
<1>1. Executing /\ status = "run" /\ IInv
  BY AtExecuting DEF Operands
<1>2. pc \in 1..Len(chunk.ops) /\ pc # End
  <2>1. Len(chunk.ops) \in Nat
    BY ConstantsAssumption, LenProperties DEF IInv, TInv, Operands
  <2>2. QED
    BY <1>1, <2>1 DEF Executing, End
<1>3. Running(a) /\ TopSized(a) /\ Pictured(chunk, a)
  BY <1>1, <1>2 DEF Operands, Running
<1>4. pc \in DOMAIN a /\ \A i \in DOMAIN a : a[i] \in Fact
  BY <1>3 DEF TopSized, Pictured
<1>5. SizedOp(chunk, a, pc)
  BY <1>3, <1>4 DEF Pictured, SizedBy
<1>6. Cur.op = name
  BY DEF At
<1>7. Top.base \in Nat /\ Len(stack) \in Nat /\ stack \in Seq(Val)
  BY TopFrame, LenProperties, <1>1 DEF IInv, TInv, TypeOK
<1>8. /\ Able(chunk, Cur, a[pc])
      /\ name \in Falls => pc + 1 \in DOMAIN a /\ Implies(Behind(Cur, a[pc]), a[pc + 1])
      /\ name \in Names => Cur.to \in DOMAIN a /\ Implies(Ahead(Cur, a[pc]), a[Cur.to])
  BY <1>5, <1>6 DEF SizedOp, Cur
<1>9. Fit(a[pc], pending, Top.base, Len(stack)) /\ Placed(a[pc], Top, Len(frames))
  BY <1>3 DEF TopSized
<1>10. a[pc].depth \in Nat /\ Top.base + a[pc].depth <= Len(stack)
  BY <1>4, <1>9 DEF Fit, Fact
<1>11. QED
  BY <1>1, <1>2, <1>3, <1>4, <1>6, <1>7, <1>8, <1>9, <1>10

\* Control goes to another operation of the frame.
LEMMA Arrives ==
  ASSUME NEW a, Operands(a), NEW name, At(name), IInv', UNCHANGED <<chunk, hosts, status>>,
         Len(frames') = Len(frames),
         \A i \in 1..Len(frames) : /\ frames'[i].base = frames[i].base
                                   /\ frames'[i].ret = frames[i].ret
                                   /\ frames'[i].parked = frames[i].parked,
         \A i \in 1..Len(frames) - 1 : frames'[i] = frames[i],
         NEW q \in Fact, pc' \in DOMAIN a, Implies(q, a[pc']),
         Fit(q, pending', Top.base, Len(stack')), Placed(q, Top', Len(frames)),
         NeverInFlight'
  PROVE  Operands(a)'
<1>1. /\ Running(a) /\ status = "run" /\ Top.base \in Nat /\ Pictured(chunk, a) /\ IInv
      /\ pc \in 1..Len(chunk.ops)
  BY Standing DEF Operands
<1>2. Len(frames) \in Nat \ {0} /\ Len(chunk.ops) \in Nat /\ Len(stack') \in Nat
  BY <1>1, TopFrame, ConstantsAssumption, LenProperties DEF IInv, TInv, TypeOK
<1>3. End' = End /\ Top'.base = Top.base
  <2>1. Len(frames) \in 1..Len(frames)
    BY <1>2
  <2>2. QED
    BY <2>1 DEF End, Top
<1>4. pc' # End' /\ pc' \in 1..Len(chunk.ops)
  BY <1>1, <1>2, <1>3 DEF Pictured, End
<1>5. FramesSized(a)'
  <2>1. SUFFICES ASSUME NEW i \in 2..Len(frames), frames[i].ret \in 1..Len(chunk.ops)
        PROVE Resumes(a, i - 1, frames[i].ret, frames[i].base + 1)'
    <3>1. \A i \in 2..Len(frames) : frames'[i].ret = frames[i].ret /\ frames'[i].base = frames[i].base
      BY <1>2
    <3>2. QED
      BY <3>1, <1>2 DEF FramesSized
  <2>2. Resumes(a, i - 1, frames[i].ret, frames[i].base + 1)
    BY <1>1, <2>1 DEF Running, FramesSized
  <2>3. frames'[i - 1] = frames[i - 1] /\ frames'[i].base = frames[i].base /\ frames'[i].ret = frames[i].ret
    BY <1>2
  <2>4. QED
    BY <2>2, <2>3 DEF Resumes
<1>6. HostsSized(a)'
  <2>1. SUFFICES ASSUME NEW j \in 1..Len(hosts)
        PROVE /\ hosts[j].entry \in DOMAIN a /\ Implies(Entered, a[hosts[j].entry])
              /\ hosts[j].frame <= Len(frames) =>
                   Resumes(a, hosts[j].frame - 1, hosts[j].ip, frames[hosts[j].frame].base + 1)'
    BY DEF HostsSized
  <2>2. /\ hosts[j].entry \in DOMAIN a /\ Implies(Entered, a[hosts[j].entry])
        /\ hosts[j].frame <= Len(frames) =>
             Resumes(a, hosts[j].frame - 1, hosts[j].ip, frames[hosts[j].frame].base + 1)
    BY <1>1 DEF Running, HostsSized
  <2>3. hosts[j].frame \in 2..Len(frames) + 1
    BY <1>1, AtExecuting DEF HostLinked
  <2>4. hosts[j].frame <= Len(frames) =>
          /\ frames'[hosts[j].frame - 1] = frames[hosts[j].frame - 1]
          /\ frames'[hosts[j].frame].base = frames[hosts[j].frame].base
    BY <1>2, <2>3
  <2>5. QED
    BY <2>2, <2>4 DEF Resumes
<1>7. BasesOrdered'
  BY <1>1 DEF Running, BasesOrdered
<1>8. frames'[1].parked = 0
  BY <1>1, <1>2 DEF Running
<1>9. TopSized(a)'
  <2>1. a[pc'] \in Fact
    BY <1>1 DEF Pictured
  <2>2. Fit(a[pc'], pending', Top.base, Len(stack')) /\ Placed(a[pc'], Top', Len(frames))
    BY <1>1, <1>2, <2>1, FitImplies, PlacedImplies
  <2>3. QED
    BY <1>3, <2>2 DEF TopSized
<1>10. Running(a)'
  BY <1>4, <1>5, <1>6, <1>7, <1>8, <1>9 DEF Running
<1>11. QED
  BY <1>1, <1>10 DEF Operands, EndsIdle

\* The same, when the frames are left alone.
LEMMA ArrivesPlain ==
  ASSUME NEW a, Operands(a), NEW name, At(name), IInv', UNCHANGED <<chunk, frames, hosts, status>>,
         NEW q, Same(a[pc], q), pc' \in DOMAIN a, Implies(q, a[pc']),
         Fit(q, pending', Top.base, Len(stack')), NeverInFlight'
  PROVE  Operands(a)'
<1>1. a[pc] \in Fact /\ Placed(a[pc], Top, Len(frames))
  BY Standing
<1>2. q \in Fact /\ Placed(q, Top, Len(frames))
  BY <1>1 DEF Same, Placed
<1>3. Top' = Top
  BY DEF Top
<1>4. QED
  BY <1>2, <1>3, Arrives
\* The actions that only move operands, or none.
LEMMA OMoveStep ==
  ASSUME NEW a, Operands(a), IInv',
         Load \/ GetSlot \/ Pop \/ Store \/ Println \/ Test \/ JumpIfFalse \/ JumpIfTrue \/ Jump
  PROVE  Operands(a)'
<1> DEFINE p == a[pc]
           n == Len(stack)
<1>1. PICK name : /\ At(name)
                  /\ name \in {"load", "get", "pop", "store", "println", "test",
                               "jumpIfFalse", "jumpIfTrue", "jump"}
  BY DEF Load, GetSlot, Pop, Store, Println, Test, JumpIfFalse, JumpIfTrue, JumpIf, Jump
<1>2. UNCHANGED <<chunk, frames, hosts, status, pending, stash>>
  BY DEF Load, GetSlot, Pop, Store, Println, Test, JumpIfFalse, JumpIfTrue, JumpIf, Jump, host_vars
<1>3. /\ p \in Fact /\ Cur.op = name /\ Able(chunk, Cur, p) /\ stack \in Seq(Val)
      /\ n \in Nat /\ Top.base \in Nat /\ Fit(p, pending, Top.base, n) /\ Running(a)
  BY <1>1, Standing
<1>4. NeverInFlight'
  BY <1>2, <1>3 DEF Running, NeverInFlight
<1>5. /\ name \in Falls => pc + 1 \in DOMAIN a /\ Implies(Behind(Cur, p), a[pc + 1])
      /\ name \in Names => Cur.to \in DOMAIN a /\ Implies(Ahead(Cur, p), a[Cur.to])
  BY <1>1, Standing
<1>6. name \in Needs => p.depth > 0 /\ n > 0
  <2>1. name \in Needs => p.depth > 0
    BY <1>3 DEF Able
  <2>2. QED
    BY <1>3, <2>1, FitShrink
<1>7. p.depth \in Nat
  BY <1>3 DEF Fact
<1>8. stack # <<>> => Front(stack) \in Seq(Val) /\ Len(Front(stack)) = n - 1
  BY <1>3, FrontSeq
<1> HIDE DEF p, n
<1> DEFINE Onward(q) == /\ Same(p, q) /\ pc' \in DOMAIN a /\ Implies(q, a[pc'])
                        /\ Fit(q, pending', Top.base, Len(stack'))
<1>10. CASE Load \/ GetSlot
  <2>1. name \in {"load", "get"} /\ pc' = pc + 1
    BY <1>1, <1>3, <1>10 DEF Load, GetSlot, At
  <2>2. Len(stack') = n + 1
    BY <1>3, <1>10 DEF Load, GetSlot, n
  <2>3. Onward(Holding(p, p.depth + 1))
    BY <1>2, <1>3, <1>5, <1>7, <2>1, <2>2, BehindOf, HoldingFact, FitGrow DEF Falls, OpName
  <2>4. QED
    BY <1>1, <1>2, <1>4, <2>3, ArrivesPlain DEF p
<1>11. CASE Pop \/ Store
  <2>1. name \in {"pop", "store"} /\ pc' = pc + 1
    BY <1>1, <1>3, <1>11 DEF Pop, Store, At
  <2>2. Len(stack') = n - 1 /\ p.depth > 0
    BY <1>6, <1>8, <1>11, <2>1 DEF Pop, Store, Needs, Drops
  <2>3. Onward(Holding(p, p.depth - 1))
    BY <1>2, <1>3, <1>5, <1>7, <2>1, <2>2, BehindOf, HoldingFact, FitShrink DEF Falls, OpName
  <2>4. QED
    BY <1>1, <1>2, <1>4, <2>3, ArrivesPlain DEF p
<1>12. CASE Println \/ Test
  <2>1. name \in {"println", "test"} /\ pc' = pc + 1
    BY <1>1, <1>3, <1>12 DEF Println, Test, At
  <2>2. PICK v \in Val : stack # <<>> /\ stack' = Append(Front(stack), v)
    BY <1>12, ConstantsAssumption DEF Println, Test
  <2>3. Len(stack') = n
    BY <1>3, <1>8, <2>2
  <2>4. Onward(p)
    BY <1>2, <1>3, <1>5, <2>1, <2>3, BehindOf DEF Falls, OpName, Same
  <2>5. QED
    BY <1>1, <1>2, <1>4, <2>4, ArrivesPlain DEF p
<1>13. CASE JumpIfFalse \/ JumpIfTrue
  <2>1. name \in {"jumpIfFalse", "jumpIfTrue"} /\ pc' \in {pc + 1, Cur.to}
    BY <1>1, <1>3, <1>13 DEF JumpIfFalse, JumpIfTrue, JumpIf, At
  <2>2. Len(stack') = n - 1 /\ p.depth > 0
    BY <1>6, <1>8, <1>13, <2>1 DEF JumpIfFalse, JumpIfTrue, JumpIf, Needs, Drops
  <2>3. /\ Behind(Cur, p) = Holding(p, p.depth - 1)
        /\ Ahead(Cur, p) = Holding(p, p.depth - 1)
        /\ name \in Falls /\ name \in Names
    BY <1>3, <2>1, BehindOf, AheadOf DEF Falls, Names, OpName
  <2>4. Same(p, Holding(p, p.depth - 1))
    BY <1>3, <1>7, <2>2, HoldingFact
  <2>5. Fit(Holding(p, p.depth - 1), pending', Top.base, Len(stack'))
    BY <1>2, <1>3, <2>2, FitShrink
  <2>6. pc' \in DOMAIN a /\ Implies(Holding(p, p.depth - 1), a[pc'])
    BY <1>5, <2>1, <2>3
  <2>7. QED
    BY <1>1, <1>2, <1>4, <2>4, <2>5, <2>6, ArrivesPlain DEF p
<1>14. CASE Jump
  <2>1. name = "jump" /\ pc' = Cur.to /\ Len(stack') = n
    BY <1>1, <1>3, <1>14 DEF Jump, At, n
  <2>2. Onward(p)
    BY <1>2, <1>3, <1>5, <2>1, AheadOf DEF Names, Same
  <2>3. QED
    BY <1>1, <1>2, <1>4, <2>2, ArrivesPlain DEF p
<1>15. QED
  BY <1>10, <1>11, <1>12, <1>13, <1>14

\* The checks: what they learn is whether a throwable is in flight.
LEMMA OCheckStep ==
  ASSUME NEW a, Operands(a), IInv', JumpNotPending \/ Match \/ NlrMatch
  PROVE  Operands(a)'
<1> DEFINE p == a[pc]
<1>1. PICK name : At(name) /\ name \in {"jumpNotPending", "match", "nlrMatch"}
  BY DEF JumpNotPending, Match, NlrMatch
<1>2. UNCHANGED <<chunk, stack, frames, hosts, status, pending, stash>>
  BY DEF JumpNotPending, Match, NlrMatch, host_vars
<1>3. /\ p \in Fact /\ Cur.op = name /\ Able(chunk, Cur, p)
      /\ Len(stack) \in Nat /\ Top.base \in Nat /\ Fit(p, pending, Top.base, Len(stack))
      /\ Running(a)
      /\ pc + 1 \in DOMAIN a /\ Implies(Behind(Cur, p), a[pc + 1])
      /\ Cur.to \in DOMAIN a /\ Implies(Ahead(Cur, p), a[Cur.to])
  BY <1>1, Standing DEF Falls, Names, OpName
<1>4. NeverInFlight'
  BY <1>2, <1>3 DEF Running, NeverInFlight
<1> HIDE DEF p
<1> DEFINE Onward(q) == /\ Same(p, q) /\ pc' \in DOMAIN a /\ Implies(q, a[pc'])
                        /\ Fit(q, pending', Top.base, Len(stack'))
<1>5. CASE JumpNotPending
  <2>1. name = "jumpNotPending"
    BY <1>1, <1>3, <1>5 DEF JumpNotPending, At
  <2>2. CASE unwinding
    <3> DEFINE q == [p EXCEPT !.flight = "some"]
    <3>1. /\ Same(p, q) /\ q.depth = p.depth /\ q.exact = p.exact /\ q.flight = "some"
      BY <1>3 DEF Fact, Same
    <3>2. Behind(Cur, p) = q /\ pc' = pc + 1
      BY <1>3, <1>5, <2>1, <2>2, BehindOf DEF JumpNotPending
    <3>3. Fit(q, pending, Top.base, Len(stack))
      BY <1>3, <2>2, <3>1 DEF Fit, unwinding
    <3> HIDE DEF q
    <3>4. Onward(q)
      BY <1>2, <1>3, <3>1, <3>2, <3>3
    <3>5. QED
      BY <1>1, <1>2, <1>4, <3>4, ArrivesPlain DEF p
  <2>3. CASE ~unwinding
    <3> DEFINE q == [p EXCEPT !.exact = "yes", !.flight = "none"]
    <3>1. /\ Same(p, q) /\ q.depth = p.depth /\ q.exact = "yes" /\ q.flight = "none"
      BY <1>3 DEF Fact, Same
    <3>2. Ahead(Cur, p) = q /\ pc' = Cur.to
      BY <1>3, <1>5, <2>1, <2>3, AheadOf DEF JumpNotPending
    <3>3. Fit(q, pending, Top.base, Len(stack))
      <4>1. p.exact \in {"yes", "calm"}
        BY <1>3, <2>1 DEF Able, Fact
      <4>2. QED
        BY <1>3, <2>3, <3>1, <4>1 DEF Fit, unwinding
    <3> HIDE DEF q
    <3>4. Onward(q)
      BY <1>2, <1>3, <3>1, <3>2, <3>3
    <3>5. QED
      BY <1>1, <1>2, <1>4, <3>4, ArrivesPlain DEF p
  <2>4. QED
    BY <2>2, <2>3
<1>6. CASE Match \/ NlrMatch
  <2>1. name \in {"match", "nlrMatch"} /\ pc' \in {pc + 1, Cur.to}
    BY <1>1, <1>3, <1>6 DEF Match, NlrMatch, At
  <2>2. Onward(p)
    BY <1>2, <1>3, <2>1, BehindOf, AheadOf DEF Same
  <2>3. QED
    BY <1>1, <1>2, <1>4, <2>2, ArrivesPlain DEF p
<1>7. QED
  BY <1>5, <1>6

\* The actions that raise: dropped under another throwable, else in flight, or
\* the end of the run.
LEMMA ORaiseStep ==
  ASSUME NEW a, Operands(a), IInv', Throw \/ Fault \/ NlrRaise
  PROVE  Operands(a)'
<1> DEFINE p == a[pc]
           n == Len(stack)
<1>1. PICK name : At(name) /\ name \in {"throw", "fault", "nlrRaise"}
  BY DEF Throw, Fault, NlrRaise
<1>2. UNCHANGED <<chunk, frames, hosts, stash>> /\ pc' = pc + 1
  BY DEF Throw, Fault, NlrRaise
<1>3. /\ p \in Fact /\ Cur.op = name /\ stack \in Seq(Val) /\ status = "run"
      /\ n \in Nat /\ Top.base \in Nat /\ Fit(p, pending, Top.base, n) /\ Running(a)
      /\ pc + 1 \in DOMAIN a /\ Implies(Behind(Cur, p), a[pc + 1])
      /\ IInv /\ Pictured(chunk, a)
  BY <1>1, Standing DEF Falls, OpName, Operands
<1>4. \/ status' = "halted"
      \/ /\ status' = status
         /\ pending # None => pending' # None
         /\ pending' # pending => chunk.catchable
  <2>1. \A e \in Exc : Raise(e) =>
          \/ status' = "halted"
          \/ /\ status' = status
             /\ pending # None => pending' # None
             /\ pending' # pending => chunk.catchable
    BY ConstantsAssumption DEF Raise, unwinding
  <2>2. Cur.exc \in Exc /\ Marker \in Exc
    BY <1>1, <1>3, CurOp, ConstantsAssumption DEF At, IInv
  <2>3. QED
    BY <2>1, <2>2 DEF Throw, Fault, NlrRaise
<1>5. CASE status' = "halted"
  BY <1>2, <1>3, <1>5 DEF Operands, EndsIdle
<1>6. CASE /\ status' = status
           /\ pending # None => pending' # None
           /\ pending' # pending => chunk.catchable
  <2>1. NeverInFlight'
    BY <1>2, <1>3, <1>6 DEF Running, NeverInFlight
  <2>2. p.depth \in Nat
    BY <1>3 DEF Fact
  <2>3. CASE Throw \/ Fault
    <3> DEFINE q == Holding(p, p.depth + 1)
    <3>1. Len(stack') = n + 1 /\ Cur.op \in {"throw", "fault"}
      BY <1>3, <2>3 DEF Throw, Fault, n, At
    <3>2. Behind(Cur, p) = Raised(q)
      BY <3>1, BehindOf
    <3>3. Same(p, q) /\ Fit(q, pending, Top.base, n + 1)
      BY <1>3, <2>2, HoldingFact, FitGrow
    <3> HIDE DEF q, n
    <3>4. Same(p, Raised(q)) /\ Fit(Raised(q), pending', Top.base, Len(stack'))
      BY <1>3, <1>6, <3>1, <3>3, RaisedFact, FitRaised DEF Same
    <3> HIDE DEF p
    <3>5. QED
      BY <1>1, <1>2, <1>3, <1>6, <2>1, <3>2, <3>4, ArrivesPlain DEF p
  <2>4. CASE NlrRaise
    <3>1. Len(stack') = n /\ Cur.op = "nlrRaise"
      BY <1>3, <2>4, FrontSeq DEF NlrRaise, n, At
    <3>2. Behind(Cur, p) = Raised(p)
      BY <3>1, BehindOf
    <3> HIDE DEF n
    <3>4. Same(p, Raised(p)) /\ Fit(Raised(p), pending', Top.base, Len(stack'))
      BY <1>3, <1>6, <3>1, RaisedFact, FitRaised
    <3> HIDE DEF p
    <3>5. QED
      BY <1>1, <1>2, <1>3, <1>6, <2>1, <3>2, <3>4, ArrivesPlain DEF p
  <2>5. QED
    BY <2>3, <2>4
<1>7. QED
  BY <1>4, <1>5, <1>6

\* The actions that claim or park the throwable in flight, or put it back.
LEMMA OSettleStep ==
  ASSUME NEW a, Operands(a), IInv', Take \/ NlrTake \/ Stash \/ Unstash
  PROVE  Operands(a)'
<1> DEFINE p == a[pc]
           n == Len(stack)
<1>1. PICK name : At(name) /\ name \in {"take", "nlrTake", "stash", "unstash"}
  BY DEF Take, NlrTake, Stash, Unstash
<1>2. UNCHANGED <<chunk, frames, hosts, status>> /\ pc' = pc + 1
  BY DEF Take, NlrTake, Stash, Unstash
<1>3. /\ p \in Fact /\ Cur.op = name /\ stack \in Seq(Val)
      /\ n \in Nat /\ Top.base \in Nat /\ Fit(p, pending, Top.base, n) /\ Running(a)
      /\ pc + 1 \in DOMAIN a /\ Implies(Behind(Cur, p), a[pc + 1])
      /\ stash \in Seq(Exc \cup {None}) /\ p.depth \in Nat
  BY <1>1, Standing DEF Falls, OpName, Operands, IInv, TInv, TypeOK
<1>4. NeverInFlight'
  <2>1. CASE Take \/ NlrTake
    BY <1>2, <1>3, <2>1 DEF Take, NlrTake, Running, NeverInFlight
  <2>2. CASE Stash
    <3>1. /\ Len(stash') = Len(stash) + 1 /\ Len(stash) \in Nat
          /\ \A i \in 1..Len(stash) : stash'[i] = stash[i]
          /\ stash'[Len(stash) + 1] = pending
      BY <1>3, <2>2, AppendProperties, LenProperties DEF Stash, Operands, IInv, TInv, TypeOK
    <3>2. \A i \in 1..Len(stash') : i \in 1..Len(stash) \/ i = Len(stash) + 1
      BY <3>1
    <3>3. QED
      BY <1>2, <1>3, <2>2, <3>1, <3>2 DEF Stash, Running, NeverInFlight
  <2>3. CASE Unstash
    <3>1. stash # <<>> => /\ Len(stash) \in 1..Len(stash)
                          /\ \A i \in 1..Len(Front(stash)) :
                               i \in 1..Len(stash) /\ Front(stash)[i] = stash[i]
      BY <1>3, FrontSeq, TipIn, SMTT(30)
    <3>2. QED
      BY <1>2, <1>3, <2>3, <3>1 DEF Unstash, Running, NeverInFlight, Tip
  <2>4. QED
    BY <2>1, <2>2, <2>3
<1> HIDE DEF n
<1>5. CASE Take \/ Stash
  <2>1. Cur.op \in {"take", "stash"} /\ pending' = None /\ Len(stack') = n
    BY <1>5 DEF Take, Stash, n, At
  <2>2. Behind(Cur, p) = Settled(p)
    BY <2>1, BehindOf
  <2>3. Same(p, Settled(p)) /\ Fit(Settled(p), pending', Top.base, Len(stack'))
    BY <1>3, <2>1, SettledFact, FitSettled
  <2> HIDE DEF p
  <2>4. QED
    BY <1>1, <1>2, <1>3, <1>4, <2>2, <2>3, ArrivesPlain DEF p
<1>6. CASE NlrTake
  <2> DEFINE q == Holding(p, p.depth + 1)
  <2>1. Cur.op = "nlrTake" /\ pending' = None /\ Len(stack') = n + 1
    BY <1>3, <1>6 DEF NlrTake, n, At
  <2>2. Behind(Cur, p) = Settled(q)
    BY <2>1, BehindOf
  <2>3. Same(p, q) /\ Fit(q, pending, Top.base, n + 1)
    BY <1>3, HoldingFact, FitGrow
  <2> HIDE DEF q
  <2>4. Same(p, Settled(q)) /\ Fit(Settled(q), pending', Top.base, Len(stack'))
    BY <1>3, <2>1, <2>3, SettledFact, FitSettled DEF Same
  <2> HIDE DEF p
  <2>5. QED
    BY <1>1, <1>2, <1>3, <1>4, <2>2, <2>4, ArrivesPlain DEF p
<1>7. CASE Unstash
  <2>1. Cur.op = "unstash" /\ (pending # None => pending' # None) /\ Len(stack') = n
    BY <1>7 DEF Unstash, n, At, unwinding
  <2>2. Behind(Cur, p) = Raised(p)
    BY <2>1, BehindOf
  <2>3. Same(p, Raised(p)) /\ Fit(Raised(p), pending', Top.base, Len(stack'))
    BY <1>3, <2>1, RaisedFact, FitRaised
  <2> HIDE DEF p
  <2>4. QED
    BY <1>1, <1>2, <1>3, <1>4, <2>2, <2>3, ArrivesPlain DEF p
<1>8. QED
  BY <1>5, <1>6, <1>7

LEMMA TruncateLen ==
  ASSUME NEW S, NEW s \in Seq(S), NEW n \in Nat, n <= Len(s)
  PROVE  Len(Truncate(s, n)) = n /\ \A i \in 1..n : Truncate(s, n)[i] = s[i]
<1>1. Len(s) \in Nat
  BY LenProperties
<1>2. \A i \in 1..n : s[i] \in S
  BY <1>1, ElementOfSeq
<1>3. QED
  BY <1>1, <1>2, SubSeqProperties DEF Truncate

\* What the abandoned statement left is cut down to what the slot says the try found.
LEMMA OCutStep ==
  ASSUME NEW a, Operands(a), IInv', Cut
  PROVE  Operands(a)'
<1> DEFINE p == a[pc]
           q == [p EXCEPT !.exact = "yes"]
<1>1. At("cut") /\ UNCHANGED <<chunk, frames, hosts, status, pending, stash>> /\ pc' = pc + 1
  BY DEF Cut, host_vars
<1>2. /\ p \in Fact /\ Cur.op = "cut" /\ Able(chunk, Cur, p) /\ stack \in Seq(Val)
      /\ Top.base \in Nat /\ Fit(p, pending, Top.base, Len(stack)) /\ Running(a)
      /\ pc + 1 \in DOMAIN a /\ Implies(Behind(Cur, p), a[pc + 1])
      /\ Placed(p, Top, Len(frames)) /\ p.depth \in Nat /\ Top.base + p.depth <= Len(stack)
  BY <1>1, Standing DEF Falls, OpName
<1>3. Top.nums[Cur.slot] = Top.base + p.depth
  <2>1. <<Cur.slot, p.depth>> \in p.marks
    BY <1>2 DEF Able
  <2>2. QED
    BY <1>2, <2>1 DEF Placed
<1>4. Len(stack') = Top.base + p.depth
  BY <1>2, <1>3, TruncateLen DEF Cut
<1>5. /\ Same(p, q) /\ q.depth = p.depth /\ q.exact = "yes" /\ q.flight = p.flight
      /\ Behind(Cur, p) = q
  BY <1>2, BehindOf DEF Fact, Same
<1>6. Fit(q, pending', Top.base, Len(stack'))
  BY <1>1, <1>2, <1>4, <1>5 DEF Fit
<1>7. NeverInFlight'
  BY <1>1, <1>2 DEF Running, NeverInFlight
<1> HIDE DEF p, q
<1>8. QED
  BY <1>1, <1>2, <1>5, <1>6, <1>7, ArrivesPlain DEF p

(* ---- steps that write a slot of their frame ---------------------------------------- *)

\* The top frame becomes f.
LEMMA TopBecomes ==
  ASSUME IInv, NEW f \in Frame, frames' = [frames EXCEPT ![Len(frames)] = f],
         f.base = Top.base, f.ret = Top.ret, f.parked = Top.parked
  PROVE  /\ Len(frames') = Len(frames)
         /\ Top' = f
         /\ \A i \in 1..Len(frames) : /\ frames'[i].base = frames[i].base
                                      /\ frames'[i].ret = frames[i].ret
                                      /\ frames'[i].parked = frames[i].parked
         /\ \A i \in 1..Len(frames) - 1 : frames'[i] = frames[i]
<1>1. frames \in Seq(Frame) /\ Len(frames) \in Nat \ {0}
  BY TopFrame DEF IInv, TInv, TypeOK
<1>2. Len(frames) \in 1..Len(frames)
  BY <1>1
<1>3. /\ Len(frames') = Len(frames)
      /\ \A i \in 1..Len(frames) : frames'[i] = IF i = Len(frames) THEN f ELSE frames[i]
  BY <1>1, <1>2, ExceptSeq
<1>4. \A i \in 1..Len(frames) - 1 : i \in 1..Len(frames) /\ i # Len(frames)
  BY <1>1
<1>5. QED
  BY <1>2, <1>3, <1>4 DEF Top

\* The frame with the number in slot s replaced.
Numbered(f, s, n) == [f EXCEPT !.nums[s] = n]

LEMMA NumberedFrame ==
  ASSUME NEW f \in Frame, NEW s \in Slot, NEW n \in Nat
  PROVE  /\ Numbered(f, s, n) \in Frame
         /\ Numbered(f, s, n).base = f.base /\ Numbered(f, s, n).ret = f.ret
         /\ Numbered(f, s, n).parked = f.parked
         /\ \A t \in Slot : Numbered(f, s, n).nums[t] = IF t = s THEN n ELSE f.nums[t]
  BY DEF Numbered, Frame

LEMMA OSetStep ==
  ASSUME NEW a, Operands(a), IInv', SetSlot
  PROVE  Operands(a)'
<1> DEFINE p == a[pc]
           q == Holding(p, p.depth - 1)
           f == [Top EXCEPT !.vals[Cur.slot] = Tip(stack)]
<1>1. At("set") /\ UNCHANGED <<chunk, hosts, status, pending, stash>> /\ pc' = pc + 1
  BY DEF SetSlot, host_vars
<1>2. /\ p \in Fact /\ Cur.op = "set" /\ Able(chunk, Cur, p) /\ stack \in Seq(Val)
      /\ Top.base \in Nat /\ Len(stack) \in Nat
      /\ Fit(p, pending, Top.base, Len(stack)) /\ Running(a)
      /\ pc + 1 \in DOMAIN a /\ Implies(Behind(Cur, p), a[pc + 1])
      /\ Placed(p, Top, Len(frames)) /\ p.depth \in Nat
  BY <1>1, Standing DEF Falls, OpName
<1>3. p.depth > 0
  BY <1>2 DEF Able, Needs, Drops
<1>4. /\ Same(p, q) /\ Behind(Cur, p) = q
      /\ Len(stack') = Len(stack) - 1
      /\ Fit(q, pending', Top.base, Len(stack'))
  <2>1. Same(p, q) /\ Behind(Cur, p) = q
    BY <1>2, <1>3, BehindOf, HoldingFact
  <2>2. Len(stack') = Len(stack) - 1
    BY <1>2, FrontSeq DEF SetSlot
  <2>3. Fit(q, pending', Top.base, Len(stack'))
    BY <1>1, <1>2, <1>3, <2>2, FitShrink
  <2>4. QED
    BY <2>1, <2>2, <2>3
<1>5. Tip(stack) \in Val /\ Cur.slot \in Slot /\ Top \in Frame /\ IInv
  BY <1>1, <1>2, TipIn, CurOp, TopFrame DEF SetSlot, Operands, IInv, At
<1>6. /\ f \in Frame /\ f.base = Top.base /\ f.ret = Top.ret /\ f.parked = Top.parked
      /\ f.nums = Top.nums
  BY <1>5 DEF Frame
<1>7. frames' = [frames EXCEPT ![Len(frames)] = f]
  BY DEF SetSlot, Top
<1> HIDE DEF f, p, q
<1>8. /\ Len(frames') = Len(frames) /\ Top' = f
      /\ \A i \in 1..Len(frames) : /\ frames'[i].base = frames[i].base
                                   /\ frames'[i].ret = frames[i].ret
                                   /\ frames'[i].parked = frames[i].parked
      /\ \A i \in 1..Len(frames) - 1 : frames'[i] = frames[i]
  BY <1>5, <1>6, <1>7, TopBecomes
<1>9. Placed(q, Top', Len(frames))
  BY <1>2, <1>4, <1>6, <1>8 DEF Placed, Same
<1>10. NeverInFlight'
  BY <1>1, <1>2 DEF Running, NeverInFlight
<1>11. QED
  BY <1>1, <1>2, <1>4, <1>8, <1>9, <1>10, Arrives DEF Same

\* The frame's slot holds n from now on, and p's marks but those of that slot
\* still hold.
LEMMA Renumbers ==
  ASSUME NEW a, Operands(a), IInv', NEW name, At(name), NEW n \in Nat,
         UNCHANGED <<chunk, stack, hosts, status, pending, stash>>, pc' = pc + 1, name \in Falls,
         frames' = [frames EXCEPT ![Len(frames)] = Numbered(Top, Cur.slot, n)],
         NEW q \in Fact, Behind(Cur, a[pc]) = q, q.outer = a[pc].outer,
         \A mark \in q.marks : \/ mark \in a[pc].marks /\ mark[1] # Cur.slot
                               \/ mark[1] = Cur.slot /\ n = Top.base + mark[2],
         Fit(q, pending, Top.base, Len(stack))
  PROVE  Operands(a)'
<1>1. /\ a[pc] \in Fact /\ Running(a) /\ Placed(a[pc], Top, Len(frames))
      /\ pc + 1 \in DOMAIN a /\ Implies(q, a[pc + 1])
  BY Standing
<1>2. Cur.slot \in Slot /\ Top \in Frame /\ IInv
  BY CurOp, TopFrame DEF Operands, IInv, At
<1> DEFINE f == Numbered(Top, Cur.slot, n)
<1>3. /\ f \in Frame /\ f.base = Top.base /\ f.ret = Top.ret /\ f.parked = Top.parked
      /\ \A t \in Slot : f.nums[t] = IF t = Cur.slot THEN n ELSE Top.nums[t]
  BY <1>2, NumberedFrame, ZenonT(40)
<1> HIDE DEF f
<1>4. frames' = [frames EXCEPT ![Len(frames)] = f]
  BY DEF f
<1>5. /\ Len(frames') = Len(frames) /\ Top' = f
      /\ \A i \in 1..Len(frames) : /\ frames'[i].base = frames[i].base
                                   /\ frames'[i].ret = frames[i].ret
                                   /\ frames'[i].parked = frames[i].parked
      /\ \A i \in 1..Len(frames) - 1 : frames'[i] = frames[i]
  BY <1>2, <1>3, <1>4, TopBecomes
<1>6. Placed(q, f, Len(frames))
  <2>1. SUFFICES ASSUME NEW mark \in q.marks PROVE f.nums[mark[1]] = f.base + mark[2]
    BY <1>1 DEF Placed
  <2>2. mark[1] \in Slot
    BY <2>1 DEF Fact
  <2>3. CASE mark \in a[pc].marks /\ mark[1] # Cur.slot
    BY <1>1, <1>3, <2>2, <2>3 DEF Placed
  <2>4. CASE mark[1] = Cur.slot /\ n = Top.base + mark[2]
    BY <1>3, <2>2, <2>4
  <2>5. QED
    BY <2>3, <2>4
<1>7. NeverInFlight'
  BY <1>1 DEF Running, NeverInFlight
<1>8. QED
  BY <1>1, <1>5, <1>6, <1>7, Arrives

LEMMA ODepthStep ==
  ASSUME NEW a, Operands(a), IInv', Depth
  PROVE  Operands(a)'
<1> DEFINE p == a[pc]
           q == [p EXCEPT !.marks = Without(p.marks, Cur.slot) \cup {<<Cur.slot, p.depth>>}]
<1>1. /\ At("depth") /\ UNCHANGED <<chunk, stack, hosts, status, pending, stash>>
      /\ pc' = pc + 1
  BY DEF Depth, host_vars
<1>2. /\ p \in Fact /\ Cur.op = "depth" /\ Able(chunk, Cur, p) /\ Len(stack) \in Nat
      /\ Fit(p, pending, Top.base, Len(stack)) /\ p.depth \in Nat
  BY <1>1, Standing
<1>3. Cur.slot \in Slot
  BY <1>1, CurOp DEF Operands, IInv, At
<1>4. Len(stack) = Top.base + p.depth
  BY <1>2 DEF Able, Fit
<1>5. Without(p.marks, Cur.slot) \cup {<<Cur.slot, p.depth>>} \in SUBSET (Slot \X Nat)
  BY <1>2, <1>3 DEF Without, Fact
<1>6. /\ q \in Fact /\ q.depth = p.depth /\ q.exact = p.exact /\ q.flight = p.flight
      /\ q.outer = p.outer /\ q.marks = Without(p.marks, Cur.slot) \cup {<<Cur.slot, p.depth>>}
  BY <1>2, <1>5 DEF Fact
<1>7. Behind(Cur, p) = q
  BY <1>2, BehindOf
<1>8. frames' = [frames EXCEPT ![Len(frames)] = Numbered(Top, Cur.slot, Len(stack))]
  BY DEF Depth, Top, Numbered
<1> HIDE DEF q
<1>9. Fit(q, pending, Top.base, Len(stack))
  BY <1>2, <1>6 DEF Fit
<1>10. \A mark \in q.marks : \/ mark \in p.marks /\ mark[1] # Cur.slot
                             \/ mark[1] = Cur.slot /\ Len(stack) = Top.base + mark[2]
  BY <1>4, <1>6 DEF Without
<1>11. QED
  BY <1>1, <1>2, <1>6, <1>7, <1>8, <1>9, <1>10, Renumbers DEF Falls, OpName

LEMMA OCountStep ==
  ASSUME NEW a, Operands(a), IInv', Count
  PROVE  Operands(a)'
<1> DEFINE p == a[pc]
           q == [p EXCEPT !.marks = Without(p.marks, Cur.slot)]
           n == Top.nums[Cur.slot]
           m == IF Cur.n = 0 THEN 1 ELSE IF n < Cur.n THEN n + 1 ELSE n
<1>1. /\ At("count") /\ UNCHANGED <<chunk, stack, hosts, status, pending, stash>>
      /\ pc' = pc + 1
  BY DEF Count, host_vars
<1>2. /\ p \in Fact /\ Cur.op = "count" /\ Fit(p, pending, Top.base, Len(stack))
  BY <1>1, Standing
<1>3. Cur.slot \in Slot /\ Cur.n \in Nat /\ n \in Nat
  BY <1>1, CurOp, TopFrame DEF Operands, IInv, At
<1>4. m \in Nat
  BY <1>3
<1>5. Without(p.marks, Cur.slot) \in SUBSET (Slot \X Nat)
  BY <1>2 DEF Without, Fact
<1>6. /\ q \in Fact /\ q.depth = p.depth /\ q.exact = p.exact /\ q.flight = p.flight
      /\ q.outer = p.outer /\ q.marks = Without(p.marks, Cur.slot)
  BY <1>2, <1>5 DEF Fact
<1>7. Behind(Cur, p) = q
  BY <1>2, BehindOf
<1>8. frames' = [frames EXCEPT ![Len(frames)] = Numbered(Top, Cur.slot, m)]
  BY DEF Count, Top, Numbered
<1> HIDE DEF q, m
<1>9. Fit(q, pending, Top.base, Len(stack))
  BY <1>2, <1>6 DEF Fit
<1>10. \A mark \in q.marks : mark \in p.marks /\ mark[1] # Cur.slot
  BY <1>6 DEF Without
<1>11. QED
  BY <1>1, <1>2, <1>4, <1>6, <1>7, <1>8, <1>9, <1>10, Renumbers DEF Falls, OpName

(* ---- steps that enter and leave frames ---------------------------------------------- *)

LEMMA StillOne ==
  ASSUME NEW a, Operands(a), status = "run"
  PROVE  /\ IInv /\ Running(a) /\ Pictured(chunk, a) /\ CallLinked /\ HostLinked
         /\ Len(frames) \in Nat \ {0} /\ Len(chunk.ops) \in Nat /\ Len(stack) \in Nat
         /\ stack \in Seq(Val) /\ frames \in Seq(Frame) /\ pending \in Exc \cup {None}
         /\ \A i \in 1..Len(frames) : frames[i].base \in Nat
         /\ Top = frames[Len(frames)] /\ Top.base \in Nat
         /\ \A i \in DOMAIN a : a[i] \in Fact
<1>1. IInv /\ Running(a) /\ Pictured(chunk, a) /\ CallLinked /\ HostLinked
  BY DEF Operands, IInv
<1>2. /\ Len(frames) \in Nat \ {0} /\ Len(chunk.ops) \in Nat /\ Len(stack) \in Nat
      /\ stack \in Seq(Val) /\ frames \in Seq(Frame) /\ pending \in Exc \cup {None}
  BY <1>1, TopFrame, ConstantsAssumption, LenProperties DEF IInv, TInv, TypeOK
<1>3. \A i \in 1..Len(frames) : frames[i].base \in Nat
  <2>1. \A i \in 1..Len(frames) : frames[i] \in Frame
    BY <1>2, ElementOfSeq
  <2>2. QED
    BY <2>1 DEF Frame
<1>4. QED
  BY <1>1, <1>2, <1>3 DEF Top, Pictured

\* A frame is entered at base, on top of the operands of the one below.
LEMMA Enters ==
  ASSUME NEW a, Operands(a), IInv', status = "run", UNCHANGED <<chunk, status, pending, stash>>,
         NEW ret \in Nat, NEW base \in Nat, frames' = Append(frames, NewFrame(ret, base)),
         Top.base <= base, Len(stack') = base,
         pc' \in DOMAIN a, Implies(Entered, a[pc']),
         ret \in 1..Len(chunk.ops) => Resumes(a, Len(frames), ret, base + 1),
         HostsSized(a)'
  PROVE  Operands(a)'
<1> DEFINE n == Len(frames)
<1>1. /\ Running(a) /\ Pictured(chunk, a) /\ IInv
      /\ n \in Nat \ {0} /\ Len(chunk.ops) \in Nat
      /\ \A i \in 1..n : frames[i].base \in Nat
      /\ Top = frames[n]
  BY StillOne
<1>2. /\ Len(frames') = n + 1
      /\ \A i \in 1..n : frames'[i] = frames[i]
      /\ Top' = frames'[n + 1] /\ Top'.ret = ret
      /\ Top'.base = base
  <2>1. frames \in Seq(Frame) /\ NewFrame(ret, base) \in Frame
    BY <1>1, ConstantsAssumption, LenProperties DEF NewFrame, Frame, IInv, TInv, TypeOK
  <2>2. /\ Len(frames') = n + 1
        /\ \A i \in 1..n : frames'[i] = frames[i]
        /\ frames'[n + 1] = NewFrame(ret, base)
    BY <2>1, AppendProperties
  <2>3. QED
    BY <2>2 DEF Top, NewFrame
<1> HIDE DEF n
<1>3. FramesSized(a)'
  <2>1. \A i \in 2..n + 1 : frames'[i].ret \in 1..Len(chunk.ops) =>
          Ready(a, frames'[i - 1], i - 1, frames'[i].ret, frames'[i].base + 1)
    <3>1. SUFFICES ASSUME NEW i \in 2..n + 1, frames'[i].ret \in 1..Len(chunk.ops)
          PROVE Ready(a, frames'[i - 1], i - 1, frames'[i].ret, frames'[i].base + 1)
      OBVIOUS
    <3>2. CASE i \in 2..n
      <4>1. i - 1 \in 1..n /\ i \in 1..n
        BY <1>1, <3>2
      <4>2. frames'[i] = frames[i] /\ frames'[i - 1] = frames[i - 1]
        BY <1>2, <4>1
      <4>3. Ready(a, frames[i - 1], i - 1, frames[i].ret, frames[i].base + 1)
        BY <1>1, <3>1, <3>2, <4>2 DEF Running, FramesSized, n, Resumes
      <4>4. QED
        BY <4>2, <4>3
    <3>3. CASE i = n + 1
      <4>1. i - 1 = n /\ frames'[i].ret = ret /\ frames'[i].base = base
        BY <1>1, <1>2, <3>3
      <4>2. frames'[n] = frames[n]
        BY <1>1, <1>2
      <4>3. Ready(a, frames[n], n, ret, base + 1)
        <5>1. ret \in 1..Len(chunk.ops)
          BY <3>1, <4>1
        <5>2. Resumes(a, Len(frames), ret, base + 1)
          BY <5>1
        <5>3. QED
          BY <5>2 DEF n, Resumes
      <4>4. QED
        BY <4>1, <4>2, <4>3
    <3>4. i \in 2..n \/ i = n + 1
      BY <1>1, <3>1
    <3>5. QED
      BY <3>2, <3>3, <3>4
  <2>2. QED
    BY <1>2, <2>1 DEF FramesSized, Resumes
<1>4. BasesOrdered'
  <2>1. SUFFICES ASSUME NEW i \in 1..n + 1, NEW j \in 1..n + 1, i <= j
        PROVE frames'[i].base <= frames'[j].base
    BY <1>2 DEF BasesOrdered
  <2>2. \A k \in 1..n : frames[k].base <= base
    <3>1. \A k \in 1..n : k <= n /\ n \in 1..n
      BY <1>1
    <3>2. \A k \in 1..n : frames[k].base <= frames[n].base
      BY <1>1, <3>1 DEF Running, BasesOrdered, n
    <3>3. QED
      BY <1>1, <3>1, <3>2
  <2>3. CASE j \in 1..n
    <3>1. i \in 1..n
      BY <1>1, <2>1, <2>3
    <3>2. frames[i].base <= frames[j].base
      BY <1>1, <2>1, <2>3, <3>1 DEF Running, BasesOrdered, n
    <3>3. QED
      BY <1>2, <2>3, <3>1, <3>2
  <2>4. CASE j = n + 1 /\ i \in 1..n
    BY <1>2, <2>2, <2>4
  <2>5. CASE j = n + 1 /\ i = n + 1
    BY <1>2, <2>5
  <2>6. (i \in 1..n \/ i = n + 1) /\ (j \in 1..n \/ j = n + 1)
    BY <1>1, <2>1
  <2>7. QED
    BY <2>3, <2>4, <2>5, <2>6
<1>5. NeverInFlight' /\ frames'[1].parked = 0
  BY <1>1, <1>2 DEF Running, NeverInFlight
<1>6. TopSized(a)'
  <2>1. Fit(Entered, pending', base, base) /\ Placed(Entered, Top', n + 1) /\ Entered \in Fact
    BY EnteredFact
  <2>2. a[pc'] \in Fact
    BY <1>1 DEF Pictured
  <2>3. Fit(a[pc'], pending', base, base) /\ Placed(a[pc'], Top', n + 1)
    BY <2>1, <2>2, FitImplies, PlacedImplies
  <2>4. QED
    BY <1>2, <2>3 DEF TopSized
<1>7. pc' # End'
  BY <1>1 DEF Pictured, End
<1>8. Running(a)'
  BY <1>3, <1>4, <1>5, <1>6, <1>7 DEF Running
<1>9. QED
  BY <1>1, <1>8 DEF Operands, EndsIdle

\* What a call leaves to come back to, and finds where it goes.
LEMMA Calls ==
  ASSUME NEW a, Operands(a), NEW name \in {"call", "invoke"}, At(name)
  PROVE  /\ Resumes(a, Len(frames), pc + 1, Len(stack) + 1)
         /\ Cur.to \in DOMAIN a /\ Implies(Entered, a[Cur.to])
         /\ Top.base <= Len(stack) /\ pc \in Nat /\ Len(stack) \in Nat
         /\ Same(a[pc], Answered(a[pc])) /\ Implies(Answered(a[pc]), a[pc + 1])
         /\ pc + 1 \in DOMAIN a
         /\ \A e \in Exc \cup {None} : Fit(Answered(a[pc]), e, Top.base, Len(stack) + 1)
<1> DEFINE p == a[pc]
<1>1. /\ p \in Fact /\ Cur.op = name /\ Able(chunk, Cur, p)
      /\ Top.base \in Nat /\ Len(stack) \in Nat /\ pc \in 1..Len(chunk.ops)
      /\ Fit(p, pending, Top.base, Len(stack)) /\ Placed(p, Top, Len(frames))
      /\ pc + 1 \in DOMAIN a /\ a[pc + 1] \in Fact /\ Implies(Behind(Cur, p), a[pc + 1])
      /\ Cur.to \in DOMAIN a /\ Implies(Ahead(Cur, p), a[Cur.to])
      /\ Top.base + p.depth <= Len(stack) /\ p.depth \in Nat
  BY Standing DEF Falls, Names, OpName
<1>2. Behind(Cur, p) = Answered(p) /\ Ahead(Cur, p) = Entered
  BY <1>1, BehindOf, AheadOf
<1>3. p.exact = "yes"
  BY <1>1 DEF Able
<1>4. Same(p, Answered(p)) /\ Answered(p) \in Fact
  BY <1>1, AnsweredFact DEF Same
<1>5. Placed(Answered(p), Top, Len(frames))
  BY <1>1, <1>4 DEF Same, Placed
<1> HIDE DEF p
<1>6. \A e \in Exc \cup {None} :
        Fit(Answered(p), e, Top.base, Len(stack) + 1) /\ Top.base < Len(stack) + 1
  BY <1>1, <1>3, FitAnswered
<1>7. Len(stack) + 1 \in Nat /\ pc \in Nat /\ Top.base <= Len(stack)
  BY <1>1
<1>8. \A e \in Exc \cup {None} : Fit(a[pc + 1], e, Top.base, Len(stack) + 1)
  BY <1>1, <1>2, <1>4, <1>6, <1>7, FitImplies
<1>9. Placed(a[pc + 1], Top, Len(frames))
  BY <1>1, <1>2, <1>4, <1>5, PlacedImplies
<1>10. Resumes(a, Len(frames), pc + 1, Len(stack) + 1)
  BY <1>1, <1>7, <1>8, <1>9 DEF Resumes, Ready, Top
<1>11. QED
  BY <1>1, <1>2, <1>4, <1>6, <1>7, <1>10 DEF p

LEMMA OCallStep ==
  ASSUME NEW a, Operands(a), IInv', Call
  PROVE  Operands(a)'
<1>1. /\ At("call") /\ UNCHANGED <<chunk, stack, hosts, status, pending, stash>>
      /\ pc' = Cur.to /\ frames' = Append(frames, NewFrame(pc + 1, Len(stack)))
  BY DEF Call, host_vars
<1>2. /\ Resumes(a, Len(frames), pc + 1, Len(stack) + 1)
      /\ Cur.to \in DOMAIN a /\ Implies(Entered, a[Cur.to])
      /\ Top.base <= Len(stack) /\ pc + 1 \in Nat /\ Len(stack) \in Nat
  BY <1>1, Calls
<1>3. status = "run" /\ Running(a)
  BY <1>1, Standing
<1>4. HostsSized(a)'
  <2>1. SUFFICES ASSUME NEW j \in 1..Len(hosts)
        PROVE /\ hosts[j].entry \in DOMAIN a /\ Implies(Entered, a[hosts[j].entry])
              /\ Resumes(a, hosts[j].frame - 1, hosts[j].ip, frames[hosts[j].frame].base + 1)'
    BY <1>1 DEF HostsSized
  <2>2. hosts[j].frame \in 2..Len(frames) + 1 /\ hosts[j].frame <= Len(frames)
    BY <1>1, AtExecuting DEF HostLinked, Executing, Operands
  <2>3. \A i \in 1..Len(frames) : frames'[i] = frames[i]
    BY <1>1, <1>2, <1>3, StillOne, PushFrame DEF IInv
  <2>4. /\ frames'[hosts[j].frame] = frames[hosts[j].frame]
        /\ frames'[hosts[j].frame - 1] = frames[hosts[j].frame - 1]
    <3>1. Len(frames) \in Nat
      BY <1>3, StillOne
    <3>2. hosts[j].frame \in 1..Len(frames) /\ hosts[j].frame - 1 \in 1..Len(frames)
      BY <2>2, <3>1
    <3>3. QED
      BY <2>3, <3>2
  <2>5. /\ hosts[j].entry \in DOMAIN a /\ Implies(Entered, a[hosts[j].entry])
        /\ Ready(a, frames[hosts[j].frame - 1], hosts[j].frame - 1, hosts[j].ip,
                 frames[hosts[j].frame].base + 1)
    BY <1>3, <2>2 DEF Running, HostsSized, Resumes
  <2>6. QED
    BY <1>1, <2>4, <2>5 DEF Resumes
<1>5. QED
  BY <1>1, <1>2, <1>3, <1>4, Enters

LEMMA OReturnStep ==
  ASSUME NEW a, Operands(a), IInv', Return
  PROVE  Operands(a)'
<1> DEFINE n == Len(frames)
<1>1. /\ At("return") /\ UNCHANGED <<chunk, hosts, status, pending, stash>>
      /\ n > 1 /\ stack # <<>> /\ frames' = Front(frames) /\ pc' = Top.ret
      /\ stack' = Append(Truncate(Front(stack), Top.base), Tip(stack))
  BY DEF Return, host_vars
<1>2. /\ a[pc] \in Fact /\ Cur.op = "return" /\ Able(chunk, Cur, a[pc])
      /\ stack \in Seq(Val) /\ Top.base \in Nat /\ Len(stack) \in Nat
      /\ a[pc].depth \in Nat /\ Top.base + a[pc].depth <= Len(stack) /\ status = "run"
  BY <1>1, Standing
<1>3. Len(stack') = Top.base + 1
  <2>1. a[pc].depth > 0
    BY <1>2 DEF Able, Needs
  <2>2. Front(stack) \in Seq(Val) /\ Len(Front(stack)) = Len(stack) - 1 /\ Tip(stack) \in Val
    BY <1>1, <1>2, FrontSeq, TipIn
  <2>3. Top.base <= Len(Front(stack))
    BY <1>2, <2>1, <2>2
  <2>4. /\ Truncate(Front(stack), Top.base) \in Seq(Val)
        /\ Len(Truncate(Front(stack), Top.base)) = Top.base
    BY <1>2, <2>2, <2>3, TruncateSeq, TruncateLen
  <2>5. QED
    BY <1>1, <2>2, <2>4, AppendProperties
<1>4. /\ Running(a) /\ Pictured(chunk, a) /\ CallLinked /\ HostLinked /\ IInv
      /\ n \in Nat \ {0} /\ Len(chunk.ops) \in Nat /\ Top = frames[n]
      /\ frames \in Seq(Frame) /\ pending \in Exc \cup {None}
      /\ \A i \in 1..n : frames[i].base \in Nat
  BY <1>2, StillOne
<1>5. Len(frames') = n - 1 /\ \A i \in 1..n - 1 : frames'[i] = frames[i]
  <2>1. frames # <<>>
    BY <1>4 DEF IInv, TInv, TypeOK
  <2>2. QED
    BY <1>1, <1>4, <2>1, FrontSeq
<1> HIDE DEF n
<1>6. n - 1 \in 1..n - 1 /\ n \in 2..n /\ Top' = frames[n - 1]
  BY <1>1, <1>4, <1>5 DEF Top
<1>7. FramesSized(a)'
  <2>1. \A i \in 2..n - 1 : frames[i].ret \in 1..Len(chunk.ops) =>
          Ready(a, frames[i - 1], i - 1, frames[i].ret, frames[i].base + 1)
    BY <1>4 DEF Running, FramesSized, Resumes, n
  <2>2. \A i \in 2..n - 1 : frames'[i] = frames[i] /\ frames'[i - 1] = frames[i - 1]
    BY <1>4, <1>5
  <2>3. QED
    BY <1>1, <1>5, <2>1, <2>2 DEF FramesSized, Resumes
<1>8. HostsSized(a)'
  <2>1. \A j \in 1..Len(hosts) :
          /\ hosts[j].entry \in DOMAIN a /\ Implies(Entered, a[hosts[j].entry])
          /\ hosts[j].frame <= n =>
               Ready(a, frames[hosts[j].frame - 1], hosts[j].frame - 1, hosts[j].ip,
                     frames[hosts[j].frame].base + 1)
          /\ hosts[j].frame \in 2..n + 1
    BY <1>4 DEF Running, HostsSized, HostLinked, Resumes, n
  <2>2. \A j \in 1..Len(hosts) : hosts[j].frame <= n - 1 =>
          /\ frames'[hosts[j].frame] = frames[hosts[j].frame]
          /\ frames'[hosts[j].frame - 1] = frames[hosts[j].frame - 1]
          /\ hosts[j].frame <= n
    BY <1>4, <1>5, <2>1, SMTT(30)
  <2>3. QED
    BY <1>1, <1>5, <2>1, <2>2 DEF HostsSized, Resumes
<1>9. BasesOrdered' /\ NeverInFlight' /\ frames'[1].parked = 0
  <2>1. \A i \in 1..n - 1 : i \in 1..n
    BY <1>4
  <2>2. BasesOrdered'
    BY <1>4, <1>5, <2>1 DEF Running, BasesOrdered, n
  <2>3. NeverInFlight' /\ frames'[1].parked = 0
    BY <1>1, <1>4, <1>5, <1>6, SMTT(30) DEF Running, NeverInFlight
  <2>4. QED
    BY <2>2, <2>3
<1>10. End' = End
  BY <1>1 DEF End
<1>11. CASE Top.ret \in 1..Len(chunk.ops)
  <2>1. Ready(a, frames[n - 1], n - 1, Top.ret, Top.base + 1)
    BY <1>4, <1>6, <1>11 DEF Running, FramesSized, Resumes, n
  <2>2. TopSized(a)'
    BY <1>1, <1>3, <1>4, <1>5, <1>6, <2>1 DEF TopSized, Ready
  <2>3. pc' # End'
    BY <1>1, <1>4, <1>10, <1>11 DEF End
  <2>4. QED
    BY <1>1, <1>2, <1>4, <1>7, <1>8, <1>9, <2>2, <2>3 DEF Running, Operands, EndsIdle
<1>12. CASE ~(Top.ret \in 1..Len(chunk.ops))
  <2>1. Top.ret = End
    BY <1>4, <1>6, <1>12 DEF CallLinked, n
  <2>2. Returned'
    BY <1>1, <1>2, <1>12 DEF IInv, Executing
  <2>3. hosts # <<>> /\ Tip(hosts).frame = n /\ Len(hosts) \in 1..Len(hosts)
    <3>1. hosts # <<>> /\ Tip(hosts).frame = n
      BY <1>1, <1>4, <1>5, <2>2 DEF Returned, Tip
    <3>2. QED
      BY <1>4, <3>1, TipIn DEF IInv, TInv, TypeOK
  <2>4. Ready(a, frames[n - 1], n - 1, Tip(hosts).ip, Top.base + 1)
    <3>1. hosts[Len(hosts)].frame = n
      BY <2>3 DEF Tip
    <3>2. Resumes(a, n - 1, hosts[Len(hosts)].ip, frames[n].base + 1)
      <4>1. n <= Len(frames)
        BY <1>4 DEF n
      <4>2. hosts[Len(hosts)].frame <= Len(frames) =>
              Resumes(a, hosts[Len(hosts)].frame - 1, hosts[Len(hosts)].ip,
                      frames[hosts[Len(hosts)].frame].base + 1)
        BY <1>4, <2>3 DEF Running, HostsSized
      <4>3. QED
        BY <3>1, <4>1, <4>2
    <3>3. QED
      BY <1>4, <3>2 DEF Resumes, Tip
  <2>5. Resumes(a, Len(frames), Tip(hosts).ip, Len(stack))'
    BY <1>1, <1>3, <1>5, <1>6, <2>4 DEF Resumes, Tip
  <2>6. pc' = End'
    BY <1>1, <1>10, <2>1
  <2>7. QED
    BY <1>1, <1>2, <1>4, <1>7, <1>8, <1>9, <2>5, <2>6 DEF Running, Operands, EndsIdle
<1>13. QED
  BY <1>11, <1>12

\* A builtin enters its lambda with the operands up to base: m builtins are
\* outside it, and the innermost one resumes where it was called.
LEMMA OEnterLambda ==
  ASSUME NEW a, Operands(a), IInv', status = "run", UNCHANGED <<chunk, status, pending, stash>>,
         NEW base \in Nat, frames' = Append(frames, NewFrame(End, base)),
         Top.base <= base, Len(stack') = base,
         NEW m \in Nat, m <= Len(hosts), Len(hosts') = m + 1,
         \A j \in 1..m : hosts'[j] = hosts[j] /\ hosts[j].frame <= Len(frames),
         NEW h, hosts'[m + 1] = h, h.frame = Len(frames) + 1,
         Resumes(a, Len(frames), h.ip, base + 1),
         h.entry \in DOMAIN a, Implies(Entered, a[h.entry]), pc' = h.entry
  PROVE  Operands(a)'
<1> DEFINE n == Len(frames)
<1>1. /\ Running(a) /\ HostLinked /\ IInv /\ n \in Nat \ {0} /\ Len(chunk.ops) \in Nat
  BY StillOne
<1>2. End \in Nat /\ ~(End \in 1..Len(chunk.ops))
  BY <1>1 DEF End
<1>3. Len(hosts) \in Nat
  BY <1>1, LenProperties DEF IInv, TInv, TypeOK
<1>4. /\ Len(frames') = n + 1
      /\ \A i \in 1..n : frames'[i] = frames[i]
      /\ frames'[n + 1].base = base
  <2>1. NewFrame(End, base) \in Frame /\ frames \in Seq(Frame)
    BY <1>1, <1>2, ConstantsAssumption, LenProperties DEF NewFrame, Frame, IInv, TInv, TypeOK
  <2>2. /\ Len(frames') = n + 1
        /\ \A i \in 1..n : frames'[i] = frames[i]
        /\ frames'[n + 1] = NewFrame(End, base)
    BY <2>1, AppendProperties
  <2>3. QED
    BY <2>2 DEF NewFrame
<1> HIDE DEF n
<1>5. \A j \in 1..m + 1 :
        /\ hosts'[j].entry \in DOMAIN a /\ Implies(Entered, a[hosts'[j].entry])
        /\ Ready(a, frames'[hosts'[j].frame - 1], hosts'[j].frame - 1, hosts'[j].ip,
                 frames'[hosts'[j].frame].base + 1)
  <2>1. SUFFICES ASSUME NEW j \in 1..m + 1
        PROVE /\ hosts'[j].entry \in DOMAIN a /\ Implies(Entered, a[hosts'[j].entry])
              /\ Ready(a, frames'[hosts'[j].frame - 1], hosts'[j].frame - 1, hosts'[j].ip,
                       frames'[hosts'[j].frame].base + 1)
    OBVIOUS
  <2>2. CASE j \in 1..m
    <3>1. j \in 1..Len(hosts) /\ hosts'[j] = hosts[j] /\ hosts[j].frame <= n
      BY <1>3, <2>2 DEF n
    <3>2. /\ hosts[j].entry \in DOMAIN a /\ Implies(Entered, a[hosts[j].entry])
          /\ Ready(a, frames[hosts[j].frame - 1], hosts[j].frame - 1, hosts[j].ip,
                   frames[hosts[j].frame].base + 1)
          /\ hosts[j].frame \in 2..n + 1
      BY <1>1, <3>1 DEF Running, HostsSized, HostLinked, Resumes, n
    <3>3. /\ frames'[hosts[j].frame] = frames[hosts[j].frame]
          /\ frames'[hosts[j].frame - 1] = frames[hosts[j].frame - 1]
      BY <1>1, <1>4, <3>1, <3>2
    <3>4. QED
      BY <3>1, <3>2, <3>3
  <2>3. CASE j = m + 1
    <3>1. hosts'[j] = h /\ h.frame - 1 = n /\ h.frame = n + 1
      BY <1>1, <2>3 DEF n
    <3>2. frames'[n] = frames[n] /\ frames'[n + 1].base = base
      BY <1>1, <1>4
    <3>3. Ready(a, frames[n], n, h.ip, base + 1)
      BY DEF Resumes, n
    <3>4. QED
      BY <3>1, <3>2, <3>3
  <2>4. j \in 1..m \/ j = m + 1
    BY <2>1
  <2>5. QED
    BY <2>2, <2>3, <2>4
<1>6. HostsSized(a)'
  BY <1>5 DEF HostsSized, Resumes
<1>7. QED
  BY <1>2, <1>6, Enters

\* A builtin is done and the chunk goes on behind its call.
LEMMA OLeaveHost ==
  ASSUME NEW a, Operands(a), IInv', Nested, UNCHANGED <<chunk, frames, status>>, stack # <<>>,
         stack' = Append(Front(stack), Undef), hosts' = Front(hosts), pc' = Tip(hosts).ip,
         NeverInFlight'
  PROVE  Operands(a)'
<1>1. /\ status = "run" /\ pc = End /\ hosts # <<>>
      /\ Running(a) /\ Pictured(chunk, a) /\ HostLinked /\ IInv /\ stack \in Seq(Val)
      /\ Len(chunk.ops) \in Nat /\ Len(stack) \in Nat
  BY StillOne DEF Nested
<1>2. Len(stack') = Len(stack)
  <2>1. Front(stack) \in Seq(Val) /\ Len(Front(stack)) = Len(stack) - 1
    BY <1>1, FrontSeq
  <2>2. Len(Append(Front(stack), Undef)) = Len(stack) - 1 + 1
    BY <2>1, ConstantsAssumption, AppendProperties
  <2>3. QED
    BY <1>1, <2>2
<1>3. Ready(a, Top, Len(frames), Tip(hosts).ip, Len(stack))
  BY <1>1 DEF Running, Resumes, Top
<1>4. End' = End /\ Top' = Top
  BY DEF End, Top
<1>5. pending' \in Exc \cup {None}
  BY DEF IInv, TInv, TypeOK
<1>6. TopSized(a)'
  BY <1>2, <1>3, <1>4, <1>5 DEF TopSized, Ready
<1>7. pc' # End'
  BY <1>1, <1>3, <1>4 DEF Ready, Pictured, End
<1>8. HostsSized(a)'
  <2>1. /\ Len(hosts') = Len(hosts) - 1 /\ Len(hosts) \in Nat \ {0}
        /\ \A j \in 1..Len(hosts) - 1 : hosts'[j] = hosts[j]
    BY <1>1, FrontSeq, TipIn DEF IInv, TInv, TypeOK
  <2>2. \A j \in 1..Len(hosts) - 1 : j \in 1..Len(hosts)
    BY <2>1
  <2>3. QED
    BY <1>1, <2>1, <2>2 DEF Running, HostsSized, Resumes
<1>9. FramesSized(a)' /\ BasesOrdered'
  BY <1>1 DEF Running, FramesSized, Resumes, BasesOrdered
<1>10. frames'[1].parked = 0
  BY <1>1 DEF Running
<1>11. QED
  BY <1>1, <1>6, <1>7, <1>8, <1>9, <1>10 DEF Running, Operands, EndsIdle

LEMMA OInvokeStep ==
  ASSUME NEW a, Operands(a), IInv', Invoke
  PROVE  Operands(a)'
<1> DEFINE p == a[pc]
<1>1. At("invoke") /\ UNCHANGED <<chunk, status, pending, stash>>
  BY DEF Invoke, host_vars
<1>2. /\ Resumes(a, Len(frames), pc + 1, Len(stack) + 1)
      /\ Cur.to \in DOMAIN a /\ Implies(Entered, a[Cur.to])
      /\ Top.base <= Len(stack) /\ Len(stack) \in Nat
      /\ Same(p, Answered(p)) /\ Implies(Answered(p), a[pc + 1]) /\ pc + 1 \in DOMAIN a
      /\ \A e \in Exc \cup {None} : Fit(Answered(p), e, Top.base, Len(stack) + 1)
  BY <1>1, Calls
<1>3. /\ status = "run" /\ Running(a) /\ IInv /\ pending \in Exc \cup {None}
      /\ stack \in Seq(Val)
  BY <1>1, Standing, StillOne
<1>4. CASE unwinding
  <2>1. UNCHANGED <<frames, hosts>> /\ pc' = pc + 1 /\ stack' = Append(stack, Undef)
    BY <1>4 DEF Invoke
  <2>2. Len(stack') = Len(stack) + 1
    BY <1>3, <2>1, ConstantsAssumption, AppendProperties
  <2>3. NeverInFlight'
    BY <1>1, <1>3 DEF Running, NeverInFlight
  <2>4. Fit(Answered(p), pending', Top.base, Len(stack'))
    BY <1>1, <1>2, <1>3, <2>2
  <2> HIDE DEF p
  <2>5. QED
    BY <1>1, <1>2, <2>1, <2>3, <2>4, ArrivesPlain DEF p
<1>5. CASE ~unwinding
  <2> DEFINE h == [ kind |-> IF Cur.n = 0 THEN "catching" ELSE "each",
                    left |-> Cur.n, entry |-> Cur.to,
                    frame |-> Len(frames) + 1, ip |-> pc + 1 ]
  <2>1. /\ frames' = Append(frames, NewFrame(End, Len(stack)))
        /\ hosts' = Append(hosts, h) /\ pc' = Cur.to /\ UNCHANGED stack
    BY <1>5 DEF Invoke, Enter
  <2>2. hosts \in Seq(Host) /\ Len(hosts) \in Nat
    BY <1>3, LenProperties DEF IInv, TInv, TypeOK
  <2>3. h \in Host
    BY <1>1, <1>3, CurOp, TopFrame, SMTT(30) DEF At, Host, IInv, TInv, TypeOK
  <2>4. h.frame = Len(frames) + 1 /\ h.ip = pc + 1 /\ h.entry = Cur.to
    OBVIOUS
  <2> HIDE DEF h
  <2>5. /\ Len(hosts') = Len(hosts) + 1
        /\ \A j \in 1..Len(hosts) : hosts'[j] = hosts[j]
        /\ hosts'[Len(hosts) + 1] = h
    BY <2>1, <2>2, <2>3, AppendProperties
  <2>6. \A j \in 1..Len(hosts) : hosts[j].frame <= Len(frames)
    BY <1>1, <1>3, AtExecuting DEF Executing
  <2>7. Len(hosts) <= Len(hosts) /\ Len(stack') = Len(stack)
    BY <2>1, <2>2
  <2>8. QED
    BY <1>1, <1>2, <1>3, <2>1, <2>2, <2>4, <2>5, <2>6, <2>7, OEnterLambda
<1>6. QED
  BY <1>4, <1>5

LEMMA OEachStep ==
  ASSUME NEW a, Operands(a), IInv', EachNext
  PROVE  Operands(a)'
<1>1. Nested /\ UNCHANGED <<chunk, status, pending, stash>> /\ stack # <<>>
  BY DEF EachNext, host_vars
<1>2. /\ status = "run" /\ pc = End /\ hosts # <<>> /\ Running(a) /\ IInv
      /\ hosts \in Seq(Host) /\ stack \in Seq(Val) /\ Len(stack) \in Nat /\ Top.base \in Nat
      /\ pending \in Exc \cup {None}
  BY <1>1, StillOne DEF Nested, IInv, TInv, TypeOK
<1>3. NeverInFlight'
  BY <1>1, <1>2 DEF Running, NeverInFlight
<1>4. CASE ~(Tip(hosts).left > 1 /\ ~unwinding)
  BY <1>1, <1>3, <1>4, OLeaveHost DEF EachNext
<1>5. CASE Tip(hosts).left > 1 /\ ~unwinding
  <2> DEFINE h == [Tip(hosts) EXCEPT !.left = @ - 1]
             m == Len(hosts) - 1
  <2>1. /\ frames' = Append(frames, NewFrame(End, Len(stack) - 1))
        /\ hosts' = [hosts EXCEPT ![Len(hosts)] = h]
        /\ pc' = Tip(hosts).entry /\ stack' = Front(stack)
    BY <1>5 DEF EachNext, Tip
  <2>2. Len(hosts) \in Nat \ {0} /\ Tip(hosts) \in Host
    BY <1>2, TipIn
  <2>3. /\ h.frame = Tip(hosts).frame /\ h.ip = Tip(hosts).ip
        /\ h.entry = Tip(hosts).entry
        /\ h \in Host
    <3>1. Tip(hosts).left - 1 \in Nat
      BY <1>5, <2>2 DEF Host
    <3>2. QED
      BY <2>2, <3>1 DEF Host
  <2> HIDE DEF h
  <2>4. m \in Nat /\ m <= Len(hosts) /\ m + 1 = Len(hosts)
    BY <2>2
  <2>5. /\ Len(hosts') = m + 1
        /\ \A j \in 1..m : hosts'[j] = hosts[j]
        /\ hosts'[m + 1] = h
    <3>1. /\ Len([hosts EXCEPT ![Len(hosts)] = h]) = Len(hosts)
          /\ \A j \in 1..Len(hosts) :
               [hosts EXCEPT ![Len(hosts)] = h][j] = IF j = Len(hosts) THEN h ELSE hosts[j]
      BY <1>2, <2>2, <2>3, ExceptSeq
    <3> HIDE DEF m
    <3>2. Len(hosts) \in 1..Len(hosts)
      BY <2>2
    <3>3. m + 1 \in 1..Len(hosts) /\ \A j \in 1..m : j \in 1..Len(hosts) /\ j # Len(hosts)
      BY <2>4, <3>2
    <3>4. QED
      BY <2>1, <2>4, <3>1, <3>3
  <2>6. Returned /\ HostLinked
    BY <1>1, <1>2, AtNested
  <2>7. Len(hosts) \in 1..Len(hosts) /\ hosts[Len(hosts)].frame = Len(frames) + 1
    BY <2>2, <2>6 DEF Returned, Tip
  <2>8. \A j \in 1..m : hosts[j].frame <= Len(frames)
    <3>1. \A j \in 1..m : /\ hosts[j].frame < hosts[Len(hosts)].frame
                          /\ hosts[j].frame \in 2..Len(frames) + 1
      BY <2>4, <2>6, <2>7 DEF HostLinked
    <3>2. QED
      BY <1>2, <2>7, <3>1, TopFrame DEF IInv
  <2>9. Resumes(a, Len(frames), h.ip, Len(stack)) /\ Top.base < Len(stack)
    BY <1>2, <2>3 DEF Running, Resumes, Ready, Top
  <2>10. h.entry \in DOMAIN a /\ Implies(Entered, a[h.entry]) /\ pc' = h.entry
    BY <1>2, <2>1, <2>3, <2>7 DEF Running, HostsSized, Tip
  <2>11. h.frame = Len(frames) + 1
    BY <2>3, <2>7 DEF Tip
  <2> DEFINE base == Len(stack) - 1
  <2>12. /\ base \in Nat /\ base + 1 = Len(stack) /\ Top.base <= base
         /\ Len(stack') = base
    BY <1>1, <1>2, <2>1, <2>9, FrontSeq
  <2>13. frames' = Append(frames, NewFrame(End, base)) /\ Resumes(a, Len(frames), h.ip, base + 1)
    BY <2>1, <2>9, <2>12
  <2> HIDE DEF m, base
  <2>14. QED
    BY <1>1, <1>2, <2>4, <2>5, <2>8, <2>10, <2>11, <2>12, <2>13, OEnterLambda
<1>6. QED
  BY <1>4, <1>5

LEMMA OCaughtStep ==
  ASSUME NEW a, Operands(a), IInv', Caught
  PROVE  Operands(a)'
<1>1. /\ Nested /\ UNCHANGED <<chunk, frames, stash, status>> /\ stack # <<>>
      /\ stack' = Append(Front(stack), Undef) /\ hosts' = Front(hosts) /\ pc' = Tip(hosts).ip
      /\ pending' \in {pending, None}
  BY DEF Caught
<1>2. Running(a)
  BY <1>1, StillOne DEF Nested
<1>3. NeverInFlight'
  BY <1>1, <1>2 DEF Running, NeverInFlight
<1>4. QED
  BY <1>1, <1>3, OLeaveHost

(* ---- the run's end -------------------------------------------------------------- *)

\* The program ends in the outermost frame, with nothing parked or in flight.
LEMMA OFinishStep ==
  ASSUME NEW a, Operands(a), IInv', Finish
  PROVE  Operands(a)'
<1>1. At("exit") /\ status' = "ok" /\ UNCHANGED <<chunk, pending, stash>>
  BY DEF Finish
<1>2. /\ Cur.op = "exit" /\ Able(chunk, Cur, a[pc]) /\ a[pc] \in Fact
      /\ Fit(a[pc], pending, Top.base, Len(stack)) /\ Placed(a[pc], Top, Len(frames))
      /\ Running(a)
  BY <1>1, Standing
<1>3. Executing /\ IInv
  BY <1>1, AtExecuting DEF Operands
<1>4. a[pc].outer /\ Cur.parked = 0 /\ (chunk.catchable => a[pc].flight = "none")
  BY <1>2 DEF Able
<1>5. Len(frames) = 1 /\ Top.parked = 0
  BY <1>2, <1>4 DEF Placed, Running, Top
<1>6. stash = <<>>
  BY <1>3, <1>4, <1>5, EmptySeq DEF Executing, IInv, TInv, TypeOK
<1>7. pending = None
  BY <1>2, <1>4 DEF Fit, Running, NeverInFlight
<1>8. EndsIdle'
  BY <1>1, <1>6, <1>7 DEF EndsIdle
<1>9. QED
  BY <1>1, <1>8 DEF Operands

LEMMA ONext == ASSUME NEW a, Operands(a), [Next]_vars PROVE Operands(a)'
<1>1. IInv'
  BY PNext DEF Operands
<1>2. CASE UNCHANGED vars
  <2>1. UNCHANGED <<chunk, pc, stack, frames, hosts, pending, stash, status>>
    BY <1>2 DEF vars
  <2>2. UNCHANGED <<FramesSized(a), HostsSized(a), TopSized(a), End, Top>>
    BY <2>1 DEF FramesSized, HostsSized, TopSized, Resumes, End, Top
  <2>3. UNCHANGED <<BasesOrdered, NeverInFlight, EndsIdle>>
    BY <2>1 DEF BasesOrdered, NeverInFlight, EndsIdle
  <2>4. UNCHANGED Resumes(a, Len(frames), Tip(hosts).ip, Len(stack))
    BY <2>1 DEF Resumes
  <2>5. UNCHANGED Running(a)
    BY <2>1, <2>2, <2>3, <2>4 DEF Running
  <2>6. QED
    BY <1>1, <2>1, <2>3, <2>5 DEF Operands
<1>3. CASE Abort
  BY <1>1, <1>3 DEF Abort, Operands, EndsIdle
<1>4. CASE Step
  BY <1>1, <1>3, <1>4, OMoveStep, OCheckStep, ORaiseStep, OSettleStep, OCutStep, OSetStep,
     ODepthStep, OCountStep, OCallStep, OReturnStep, OInvokeStep, OEachStep, OCaughtStep,
     OFinishStep DEF Step
<1>5. QED
  BY <1>2, <1>4 DEF Next, Stopped

\* The invariant: the picture the verifier found fits the frames and the stack.
OperandsFit == \E a : Operands(a)

LEMMA OInit ==
  ASSUME \A c \in Chunks : WellParked(c) /\ Sized(c), Init
  PROVE  OperandsFit
<1>1. IInv /\ Sized(chunk)
  BY PInit DEF Init
<1>2. PICK reached \in SUBSET (1..Len(chunk.ops)) : \E a \in [reached -> Fact] : SizedBy(chunk, a)
  BY <1>1 DEF Sized
<1>3. PICK a \in [reached -> Fact] : SizedBy(chunk, a)
  BY <1>2
<1>4. Pictured(chunk, a)
  BY <1>2, <1>3 DEF Pictured
<1>5. /\ pc = 1 /\ stack = <<>> /\ hosts = <<>> /\ pending = None /\ stash = <<>>
      /\ Len(frames) = 1 /\ frames[1].base = 0 /\ frames[1].parked = 0 /\ status = "run"
  BY DEF Init
<1>6. TopSized(a)
  <2>1. 1 \in DOMAIN a /\ Implies(Started, a[1]) /\ a[1] \in Fact
    BY <1>4 DEF Pictured, SizedBy
  <2>2. Top.base = 0 /\ Len(stack) = 0
    BY <1>5 DEF Top
  <2>3. Started \in Fact /\ Fit(Started, None, 0, 0) /\ Placed(Started, Top, 1)
    BY <2>2, EnteredFact
  <2>4. Fit(a[1], None, 0, 0) /\ Placed(a[1], Top, 1)
    BY <2>1, <2>3, FitImplies, PlacedImplies
  <2>5. QED
    BY <1>5, <2>1, <2>2, <2>4 DEF TopSized
<1>7. pc # End
  <2>1. Len(chunk.ops) \in Nat
    BY <1>1, ConstantsAssumption, LenProperties DEF IInv, TInv
  <2>2. QED
    BY <1>4, <1>5, <1>6, <2>1 DEF TopSized, Pictured, End
<1>8. FramesSized(a) /\ HostsSized(a) /\ BasesOrdered /\ NeverInFlight
  <2>1. FramesSized(a) /\ HostsSized(a)
    BY <1>5 DEF FramesSized, HostsSized
  <2>2. BasesOrdered /\ NeverInFlight
    BY <1>5 DEF BasesOrdered, NeverInFlight
  <2>3. QED
    BY <2>1, <2>2
<1>9. Operands(a)
  BY <1>1, <1>4, <1>5, <1>6, <1>7, <1>8 DEF Operands, Running, EndsIdle
<1>10. QED
  BY <1>9 DEF OperandsFit

\* At the check that follows a statement which completed normally, the frame
\* holds exactly the operands of the expressions the statement is nested in, in
\* every run of chunks that pass the verifiers: what a statement abandoned left
\* behind never outlives the handler or the finalizer that cuts it back.
THEOREM BalancedAtBoundaries ==
  ASSUME \A c \in Chunks : WellParked(c) /\ Sized(c)
  PROVE  Spec => []BoundaryBalanced
<1>1. Init => OperandsFit
  BY OInit
<1>2. OperandsFit /\ [Next]_vars => OperandsFit'
  BY ONext DEF OperandsFit
<1>3. OperandsFit => BoundaryBalanced
  <2>1. SUFFICES ASSUME NEW a, Operands(a), At("jumpNotPending"), ~unwinding
        PROVE Len(stack) = Top.base + Cur.depth
    BY DEF OperandsFit, BoundaryBalanced
  <2>2. /\ a[pc] \in Fact /\ Cur.op = "jumpNotPending" /\ Able(chunk, Cur, a[pc])
        /\ Fit(a[pc], pending, Top.base, Len(stack))
    BY <2>1, Standing
  <2>3. a[pc].exact \in {"yes", "calm"} /\ a[pc].depth = Cur.depth
    BY <2>2 DEF Able, Fact
  <2>4. QED
    BY <2>1, <2>2, <2>3 DEF Fit, unwinding
<1>4. QED
  BY <1>1, <1>2, <1>3, PTL DEF Spec

\* A run that ended normally left nothing parked, and nothing in flight.
THEOREM EndsWithNothing ==
  ASSUME \A c \in Chunks : WellParked(c) /\ Sized(c)
  PROVE  Spec => []EndsIdle
<1>1. Init => OperandsFit
  BY OInit
<1>2. OperandsFit /\ [Next]_vars => OperandsFit'
  BY ONext DEF OperandsFit
<1>3. OperandsFit => EndsIdle
  BY DEF OperandsFit, Operands
<1>4. QED
  BY <1>1, <1>2, <1>3, PTL DEF Spec

(* ---- the operands of the callers -------------------------------------------------- *)

\* The lowest n operands stay where they are.
Keeps(n) == \A k \in 1..n : k \in 1..Len(stack') /\ stack'[k] = stack[k]

LEMMA KeepsBelow ==
  ASSUME NEW n \in Nat, NEW v \in Val, stack \in Seq(Val),
         \/ n <= Len(stack) /\ stack' \in {stack, Append(stack, v)}
         \/ n < Len(stack) /\ stack' \in {Front(stack), Append(Front(stack), v)}
  PROVE  Keeps(n)
<1>1. Len(stack) \in Nat
  BY LenProperties
<1>2. CASE n <= Len(stack) /\ stack' = stack
  BY <1>1, <1>2 DEF Keeps
<1>3. CASE n <= Len(stack) /\ stack' = Append(stack, v)
  <2>1. /\ Len(stack') = Len(stack) + 1
        /\ \A k \in 1..Len(stack) : stack'[k] = stack[k]
    BY <1>3, AppendProperties
  <2>2. QED
    BY <1>1, <1>3, <2>1 DEF Keeps
<1>4. CASE n < Len(stack) /\ stack' \in {Front(stack), Append(Front(stack), v)}
  <2>1. /\ Front(stack) \in Seq(Val) /\ Len(Front(stack)) = Len(stack) - 1
        /\ \A k \in 1..Len(stack) - 1 : Front(stack)[k] = stack[k]
    <3>1. stack # <<>>
      BY <1>1, <1>4, EmptySeq
    <3>2. QED
      BY <3>1, FrontSeq
  <2>2. CASE stack' = Front(stack)
    BY <1>1, <1>4, <2>1, <2>2 DEF Keeps
  <2>3. CASE stack' = Append(Front(stack), v)
    <3>1. /\ Len(stack') = Len(stack) - 1 + 1
          /\ \A k \in 1..Len(stack) - 1 : stack'[k] = Front(stack)[k]
      BY <2>1, <2>3, AppendProperties
    <3>2. QED
      BY <1>1, <1>4, <2>1, <3>1 DEF Keeps
  <2>4. QED
    BY <1>4, <2>2, <2>3
<1>5. QED
  BY <1>2, <1>3, <1>4

\* An operation works above the base of its frame.
LEMMA StepKeeps ==
  ASSUME NEW a, Operands(a), Step
  PROVE  Keeps(Top.base)
<1>1. /\ IInv /\ status = "run" /\ Running(a) /\ stack \in Seq(Val) /\ Len(stack) \in Nat
      /\ Top.base \in Nat /\ "false" \in Val /\ "true" \in Val /\ Undef \in Val
  <2>1. status = "run"
    BY DEF Step, Load, Pop, SetSlot, GetSlot, Jump, Count, Test, JumpIfFalse, JumpIfTrue,
           JumpIf, Call, Return, Throw, Fault, Println, Store, JumpNotPending, Match, Take,
           Depth, Cut, Stash, Unstash, Abort, NlrRaise, NlrMatch, NlrTake, Invoke, EachNext,
           Caught, Finish, Nested, At
  <2>2. QED
    BY <2>1, StillOne, ConstantsAssumption
<1>2. CASE \/ Jump \/ Count \/ Call \/ JumpNotPending \/ Match \/ Take \/ Depth \/ Stash
           \/ Unstash \/ Abort \/ NlrMatch \/ Finish
  <2>1. PICK name : At(name)
    BY <1>2 DEF Jump, Count, Call, JumpNotPending, Match, Take, Depth, Stash, Unstash, Abort,
                NlrMatch, Finish
  <2>2. Top.base <= Len(stack)
    BY <1>1, <2>1, Standing
  <2>3. stack' = stack
    BY <1>2 DEF Jump, Count, Call, JumpNotPending, Match, Take, Depth, Stash, Unstash, Abort,
                NlrMatch, Finish
  <2>4. QED
    BY <1>1, <2>2, <2>3, KeepsBelow
<1>3. CASE Load \/ GetSlot \/ Throw \/ Fault \/ NlrTake
  <2>1. PICK name : At(name)
    BY <1>3 DEF Load, GetSlot, Throw, Fault, NlrTake
  <2>2. Top.base <= Len(stack)
    BY <1>1, <2>1, Standing
  <2>3. Cur.arg \in Val /\ Top.vals[Cur.slot] \in Val
    BY <1>1, <2>1, CurOp, TopFrame DEF IInv, At
  <2>4. nlr # None => nlr.val \in Val
    BY <1>1 DEF IInv, TInv, TypeOK
  <2>5. \E v \in Val : stack' = Append(stack, v)
    BY <1>1, <1>3, <2>3, <2>4 DEF Load, GetSlot, Throw, Fault, NlrTake
  <2>6. QED
    BY <1>1, <2>2, <2>5, KeepsBelow
<1>4. CASE \/ Pop \/ SetSlot \/ Store \/ JumpIfFalse \/ JumpIfTrue \/ Println \/ Test \/ NlrRaise
  <2>1. PICK name \in Needs : At(name)
    BY <1>4 DEF Needs, Drops, Pop, SetSlot, Store, JumpIfFalse, JumpIfTrue, JumpIf, Println,
                Test, NlrRaise
  <2>2. Top.base < Len(stack)
    <3>1. /\ Able(chunk, Cur, a[pc]) /\ Cur.op = name /\ a[pc].depth \in Nat
          /\ Top.base + a[pc].depth <= Len(stack)
      BY <2>1, Standing
    <3>2. a[pc].depth > 0
      BY <2>1, <3>1 DEF Able
    <3>3. QED
      BY <1>1, <3>1, <3>2
  <2>3. \E v \in Val : stack' \in {Front(stack), Append(Front(stack), v)}
    BY <1>1, <1>4 DEF Pop, SetSlot, Store, JumpIfFalse, JumpIfTrue, JumpIf, Println,
                Test, NlrRaise
  <2>4. QED
    BY <1>1, <2>2, <2>3, KeepsBelow
<1>5. CASE Cut
  <2>1. /\ Placed(a[pc], Top, Len(frames)) /\ <<Cur.slot, a[pc].depth>> \in a[pc].marks
        /\ Top.base + a[pc].depth <= Len(stack) /\ a[pc].depth \in Nat
    BY <1>5, Standing DEF Cut, Able
  <2>2. Top.nums[Cur.slot] = Top.base + a[pc].depth
    BY <2>1 DEF Placed
  <2>3. /\ Len(stack') = Top.base + a[pc].depth
        /\ \A k \in 1..Top.base + a[pc].depth : stack'[k] = stack[k]
    BY <1>1, <1>5, <2>1, <2>2, TruncateLen DEF Cut
  <2>4. QED
    BY <1>1, <2>1, <2>3 DEF Keeps
<1>6. CASE Return
  <2>1. At("return") /\ stack' = Append(Truncate(Front(stack), Top.base), Tip(stack))
    BY <1>6 DEF Return
  <2>2. Top.base < Len(stack)
    <3>1. /\ Able(chunk, Cur, a[pc]) /\ Cur.op = "return" /\ a[pc].depth \in Nat
          /\ Top.base + a[pc].depth <= Len(stack)
      BY <2>1, Standing
    <3>2. a[pc].depth > 0
      BY <3>1 DEF Able, Needs
    <3>3. QED
      BY <1>1, <3>1, <3>2
  <2>3. /\ Front(stack) \in Seq(Val) /\ Tip(stack) \in Val /\ Len(Front(stack)) = Len(stack) - 1
        /\ \A k \in 1..Len(stack) - 1 : Front(stack)[k] = stack[k]
    BY <1>1, <1>6, FrontSeq, TipIn DEF Return
  <2>4. /\ Truncate(Front(stack), Top.base) \in Seq(Val)
        /\ Len(Truncate(Front(stack), Top.base)) = Top.base
        /\ \A k \in 1..Top.base : Truncate(Front(stack), Top.base)[k] = Front(stack)[k]
    <3>1. Top.base <= Len(Front(stack))
      BY <1>1, <2>2, <2>3
    <3>2. QED
      BY <1>1, <2>3, <3>1, TruncateSeq, TruncateLen
  <2>5. /\ Len(stack') = Top.base + 1
        /\ \A k \in 1..Top.base : stack'[k] = Truncate(Front(stack), Top.base)[k]
    BY <2>1, <2>3, <2>4, AppendProperties
  <2>6. QED
    BY <1>1, <2>2, <2>3, <2>4, <2>5 DEF Keeps
<1>7. CASE Invoke
  <2>1. Top.base <= Len(stack)
    BY <1>1, <1>7, Standing DEF Invoke
  <2>2. stack' \in {stack, Append(stack, Undef)}
    BY <1>7 DEF Invoke
  <2>3. QED
    BY <1>1, <2>1, <2>2, KeepsBelow
<1>8. CASE EachNext \/ Caught
  <2>1. pc = End
    BY <1>8 DEF EachNext, Caught, Nested
  <2>2. Top.base < Len(stack)
    BY <1>1, <2>1 DEF Running, Resumes, Ready, Top
  <2>3. stack' \in {Front(stack), Append(Front(stack), Undef)}
    BY <1>8 DEF EachNext, Caught
  <2>4. QED
    BY <1>1, <2>2, <2>3, KeepsBelow
<1>9. QED
  BY <1>2, <1>3, <1>4, <1>5, <1>6, <1>7, <1>8 DEF Step

\* No step of a frame disturbs an operand of the frames below it.
CallersKept == [][\A i \in 1..Len(frames) : Keeps(frames[i].base)]_vars

\* Whatever a frame does, the operands its callers were holding when they called
\* it stay as they were: a cut back to a saved depth (KT_EXC_CUT), a pop of an
\* operand an abandoned statement no longer has and the truncation of a return
\* all stop at the base of the frame that runs.
THEOREM CallersUntouched ==
  ASSUME \A c \in Chunks : WellParked(c) /\ Sized(c)
  PROVE  Spec => CallersKept
<1>1. Init => OperandsFit
  BY OInit
<1>2. OperandsFit /\ [Next]_vars => OperandsFit'
  BY ONext DEF OperandsFit
<1>3. OperandsFit /\ [Next]_vars => [\A i \in 1..Len(frames) : Keeps(frames[i].base)]_vars
  <2>1. SUFFICES ASSUME NEW a, Operands(a), Step, NEW i \in 1..Len(frames), NEW k \in 1..frames[i].base
        PROVE k \in 1..Len(stack') /\ stack'[k] = stack[k]
    BY DEF OperandsFit, Keeps, Next, Stopped
  <2>2. Keeps(Top.base)
    BY <2>1, StepKeeps
  <2>3. status = "run"
    BY <2>1 DEF Step, Load, Pop, SetSlot, GetSlot, Jump, Count, Test, JumpIfFalse, JumpIfTrue,
           JumpIf, Call, Return, Throw, Fault, Println, Store, JumpNotPending, Match, Take,
           Depth, Cut, Stash, Unstash, Abort, NlrRaise, NlrMatch, NlrTake, Invoke, EachNext,
           Caught, Finish, Nested, At
  <2>4. /\ BasesOrdered /\ Len(frames) \in Nat \ {0} /\ Top.base = frames[Len(frames)].base
        /\ frames[i].base \in Nat /\ Top.base \in Nat
    BY <2>1, <2>3, StillOne DEF Running
  <2>5. frames[i].base <= Top.base
    BY <2>1, <2>4 DEF BasesOrdered
  <2>6. k \in 1..Top.base
    BY <2>1, <2>4, <2>5
  <2>7. QED
    BY <2>2, <2>6 DEF Keeps
<1>4. QED
  BY <1>1, <1>2, <1>3, PTL DEF Spec, CallersKept

=============================================================================

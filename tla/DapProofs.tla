------------------------------- MODULE DapProofs -------------------------------
(***************************************************************************)
(* Theorems of module Dap, for any programs, pipe and buffer sizes, sets of *)
(* breakpoints and numbers of requests: its types, and that the output of   *)
(* the program reaches the client whole, in order and before a stop.        *)
(***************************************************************************)
EXTENDS Dap, TLAPS, SequenceTheorems, FiniteSetTheorems

(* ---- types ------------------------------------------------------------------ *)

\* How deep the calls before the i-th operation of the program leave it.
DepthAt(i) == 1 + Times(program, "call", i) - Times(program, "return", i)

TInv ==
  /\ TypeOK
  /\ program \in Programs
  /\ depth = DepthAt(pc)

LEMMA ProgramOps ==
  ASSUME program \in Programs
  PROVE  /\ program \in Seq(Op) /\ Len(program) \in Nat
         /\ DOMAIN program = 1..Len(program)
         /\ \A i \in DOMAIN program : program[i].line \in Lines \cup {0}
         /\ Run(program)
<1>1. program \in Seq(Op) /\ Run(program)
  BY BoundsAssumption
<1>2. Len(program) \in Nat /\ DOMAIN program = 1..Len(program)
  BY <1>1, LenProperties
<1>3. \A i \in DOMAIN program : program[i] \in Op
  BY <1>1, <1>2, ElementOfSeq
<1>4. QED
  BY <1>1, <1>2, <1>3 DEF Op

LEMMA TimesNat ==
  ASSUME NEW p, NEW name, NEW i \in Nat
  PROVE  IsFiniteSet({j \in 1..(i - 1) : p[j].op = name}) /\ Times(p, name, i) \in Nat
<1> DEFINE S == {j \in 1..(i - 1) : p[j].op = name}
<1>1. IsFiniteSet(1..(i - 1)) /\ S \subseteq 1..(i - 1)
  BY FS_Interval
<1>2. IsFiniteSet(S)
  BY <1>1, FS_Subset
<1>3. Cardinality(S) \in Nat
  BY <1>2, FS_CardinalityType
<1>4. QED
  BY <1>2, <1>3 DEF Times

\* One operation further is one more of its name.
LEMMA TimesNext ==
  ASSUME NEW p, NEW name, NEW i \in Nat \ {0}
  PROVE  Times(p, name, i + 1) = Times(p, name, i) + (IF p[i].op = name THEN 1 ELSE 0)
<1> DEFINE S == {j \in 1..(i - 1) : p[j].op = name}
           T == {j \in 1..(i + 1 - 1) : p[j].op = name}
<1>1. IsFiniteSet(S) /\ Cardinality(S) = Times(p, name, i) /\ Cardinality(S) \in Nat
  BY TimesNat DEF Times
<1>2. Times(p, name, i + 1) = Cardinality(T)
  BY DEF Times
<1>3. CASE p[i].op = name
  <2>1. T = S \cup {i} /\ i \notin S
    BY <1>3
  <2>2. Cardinality(T) = Cardinality(S) + 1
    BY <1>1, <2>1, FS_AddElement
  <2>3. QED
    BY <1>1, <1>2, <1>3, <2>2
<1>4. CASE p[i].op # name
  <2>1. T = S
    BY <1>4
  <2>2. Times(p, name, i + 1) = Times(p, name, i)
    BY <1>1, <1>2, <2>1
  <2> HIDE DEF S, T
  <2>3. QED
    BY <1>1, <1>4, <2>2
<1>5. QED
  BY <1>3, <1>4

\* Operations other than calls and returns leave the depth alone.
LEMMA DepthNext ==
  ASSUME TInv, NEW i \in DOMAIN program
  PROVE  /\ program[i].op \notin {"call", "return"} => DepthAt(i + 1) = DepthAt(i)
         /\ program[i].op = "call" => DepthAt(i + 1) = DepthAt(i) + 1
         /\ program[i].op = "return" => DepthAt(i + 1) = DepthAt(i) - 1 /\ DepthAt(i) > 1
<1>1. i \in Nat \ {0} /\ Run(program)
  BY ProgramOps DEF TInv
<1>2. /\ Times(program, "call", i) \in Nat
      /\ Times(program, "return", i) \in Nat
  BY <1>1, TimesNat
<1>3. /\ Times(program, "call", i + 1) = Times(program, "call", i) + (IF program[i].op = "call" THEN 1 ELSE 0)
      /\ Times(program, "return", i + 1) = Times(program, "return", i) + (IF program[i].op = "return" THEN 1 ELSE 0)
  BY <1>1, TimesNext
<1>4. program[i].op = "return" => Times(program, "return", i) < Times(program, "call", i)
  BY <1>1 DEF Run
<1>5. QED
  BY <1>2, <1>3, <1>4 DEF DepthAt

LEMMA DepthStart == ASSUME NEW p PROVE 1 + Times(p, "call", 1) - Times(p, "return", 1) = 1
<1>1. /\ {j \in 1..(1 - 1) : p[j].op = "call"} = {}
      /\ {j \in 1..(1 - 1) : p[j].op = "return"} = {}
  OBVIOUS
<1>2. QED
  BY <1>1, FS_EmptySet DEF Times

LEMMA TInit == ASSUME Init PROVE TInv
<1>1. program \in Programs /\ Len(program) \in Nat
  BY ProgramOps DEF Init
<1>2. depth = DepthAt(pc)
  BY DepthStart DEF Init, DepthAt
<1>3. TypeOK
  BY <1>1, BoundsAssumption DEF Init, TypeOK, Mode
<1>4. QED
  BY <1>1, <1>2, <1>3 DEF TInv

\* What is read from stdin is a request, and what is left of it are requests.
LEMMA FirstRequest ==
  ASSUME TInv, Received
  PROVE  Head(inbox) \in Request /\ Tail(inbox) \in Seq(Request)
BY HeadTailProperties DEF Received, TInv, TypeOK

LEMMA TClient == ASSUME TInv, Client PROVE TInv'
<1> USE DEF TInv, TypeOK, DepthAt, adapter_vars, output_vars
<1>1. CASE HangUp
  BY <1>1 DEF HangUp
<1>2. ASSUME NEW r \in Request, Ask(r) PROVE TInv'
  <2>1. Append(inbox, r) \in Seq(Request) /\ asked + 1 \in 0..MaxAsked
    BY <1>2, AppendProperties, BoundsAssumption DEF Ask
  <2>2. QED
    BY <1>2, <2>1 DEF Ask
<1>3. QED
  BY <1>1, <1>2 DEF Client

LEMMA TServe ==
  ASSUME TInv, SetBreakpoints \/ JustAnswer \/ Launch \/ LaunchFails \/ Resume \/ EndOfInput \/ Disconnect
  PROVE  TInv'
<1> USE DEF TInv, TypeOK, output_vars, client_vars
<1>1. CASE SetBreakpoints
  <2>1. Head(inbox).lines \in SUBSET Lines
    BY <1>1, FirstRequest, BoundsAssumption DEF SetBreakpoints, Request, Resuming
  <2>2. marker_lines(Head(inbox).path) \subseteq Lines
    BY ProgramOps DEF marker_lines, Run
  <2>3. QED
    BY <1>1, <2>1, <2>2, FirstRequest DEF SetBreakpoints, Took, DepthAt
<1>2. CASE JustAnswer
  BY <1>2, FirstRequest DEF JustAnswer, Took, adapter_vars, DepthAt
<1>3. CASE Launch
  <2>1. depth' = DepthAt(pc)'
    BY <1>3, DepthStart DEF Launch, DepthAt
  <2>2. QED
    BY <1>3, <2>1, FirstRequest, ProgramOps DEF Launch, Took, Mode
<1>4. CASE Resume
  <2>1. mode' \in Mode
    BY <1>4 DEF Resume, Mode
  <2>2. QED
    BY <1>4, <2>1, FirstRequest DEF Resume, Took, DepthAt
<1>5. CASE EndOfInput
  BY <1>5 DEF EndOfInput, AfterEof, Mode, DepthAt
<1>6. CASE Disconnect
  BY <1>6, FirstRequest DEF Disconnect, Took, DepthAt
<1>7. CASE LaunchFails
  BY <1>7, FirstRequest DEF LaunchFails, Took, DepthAt
<1>8. QED
  BY <1>1, <1>2, <1>3, <1>4, <1>5, <1>6, <1>7

(* ---- the output ------------------------------------------------------------- *)

Text == [nr : Nat, ends : BOOLEAN]

OutputTyped ==
  /\ printed \in Nat
  /\ buf \in Seq(Text) /\ pipe \in Seq(Text) /\ forwarded \in Seq(Text)

\* A write empties the buffer: what ends a line, or fills it, is on its way out.
Buffered ==
  /\ writing \in {0, Len(buf)}
  /\ writing = 0 => Len(buf) < BufCap /\ \A i \in DOMAIN buf : ~buf[i].ends
  /\ Len(buf) <= BufCap /\ Len(pipe) <= PipeCap

\* What the places of the thread say of the output on its way.
Settled ==
  /\ adapter \in {"serving", "gone"} => buf = <<>> /\ pipe = <<>>
  /\ adapter = "stopped" => pipe = <<>> /\ writing = 0
  /\ adapter \in {"failing", "ending"} => writing = Len(buf)
  /\ adapter = "ending" /\ pc \in DOMAIN program =>
       reported = printed /\ buf = <<>> /\ pipe = <<>>

Whole == Texts(forwarded \o pipe \o buf) = [i \in 1..printed |-> i]

OInv == OutputTyped /\ Buffered /\ Settled /\ Whole

\* The inductive invariant.
IInv == TInv /\ OInv

\* Draining moves the whole pipe and keeps the order.
LEMMA Drained ==
  ASSUME OInv, Drain, UNCHANGED <<printed, buf>>
  PROVE  /\ forwarded' \in Seq(Text) /\ pipe' \in Seq(Text) /\ pipe' = <<>>
         /\ Whole'
<1> USE DEF OInv, OutputTyped
<1>1. forwarded' = forwarded \o pipe /\ pipe' = <<>> /\ buf' = buf
  BY DEF Drain
<1>2. forwarded' \in Seq(Text) /\ pipe' \in Seq(Text)
  BY <1>1, ConcatProperties, EmptySeq
<1>3. forwarded' \o pipe' = forwarded \o pipe
  BY <1>1, <1>2, ConcatEmptySeq
<1>4. QED
  BY <1>1, <1>2, <1>3 DEF Whole

\* Nothing on its way: the client was shown as much as was printed.
LEMMA AllShown ==
  ASSUME OInv, buf = <<>>
  PROVE  Len(forwarded \o pipe) = printed
<1> USE DEF OInv, OutputTyped
<1>1. forwarded \o pipe \in Seq(Text)
  BY ConcatProperties
<1>2. (forwarded \o pipe) \o buf = forwarded \o pipe
  BY <1>1, ConcatEmptySeq
<1>3. DOMAIN (forwarded \o pipe) = 1..printed
  BY <1>2 DEF Whole, Texts
<1>4. QED
  BY <1>1, <1>3, LenProperties

LEMMA OInit == ASSUME Init PROVE OInv
<1>1. <<>> \in Seq(Text) /\ Len(<<>>) = 0
  BY EmptySeq
<1>2. <<>> \o <<>> \o <<>> = <<>>
  BY <1>1, ConcatEmptySeq
<1>3. Whole
  BY <1>2 DEF Init, Whole, Texts
<1>4. QED
  BY <1>1, <1>3, BoundsAssumption DEF Init, OInv, OutputTyped, Buffered, Settled

\* One more text printed.
LEMMA Printed ==
  ASSUME OInv, NEW e \in BOOLEAN,
         printed' = printed + 1, buf' = Append(buf, [nr |-> printed + 1, ends |-> e]),
         UNCHANGED <<pipe, forwarded>>
  PROVE  OutputTyped' /\ Whole'
<1> DEFINE t == [nr |-> printed + 1, ends |-> e]
           all == forwarded \o pipe
<1> USE DEF OInv, OutputTyped
<1>1. t \in Text
  BY DEF Text
<1>2. buf' \in Seq(Text) /\ buf' = buf \o <<t>> /\ <<t>> \in Seq(Text)
  BY <1>1, AppendProperties, AppendIsConcat
<1>3. all \in Seq(Text) /\ all \o buf \in Seq(Text)
  BY ConcatProperties
<1>4. all \o buf' = Append(all \o buf, t)
  <2>1. all \o (buf \o <<t>>) = (all \o buf) \o <<t>>
    BY <1>2, <1>3, ConcatAssociative
  <2>2. QED
    BY <1>1, <1>2, <1>3, <2>1, AppendIsConcat
<1>5. DOMAIN (all \o buf) = 1..printed /\ Len(all \o buf) = printed
      /\ \A i \in 1..printed : (all \o buf)[i].nr = i
  <2>1. Texts(all \o buf) = [i \in 1..printed |-> i]
    BY DEF Whole
  <2>2. DOMAIN (all \o buf) = 1..printed /\ \A i \in 1..printed : (all \o buf)[i].nr = i
    BY <2>1 DEF Texts
  <2>3. QED
    BY <1>3, <2>2, LenProperties
<1> HIDE DEF all, t
<1>6. LET s == Append(all \o buf, t) IN
        DOMAIN s = 1..(printed + 1) /\ \A i \in 1..(printed + 1) : s[i].nr = i
  <2>1. t.nr = printed + 1
    BY DEF t
  <2>2. QED
    BY <1>1, <1>3, <1>5, <2>1, AppendProperties, LenProperties
<1>7. Texts(all \o buf') = [i \in 1..(printed + 1) |-> i]
  BY <1>4, <1>6 DEF Texts
<1>8. QED
  BY <1>2, <1>7 DEF Whole, all

\* One text goes from the buffer into the pipe.
LEMMA Moved ==
  ASSUME OInv, buf # <<>>,
         pipe' = Append(pipe, Head(buf)), buf' = Tail(buf), UNCHANGED <<forwarded, printed>>
  PROVE  /\ OutputTyped' /\ Whole'
         /\ Len(pipe') = Len(pipe) + 1 /\ Len(buf') = Len(buf) - 1
<1> DEFINE t == Head(buf)
<1> USE DEF OInv, OutputTyped
<1>1. t \in Text /\ Tail(buf) \in Seq(Text) /\ Len(Tail(buf)) = Len(buf) - 1
  BY HeadTailProperties
<1>2. <<t>> \in Seq(Text) /\ pipe' = pipe \o <<t>> /\ pipe' \in Seq(Text) /\ Len(pipe') = Len(pipe) + 1
  BY <1>1, AppendProperties, AppendIsConcat
<1>3. buf = <<t>> \o Tail(buf)
  <2>1. /\ <<t>> \o Tail(buf) \in Seq(Text)
        /\ Len(<<t>> \o Tail(buf)) = Len(buf)
        /\ \A i \in 1..Len(buf) : (<<t>> \o Tail(buf))[i] = IF i <= 1 THEN t ELSE Tail(buf)[i - 1]
    BY <1>1, <1>2, ConcatProperties, LenProperties
  <2>2. buf[1] = t /\ \A i \in 1..(Len(buf) - 1) : Tail(buf)[i] = buf[i + 1]
    BY <1>1, HeadTailProperties
  <2>3. \A i \in 1..Len(buf) : (<<t>> \o Tail(buf))[i] = buf[i]
    BY <1>1, <2>1, <2>2, LenProperties
  <2>4. QED
    BY <2>1, <2>3, SeqEqual
<1>4. forwarded' \o pipe' \o buf' = forwarded \o pipe \o buf
  <2>1. forwarded \o (pipe \o <<t>>) = (forwarded \o pipe) \o <<t>>
    BY <1>2, ConcatAssociative
  <2>2. forwarded \o pipe \in Seq(Text)
    BY ConcatProperties
  <2>3. ((forwarded \o pipe) \o <<t>>) \o Tail(buf) = (forwarded \o pipe) \o (<<t>> \o Tail(buf))
    BY <1>1, <1>2, <2>2, ConcatAssociative, SMTT(30)
  <2>4. QED
    BY <1>2, <1>3, <2>1, <2>3
<1>5. QED
  BY <1>1, <1>2, <1>4 DEF Whole

(* ---- one step ----------------------------------------------------------------- *)

LEMMA IInit == Init => IInv
  BY TInit, OInit DEF IInv

\* Neither requests nor their answers touch the output.
LEMMA IServe ==
  ASSUME IInv,
         \/ Client \/ SetBreakpoints \/ JustAnswer \/ Launch \/ LaunchFails \/ Resume \/ EndOfInput \/ Disconnect
  PROVE  IInv'
<1>1. TInv'
  BY TClient, TServe DEF IInv
<1>2. /\ UNCHANGED <<output_vars, program>>
      /\ \/ adapter' = adapter /\ pc' = pc
         \/ adapter = "serving" /\ adapter' \in {"running", "gone"}
         \/ adapter = "stopped" /\ adapter' = "running"
  BY DEF Client, HangUp, Ask, SetBreakpoints, JustAnswer, Launch, LaunchFails, Resume, EndOfInput, AfterEof,
         Disconnect, adapter_vars
<1>3. OutputTyped' /\ Buffered' /\ Whole'
  BY <1>2 DEF IInv, OInv, OutputTyped, Buffered, Whole, output_vars
<1>4. Settled'
  BY <1>2 DEF IInv, OInv, Settled, output_vars
<1>5. QED
  BY <1>1, <1>3, <1>4 DEF IInv, OInv

LEMMA IMarker == ASSUME IInv, Marker PROVE IInv'
<1> USE DEF IInv
<1>1. TInv'
  BY DepthNext, ProgramOps, BoundsAssumption DEF Marker, At, TInv, TypeOK, DepthAt, client_vars, Drain
<1>2. CASE StopsHere
  <2>1. Drain /\ UNCHANGED <<printed, buf, writing>> /\ adapter' = "stopped" /\ writing = 0
    BY <1>2 DEF Marker, At
  <2>2. OutputTyped' /\ Whole' /\ pipe' = <<>>
    BY <2>1, Drained DEF OInv, OutputTyped
  <2>3. Buffered' /\ Settled'
    BY <2>1, <2>2, BoundsAssumption DEF OInv, Buffered, Settled
  <2>4. QED
    BY <1>1, <2>2, <2>3 DEF OInv
<1>3. CASE ~StopsHere
  BY <1>1, <1>3 DEF Marker, At, OInv, OutputTyped, Buffered, Settled, Whole
<1>4. QED
  BY <1>2, <1>3

LEMMA IPrint == ASSUME IInv, PrintText PROVE IInv'
<1> USE DEF IInv
<1> DEFINE e == program[pc].op = "println"
           t == [nr |-> printed + 1, ends |-> e]
<1>1. /\ adapter = "running" /\ writing = 0 /\ pc \in DOMAIN program
      /\ program[pc].op \notin {"call", "return"}
      /\ printed' = printed + 1 /\ buf' = Append(buf, t)
      /\ pc' = pc + 1 /\ UNCHANGED <<program, adapter, depth, pipe, forwarded, reported>>
      /\ writing' = IF e \/ Len(buf') >= BufCap THEN Len(buf') ELSE 0
  BY DEF PrintText, At, LineEnded, Full
<1>2. OutputTyped' /\ Whole'
  BY <1>1, Printed
<1>3. t \in Text /\ buf \in Seq(Text) /\ Len(buf) \in Nat
  BY <1>1, LenProperties DEF OInv, OutputTyped, Text
<1>4. /\ Len(buf') = Len(buf) + 1 /\ DOMAIN buf' = 1..(Len(buf) + 1)
      /\ \A i \in 1..Len(buf) : buf'[i] = buf[i]
      /\ buf'[Len(buf) + 1] = t
  BY <1>1, <1>3, AppendProperties, LenProperties
<1>5. Len(buf) < BufCap /\ \A i \in 1..Len(buf) : ~buf[i].ends
  BY <1>1, <1>3, LenProperties DEF OInv, Buffered
<1>6. Buffered'
  <2>1. writing' \in {0, Len(buf')} /\ Len(buf') <= BufCap /\ Len(pipe') <= PipeCap
    BY <1>1, <1>3, <1>4, <1>5, BoundsAssumption DEF OInv, Buffered
  <2>2. ASSUME writing' = 0
        PROVE  Len(buf') < BufCap /\ \A i \in DOMAIN buf' : ~buf'[i].ends
    <3>1. ~e /\ ~(Len(buf') >= BufCap)
      BY <1>1, <1>3, <1>4, <2>2
    <3>2. ~t.ends
      BY <3>1
    <3>3. QED
      BY <1>3, <1>4, <1>5, <3>1, <3>2, BoundsAssumption
  <2>3. QED
    BY <2>1, <2>2 DEF Buffered
<1>7. Settled'
  BY <1>1 DEF Settled
<1>8. TInv'
  <2>1. depth' = DepthAt(pc)'
    BY <1>1, DepthNext DEF TInv, DepthAt
  <2>2. pc' \in 1..Len(program') + 1
    BY <1>1, ProgramOps DEF TInv
  <2>3. writing' \in 0..Len(buf') /\ Len(buf') <= BufCap /\ Len(pipe') <= PipeCap
    BY <1>3, <1>4, <1>6 DEF Buffered
  <2>4. QED
    BY <1>1, <2>1, <2>2, <2>3 DEF PrintText, TInv, TypeOK, client_vars
<1>9. QED
  BY <1>2, <1>6, <1>7, <1>8 DEF OInv

LEMMA IWrite == ASSUME IInv, Write PROVE IInv'
<1> USE DEF IInv
<1>1. /\ writing > 0 /\ Len(pipe) < PipeCap /\ writing' = writing - 1
      /\ pipe' = Append(pipe, Head(buf)) /\ buf' = Tail(buf)
      /\ UNCHANGED <<program, adapter_vars, printed, forwarded, reported, client_vars>>
  BY DEF Write
<1>2. writing = Len(buf) /\ Len(buf) \in Nat /\ Len(pipe) \in Nat /\ buf # <<>>
  BY <1>1, LenProperties, EmptySeq DEF OInv, OutputTyped, Buffered
<1>3. OutputTyped' /\ Whole' /\ Len(pipe') = Len(pipe) + 1 /\ Len(buf') = Len(buf) - 1
  BY <1>1, <1>2, Moved
<1>4. Buffered'
  <2>1. Len(buf') = 0 => buf' = <<>>
    BY <1>3, EmptySeq DEF OutputTyped
  <2>2. QED
    BY <1>1, <1>2, <1>3, <2>1, BoundsAssumption DEF OInv, Buffered
<1>5. Settled'
  BY <1>1, <1>2, <1>3 DEF OInv, Settled, adapter_vars
<1>6. TInv'
  BY <1>1, <1>2, <1>3, <1>4 DEF TInv, TypeOK, DepthAt, Buffered, adapter_vars, client_vars
<1>7. QED
  BY <1>3, <1>4, <1>5, <1>6 DEF OInv

LEMMA ICallReturn == ASSUME IInv, CallReturn PROVE IInv'
<1> USE DEF IInv
<1>1. /\ adapter = "running" /\ pc \in DOMAIN program /\ program[pc].op \in {"call", "return"}
      /\ depth' = (IF program[pc].op = "call" THEN depth + 1 ELSE depth - 1) /\ pc' = pc + 1
      /\ UNCHANGED <<program, adapter, mode, breakpoints, verified, terminated, output_vars, client_vars>>
  BY DEF CallReturn, At
<1>2. depth' = DepthAt(pc') /\ depth' \in Nat \ {0}
  BY <1>1, DepthNext DEF TInv, TypeOK
<1>3. TInv'
  BY <1>1, <1>2, ProgramOps DEF TInv, TypeOK, DepthAt, output_vars, client_vars
<1>4. OInv'
  BY <1>1 DEF OInv, OutputTyped, Buffered, Settled, Whole, output_vars
<1>5. QED
  BY <1>3, <1>4

LEMMA IRunEnds == ASSUME IInv, RunEnds PROVE IInv'
<1> USE DEF IInv
<1>1. /\ adapter = "running" /\ writing = 0
      /\ \/ adapter' = "ending" /\ pc' \notin DOMAIN program'
         \/ adapter' = "failing"
      /\ writing' = Len(buf)
      /\ UNCHANGED <<program, pc, depth, mode, breakpoints, verified, terminated,
                     printed, buf, pipe, forwarded, reported, client_vars>>
  BY DEF RunEnds, ToFlush
<1>2. Len(buf) \in Nat /\ (Len(buf) = 0 => buf = <<>>)
  BY LenProperties, EmptySeq DEF OInv, OutputTyped
<1>3. TInv'
  BY <1>1, <1>2 DEF TInv, TypeOK, DepthAt, client_vars
<1>4. OutputTyped' /\ Whole'
  BY <1>1 DEF OInv, OutputTyped, Whole
<1>5. Buffered'
  BY <1>1, <1>2 DEF OInv, Buffered
<1>6. Settled'
  BY <1>1 DEF Settled
<1>7. QED
  BY <1>3, <1>4, <1>5, <1>6 DEF OInv

LEMMA IEnds == ASSUME IInv, Report \/ Terminated PROVE IInv'
<1> USE DEF IInv
<1>1. /\ adapter \in {"failing", "ending"} /\ writing = 0 /\ Drain
      /\ \/ adapter' = "ending" /\ reported' = Len(forwarded')
         \/ adapter' = "serving" /\ reported' = reported
      /\ UNCHANGED <<program, pc, depth, mode, breakpoints, verified, printed, buf, writing, client_vars>>
  BY DEF Report, Terminated
<1>2. buf = <<>>
  BY <1>1, EmptySeq DEF OInv, OutputTyped, Settled
<1>3. OutputTyped' /\ Whole' /\ pipe' = <<>>
  BY <1>1, Drained DEF OInv, OutputTyped
<1>4. Len(forwarded') = printed
  BY <1>1, <1>2, AllShown DEF Drain
<1>5. Buffered'
  BY <1>1, <1>3, BoundsAssumption DEF OInv, Buffered
<1>6. Settled'
  BY <1>1, <1>2, <1>3, <1>4, EmptySeq DEF Settled
<1>7. TInv'
  BY <1>1, <1>3, BoundsAssumption DEF TInv, TypeOK, DepthAt, client_vars
<1>8. QED
  BY <1>3, <1>5, <1>6, <1>7 DEF OInv

LEMMA INext == ASSUME IInv, [Next]_vars PROVE IInv'
<1>1. CASE UNCHANGED vars
  BY <1>1 DEF vars, adapter_vars, output_vars, client_vars, IInv, TInv, TypeOK, DepthAt, OInv,
              OutputTyped, Buffered, Settled, Whole
<1>2. CASE Next
  BY <1>2, IServe, IMarker, IPrint, IWrite, ICallReturn, IRunEnds, IEnds DEF Next, Adapter
<1>3. QED
  BY <1>1, <1>2

LEMMA Inductive == Spec => []IInv
  BY IInit, INext, PTL DEF Spec

(* ---- theorems ------------------------------------------------------------------ *)

\* Whatever the client asks and whenever it hangs up, the state stays within its
\* types: buffer and pipe within their capacities, the program on a call stack
\* that is never empty.
THEOREM TypeCorrect == Spec => []TypeOK
<1>1. IInv => TypeOK
  BY DEF IInv, TInv
<1>2. QED
  BY <1>1, Inductive, PTL

\* No text is lost, doubled or reordered between print and the client, over any
\* number of stops and launches, for every pipe and buffer size; a fault is told
\* after everything the program printed (src/src/dap.rs, launch, drain_output).
THEOREM NothingLost == Spec => []OutputConserved
<1>1. IInv => OutputConserved
  BY DEF IInv, OInv, Settled, Whole, OutputConserved
<1>2. QED
  BY <1>1, Inductive, PTL

\* At a stop the client has been shown every line that ended before it
\* (src/src/dap.rs, on_debug_line).
THEOREM ShownInTime == Spec => []ShownAtStop
<1>1. IInv => ShownAtStop
  BY DEF IInv, OInv, Settled, Buffered, ShownAtStop
<1>2. QED
  BY <1>1, Inductive, PTL
=============================================================================

-------------------------------- MODULE Dap --------------------------------
(***************************************************************************)
(* kotlin --dap (src/dap.rs): one thread that is, in turn, the server of   *)
(* debug requests and the program being debugged.  While the program runs  *)
(* its stdout is a pipe that the same thread empties only when it stops at *)
(* a marker or ends; requests wait in stdin meanwhile.  The client is the  *)
(* editor: it asks, and answers a stop by resuming or by hanging up.       *)
(***************************************************************************)
EXTENDS Naturals, Sequences, FiniteSets

CONSTANTS Programs,  \* the programs that may be launched: what they do, in order
          Lines,     \* source lines
          PipeCap,   \* what the pipe holds before a write to it blocks
          BufCap,    \* what stdout's line buffer holds
          LineSets,  \* bound: the sets of lines the client sets breakpoints on
          MaxAsked,  \* bound: requests the client makes
          MaxPending \* bound: requests that wait in stdin

\* A program is its run: statement markers, prints (with or without the end of
\* a line), calls and returns, and a fault no catch handles.
Op == [ op : {"marker", "print", "println", "call", "return", "fault"}, line : Lines \cup {0} ]

Resuming == {"continue", "next", "stepIn", "stepOut"}
\* A launch names the program, a file that cannot be read, or nothing; so do breakpoints,
\* and those of nothing are those of a file that cannot be read.
Request == [ command : Resuming \cup {"disconnect", "threads"}, lines : {{}}, path : {"program"} ]
             \cup [ command : {"launch"}, lines : {{}}, path : {"program", "unreadable", ""} ]
             \cup [ command : {"setBreakpoints"}, lines : LineSets, path : {"program", "unreadable"} ]
Mode == [ kind : {"Continue", "StepIn", "StepOver", "StepOut"}, depth : Nat ]

\* How often a run has come to an operation before its i-th.
Times(p, name, i) == Cardinality({j \in 1..(i - 1) : p[j].op = name})

\* A marker stands on a line, and a frame returns that was called.
Run(p) ==
  \A i \in DOMAIN p : /\ p[i].op = "marker" => p[i].line # 0
                      /\ p[i].op = "return" => Times(p, "return", i) < Times(p, "call", i)

ASSUME BoundsAssumption ==
  /\ PipeCap \in Nat \ {0} /\ BufCap \in Nat \ {0} /\ MaxAsked \in Nat /\ MaxPending \in Nat \ {0}
  /\ LineSets \subseteq SUBSET Lines /\ 0 \notin Lines
  /\ \A p \in Programs : p \in Seq(Op) /\ Run(p)

VARIABLES program,     \* the source file, constant over a run
          adapter,     \* where the thread is: "serving", "running", "stopped", "failing", "ending", "gone"
          pc, depth,   \* the running program: next operation, call depth
          mode,        \* DebugState.mode
          breakpoints, verified,
          printed,     \* how many texts the program printed
          buf,         \* stdout's line buffer: printed, not yet written
          writing,     \* how much of buf a write in progress still has to write
          pipe,        \* the pipe's contents
          forwarded,   \* what output events carried to the client
          reported,    \* how much the client had been shown when it heard of a fault
          terminated,  \* the terminated event was sent
          inbox,       \* requests in stdin, not yet read
          asked,       \* requests the client made
          hungUp       \* stdin is at its end

adapter_vars == <<adapter, pc, depth, mode, breakpoints, verified, terminated>>
output_vars == <<printed, buf, writing, pipe, forwarded, reported>>
client_vars == <<inbox, asked, hungUp>>
vars == <<program, adapter_vars, output_vars, client_vars>>

Init ==
  /\ program \in Programs
  /\ adapter = "serving" /\ pc = 1 /\ depth = 1
  /\ mode = [kind |-> "Continue", depth |-> 0]
  /\ breakpoints = {} /\ verified = {}
  /\ printed = 0 /\ buf = <<>> /\ writing = 0 /\ pipe = <<>> /\ forwarded = <<>>
  /\ reported = 0 /\ terminated = FALSE
  /\ inbox = <<>> /\ asked = 0 /\ hungUp = FALSE

(* ---- the client ---------------------------------------------------------- *)

Ask(r) ==
  /\ ~hungUp /\ asked < MaxAsked /\ Len(inbox) < MaxPending
  /\ inbox' = Append(inbox, r)
  /\ asked' = asked + 1
  /\ UNCHANGED <<program, adapter_vars, output_vars, hungUp>>

HangUp ==
  /\ ~hungUp
  /\ hungUp' = TRUE
  /\ UNCHANGED <<program, adapter_vars, output_vars, inbox, asked>>

\* A client that is shown a stop resumes or hangs up.
AnswerStop ==
  /\ adapter = "stopped" /\ inbox = <<>>
  /\ \/ \E c \in Resuming : Ask([command |-> c, lines |-> {}, path |-> "program"])
     \/ HangUp

Client == HangUp \/ \E r \in Request : Ask(r)

(* ---- serving requests ----------------------------------------------------- *)

marker_lines(path) ==
  IF path # "program" THEN {}
  ELSE {program[i].line : i \in {j \in DOMAIN program : program[j].op = "marker"}}

Received == inbox # <<>>
Took == inbox' = Tail(inbox) /\ UNCHANGED <<asked, hungUp>>

\* The whole set is replaced, whoever serves the request.
SetBreakpoints ==
  /\ adapter \in {"serving", "stopped"} /\ Received /\ Head(inbox).command = "setBreakpoints"
  /\ breakpoints' = Head(inbox).lines
  /\ verified' = marker_lines(Head(inbox).path)
  /\ Took
  /\ UNCHANGED <<program, adapter, pc, depth, mode, terminated, output_vars>>

\* Requests that are answered and change nothing; run's loop also answers the
\* resuming ones and a launch of nothing, and the stopped loop any launch.
JustAnswer ==
  /\ \/ adapter = "serving" /\ Received /\ Head(inbox).command \in Resuming \cup {"threads"}
     \/ adapter = "serving" /\ Received /\ Head(inbox).command = "launch" /\ Head(inbox).path = ""
     \/ adapter = "stopped" /\ Received /\ Head(inbox).command \in {"threads", "launch"}
  /\ Took
  /\ UNCHANGED <<program, adapter_vars, output_vars>>

\* launch runs the program before the next request is read.
Launch ==
  /\ adapter = "serving" /\ Received /\ Head(inbox).command = "launch" /\ Head(inbox).path = "program"
  /\ adapter' = "running" /\ pc' = 1 /\ depth' = 1
  /\ mode' = [kind |-> "Continue", depth |-> 0]
  /\ terminated' = FALSE
  /\ Took
  /\ UNCHANGED <<program, breakpoints, verified, output_vars>>

\* A launch of a file that cannot be read is over at once; stdout is left alone.
LaunchFails ==
  /\ adapter = "serving" /\ Received /\ Head(inbox).command = "launch" /\ Head(inbox).path = "unreadable"
  /\ terminated' = TRUE
  /\ Took
  /\ UNCHANGED <<program, adapter, pc, depth, mode, breakpoints, verified, output_vars>>

Resume ==
  /\ adapter = "stopped" /\ Received /\ Head(inbox).command \in Resuming \cup {"disconnect"}
  /\ mode' = CASE Head(inbox).command = "next"    -> [kind |-> "StepOver", depth |-> depth]
               [] Head(inbox).command = "stepIn"  -> [kind |-> "StepIn", depth |-> 0]
               [] Head(inbox).command = "stepOut" -> [kind |-> "StepOut", depth |-> depth]
               [] OTHER                           -> [kind |-> "Continue", depth |-> 0]
  /\ adapter' = "running"
  /\ Took
  /\ UNCHANGED <<program, pc, depth, breakpoints, verified, terminated, output_vars>>

\* Mutation: a stopped program goes on waiting for a request that cannot come.
AfterEofStuck(place) == IF place = "stopped" THEN "stopped" ELSE "gone"
\* The end of stdin: a stopped program runs on, the server leaves.
AfterEof(place) == IF place = "stopped" THEN "running" ELSE "gone"
EndOfInput ==
  /\ hungUp /\ inbox = <<>> /\ adapter \in {"serving", "stopped"}
  /\ adapter' = AfterEof(adapter)
  /\ mode' = IF adapter = "stopped" THEN [kind |-> "Continue", depth |-> 0] ELSE mode
  /\ UNCHANGED <<program, pc, depth, breakpoints, verified, terminated, output_vars, client_vars>>

Disconnect ==
  /\ adapter = "serving" /\ Received /\ Head(inbox).command = "disconnect"
  /\ adapter' = "gone"
  /\ Took
  /\ UNCHANGED <<program, pc, depth, mode, breakpoints, verified, terminated, output_vars>>

(* ---- the program ----------------------------------------------------------- *)

At(ops) == adapter = "running" /\ writing = 0 /\ pc \in DOMAIN program /\ program[pc].op \in ops

\* on_debug_line: a breakpoint that can fire, or the target of a step.
StopsHere ==
  \/ program[pc].line \in breakpoints \cap verified
  \/ CASE mode.kind = "Continue" -> FALSE
       [] mode.kind = "StepIn"   -> TRUE
       [] mode.kind = "StepOver" -> depth <= mode.depth
       [] mode.kind = "StepOut"  -> depth < mode.depth

\* Mutation: what the pipe holds is left in it.
DrainNot == UNCHANGED <<pipe, forwarded>>
\* drain_output: everything the pipe holds, without waiting for more.
Drain ==
  /\ forwarded' = forwarded \o pipe
  /\ pipe' = <<>>

Marker ==
  /\ At({"marker"})
  /\ pc' = pc + 1
  /\ IF StopsHere THEN adapter' = "stopped" /\ Drain ELSE UNCHANGED <<adapter, pipe, forwarded>>
  /\ UNCHANGED <<program, depth, mode, breakpoints, verified, terminated,
                 printed, buf, writing, reported, client_vars>>

\* Mutation: the end of a line stays in the buffer.
LineEndedNot(ln) == FALSE
LineEnded(ln) == ln = "println"
Full(b) == Len(b) >= BufCap
\* print and println: the line buffer is written out at the end of a line, or
\* when it is full.
PrintText ==
  /\ At({"print", "println"})
  /\ printed' = printed + 1
  /\ buf' = Append(buf, [nr |-> printed + 1, ends |-> program[pc].op = "println"])
  /\ writing' = IF LineEnded(program[pc].op) \/ Full(buf') THEN Len(buf') ELSE 0
  /\ pc' = pc + 1
  /\ UNCHANGED <<program, adapter, depth, mode, breakpoints, verified, terminated,
                 pipe, forwarded, reported, client_vars>>

\* A write to a full pipe blocks the thread.
Write ==
  /\ writing > 0 /\ Len(pipe) < PipeCap
  /\ pipe' = Append(pipe, Head(buf))
  /\ buf' = Tail(buf)
  /\ writing' = writing - 1
  /\ UNCHANGED <<program, adapter_vars, printed, forwarded, reported, client_vars>>

CallReturn ==
  /\ At({"call", "return"})
  /\ depth' = IF program[pc].op = "call" THEN depth + 1 ELSE depth - 1
  /\ pc' = pc + 1
  /\ UNCHANGED <<program, adapter, mode, breakpoints, verified, terminated, output_vars, client_vars>>

\* Mutation: launch does not flush.
ToFlushNot == 0
ToFlush == Len(buf)
\* run_debug is over: launch flushes stdout into the pipe.
RunEnds ==
  /\ adapter = "running" /\ writing = 0
  /\ \/ pc \notin DOMAIN program /\ adapter' = "ending"
     \/ pc \in DOMAIN program /\ program[pc].op = "fault" /\ adapter' = "failing"
  /\ writing' = ToFlush
  /\ UNCHANGED <<program, pc, depth, mode, breakpoints, verified, terminated,
                 printed, buf, pipe, forwarded, reported, client_vars>>

\* A fault is told to the client after what the program printed.
Report ==
  /\ adapter = "failing" /\ writing = 0
  /\ Drain
  /\ reported' = Len(forwarded')
  /\ adapter' = "ending"
  /\ UNCHANGED <<program, pc, depth, mode, breakpoints, verified, terminated,
                 printed, buf, writing, client_vars>>

\* Then launch drains once more, gives stdout back and says that it is over.
Terminated ==
  /\ adapter = "ending" /\ writing = 0
  /\ Drain
  /\ terminated' = TRUE
  /\ adapter' = "serving"
  /\ UNCHANGED <<program, pc, depth, mode, breakpoints, verified, printed, buf, writing,
                 reported, client_vars>>

Adapter ==
  \/ SetBreakpoints \/ JustAnswer \/ Launch \/ LaunchFails \/ Resume \/ EndOfInput \/ Disconnect
  \/ Marker \/ PrintText \/ Write \/ CallReturn \/ RunEnds \/ Report \/ Terminated

Next == Client \/ Adapter

\* The thread goes on while it can.  A client answers a stop, and one that
\* disconnected hangs up in the end.
Left == asked = MaxAsked
Spec == Init /\ [][Next]_vars /\ WF_vars(Adapter) /\ WF_vars(AnswerStop) /\ WF_vars(Left /\ HangUp)

(* ---- properties -------------------------------------------------------------- *)

\* Every part of the state within its type; a program never runs on an empty
\* call stack.
TypeOK ==
  /\ adapter \in {"serving", "running", "stopped", "failing", "ending", "gone"}
  /\ pc \in 1..Len(program) + 1 /\ depth \in Nat \ {0}
  /\ mode \in Mode
  /\ breakpoints \subseteq Lines /\ verified \subseteq Lines
  /\ writing \in 0..Len(buf) /\ Len(buf) <= BufCap /\ Len(pipe) <= PipeCap
  /\ inbox \in Seq(Request) /\ asked \in 0..MaxAsked

Texts(s) == [i \in DOMAIN s |-> s[i].nr]

\* No text is lost, doubled or reordered on its way from print to the client,
\* over any number of stops; when the client is told of a fault, and when it is
\* told that the program ended, it has been shown all of it.
OutputConserved ==
  /\ Texts(forwarded \o pipe \o buf) = [i \in 1..printed |-> i]
  /\ adapter = "ending" /\ pc \in DOMAIN program => reported = printed
  /\ adapter \in {"serving", "gone"} => buf = <<>> /\ pipe = <<>>

\* A stop never shows stale output: whatever ended a line before it has
\* reached the client before the client hears of the stop.
ShownAtStop ==
  adapter = "stopped" => pipe = <<>> /\ \A i \in DOMAIN buf : ~buf[i].ends

\* A launched program comes to its end, and the client is told.
Ends == (adapter = "running") ~> terminated

(* ---- the programs of run dap: a main of three lines whose second line calls a
   function of two lines, with different amounts of output on the way ------- *)

At0(name) == [op |-> name, line |-> 0]
Mark(l) == [op |-> "marker", line |-> l]

Calling(before, inside, last) ==
  <<Mark(1)>> \o before \o <<Mark(2), At0("call"), Mark(4)>> \o inside \o
  <<Mark(5), At0("return"), Mark(3)>> \o last

\* No breakpoint, one in the function, one on the call and one on the line after it.
MCLineSets == {{}, {4}, {2, 3}}

Texts0 == {<<>>, <<At0("print")>>, <<At0("println")>>, <<At0("print"), At0("println")>>}
QuietPrograms == {Calling(x, <<At0("print")>>, z) : x \in Texts0, z \in {<<At0("println")>>, <<At0("fault")>>}}
                 \cup {<<At0("fault")>>} \* one that does not compile
\* More lines than the pipe holds, and no stop in between.
ChattyPrograms == {<<Mark(1)>> \o [i \in 1..PipeCap + 1 |-> At0("println")]}
=============================================================================

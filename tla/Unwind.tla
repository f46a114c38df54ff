------------------------------- MODULE Unwind -------------------------------
(***************************************************************************)
(* The exception machine of kotlinrs: the run-time half of the protocol    *)
(* that src/host.rs describes under "Exception unwinding".  fusevm has no   *)
(* unwind opcode, so an in-flight exception is a host-side value (pending) *)
(* and every statement of a chunk ends in a compiled check that walks it   *)
(* outward.  The machine runs one chunk: the operations are those of       *)
(* src/compiler.rs (module Lowering emits them), each with the effect its  *)
(* builtin in src/host.rs has.  Operand values are kept only where they     *)
(* can be observed: what is printed and what a function returns.           *)
(***************************************************************************)
EXTENDS Naturals, Sequences

CONSTANTS Chunks,   \* the chunks that may be run
          Val,      \* operand values
          Exc,      \* throwables
          Fun,      \* names of the functions a non-local return may target
          Slot,     \* slot numbers of a frame
          Undef,    \* fusevm's Value::Undef, a value
          Marker,   \* the throwable "$return" a non-local return raises
          None      \* no throwable, no non-local return, no report

(***************************************************************************)
(* Every operation has the same fields: the target of a jump or a call, an *)
(* argument value, the throwable it names, a function, a slot, a count,    *)
(* the number of finalizers of this frame running at the operation         *)
(* (parked) and the operands it finds above the frame's base (depth); the  *)
(* last two are the compiler's static picture, the machine ignores them.   *)
(* A frame's parked field is likewise only a record: the length of the     *)
(* stash when the frame was entered.                                       *)
(***************************************************************************)
OpName == { "load", "pop", "set", "get", "jump", "jumpNotPending", "println",
            "store", "throw", "fault", "match", "take", "depth", "cut", "stash",
            "unstash", "abort", "nlrRaise", "nlrMatch", "nlrTake", "call",
            "return", "invoke", "count", "test", "jumpIfFalse", "jumpIfTrue", "exit" }

Op == [ op : OpName, to : Nat, arg : Val, exc : Exc,
        fun : Fun, slot : Slot, n : Nat, parked : Nat, depth : Nat ]

Frame == [ ret : Nat, base : Nat, vals : [Slot -> Val], nums : [Slot -> Nat],
           parked : Nat ]

Host == [ kind : {"each", "catching"}, left : Nat, entry : Nat, frame : Nat, ip : Nat ]

ASSUME ConstantsAssumption ==
  /\ Undef \in Val
  /\ Marker \in Exc /\ "Throwable" \in Exc
  /\ None \notin Exc /\ None \notin Fun
  /\ "false" \in Val /\ "true" \in Val
  /\ \A c \in Chunks : c.ops \in Seq(Op) /\ c.catchable \in BOOLEAN

VARIABLES chunk,    \* the chunk being run, constant over a run
          pc,       \* vm.ip
          stack,    \* vm.stack
          frames,   \* vm.frames
          hosts,    \* the host builtins that called back into the VM (RUN_SUB_IPS)
          pending,  \* PENDING: the throwable unwinding, or None
          stash,    \* STASH: what each running finalizer parked
          nlr,      \* NLR: target and value of the non-local return in flight
          out,      \* the effects, in order: what was printed, added or assigned
          report,   \* KT_ERROR: the uncaught throwable, or None
          status    \* "run", then "ok" or "halted"

vars == <<chunk, pc, stack, frames, hosts, pending, stash, nlr, out, report, status>>
host_vars == <<pending, stash, nlr, report, status>>

End == Len(chunk.ops) + 1
Cur == chunk.ops[pc]
Top == frames[Len(frames)]
Front(s) == SubSeq(s, 1, Len(s) - 1)
Tip(s) == s[Len(s)]
Truncate(s, n) == IF n <= Len(s) THEN SubSeq(s, 1, n) ELSE s

unwinding == pending # None

NewFrame(ret, base) ==
  [ ret |-> ret, base |-> base, vals |-> [s \in Slot |-> Undef],
    nums |-> [s \in Slot |-> 0], parked |-> Len(stash) ]

Init ==
  /\ chunk \in Chunks
  /\ pc = 1
  /\ stack = <<>>
  /\ frames = << [ ret |-> 0, base |-> 0, vals |-> [s \in Slot |-> Undef],
                   nums |-> [s \in Slot |-> 0], parked |-> 0 ] >>
  /\ hosts = <<>>
  /\ pending = None
  /\ stash = <<>>
  /\ nlr = None
  /\ out = <<>>
  /\ report = None
  /\ status = "run"

At(name) == status = "run" /\ pc \in DOMAIN chunk.ops /\ Cur.op = name

(* ---- fusevm operations ------------------------------------------------ *)

Load ==
  /\ At("load")
  /\ stack' = Append(stack, Cur.arg)
  /\ pc' = pc + 1
  /\ UNCHANGED <<chunk, frames, hosts, out, host_vars>>

Pop ==
  /\ At("pop")
  /\ stack # <<>>
  /\ stack' = Front(stack)
  /\ pc' = pc + 1
  /\ UNCHANGED <<chunk, frames, hosts, out, host_vars>>

SetSlot ==
  /\ At("set")
  /\ stack # <<>>
  /\ frames' = [frames EXCEPT ![Len(frames)].vals[Cur.slot] = Tip(stack)]
  /\ stack' = Front(stack)
  /\ pc' = pc + 1
  /\ UNCHANGED <<chunk, hosts, out, host_vars>>

GetSlot ==
  /\ At("get")
  /\ stack' = Append(stack, Top.vals[Cur.slot])
  /\ pc' = pc + 1
  /\ UNCHANGED <<chunk, frames, hosts, out, host_vars>>

Jump ==
  /\ At("jump")
  /\ pc' = Cur.to
  /\ UNCHANGED <<chunk, stack, frames, hosts, out, host_vars>>

\* The counter of a counted loop: reset (n = 0), or advanced by its step up
\* to n, one past the loop's bound, where it stays.
Count ==
  /\ At("count")
  /\ frames' = [frames EXCEPT ![Len(frames)].nums[Cur.slot] =
                  IF Cur.n = 0 THEN 1 ELSE IF @ < Cur.n THEN @ + 1 ELSE @]
  /\ pc' = pc + 1
  /\ UNCHANGED <<chunk, stack, hosts, out, host_vars>>

\* A bounds test.  Over the operand an abandoned call left behind, the
\* comparison answers garbage.
Test ==
  /\ At("test")
  /\ stack # <<>>
  /\ \E b \in {"true", "false"} :
       /\ (Tip(stack) # Undef \/ ~unwinding) =>
            (b = "true") = (Top.nums[Cur.slot] <= Cur.n)
       /\ stack' = Append(Front(stack), b)
  /\ pc' = pc + 1
  /\ UNCHANGED <<chunk, frames, hosts, out, host_vars>>

JumpIf(name, b) ==
  /\ At(name)
  /\ stack # <<>>
  /\ pc' = IF Tip(stack) = b THEN Cur.to ELSE pc + 1
  /\ stack' = Front(stack)
  /\ UNCHANGED <<chunk, frames, hosts, out, host_vars>>

JumpIfFalse == JumpIf("jumpIfFalse", "false")
JumpIfTrue == JumpIf("jumpIfTrue", "true")

Call ==
  /\ At("call")
  /\ frames' = Append(frames, NewFrame(pc + 1, Len(stack)))
  /\ pc' = Cur.to
  /\ UNCHANGED <<chunk, stack, hosts, out, host_vars>>

\* ReturnValue truncates the stack to the frame's base, so what an abandoned
\* statement left on it is dropped with the frame.
Return ==
  /\ At("return")
  /\ Len(frames) > 1
  /\ stack # <<>>
  /\ stack' = Append(Truncate(Front(stack), Top.base), Tip(stack))
  /\ pc' = Top.ret
  /\ frames' = Front(frames)
  /\ UNCHANGED <<chunk, hosts, out, host_vars>>

(* ---- raising ---------------------------------------------------------- *)

\* raise: dropped while another throwable unwinds; parked for the compiled
\* checks in a program that can catch; else reported, and the run halts.
Raise(e) ==
  IF unwinding THEN UNCHANGED <<pending, report, status>>
  ELSE IF chunk.catchable
       THEN pending' = e /\ UNCHANGED <<report, status>>
       ELSE report' = e /\ status' = "halted" /\ UNCHANGED pending

Throw ==
  /\ At("throw")
  /\ Raise(Cur.exc)
  /\ stack' = Append(stack, Undef)
  /\ pc' = pc + 1
  /\ UNCHANGED <<chunk, frames, hosts, stash, nlr, out>>

\* A runtime fault that names a JVM throwable: the same outcome as a throw,
\* by way of fault and throwable_from_message.
Fault ==
  /\ At("fault")
  /\ Raise(Cur.exc)
  /\ stack' = Append(stack, Undef)
  /\ pc' = pc + 1
  /\ UNCHANGED <<chunk, frames, hosts, stash, nlr, out>>

Println ==
  /\ At("println")
  /\ stack # <<>>
  /\ out' = IF unwinding THEN out ELSE Append(out, Tip(stack))
  /\ stack' = Append(Front(stack), Undef)
  /\ pc' = pc + 1
  /\ UNCHANGED <<chunk, frames, hosts, host_vars>>

\* A value written where it outlives the statement: a variable's SetSlot, or
\* a builtin that mutates a collection.  Neither asks whether a throwable is
\* in flight.
Store ==
  /\ At("store")
  /\ stack # <<>>
  /\ out' = Append(out, Tip(stack))
  /\ stack' = Front(stack)
  /\ pc' = pc + 1
  /\ UNCHANGED <<chunk, frames, hosts, host_vars>>

(* ---- the unwind protocol ---------------------------------------------- *)

JumpNotPending ==
  /\ At("jumpNotPending")
  /\ pc' = IF unwinding THEN pc + 1 ELSE Cur.to
  /\ UNCHANGED <<chunk, stack, frames, hosts, out, host_vars>>

Catches(ty, e) == e # Marker /\ (ty = "Throwable" \/ ty = e)

\* KT_EXC_MATCH and the jump to the next arm.
Match ==
  /\ At("match")
  /\ pc' = IF unwinding /\ Catches(Cur.exc, pending) THEN pc + 1 ELSE Cur.to
  /\ UNCHANGED <<chunk, stack, frames, hosts, out, host_vars>>

Take ==
  /\ At("take")
  /\ pending' = None
  /\ pc' = pc + 1
  /\ UNCHANGED <<chunk, stack, frames, hosts, stash, nlr, out, report, status>>

Depth ==
  /\ At("depth")
  /\ frames' = [frames EXCEPT ![Len(frames)].nums[Cur.slot] = Len(stack)]
  /\ pc' = pc + 1
  /\ UNCHANGED <<chunk, stack, hosts, out, host_vars>>

\* Mutation: the operands of the abandoned statement stay.
CutNothing ==
  /\ At("cut")
  /\ pc' = pc + 1
  /\ UNCHANGED <<chunk, stack, frames, hosts, out, host_vars>>

Cut ==
  /\ At("cut")
  /\ stack' = Truncate(stack, Top.nums[Cur.slot])
  /\ pc' = pc + 1
  /\ UNCHANGED <<chunk, frames, hosts, out, host_vars>>

Stash ==
  /\ At("stash")
  /\ stash' = Append(stash, pending)
  /\ pending' = None
  /\ pc' = pc + 1
  /\ UNCHANGED <<chunk, stack, frames, hosts, nlr, out, report, status>>

\* Mutation: the parked entry is read and not popped.
UnstashPeek ==
  /\ At("unstash")
  /\ LET parked == IF stash = <<>> THEN None ELSE Tip(stash)
     IN  pending' = IF unwinding THEN pending ELSE parked
  /\ pc' = pc + 1
  /\ UNCHANGED <<chunk, stack, frames, hosts, stash, nlr, out, report, status>>

\* A throwable the finalizer itself raised replaces the parked one.
Unstash ==
  /\ At("unstash")
  /\ LET parked == IF stash = <<>> THEN None ELSE Tip(stash)
     IN  pending' = IF unwinding THEN pending ELSE parked
  /\ stash' = IF stash = <<>> THEN stash ELSE Front(stash)
  /\ pc' = pc + 1
  /\ UNCHANGED <<chunk, stack, frames, hosts, nlr, out, report, status>>

Abort ==
  /\ At("abort")
  /\ report' = pending
  /\ pending' = None
  /\ status' = "halted"
  /\ UNCHANGED <<chunk, pc, stack, frames, hosts, stash, nlr, out>>

(* ---- non-local return -------------------------------------------------- *)

\* Mutation: the two operands popped in the wrong order.
NlrRaiseSwapped ==
  /\ At("nlrRaise")
  /\ stack # <<>>
  /\ IF unwinding
     THEN UNCHANGED <<nlr, pending, report, status>>
     ELSE nlr' = [fun |-> Tip(stack), val |-> Cur.fun] /\ Raise(Marker)
  /\ stack' = Append(Front(stack), Undef)
  /\ pc' = pc + 1
  /\ UNCHANGED <<chunk, frames, hosts, stash, out>>

NlrRaise ==
  /\ At("nlrRaise")
  /\ stack # <<>>
  /\ IF unwinding
     THEN UNCHANGED <<nlr, pending, report, status>>
     ELSE nlr' = [fun |-> Cur.fun, val |-> Tip(stack)] /\ Raise(Marker)
  /\ stack' = Append(Front(stack), Undef)
  /\ pc' = pc + 1
  /\ UNCHANGED <<chunk, frames, hosts, stash, out>>

NlrAimsAt(f) == pending = Marker /\ nlr # None /\ nlr.fun = f

\* Mutation: asking for the target consumes it.
NlrMatchTakes ==
  /\ At("nlrMatch")
  /\ pc' = IF NlrAimsAt(Cur.fun) THEN pc + 1 ELSE Cur.to
  /\ nlr' = None
  /\ UNCHANGED <<chunk, stack, frames, hosts, out, pending, stash, report, status>>

NlrMatch ==
  /\ At("nlrMatch")
  /\ pc' = IF NlrAimsAt(Cur.fun) THEN pc + 1 ELSE Cur.to
  /\ UNCHANGED <<chunk, stack, frames, hosts, out, host_vars>>

NlrTake ==
  /\ At("nlrTake")
  /\ stack' = Append(stack, IF nlr = None THEN Undef ELSE nlr.val)
  /\ pending' = None
  /\ nlr' = None
  /\ pc' = pc + 1
  /\ UNCHANGED <<chunk, frames, hosts, stash, out, report, status>>

(* ---- host builtins that call a lambda ---------------------------------- *)

\* invoke_closure through run_sub: a frame whose return address is past the
\* end of the chunk, so that its ReturnValue ends the nested run.
Enter(h) ==
  /\ frames' = Append(frames, NewFrame(End, Len(stack)))
  /\ hosts' = Append(hosts, h)
  /\ pc' = h.entry

\* forEach over n elements (n > 0) and runCatching (n = 0).
Invoke ==
  /\ At("invoke")
  /\ IF unwinding
     THEN /\ stack' = Append(stack, Undef)
          /\ pc' = pc + 1
          /\ UNCHANGED <<frames, hosts>>
     ELSE /\ Enter([ kind |-> IF Cur.n = 0 THEN "catching" ELSE "each",
                     left |-> Cur.n, entry |-> Cur.to,
                     frame |-> Len(frames) + 1, ip |-> pc + 1 ])
          /\ UNCHANGED stack
  /\ UNCHANGED <<chunk, out, host_vars>>

Nested == status = "run" /\ pc = End /\ hosts # <<>>

\* forEach goes on to its next element; while a throwable unwinds the
\* remaining invocations are no-ops, so the builtin just finishes.
EachNext ==
  /\ Nested /\ Tip(hosts).kind = "each"
  /\ stack # <<>>
  /\ IF Tip(hosts).left > 1 /\ ~unwinding
     THEN /\ stack' = Front(stack)
          /\ frames' = Append(frames, NewFrame(End, Len(stack) - 1))
          /\ hosts' = [hosts EXCEPT ![Len(hosts)].left = @ - 1]
          /\ pc' = Tip(hosts).entry
     ELSE /\ stack' = Append(Front(stack), Undef)
          /\ hosts' = Front(hosts)
          /\ pc' = Tip(hosts).ip
          /\ UNCHANGED frames
  /\ UNCHANGED <<chunk, out, host_vars>>

\* Mutation: runCatching takes a non-local return too.
CaughtTakesAll ==
  /\ Nested /\ Tip(hosts).kind = "catching"
  /\ stack # <<>>
  /\ pending' = None
  /\ stack' = Append(Front(stack), Undef)
  /\ hosts' = Front(hosts)
  /\ pc' = Tip(hosts).ip
  /\ UNCHANGED <<chunk, frames, stash, nlr, out, report, status>>

\* runCatching takes what its block raised, but lets a non-local return pass.
Caught ==
  /\ Nested /\ Tip(hosts).kind = "catching"
  /\ stack # <<>>
  /\ pending' = IF pending = Marker THEN pending ELSE None
  /\ stack' = Append(Front(stack), Undef)
  /\ hosts' = Front(hosts)
  /\ pc' = Tip(hosts).ip
  /\ UNCHANGED <<chunk, frames, stash, nlr, out, report, status>>

\* The jump to the end of the chunk that follows the call of main.
Finish ==
  /\ At("exit")
  /\ status' = "ok"
  /\ UNCHANGED <<chunk, pc, stack, frames, hosts, pending, stash, nlr, out, report>>

Step ==
  \/ Load \/ Pop \/ SetSlot \/ GetSlot \/ Jump \/ Count \/ Test
  \/ JumpIfFalse \/ JumpIfTrue \/ Call \/ Return
  \/ Throw \/ Fault \/ Println \/ Store
  \/ JumpNotPending \/ Match \/ Take \/ Depth \/ Cut \/ Stash \/ Unstash \/ Abort
  \/ NlrRaise \/ NlrMatch \/ NlrTake
  \/ Invoke \/ EachNext \/ Caught \/ Finish

\* The run is over: the process exits.
Stopped == status # "run" /\ UNCHANGED vars

Next == Step \/ Stopped

Spec == Init /\ [][Next]_vars
FairSpec == Spec /\ WF_vars(Step)

(***************************************************************************)
(* The discipline the static picture of a chunk must have for the stash to *)
(* be balanced: a verifier for the code the compiler emits, one condition   *)
(* per operation and its successors.                                        *)
(***************************************************************************)
WellParkedOp(ops, i) ==
  LET o == ops[i]
      Flows(j, n) == j \in 1..Len(ops) /\ ops[j].parked = n
  IN  CASE o.op \in {"abort", "exit"} -> TRUE
        [] o.op = "return" -> o.parked = 0
        [] o.op = "jump" -> Flows(o.to, o.parked)
        [] o.op \in {"jumpNotPending", "match", "nlrMatch", "jumpIfFalse", "jumpIfTrue"} ->
             Flows(o.to, o.parked) /\ Flows(i + 1, o.parked)
        [] o.op \in {"call", "invoke"} -> Flows(o.to, 0) /\ Flows(i + 1, o.parked)
        [] o.op = "stash" -> Flows(i + 1, o.parked + 1)
        [] o.op = "unstash" -> o.parked > 0 /\ Flows(i + 1, o.parked - 1)
        [] OTHER -> Flows(i + 1, o.parked)

WellParked(c) ==
  /\ Len(c.ops) > 0 /\ c.ops[1].parked = 0
  /\ \A i \in 1..Len(c.ops) : WellParkedOp(c.ops, i)

(***************************************************************************)
(* What the compiler knows of the operand stack where an operation is      *)
(* reached: how many operands the frame holds at least; whether exactly     *)
(* that many ("yes"), exactly that many unless a throwable is in flight     *)
(* ("calm": a statement abandoned on the way here left more), or not even   *)
(* then ("no"); whether a throwable is in flight ("none", "some", "any");   *)
(* which slots hold a depth saved in this frame, and how deep it was; and   *)
(* whether the frame is the outermost.                                      *)
(***************************************************************************)
Fact == [ depth : Nat, exact : {"yes", "calm", "no"}, flight : {"none", "some", "any"},
          marks : SUBSET (Slot \X Nat), outer : BOOLEAN ]

Entered == [ depth |-> 0, exact |-> "yes", flight |-> "any", marks |-> {}, outer |-> FALSE ]
Started == [Entered EXCEPT !.flight = "none", !.outer = TRUE]

\* What is known at p is enough for what is claimed at q.
Implies(p, q) ==
  /\ q.depth <= p.depth
  /\ q.exact = "yes" => p.exact = "yes" /\ q.depth = p.depth
  /\ q.exact = "calm" => p.flight = "some" \/ (p.exact # "no" /\ q.depth = p.depth)
  /\ q.flight \in {"any", p.flight}
  /\ q.marks \subseteq p.marks
  /\ q.outer => p.outer

Holding(p, n) == [p EXCEPT !.depth = n]
\* A throwable may have been raised, or is no longer in flight.
Raised(p) == [p EXCEPT !.flight = IF @ = "some" THEN "some" ELSE "any"]
Settled(p) == [p EXCEPT !.flight = "none", !.exact = IF @ = "yes" THEN "yes" ELSE "no"]
Answered(p) == [p EXCEPT !.depth = @ + 1, !.flight = "any"]
Without(marks, s) == { k \in marks : k[1] # s }

Drops == {"pop", "set", "store", "jumpIfFalse", "jumpIfTrue"}
Needs == Drops \cup {"println", "test", "nlrRaise", "return"}

\* What the operation o, reached with p, leaves for the operation behind it ...
Behind(o, p) ==
  CASE o.op \in {"load", "get"} -> Holding(p, p.depth + 1)
    [] o.op \in {"throw", "fault"} -> Raised(Holding(p, p.depth + 1))
    [] o.op \in Drops -> Holding(p, p.depth - 1)
    [] o.op \in {"nlrRaise", "unstash"} -> Raised(p)
    [] o.op = "jumpNotPending" -> [p EXCEPT !.flight = "some"]
    [] o.op \in {"take", "stash"} -> Settled(p)
    [] o.op = "nlrTake" -> Settled(Holding(p, p.depth + 1))
    [] o.op = "depth" -> [p EXCEPT !.marks = Without(@, o.slot) \cup {<<o.slot, p.depth>>}]
    [] o.op = "cut" -> [p EXCEPT !.exact = "yes"]
    [] o.op = "count" -> [p EXCEPT !.marks = Without(@, o.slot)]
    [] o.op \in {"call", "invoke"} -> Answered(p)
    [] OTHER -> p

\* ... and for the operation it names.
Ahead(o, p) ==
  CASE o.op \in {"call", "invoke"} -> Entered
    [] o.op = "jumpNotPending" -> [p EXCEPT !.exact = "yes", !.flight = "none"]
    [] o.op \in {"jumpIfFalse", "jumpIfTrue"} -> Holding(p, p.depth - 1)
    [] OTHER -> p

Falls == OpName \ {"jump", "return", "abort", "exit"}
Names == {"jump", "jumpNotPending", "match", "nlrMatch", "jumpIfFalse", "jumpIfTrue",
          "call", "invoke"}

\* An operation finds the operands it pops; a call is made, a depth saved and
\* cut back to, where the operands are known; a check comes where its statement
\* says they are balanced; the program ends in main, with nothing in flight.
Able(c, o, p) ==
  /\ o.op \in Needs => p.depth > 0
  /\ o.op \in {"call", "invoke", "depth"} => p.exact = "yes"
  /\ o.op = "jumpNotPending" => p.exact # "no" /\ p.depth = o.depth
  /\ o.op = "cut" => <<o.slot, p.depth>> \in p.marks
  /\ o.op = "exit" => p.outer /\ (c.catchable => p.flight = "none") /\ o.parked = 0

SizedOp(c, a, i) ==
  LET o == c.ops[i]
      Leads(j, q) == j \in DOMAIN a /\ Implies(q, a[j])
  IN  /\ Able(c, o, a[i])
      /\ o.op \in Falls => Leads(i + 1, Behind(o, a[i]))
      /\ o.op \in Names => Leads(o.to, Ahead(o, a[i]))

\* a says what is known at every operation that can be reached.
SizedBy(c, a) ==
  /\ 1 \in DOMAIN a /\ Implies(Started, a[1])
  /\ \A i \in DOMAIN a : SizedOp(c, a, i)

Sized(c) == \E reached \in SUBSET (1..Len(c.ops)) : \E a \in [reached -> Fact] : SizedBy(c, a)

\* What the compiler emits keeps that discipline: every path out of a finalizer,
\* normal or exceptional, runs its unstash exactly once, and no jump enters or
\* leaves one in between (src/src/compiler.rs, emit_finally, route_loop_exit).
Verified == WellParked(chunk)

(***************************************************************************)
(* Types.                                                                  *)
(***************************************************************************)
TypeOK ==
  /\ pc \in Nat
  /\ stack \in Seq(Val)
  /\ frames \in Seq(Frame) \ {<<>>}
  /\ hosts \in Seq(Host)
  /\ pending \in Exc \cup {None}
  /\ stash \in Seq(Exc \cup {None})
  /\ nlr \in [fun : Fun, val : Val] \cup {None}
  /\ out \in Seq(Val)
  /\ report \in Exc \cup {None}
  /\ status \in {"run", "ok", "halted"}

(***************************************************************************)
(* Properties.                                                             *)
(***************************************************************************)

\* Every finalizer that is running owns one entry of the stash, and nothing
\* else does: at each operation the stash is as long as it was when the frame
\* was entered plus the finalizers of this frame that enclose the operation.
\* An entry too many or too few hands a later finalizer another one's parked
\* exception (src/src/host.rs, STASH; src/src/compiler.rs, emit_finally).
ParkedBalanced ==
  status = "run" /\ pc \in DOMAIN chunk.ops => Len(stash) = Top.parked + Cur.parked

\* "A statement boundary is the only point where the operand stack is known
\* to be balanced": at the check that follows a statement which completed
\* normally, the frame holds exactly the operands of the expressions the
\* statement is nested in (src/src/compiler.rs, Exception unwinding).
BoundaryBalanced ==
  At("jumpNotPending") /\ ~unwinding => Len(stack) = Top.base + Cur.depth

\* A non-local return that unwinds, or that waits for a finalizer to end, has
\* its target and value at hand: else no frame claims it (src/src/host.rs, NLR).
ReturnHasTarget ==
  pending = Marker \/ (\E i \in 1..Len(stash) : stash[i] = Marker) => nlr # None

\* A run that ended normally left nothing parked and nothing in flight.
NothingLeftOver == status = "ok" => stash = <<>> /\ pending = None /\ nlr = None

\* Every program of these ends: no check is missing on a path that would
\* otherwise go round on a garbage value.
Terminates == <>(status # "run")

=============================================================================

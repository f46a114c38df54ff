----------------------------- MODULE Coroutine -----------------------------
(***************************************************************************)
(* sequence { ... } and iterator { ... } blocks as src/host.rs runs them:  *)
(* consumer and blocks share ONE machine.  A pull (coro_next) puts the     *)
(* block's parked frames and operands on top of the consumer's and runs    *)
(* the machine; a yield halts it, and the pull lifts them off again.       *)
(* PENDING, STASH and YIELDED are the host's, one each for everybody.      *)
(* The programs are ones that contain a try, so a fault parks in pending.  *)
(***************************************************************************)
EXTENDS Machine, FiniteSets

CONSTANTS Chunks,   \* the chunks that may be run
          Limit     \* NESTED_RUN_LIMIT

ASSUME ChunksAssumption ==
  /\ Limit \in Nat
  /\ \A c \in Chunks :
       /\ c.ops \in Seq(Op) /\ c.main \in Nat
       /\ \A k \in Iter : c.block[k].entry \in Nat /\ c.block[k].captures \in Seq(Val)
  /\ "main" \notin Iter

VARIABLES chunk,    \* the chunk being run, constant over a run
          vm,       \* vm.ip, vm.frames, vm.stack and the host's nested runs
          halted,   \* vm's halt flag
          coros,    \* HeapObj::Coro of each iterator
          ahead,    \* HeapObj::CoroIter's cell: what hasNext ran ahead for
          yielded,  \* YIELDED
          pending,  \* PENDING
          stash,    \* STASH
          line,     \* the pulls in progress: their places in vm.runs, and how many
                    \* entries were parked at each (history: the native call stack)
          out       \* what was printed

vars == <<chunk, vm, halted, coros, ahead, yielded, pending, stash, line, out>>
switch_vars == <<halted, coros, ahead, yielded, line>>

Coro == [ state : {"Fresh", "Suspended", "Done"}, ip : Nat,
          frames : Seq(Frame), stack : Seq(Val) ]

depth == Len(vm.runs)                       \* NESTED_DEPTH
Full == depth >= Limit                      \* the guard before every nested run
unwinding == pending # None
Fault(e) == IF unwinding THEN pending ELSE e
Cur == OpAt(chunk, vm)
At(names) == ~halted /\ vm.ip \in DOMAIN chunk.ops /\ Cur.op \in names

Init ==
  /\ chunk \in Chunks
  /\ vm = Enter(NoMachine, chunk.main, End(chunk), 0)
  /\ halted = FALSE
  /\ coros = [k \in Iter |-> [state |-> "Fresh", ip |-> 0, frames |-> <<>>, stack |-> <<>>]]
  /\ ahead = [k \in Iter |-> None]
  /\ yielded = None
  /\ pending = None
  /\ stash = <<>>
  /\ line = <<>>
  /\ out = <<>>

(* ---- operations of one context ------------------------------------------ *)

Local ==
  /\ At(LocalOps)
  /\ vm' = After(chunk, vm)
  /\ UNCHANGED <<chunk, switch_vars, pending, stash, out>>

Println ==
  /\ At({"println"})
  /\ out' = IF unwinding THEN out ELSE Append(out, Tip(vm.stack))
  /\ vm' = Advance(Push(PopOne(vm), Undef))
  /\ UNCHANGED <<chunk, switch_vars, pending, stash>>

Raise ==
  /\ At({"raise"})
  /\ pending' = Fault(Cur.exc)
  /\ vm' = Advance(Push(vm, Undef))
  /\ UNCHANGED <<chunk, switch_vars, stash, out>>

\* A compiled unwind check: out to the handler or the end of the frame.
Check ==
  /\ At({"check"})
  /\ vm' = [vm EXCEPT !.ip = IF unwinding THEN Cur.to ELSE @ + 1]
  /\ UNCHANGED <<chunk, switch_vars, pending, stash, out>>

Take ==
  /\ At({"take"})
  /\ pending' = None
  /\ vm' = Advance(vm)
  /\ UNCHANGED <<chunk, switch_vars, stash, out>>

\* A try saves the depth of the whole stack in a slot of its frame,
Saved(f, n) == [f EXCEPT !.depth = n, !.own = n - f.base]
Depth ==
  /\ At({"depth"})
  /\ vm' = Advance([vm EXCEPT !.frames[Len(vm.frames)] = Saved(@, Len(vm.stack))])
  /\ UNCHANGED <<chunk, switch_vars, pending, stash, out>>

\* and its handler cuts the stack back to it.
Cut ==
  /\ At({"cut"})
  /\ vm' = Advance([vm EXCEPT !.stack = Truncate(@, Top(vm).depth)])
  /\ UNCHANGED <<chunk, switch_vars, pending, stash, out>>

(* ---- the context switch -------------------------------------------------- *)

Stash ==
  /\ At({"stash"})
  /\ stash' = Append(stash, pending)
  /\ pending' = None
  /\ vm' = Advance(vm)
  /\ UNCHANGED <<chunk, switch_vars, out>>

Unstash ==
  /\ At({"unstash"})
  /\ pending' = Fault(IF stash = <<>> THEN None ELSE stash[Len(stash)])
  /\ stash' = IF stash = <<>> THEN stash ELSE Front(stash)
  /\ vm' = Advance(vm)
  /\ UNCHANGED <<chunk, switch_vars, out>>

ForEach ==
  /\ At({"each"})
  /\ IF Full
     THEN pending' = Fault("StackOverflowError") /\ vm' = Refused(chunk, vm)
     ELSE UNCHANGED pending /\ vm' = Element(chunk, Each(vm, Cur.n), unwinding)
  /\ UNCHANGED <<chunk, switch_vars, stash, out>>

\* A run of forEach's closure is over: it returned, or the machine halted under
\* it.  VM::run pops one value on its way out.
NextElement ==
  /\ vm.runs # <<>> /\ vm.runs[depth].kind = "each"
  /\ halted \/ vm.ip = End(chunk)
  /\ vm' = Element(chunk, PopOne(vm), unwinding)
  /\ UNCHANGED <<chunk, switch_vars, pending, stash, out>>

\* Mutation: the end of a loop's source is an ordinary Unit.
AnswerUnit(m, kind, v) ==
  Push(m, IF v # None THEN v ELSE IF kind = "has" THEN No ELSE Undef)
\* What the member a pull serves answers: v is the element, or None.
AnswerTo(m, kind, v) ==
  Push(m, CASE kind = "next" -> IF v = None THEN Undef ELSE v
            [] kind = "has"  -> IF v = None THEN No ELSE Yes
            [] kind = "pull" -> IF v = None THEN EndMark ELSE v)
\* Mutation: hasNext does not keep the element it ran ahead for.
ParkNothing(kind, v) == None
Park(kind, v) == IF kind = "has" THEN v ELSE None
Missing(kind, v, e) == IF kind = "next" /\ v = None /\ e = None THEN "NoSuchElementException" ELSE e

\* coro_iter_step where no block has to run: the cell holds the element, the
\* block has ended, or coro_next refuses to nest any deeper.
AskKnown ==
  /\ At(Asks)
  /\ LET k == Cur.it
         v == ahead[k]
         refused == v = None /\ coros[k].state # "Done"
     IN  /\ v # None \/ coros[k].state = "Done" \/ Full
         /\ pending' = Missing(Cur.op, v, IF refused THEN Fault("StackOverflowError") ELSE pending)
         /\ ahead' = [ahead EXCEPT ![k] = Park(Cur.op, v)]
         /\ vm' = AnswerTo(Advance(vm), Cur.op, v)
  /\ UNCHANGED <<chunk, halted, coros, yielded, stash, line, out>>

Pulled(m, k) ==
  [m EXCEPT !.runs = Append(@, [kind |-> Cur.op, it |-> k, left |-> 0, base |-> Len(m.stack),
                                frame |-> Len(m.frames), ip |-> m.ip + 1])]
Rebase(fs, by) == [i \in DOMAIN fs |-> [fs[i] EXCEPT !.base = @ + by]]
EnterBlock(m, k) ==
  LET bare == Enter(Pulled(m, k), chunk.block[k].entry, End(chunk), Len(m.stack))
  IN  [bare EXCEPT !.stack = @ \o chunk.block[k].captures]
\* Mutation: parked frames go back where they were, not where the stack ends.
RestoreLow(m, k) ==
  [Pulled(m, k) EXCEPT !.stack = @ \o coros[k].stack, !.frames = @ \o coros[k].frames,
                       !.ip = coros[k].ip]
Restore(m, k) ==
  [Pulled(m, k) EXCEPT !.stack = @ \o coros[k].stack,
                       !.frames = @ \o Rebase(coros[k].frames, Len(m.stack)),
                       !.ip = coros[k].ip]

\* coro_next up to its vm.run(): a fresh block is entered with its captures, a
\* parked one put back.  Nobody asks whether a throwable is unwinding.
AskBlock ==
  /\ At(Asks)
  /\ LET k == Cur.it
     IN  /\ ahead[k] = None /\ coros[k].state # "Done" /\ ~Full
         /\ vm' = IF coros[k].state = "Fresh" THEN EnterBlock(vm, k) ELSE Restore(vm, k)
  /\ line' = Append(line, [place |-> depth + 1, parked |-> Len(stash)])
  /\ yielded' = None
  /\ UNCHANGED <<chunk, halted, coros, ahead, pending, stash, out>>

\* KT_YIELD: hand the value over, leave Unit for the resumption and a sentinel
\* for the pop of VM::run, and halt.
Yield ==
  /\ At({"yield"})
  /\ yielded' = Tip(vm.stack)
  /\ vm' = Advance(Push(Push(PopOne(vm), Undef), Undef))
  /\ halted' = TRUE
  /\ UNCHANGED <<chunk, coros, ahead, pending, stash, line, out>>

Ended(c) == [c EXCEPT !.state = "Done"]
\* coro_next after its vm.run(), and the member that called it.  A value in
\* YIELDED says the block parked: its frames and operands are lifted off.
Back ==
  /\ vm.runs # <<>> /\ vm.runs[depth].kind # "each"
  /\ halted \/ vm.ip = End(chunk)
  /\ LET r == vm.runs[depth]
         s == Front(vm.stack)
         parked == [state |-> "Suspended", ip |-> vm.ip, stack |-> Drop(s, r.base),
                    frames |-> Rebase(Drop(vm.frames, r.frame), -r.base)]
     IN  /\ coros' = [coros EXCEPT ![r.it] = IF yielded # None THEN parked ELSE Ended(@)]
         /\ vm' = AnswerTo([ip |-> r.ip, frames |-> Truncate(vm.frames, r.frame),
                            stack |-> Truncate(s, r.base), runs |-> Front(vm.runs)],
                           r.kind, yielded)
         /\ ahead' = [ahead EXCEPT ![r.it] = Park(r.kind, yielded)]
         /\ pending' = Missing(r.kind, yielded, pending)
  /\ line' = Front(line)
  /\ halted' = (halted /\ yielded = None)
  /\ yielded' = None
  /\ UNCHANGED <<chunk, stash, out>>

Next ==
  \/ Local \/ Println \/ Raise \/ Check \/ Take \/ Depth \/ Cut \/ Stash \/ Unstash
  \/ ForEach \/ NextElement \/ AskKnown \/ AskBlock \/ Yield \/ Back

Spec == Init /\ [][Next]_vars
\* The dispatch loop always runs the next operation.
FairSpec == Spec /\ WF_vars(Next)

(* ---- what the compiler leaves behind --------------------------------------- *)

\* A map of a chunk says of each operation how many operands its frame has at
\* least and how many the depth saved in the frame spares (Lost: none is sure),
\* and which operations run where a yield may park them.
Lost == -1
Positions(c) == 1..Len(c.ops)
Maps(c) == [ height : [Positions(c) -> Nat], saved : [Positions(c) -> Nat \cup {Lost}],
             yields : SUBSET Positions(c) ]

Fits(a, j, n, d) == a.height[j] <= n /\ a.saved[j] <= d
Entered(c, a, e, n) == e \in Positions(c) /\ Fits(a, e, n, Lost)
Goes(c, a, i, j, n, d) == j \in Positions(c) /\ Fits(a, j, n, d) /\ (j \in a.yields => i \in a.yields)

\* The operation finds the operands it pops above its frame's base, and leaves
\* what the next one expects.  A parked frame comes back on another base, where
\* the depth it saved means nothing; a forEach closure never parks.
OpVerified(c, a, i) ==
  LET o == c.ops[i]
      h == a.height[i]
      s == a.saved[i]
  IN  /\ o.op \in {"load", "get", "raise", "call", "each"} \cup Asks => Goes(c, a, i, i + 1, h + 1, s)
      /\ o.op \in {"pop", "set", "jumpIfEnd"} => h >= 1 /\ Goes(c, a, i, i + 1, h - 1, s)
      /\ o.op = "jumpIfEnd" => Goes(c, a, i, o.to, h - 1, s)
      /\ o.op \in {"inc", "println"} => h >= 1 /\ Goes(c, a, i, i + 1, h, s)
      /\ o.op \in {"take", "stash", "unstash", "check"} => Goes(c, a, i, i + 1, h, s)
      /\ o.op \in {"jump", "check"} => Goes(c, a, i, o.to, h, s)
      /\ o.op = "depth" => Goes(c, a, i, i + 1, h, h)
      /\ o.op = "cut" => s # Lost /\ Goes(c, a, i, i + 1, h, s) /\ Goes(c, a, i, i + 1, s, s)
      /\ o.op = "call" => /\ Entered(c, a, o.to, 0)
                          /\ (o.to \in a.yields => i \in a.yields /\ a.saved[i + 1] = Lost)
      /\ o.op = "each" => Entered(c, a, o.to, 1) /\ o.to \notin a.yields /\ o.n <= 9
      /\ o.op = "return" => h >= 1
      /\ o.op = "yield" => i \in a.yields /\ h >= 1 /\ Goes(c, a, i, i + 1, h, Lost)

Verified(c, a) ==
  /\ \A i \in Positions(c) : OpVerified(c, a, i)
  /\ Entered(c, a, c.main, 0) /\ c.main \notin a.yields
  /\ \A k \in Iter : Entered(c, a, c.block[k].entry, Len(c.block[k].captures))

Balanced(c) == \E a \in Maps(c) : Verified(c, a)

\* What it takes for the contexts to stay apart although PENDING and STASH are
\* one for all: an account of a chunk says where no throwable can be in flight,
\* how many finalizers the frame has open, and an order in which blocks are
\* asked.
Accounts(c) == [ calm : SUBSET Positions(c), parks : [Positions(c) -> Nat],
                 rank : [Positions(c) -> Nat] ]

Follows(b, i, j, n) == b.parks[j] = n /\ b.rank[j] <= b.rank[i]
StaysCalm(b, i, j) == j \in b.calm => i \in b.calm

\* An element is asked for where nothing is in flight, of a block further down
\* the order; a frame is left, and a block parked, with no finalizer open.
OpApart(c, a, b, i) ==
  LET o == c.ops[i]
      n == b.parks[i]
  IN  /\ o.op \notin {"jump", "return", "stash", "unstash"} => Follows(b, i, i + 1, n)
      /\ o.op \in {"jump", "jumpIfEnd", "check"} => Follows(b, i, o.to, n)
      /\ o.op = "stash" => Follows(b, i, i + 1, n + 1)
      /\ o.op = "unstash" => n > 0 /\ Follows(b, i, i + 1, n - 1)
      /\ o.op \in {"return", "yield"} => n = 0
      /\ o.op \in {"call", "each"} => Follows(b, i, o.to, 0)
      /\ o.op = "call" /\ o.to \in a.yields => n = 0
      /\ o.op \in {"load", "pop", "set", "get", "inc", "println", "depth", "cut", "jumpIfEnd"} =>
           StaysCalm(b, i, i + 1)
      /\ o.op \in {"jump", "jumpIfEnd", "call"} => StaysCalm(b, i, o.to)
      /\ o.op \in {"raise", "unstash", "call", "each"} \cup Asks => i + 1 \notin b.calm
      /\ o.op = "check" => o.to \notin b.calm
      /\ o.op \in Asks => i \in b.calm /\ b.rank[c.block[o.it].entry] < b.rank[i]

Apart(c, a, b) ==
  /\ \A i \in Positions(c) : OpApart(c, a, b, i)
  /\ b.parks[c.main] = 0 /\ \A k \in Iter : b.parks[c.block[k].entry] = 0

Disciplined(c) == \E a \in Maps(c), b \in Accounts(c) : Verified(c, a) /\ Apart(c, a, b)

(* ---- properties ----------------------------------------------------------- *)

\* vm, the parked blocks and the host's cells stay within their types; a block
\* that was never entered, or that is over, has nothing ahead to hand out twice.
TypeOK ==
  /\ vm.ip \in 1..End(chunk) /\ vm.frames \in Seq(Frame) /\ vm.stack \in Seq(Val)
  /\ vm.runs \in Seq(Run) /\ depth <= Limit
  /\ coros \in [Iter -> Coro]
  /\ ahead \in [Iter -> Val \cup {None}]
  /\ yielded \in Val \cup {None} /\ pending \in Exc \cup {None}
  /\ halted = (yielded # None)
  /\ \A k \in Iter : ahead[k] # None => coros[k].state = "Suspended"

\* Every frame starts where the ones below it cannot reach, and every pull
\* finds the operands its consumer had: split_off never gets past the end.
BasesNested ==
  /\ \A i \in DOMAIN vm.frames : vm.frames[i].base <= Len(vm.stack)
  /\ \A i, j \in DOMAIN vm.frames : i < j => vm.frames[i].base <= vm.frames[j].base
  /\ \A i \in DOMAIN vm.runs : vm.runs[i].base <= Len(vm.stack)
  /\ \A k \in Iter : \A i \in DOMAIN coros[k].frames :
       coros[k].frames[i].base \in 0..Len(coros[k].stack)

\* Whoever runs, the operands and the frames below the run it is in, or below
\* any other run in progress, stay as they are.
Kept(m, n) ==
  \A i \in DOMAIN m.runs :
    /\ SubSeq(n.stack, 1, m.runs[i].base) = SubSeq(m.stack, 1, m.runs[i].base)
    /\ SubSeq(n.frames, 1, m.runs[i].frame) = SubSeq(m.frames, 1, m.runs[i].frame)
Undisturbed == [][Kept(vm, vm')]_vars

(* ---- the promise: OwnMachines ---------------------------------------------- *)

\* The pulls in progress, who runs in each, and where its part of the machine
\* begins.
Waiting == Len(line)
Pull(i) == vm.runs[line[i].place]
Context(i) == IF i = 0 THEN "main" ELSE Pull(i).it
Level(i) == IF i = 0 THEN [base |-> 0, frame |-> 0, place |-> 0, parked |-> 0]
            ELSE [ base |-> Pull(i).base, frame |-> Pull(i).frame,
                   place |-> line[i].place, parked |-> line[i].parked ]

\* The machine as the consumer of the i-th pull left it, and as the i-th
\* context in line has it: the one that runs has everything (the sentinel of a
\* yield is nobody's).
Paused(i) == [ ip |-> Pull(i).ip, frames |-> Truncate(vm.frames, Pull(i).frame),
               stack |-> Truncate(vm.stack, Pull(i).base),
               runs |-> Truncate(vm.runs, line[i].place - 1) ]
Whole(i) == IF i < Waiting THEN Paused(i + 1) ELSE IF halted THEN PopOne(vm) ELSE vm

\* What of m lies above a pull is a machine of its own.
OwnFrame(f, base) == [f EXCEPT !.base = @ - base, !.depth = 0]
OwnRun(r, low) == [r EXCEPT !.base = @ - low.base, !.frame = @ - low.frame]
OwnFrames(fs, n, base) == [j \in 1..Len(fs) - n |-> OwnFrame(fs[n + j], base)]
OwnRuns(rs, low) == [j \in 1..Len(rs) - low.place |-> OwnRun(rs[low.place + j], low)]
Own(m, low) ==
  [ ip |-> m.ip, frames |-> OwnFrames(m.frames, low.frame, low.base),
    stack |-> Drop(m.stack, low.base), runs |-> OwnRuns(m.runs, low) ]
Parked(co) ==
  IF co.state # "Suspended" THEN NoMachine
  ELSE [ ip |-> co.ip, frames |-> OwnFrames(co.frames, 0, 0), stack |-> co.stack, runs |-> <<>> ]

InLine == {Context(i) : i \in 0..Waiting}
Place(c) == CHOOSE i \in 0..Waiting : Context(i) = c
Finals(i) == SubSeq(stash, Level(i).parked + 1, IF i < Waiting THEN line[i + 1].parked ELSE Len(stash))
Life(k) == IF k \in InLine THEN "running"
           ELSE CASE coros[k].state = "Fresh" -> "fresh"
                  [] coros[k].state = "Suspended" -> "parked"
                  [] coros[k].state = "Done" -> "done"
Contexts == {"main"} \cup Iter

machine == [c \in Contexts |-> IF c \in InLine THEN Own(Whole(Place(c)), Level(Place(c)))
                               ELSE Parked(coros[c])]
finals == [c \in Contexts |-> IF c \in InLine THEN Finals(Place(c)) ELSE <<>>]
life == [k \in Iter |-> Life(k)]
chain == [i \in 1..Waiting + 1 |->
           [ctx |-> Context(i - 1), kind |-> IF i = 1 THEN "next" ELSE Pull(i - 1).kind]]

Promise == INSTANCE OwnMachines WITH handed <- yielded

\* A block runs as if it had a machine of its own: coro_next's splitting,
\* rebasing and putting back is invisible to consumer and block, the elements
\* arrive in order and once, whoever pulls from wherever.
KeepsPromise == Promise!Init /\ [][Promise!Next]_(Promise!vars)

\* Every program ends: a block that is over says so to whoever keeps asking.
Terminates == <>(vm.frames = <<>>)
=============================================================================

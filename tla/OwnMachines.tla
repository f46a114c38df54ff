---------------------------- MODULE OwnMachines ----------------------------
(***************************************************************************)
(* What a sequence block promises: it runs as if it had a machine of its   *)
(* own.  A pull hands control to the block, which runs to its next yield,  *)
(* and whatever the consumer and the other blocks hold - operands, frames, *)
(* the throwables their finalizers parked - is theirs alone.               *)
(***************************************************************************)
EXTENDS Machine

CONSTANTS Chunks, Limit

VARIABLES chunk,
          machine,  \* one machine per context: the program ("main") and each block
          finals,   \* per context, what its running finalizers parked
          life,     \* per iterator: "fresh", "running", "parked" or "done"
          chain,    \* who runs, and who waits for whom: <<[ctx, kind], ...>>
          depth,    \* the runs in progress: pulls and forEach closures
          handed,   \* the value a yield just handed over, or None
          ahead,    \* per iterator, the element hasNext ran ahead for
          pending,  \* the throwable unwinding, or None
          out

vars == <<chunk, machine, finals, life, chain, depth, handed, ahead, pending, out>>

Ctx == {"main"} \cup Iter
me == chain[Len(chain)].ctx
my == machine[me]
running == handed = None /\ chain # <<>>
At(names) == running /\ my.ip \in DOMAIN chunk.ops /\ OpAt(chunk, my).op \in names
\* My machine is m now, with the runs it started.
Mine(m) == /\ machine' = [machine EXCEPT ![me] = m]
           /\ depth' = depth + Len(m.runs) - Len(my.runs)
quiet == pending # None
Fault(e) == IF quiet THEN pending ELSE e

Init ==
  /\ chunk \in Chunks
  /\ machine = [c \in Ctx |->
       IF c = "main" THEN Enter(NoMachine, chunk.main, End(chunk), 0) ELSE NoMachine]
  /\ finals = [c \in Ctx |-> <<>>]
  /\ life = [k \in Iter |-> "fresh"]
  /\ chain = << [ctx |-> "main", kind |-> "next"] >>
  /\ depth = 0
  /\ handed = None
  /\ ahead = [k \in Iter |-> None]
  /\ pending = None
  /\ out = <<>>

Local ==
  /\ At(LocalOps)
  /\ Mine(After(chunk, my))
  /\ UNCHANGED <<chunk, finals, life, chain, handed, ahead, pending, out>>

Println ==
  /\ At({"println"})
  /\ out' = IF quiet THEN out ELSE Append(out, Tip(my.stack))
  /\ Mine(Advance(Push(PopOne(my), Undef)))
  /\ UNCHANGED <<chunk, finals, life, chain, handed, ahead, pending>>

Raise ==
  /\ At({"raise"})
  /\ pending' = Fault(OpAt(chunk, my).exc)
  /\ Mine(Advance(Push(my, Undef)))
  /\ UNCHANGED <<chunk, finals, life, chain, handed, ahead, out>>

Check ==
  /\ At({"check"})
  /\ Mine([my EXCEPT !.ip = IF quiet THEN OpAt(chunk, my).to ELSE @ + 1])
  /\ UNCHANGED <<chunk, finals, life, chain, handed, ahead, pending, out>>

Take ==
  /\ At({"take"})
  /\ pending' = None
  /\ Mine(Advance(my))
  /\ UNCHANGED <<chunk, finals, life, chain, handed, ahead, out>>

\* A try remembers how many operands of its frame it found,
Depth ==
  /\ At({"depth"})
  /\ Mine(Advance([my EXCEPT !.frames[Len(my.frames)].own = Len(my.stack) - Top(my).base]))
  /\ UNCHANGED <<chunk, finals, life, chain, handed, ahead, pending, out>>

\* and its handler starts with them.
Cut ==
  /\ At({"cut"})
  /\ Mine(Advance([my EXCEPT !.stack = Truncate(@, Top(my).base + Top(my).own)]))
  /\ UNCHANGED <<chunk, finals, life, chain, handed, ahead, pending, out>>

Stash ==
  /\ At({"stash"})
  /\ finals' = [finals EXCEPT ![me] = Append(@, pending)]
  /\ pending' = None
  /\ Mine(Advance(my))
  /\ UNCHANGED <<chunk, life, chain, handed, ahead, out>>

Unstash ==
  /\ At({"unstash"})
  /\ pending' = Fault(finals[me][Len(finals[me])])
  /\ finals' = [finals EXCEPT ![me] = Front(@)]
  /\ Mine(Advance(my))
  /\ UNCHANGED <<chunk, life, chain, handed, ahead, out>>

ForEach ==
  /\ At({"each"})
  /\ IF depth >= Limit
     THEN pending' = Fault("StackOverflowError") /\ Mine(Refused(chunk, my))
     ELSE UNCHANGED pending /\ Mine(Element(chunk, Each(my, OpAt(chunk, my).n), quiet))
  /\ UNCHANGED <<chunk, finals, life, chain, handed, ahead, out>>

NextElement ==
  /\ running /\ my.ip = End(chunk) /\ my.runs # <<>>
  /\ Mine(Element(chunk, PopOne(my), quiet))
  /\ UNCHANGED <<chunk, finals, life, chain, handed, ahead, pending, out>>

\* What the consumer is left with: v is the element, or None at the end.
Answer(m, kind, v) ==
  Push(m, CASE kind = "next" -> IF v = None THEN Undef ELSE v
            [] kind = "has"  -> IF v = None THEN No ELSE Yes
            [] kind = "pull" -> IF v = None THEN EndMark ELSE v)
Held(kind, v) == IF kind = "has" THEN v ELSE None
Missing(kind, v, e) == IF kind = "next" /\ v = None /\ e = None THEN "NoSuchElementException" ELSE e

AskKnown ==
  /\ At(Asks)
  /\ LET o == OpAt(chunk, my)
     IN  /\ ahead[o.it] # None \/ life[o.it] = "done" \/ depth >= Limit
         /\ LET v == ahead[o.it]
                refused == v = None /\ life[o.it] # "done"
            IN  /\ pending' = Missing(o.op, v, IF refused THEN Fault("StackOverflowError") ELSE pending)
                /\ ahead' = [ahead EXCEPT ![o.it] = Held(o.op, v)]
                /\ Mine(Answer(Advance(my), o.op, v))
  /\ UNCHANGED <<chunk, finals, life, chain, handed, out>>

\* A block is only ever entered by code that runs: nothing asks for an
\* element while a throwable unwinds.
AskBlock ==
  /\ At(Asks) /\ ~quiet
  /\ LET o == OpAt(chunk, my)
         k == o.it
         fresh == Enter([NoMachine EXCEPT !.stack = chunk.block[k].captures],
                        chunk.block[k].entry, End(chunk), 0)
     IN  /\ ahead[k] = None /\ life[k] \in {"fresh", "parked"} /\ depth < Limit
         /\ life' = [life EXCEPT ![k] = "running"]
         /\ machine' = [machine EXCEPT ![me] = Advance(@),
                                       ![k] = IF life[k] = "fresh" THEN fresh ELSE @]
         /\ chain' = Append(chain, [ctx |-> k, kind |-> o.op])
         /\ depth' = depth + 1
  /\ UNCHANGED <<chunk, finals, handed, ahead, pending, out>>

Yield ==
  /\ At({"yield"})
  /\ handed' = Tip(my.stack)
  /\ Mine(Advance(Push(PopOne(my), Undef)))
  /\ UNCHANGED <<chunk, finals, life, chain, ahead, pending, out>>

\* Control goes back to the consumer: the block parked at its yield, or ended.
Back ==
  /\ Len(chain) > 1
  /\ handed # None \/ (my.ip = End(chunk) /\ my.runs = <<>>)
  /\ LET kind == chain[Len(chain)].kind
         from == chain[Len(chain) - 1].ctx
     IN  /\ life' = [life EXCEPT ![me] = IF handed # None THEN "parked" ELSE "done"]
         /\ machine' = [machine EXCEPT ![from] = Answer(@, kind, handed),
                                       ![me] = IF handed # None THEN @ ELSE NoMachine]
         /\ ahead' = [ahead EXCEPT ![me] = Held(kind, handed)]
         /\ pending' = Missing(kind, handed, pending)
  /\ chain' = Front(chain)
  /\ depth' = depth - 1
  /\ handed' = None
  /\ UNCHANGED <<chunk, finals, out>>

Next ==
  \/ Local \/ Println \/ Raise \/ Check \/ Take \/ Depth \/ Cut \/ Stash \/ Unstash
  \/ ForEach \/ NextElement \/ AskKnown \/ AskBlock \/ Yield \/ Back

Spec == Init /\ [][Next]_vars
=============================================================================

------------------------- MODULE CoroutineProofs -------------------------
(***************************************************************************)
(* Theorems of module Coroutine, for every set of iterators, values,       *)
(* throwables and chunks the compiler leaves balanced, and every limit of  *)
(* nested runs: types, the nesting of the bases, and that no context ever  *)
(* touches the operands or frames of another.                              *)
(***************************************************************************)
EXTENDS Coroutine, TLAPS, SequenceTheorems

(* ---- sequences ------------------------------------------------------------ *)

LEMMA LenNat ==
  ASSUME NEW S, NEW s \in Seq(S)
  PROVE  /\ Len(s) \in Nat /\ DOMAIN s = 1..Len(s)
         /\ s # <<>> <=> Len(s) > 0
         /\ \A i \in 1..Len(s) : s[i] \in S
  BY LenProperties, EmptySeq, ElementOfSeq

LEMMA FrontSeq ==
  ASSUME NEW S, NEW s \in Seq(S), s # <<>>
  PROVE  /\ Front(s) \in Seq(S)
         /\ Len(Front(s)) = Len(s) - 1
         /\ \A i \in 1..Len(s) - 1 : Front(s)[i] = s[i]
<1> DEFINE n == Len(s) - 1
<1>1. n \in Nat /\ \A i \in 1..n : s[i] \in S
  BY LenNat
<1>2. Front(s) = SubSeq(s, 1, n)
  BY DEF Front
<1> HIDE DEF n
<1>3. /\ SubSeq(s, 1, n) \in Seq(S)
      /\ Len(SubSeq(s, 1, n)) = n
      /\ \A i \in 1..n : SubSeq(s, 1, n)[i] = s[i]
  BY <1>1, SubSeqProperties
<1>4. QED
  BY <1>2, <1>3 DEF n

LEMMA AppendSeq ==
  ASSUME NEW S, NEW s \in Seq(S), NEW e \in S
  PROVE  /\ Append(s, e) \in Seq(S)
         /\ Len(Append(s, e)) = Len(s) + 1
         /\ Append(s, e)[Len(s) + 1] = e
         /\ \A i \in 1..Len(s) : Append(s, e)[i] = s[i]
  BY AppendProperties, LenProperties

LEMMA TruncateSeq ==
  ASSUME NEW S, NEW s \in Seq(S), NEW n \in Nat
  PROVE  /\ Truncate(s, n) \in Seq(S)
         /\ n <= Len(s) => Len(Truncate(s, n)) = n
         /\ n > Len(s) => Len(Truncate(s, n)) = Len(s)
         /\ \A i \in 1..Len(Truncate(s, n)) : Truncate(s, n)[i] = s[i]
<1>1. Len(s) \in Nat /\ \A i \in 1..Len(s) : s[i] \in S
  BY LenNat
<1>2. CASE n <= Len(s)
  BY <1>1, <1>2, SubSeqProperties DEF Truncate
<1>3. CASE ~(n <= Len(s))
  BY <1>1, <1>3 DEF Truncate
<1>4. QED
  BY <1>2, <1>3

LEMMA DropSeq ==
  ASSUME NEW S, NEW s \in Seq(S), NEW n \in Nat, n <= Len(s)
  PROVE  /\ Drop(s, n) \in Seq(S)
         /\ Len(Drop(s, n)) = Len(s) - n
         /\ \A i \in 1..Len(s) - n : Drop(s, n)[i] = s[n + i]
<1>1. Len(s) \in Nat /\ \A i \in 1..Len(s) : s[i] \in S
  BY LenNat
<1>2. /\ SubSeq(s, n + 1, Len(s)) \in Seq(S)
      /\ Len(SubSeq(s, n + 1, Len(s))) = IF n + 1 <= Len(s) THEN Len(s) - (n + 1) + 1 ELSE 0
      /\ \A i \in 1..Len(s) - (n + 1) + 1 : SubSeq(s, n + 1, Len(s))[i] = s[(n + 1) + i - 1]
  BY <1>1, SubSeqProperties
<1>3. QED
  BY <1>1, <1>2 DEF Drop

LEMMA ConcatSeq ==
  ASSUME NEW S, NEW s \in Seq(S), NEW t \in Seq(S)
  PROVE  /\ s \o t \in Seq(S)
         /\ Len(s \o t) = Len(s) + Len(t)
         /\ \A i \in 1..Len(s) : (s \o t)[i] = s[i]
         /\ \A i \in 1..Len(t) : (s \o t)[Len(s) + i] = t[i]
  BY ConcatProperties, LenProperties

LEMMA SameStart ==
  ASSUME NEW S, NEW s \in Seq(S), NEW t \in Seq(S), NEW n \in Nat, n <= Len(s), n <= Len(t),
         \A i \in 1..n : s[i] = t[i]
  PROVE  SubSeq(s, 1, n) = SubSeq(t, 1, n)
<1>1. /\ Len(s) \in Nat /\ \A i \in 1..Len(s) : s[i] \in S
      /\ Len(t) \in Nat /\ \A i \in 1..Len(t) : t[i] \in S
  BY LenNat
<1>2. /\ SubSeq(s, 1, n) \in Seq(S) /\ Len(SubSeq(s, 1, n)) = n
      /\ \A i \in 1..n : SubSeq(s, 1, n)[i] = s[i]
  BY <1>1, SubSeqProperties
<1>3. /\ SubSeq(t, 1, n) \in Seq(S) /\ Len(SubSeq(t, 1, n)) = n
      /\ \A i \in 1..n : SubSeq(t, 1, n)[i] = t[i]
  BY <1>1, SubSeqProperties
<1>4. QED
  BY <1>2, <1>3, SeqEqual

LEMMA TipIn ==
  ASSUME NEW s \in Seq(Val)
  PROVE  Tip(s) \in Val
  BY LenNat, ValuesAssumption DEF Tip

(* ---- the inductive invariant ---------------------------------------------- *)

\* Frame f goes on at p with n operands on the stack.
Rests(c, a, f, p, n) ==
  /\ p \in Positions(c)
  /\ n >= f.base + a.height[p]
  /\ a.saved[p] # Lost => f.depth >= f.base + a.saved[p] /\ f.depth = f.base + f.own

\* The last run below the j-th frame is a pull, and no frame in between relies
\* on a depth it saved: they can be parked together.
Parkable(a, m, j) ==
  \E i \in DOMAIN m.runs :
    /\ m.runs[i].kind # "each" /\ m.runs[i].frame < j
    /\ \A l \in DOMAIN m.runs : i < l => m.runs[l].frame >= j
    /\ \A l \in DOMAIN m.frames : l > m.runs[i].frame + 1 /\ l <= j => a.saved[m.frames[l].ret] = Lost

Based(m) ==
  /\ \A j \in DOMAIN m.frames : m.frames[j].base >= 0
  /\ \A i, j \in DOMAIN m.frames : i < j => m.frames[i].base <= m.frames[j].base

\* The j-th frame was called from the one below it, which can go on.
Called(c, a, m, j) ==
  /\ j > 1
  /\ Rests(c, a, m.frames[j - 1], m.frames[j].ret, m.frames[j].base + 1)
  /\ m.frames[j].ret \in a.yields => Parkable(a, m, j - 1)

\* The j-th frame is the first of a run.
Started(c, m, j) ==
  /\ m.frames[j].ret = End(c)
  /\ j = 1 \/ \E i \in DOMAIN m.runs : m.runs[i].frame = j - 1

FramesLinked(c, a, m) == \A j \in DOMAIN m.frames : Called(c, a, m, j) \/ Started(c, m, j)

RunLinked(c, a, m, r) ==
  /\ r.frame \in DOMAIN m.frames
  /\ Rests(c, a, m.frames[r.frame], r.ip, r.base + 1)
  /\ m.frames[r.frame].base <= r.base
  /\ r.frame < Len(m.frames) => /\ m.frames[r.frame + 1].ret = End(c)
                                /\ m.frames[r.frame + 1].base >= r.base
  /\ r.ip \in a.yields => Parkable(a, m, r.frame)
  /\ r.kind = "each" => /\ r.ip - 1 \in Positions(c) /\ c.ops[r.ip - 1].op = "each"
                        /\ r.left <= c.ops[r.ip - 1].n
  /\ r.kind # "each" => r.it \in Iter

RunsLinked(c, a, m) ==
  /\ \A i, j \in DOMAIN m.runs : i < j => m.runs[i].frame < m.runs[j].frame
  /\ \A i \in DOMAIN m.runs : RunLinked(c, a, m, m.runs[i])

Shape(c, a, m) == Based(m) /\ FramesLinked(c, a, m) /\ RunsLinked(c, a, m)

\* Its top frame runs,
Going(c, a, m) ==
  /\ m.frames # <<>>
  /\ Rests(c, a, Top(m), m.ip, Len(m.stack))
  /\ m.ip \in a.yields => Parkable(a, m, Len(m.frames))
  /\ m.runs # <<>> => m.runs[Len(m.runs)].frame < Len(m.frames)
\* or the last run is over, or the program is.
Over(c, m) ==
  /\ m.ip = End(c)
  /\ IF m.runs = <<>> THEN m.frames = <<>>
     ELSE LET r == m.runs[Len(m.runs)]
          IN  r.frame = Len(m.frames) /\ Len(m.stack) >= r.base + 1
\* A yield halted it.
Halting(c, a, m) ==
  /\ m.frames # <<>> /\ m.stack # <<>>
  /\ Rests(c, a, Top(m), m.ip, Len(m.stack) - 1)
  /\ a.saved[m.ip] = Lost
  /\ Parkable(a, m, Len(m.frames))
  /\ m.runs[Len(m.runs)].frame < Len(m.frames)

MachineOK(c, a, m, stopped) ==
  /\ Shape(c, a, m)
  /\ IF stopped THEN Halting(c, a, m) ELSE Going(c, a, m) \/ Over(c, m)

\* A parked block can be put back.
Within(co) == \A i \in DOMAIN co.frames : co.frames[i].base \in 0..Len(co.stack)
Resumable(c, a, co) ==
  /\ co.frames # <<>>
  /\ Based(co)
  /\ Rests(c, a, Top(co), co.ip, Len(co.stack)) /\ a.saved[co.ip] = Lost
  /\ co.frames[1].ret = End(c)
  /\ \A j \in DOMAIN co.frames : j > 1 =>
       /\ Rests(c, a, co.frames[j - 1], co.frames[j].ret, co.frames[j].base + 1)
       /\ a.saved[co.frames[j].ret] = Lost
BlockOK(c, a, co) == Within(co) /\ (co.state = "Suspended" => Resumable(c, a, co))

MachineType(c) == [ip : 1..End(c), frames : Seq(Frame), stack : Seq(Val), runs : Seq(Run)]
StashType(s) == s \in Seq(Exc \cup {None})

Typed == TypeOK /\ vm \in MachineType(chunk) /\ chunk \in Chunks /\ StashType(stash)
Sound(a) ==
  /\ MachineOK(chunk, a, vm, halted)
  /\ \A k \in Iter : BlockOK(chunk, a, coros[k])

(* ---- constants and types ---------------------------------------------------- *)

LEMMA ChunkTypes ==
  ASSUME NEW c \in Chunks
  PROVE  /\ c.ops \in Seq(Op) /\ c.main \in Nat /\ Len(c.ops) \in Nat
         /\ End(c) \in Nat /\ End(c) = Len(c.ops) + 1 /\ End(c) \notin Positions(c)
         /\ DOMAIN c.ops = Positions(c)
         /\ \A i \in Positions(c) : c.ops[i] \in Op
         /\ \A k \in Iter : c.block[k].entry \in Nat /\ c.block[k].captures \in Seq(Val)
  BY ChunksAssumption, LenNat DEF End, Positions

LEMMA MapTypes ==
  ASSUME NEW c \in Chunks, NEW a \in Maps(c), NEW i \in Positions(c)
  PROVE  a.height[i] \in Nat /\ (a.saved[i] = Lost \/ a.saved[i] \in Nat) /\ a.saved[i] \in Int
  BY DEF Maps, Lost

LEMMA MachineTypes ==
  ASSUME NEW c \in Chunks, NEW m \in MachineType(c)
  PROVE  /\ m.ip \in 1..End(c) /\ m.ip \in Nat
         /\ m.frames \in Seq(Frame) /\ m.stack \in Seq(Val) /\ m.runs \in Seq(Run)
         /\ Len(m.frames) \in Nat /\ Len(m.stack) \in Nat /\ Len(m.runs) \in Nat
         /\ DOMAIN m.frames = 1..Len(m.frames) /\ DOMAIN m.runs = 1..Len(m.runs)
         /\ \A j \in 1..Len(m.frames) : m.frames[j] \in Frame /\ m.frames[j].base \in Int
                                        /\ m.frames[j].ret \in Nat /\ m.frames[j].depth \in Nat /\ m.frames[j].own \in Nat
                                        /\ m.frames[j].slot \in Val
         /\ \A i \in 1..Len(m.runs) : m.runs[i] \in Run /\ m.runs[i].base \in Int
                                      /\ m.runs[i].frame \in Int /\ m.runs[i].ip \in Nat
                                      /\ m.runs[i].left \in Nat
         /\ m.frames # <<>> <=> Len(m.frames) > 0
         /\ m.runs # <<>> <=> Len(m.runs) > 0
<1>1. /\ m.ip \in 1..End(c) /\ m.frames \in Seq(Frame) /\ m.stack \in Seq(Val) /\ m.runs \in Seq(Run)
  BY DEF MachineType
<1>2. /\ \A j \in 1..Len(m.frames) : m.frames[j] \in Frame
      /\ \A i \in 1..Len(m.runs) : m.runs[i] \in Run
      /\ Len(m.frames) \in Nat /\ Len(m.stack) \in Nat /\ Len(m.runs) \in Nat
      /\ DOMAIN m.frames = 1..Len(m.frames) /\ DOMAIN m.runs = 1..Len(m.runs)
      /\ m.frames # <<>> <=> Len(m.frames) > 0
      /\ m.runs # <<>> <=> Len(m.runs) > 0
  BY <1>1, LenNat
<1>3. \A f \in Frame : f.base \in Int /\ f.ret \in Nat /\ f.depth \in Nat /\ f.own \in Nat /\ f.slot \in Val
  BY DEF Frame
<1>4. \A r \in Run : r.base \in Int /\ r.frame \in Int /\ r.ip \in Nat /\ r.left \in Nat
  BY DEF Run
<1>5. End(c) \in Nat
  BY ChunkTypes
<1>6. QED
  BY <1>1, <1>2, <1>3, <1>4, <1>5

\* Room for one operand more is room for what expects at most one more.
LEMMA OneMore ==
  ASSUME NEW x \in Int, NEW y \in Int, NEW h \in Nat, NEW k \in Int, x >= y + h, k <= h + 1
  PROVE  x + 1 >= y + k /\ x >= y
  OBVIOUS

\* A frame that has a depth saved has it still where less is asked of it.
LEMMA StillSaved ==
  ASSUME NEW f \in Frame, NEW s \in Nat \cup {Lost}, NEW t \in Nat \cup {Lost}, t <= s,
         s # Lost => f.depth >= f.base + s /\ f.depth = f.base + f.own
  PROVE  t # Lost => f.depth >= f.base + t /\ f.depth = f.base + f.own
<1>1. f.depth \in Nat /\ f.base \in Int
  BY DEF Frame
<1>2. SUFFICES ASSUME t # Lost
               PROVE  f.depth >= f.base + t /\ f.depth = f.base + f.own
  OBVIOUS
<1>3. s # Lost /\ s \in Nat /\ t \in Nat
  BY <1>2 DEF Lost
<1>4. QED
  BY <1>1, <1>3

(* ---- steps inside one frame --------------------------------------------------- *)

\* Up to its j-th frame, n stands on the same calls and runs as m.
AsBelow(m, n, j) ==
  /\ \A l \in DOMAIN n.frames : l <= j => l \in DOMAIN m.frames /\ n.frames[l].ret = m.frames[l].ret
  /\ \A i \in DOMAIN m.runs : m.runs[i].frame < j =>
       i \in DOMAIN n.runs /\ n.runs[i].frame = m.runs[i].frame /\ n.runs[i].kind = m.runs[i].kind
  /\ \A i \in DOMAIN n.runs :
       (i \in DOMAIN m.runs /\ n.runs[i].frame = m.runs[i].frame) \/ n.runs[i].frame >= j

LEMMA StillParkable ==
  ASSUME NEW a, NEW m, NEW n, NEW j, Parkable(a, m, j), AsBelow(m, n, j)
  PROVE  Parkable(a, n, j)
<1>1. PICK i \in DOMAIN m.runs :
        /\ m.runs[i].kind # "each" /\ m.runs[i].frame < j
        /\ \A l \in DOMAIN m.runs : i < l => m.runs[l].frame >= j
        /\ \A l \in DOMAIN m.frames : l > m.runs[i].frame + 1 /\ l <= j => a.saved[m.frames[l].ret] = Lost
  BY DEF Parkable
<1>2. i \in DOMAIN n.runs /\ n.runs[i].frame = m.runs[i].frame /\ n.runs[i].kind = m.runs[i].kind
  BY <1>1 DEF AsBelow
<1>3. \A l \in DOMAIN n.runs : i < l => n.runs[l].frame >= j
  BY <1>1 DEF AsBelow
<1>4. \A l \in DOMAIN n.frames : l > n.runs[i].frame + 1 /\ l <= j => a.saved[n.frames[l].ret] = Lost
  BY <1>1, <1>2 DEF AsBelow
<1>5. QED
  BY <1>1, <1>2, <1>3, <1>4 DEF Parkable

\* The same frames, but for the slot and the depth of the top one.
SameFrames(m, n) ==
  /\ n.runs = m.runs
  /\ Len(n.frames) = Len(m.frames)
  /\ \A j \in DOMAIN m.frames : n.frames[j].base = m.frames[j].base /\ n.frames[j].ret = m.frames[j].ret
  /\ \A j \in DOMAIN m.frames : j < Len(m.frames) => n.frames[j] = m.frames[j]

LEMMA LastRun ==
  ASSUME NEW c \in Chunks, NEW m \in MachineType(c), m.runs # <<>>
  PROVE  /\ Len(m.runs) \in DOMAIN m.runs /\ Len(m.runs) \in 1..Len(m.runs)
         /\ m.runs[Len(m.runs)] \in Run /\ m.runs[Len(m.runs)].frame \in Int
  BY MachineTypes

\* Every run in progress started below the frame that is running.
LEMMA RunsBelow ==
  ASSUME NEW c \in Chunks, NEW a, NEW m \in MachineType(c), RunsLinked(c, a, m), NEW k \in Int,
         m.runs # <<>> => m.runs[Len(m.runs)].frame <= k, NEW i \in DOMAIN m.runs
  PROVE  m.runs[i].frame <= k /\ (i < Len(m.runs) => m.runs[i].frame < k)
<1>1. /\ Len(m.runs) \in Nat /\ i \in 1..Len(m.runs) /\ m.runs # <<>>
      /\ Len(m.runs) \in DOMAIN m.runs
      /\ \A l \in 1..Len(m.runs) : m.runs[l].frame \in Int
  BY MachineTypes
<1>2. CASE i = Len(m.runs)
  BY <1>1, <1>2
<1>3. CASE i < Len(m.runs)
  <2>1. m.runs[i].frame < m.runs[Len(m.runs)].frame
    BY <1>1, <1>3 DEF RunsLinked
  <2>2. QED
    BY <1>1, <1>3, <2>1
<1>4. QED
  BY <1>1, <1>2, <1>3

LEMMA BelowTop ==
  ASSUME NEW c \in Chunks, NEW a, NEW m \in MachineType(c), Shape(c, a, m), m.frames # <<>>,
         m.runs # <<>> => m.runs[Len(m.runs)].frame < Len(m.frames),
         NEW i \in DOMAIN m.runs
  PROVE  /\ m.runs[i].frame \in Int /\ m.runs[i].frame < Len(m.frames)
         /\ m.runs[i].frame \in DOMAIN m.frames /\ m.runs[i].frame + 1 \in DOMAIN m.frames
<1>1. Len(m.frames) \in Nat /\ DOMAIN m.frames = 1..Len(m.frames) /\ m.runs[i].frame \in Int
  BY MachineTypes
<1>2. Len(m.frames) - 1 \in Int /\ (m.runs # <<>> => m.runs[Len(m.runs)].frame <= Len(m.frames) - 1)
  BY <1>1, LastRun
<1>3. m.runs[i].frame <= Len(m.frames) - 1
  BY <1>2, RunsBelow DEF Shape
<1>4. m.runs[i].frame \in DOMAIN m.frames
  BY DEF Shape, RunsLinked, RunLinked
<1>5. QED
  BY <1>1, <1>3, <1>4

LEMMA BaseBelow ==
  ASSUME NEW c \in Chunks, NEW m \in MachineType(c), Based(m), m.frames # <<>>
  PROVE  /\ Top(m).base \in Int
         /\ \A j \in 1..Len(m.frames) : /\ m.frames[j].base \in Int /\ m.frames[j].base >= 0
                                       /\ m.frames[j].base <= Top(m).base
<1>1. /\ Len(m.frames) \in 1..Len(m.frames) /\ DOMAIN m.frames = 1..Len(m.frames)
      /\ Len(m.frames) \in Nat
      /\ \A j \in 1..Len(m.frames) : m.frames[j].base \in Int
  BY MachineTypes
<1>2. ASSUME NEW j \in 1..Len(m.frames)
      PROVE  m.frames[j].base >= 0 /\ m.frames[j].base <= m.frames[Len(m.frames)].base
  <2>1. CASE j < Len(m.frames)
    BY <1>1, <2>1 DEF Based
  <2>2. CASE j = Len(m.frames)
    BY <1>1, <2>2 DEF Based
  <2>3. QED
    BY <1>1, <2>1, <2>2
<1>3. QED
  BY <1>1, <1>2 DEF Top

LEMMA FrameStep ==
  ASSUME NEW c \in Chunks, NEW a \in Maps(c), NEW m \in MachineType(c), NEW n \in MachineType(c),
         Shape(c, a, m), Going(c, a, m), SameFrames(m, n),
         NEW h \in Int, NEW s \in Int, Goes(c, a, m.ip, n.ip, h, s),
         Len(n.stack) >= Top(n).base + h,
         s # Lost => Top(n).depth >= Top(n).base + s /\ Top(n).depth = Top(n).base + Top(n).own
  PROVE  Shape(c, a, n) /\ Going(c, a, n)
<1>1. DOMAIN n.frames = DOMAIN m.frames /\ n.frames # <<>> /\ DOMAIN m.frames = 1..Len(m.frames)
      /\ Len(m.frames) \in Nat \ {0}
  BY MachineTypes DEF SameFrames, Going
<1>2. \A j : AsBelow(m, n, j)
  BY <1>1, MachineTypes DEF AsBelow, SameFrames
<1>3. \A j : Parkable(a, m, j) => Parkable(a, n, j)
  BY <1>2, StillParkable
<1>4. Based(n)
  BY <1>1 DEF Based, Shape, SameFrames
<1>5. FramesLinked(c, a, n)
  <2>1. SUFFICES ASSUME NEW j \in DOMAIN m.frames
                 PROVE  Called(c, a, n, j) \/ Started(c, n, j)
    BY <1>1 DEF FramesLinked
  <2>2. CASE Called(c, a, m, j)
    <3>1. j - 1 \in DOMAIN m.frames /\ j - 1 < Len(m.frames)
      BY <1>1, <2>2 DEF Called
    <3>2. n.frames[j - 1] = m.frames[j - 1] /\ n.frames[j].ret = m.frames[j].ret
          /\ n.frames[j].base = m.frames[j].base
      BY <3>1 DEF SameFrames
    <3>3. QED
      BY <2>2, <3>2, <1>3 DEF Called
  <2>3. CASE Started(c, m, j)
    BY <2>3 DEF Started, SameFrames
  <2>4. QED
    BY <2>2, <2>3 DEF Shape, FramesLinked
<1>6. RunsLinked(c, a, n)
  <2>1. SUFFICES ASSUME NEW i \in DOMAIN m.runs
                 PROVE  RunLinked(c, a, n, m.runs[i])
    BY DEF RunsLinked, Shape, SameFrames
  <2>2. RunLinked(c, a, m, m.runs[i])
    BY DEF Shape, RunsLinked
  <2>3. m.runs[i].frame < Len(m.frames)
        /\ m.runs[i].frame \in DOMAIN m.frames /\ m.runs[i].frame + 1 \in DOMAIN m.frames
    BY BelowTop DEF Going
  <2>5. n.frames[m.runs[i].frame] = m.frames[m.runs[i].frame]
        /\ n.frames[m.runs[i].frame + 1].ret = m.frames[m.runs[i].frame + 1].ret
        /\ n.frames[m.runs[i].frame + 1].base = m.frames[m.runs[i].frame + 1].base
    BY <2>3 DEF SameFrames
  <2>6. QED
    BY <2>2, <2>3, <2>5, <1>1, <1>3 DEF RunLinked, SameFrames
<1>7. Going(c, a, n)
  <2>1. n.ip \in Positions(c) /\ a.height[n.ip] <= h /\ a.saved[n.ip] <= s
        /\ (n.ip \in a.yields => m.ip \in a.yields)
    BY DEF Goes, Fits
  <2>2. a.height[n.ip] \in Nat /\ (a.saved[n.ip] = Lost \/ a.saved[n.ip] \in Nat)
    BY <2>1, MapTypes
  <2>3. Top(n).base \in Int /\ Top(n).depth \in Nat /\ Top(n).own \in Nat /\ Len(n.stack) \in Nat
    BY <1>1, MachineTypes DEF Top
  <2>4. Len(n.stack) >= Top(n).base + a.height[n.ip]
    BY <2>1, <2>2, <2>3
  <2>5. a.saved[n.ip] # Lost => Top(n).depth >= Top(n).base + a.saved[n.ip] /\ Top(n).depth = Top(n).base + Top(n).own
    <3>1. SUFFICES ASSUME a.saved[n.ip] # Lost
                   PROVE  Top(n).depth >= Top(n).base + a.saved[n.ip] /\ Top(n).depth = Top(n).base + Top(n).own
      OBVIOUS
    <3>2. a.saved[n.ip] \in Nat /\ s # Lost
      BY <2>1, <2>2, <3>1 DEF Lost
    <3>3. QED
      BY <2>1, <2>3, <3>2
  <2>6. Rests(c, a, Top(n), n.ip, Len(n.stack))
    BY <2>1, <2>4, <2>5 DEF Rests
  <2>7. n.ip \in a.yields => Parkable(a, n, Len(n.frames))
    BY <2>1, <1>3 DEF Going, SameFrames
  <2>8. QED
    BY <2>6, <2>7, <1>1 DEF Going, SameFrames
<1>8. QED
  BY <1>4, <1>5, <1>6, <1>7 DEF Shape

(* ---- calls and returns ---------------------------------------------------------- *)

NewFrame(p, b) == [ret |-> p, base |-> b, slot |-> Undef, depth |-> 0, own |-> 0]

LEMMA NewFrameType ==
  ASSUME NEW p \in Nat, NEW b \in Int
  PROVE  NewFrame(p, b) \in Frame
  BY ValuesAssumption DEF NewFrame, Frame

\* The frames of m, and more on top.
Extends(m, n) ==
  /\ Len(n.frames) >= Len(m.frames)
  /\ \A j \in DOMAIN m.frames : n.frames[j] = m.frames[j]

\* What the frames that were there rely on is still there under new ones.
LEMMA OldFrames ==
  ASSUME NEW c \in Chunks, NEW a \in Maps(c), NEW m \in MachineType(c), NEW n \in MachineType(c),
         FramesLinked(c, a, m), Extends(m, n),
         \A j \in DOMAIN m.frames : AsBelow(m, n, j),
         \A i \in DOMAIN m.runs : i \in DOMAIN n.runs /\ n.runs[i].frame = m.runs[i].frame,
         NEW j \in DOMAIN m.frames
  PROVE  Called(c, a, n, j) \/ Started(c, n, j)
<1>1. DOMAIN m.frames = 1..Len(m.frames) /\ DOMAIN n.frames = 1..Len(n.frames)
      /\ Len(m.frames) \in Nat /\ Len(n.frames) \in Nat
  BY MachineTypes
<1>2. n.frames[j] = m.frames[j]
  BY DEF Extends
<1>3. CASE Called(c, a, m, j)
  <2>1. j - 1 \in DOMAIN m.frames
    BY <1>1, <1>3 DEF Called
  <2>2. n.frames[j - 1] = m.frames[j - 1]
    BY <2>1 DEF Extends
  <2>3. Parkable(a, m, j - 1) => Parkable(a, n, j - 1)
    BY <2>1, StillParkable
  <2>4. QED
    BY <1>2, <1>3, <2>2, <2>3 DEF Called
<1>4. CASE Started(c, m, j)
  BY <1>2, <1>4 DEF Started
<1>5. QED
  BY <1>3, <1>4 DEF FramesLinked

LEMMA CallStep ==
  ASSUME NEW c \in Chunks, NEW a \in Maps(c), NEW m \in MachineType(c), NEW n \in MachineType(c),
         Shape(c, a, m), Going(c, a, m),
         n.runs = m.runs, n.stack = m.stack,
         n.frames = Append(m.frames, NewFrame(m.ip + 1, Len(m.stack))),
         Entered(c, a, n.ip, 0),
         Goes(c, a, m.ip, m.ip + 1, a.height[m.ip] + 1, a.saved[m.ip]),
         n.ip \in a.yields => m.ip \in a.yields /\ a.saved[m.ip + 1] = Lost
  PROVE  Shape(c, a, n) /\ Going(c, a, n)
<1> DEFINE L == Len(m.frames)
           f == NewFrame(m.ip + 1, Len(m.stack))
<1>1. /\ L \in Nat \ {0} /\ DOMAIN m.frames = 1..L /\ Len(m.stack) \in Nat /\ m.ip \in Nat
      /\ m.frames \in Seq(Frame)
      /\ m.frames[L].base \in Int /\ m.frames[L].depth \in Nat /\ m.frames[L].own \in Nat
  BY MachineTypes DEF Going
<1>2. f \in Frame /\ f.base = Len(m.stack) /\ f.ret = m.ip + 1 /\ f.depth = 0
  <2>1. f \in Frame
    BY <1>1, NewFrameType
  <2>2. QED
    BY <2>1 DEF NewFrame
<1> HIDE DEF f
<1>3. Len(n.frames) = L + 1 /\ n.frames[L + 1] = f /\ \A j \in 1..L : n.frames[j] = m.frames[j]
  <2>1. n.frames = Append(m.frames, f)
    BY DEF f
  <2>2. QED
    BY <1>1, <1>2, <2>1, AppendSeq
<1>4. DOMAIN n.frames = 1..L + 1 /\ n.frames # <<>>
  <2>1. DOMAIN n.frames = 1..Len(n.frames) /\ (n.frames # <<>> <=> Len(n.frames) > 0)
    BY MachineTypes
  <2>2. QED
    BY <1>1, <1>3, <2>1
<1>5. Extends(m, n)
  BY <1>1, <1>3 DEF Extends
<1>6. \A j \in DOMAIN m.frames : AsBelow(m, n, j)
  BY <1>1, <1>3, <1>4 DEF AsBelow
<1>7. m.ip \in Positions(c) /\ m.ip + 1 \in Positions(c)
  BY DEF Going, Rests, Goes
<1>8. /\ a.height[m.ip] \in Nat /\ a.height[m.ip + 1] \in Nat /\ a.height[n.ip] \in Nat
      /\ a.saved[m.ip + 1] = Lost \/ a.saved[m.ip + 1] \in Nat
      /\ a.saved[m.ip] = Lost \/ a.saved[m.ip] \in Nat
      /\ a.saved[n.ip] = Lost \/ a.saved[n.ip] \in Nat
      /\ n.ip \in Positions(c)
  BY <1>7, MapTypes DEF Entered
<1>9. Len(m.stack) >= m.frames[L].base + a.height[m.ip]
      /\ (a.saved[m.ip] # Lost => m.frames[L].depth >= m.frames[L].base + a.saved[m.ip] /\ m.frames[L].depth = m.frames[L].base + m.frames[L].own)
  BY DEF Going, Rests, Top
<1>10. a.height[m.ip + 1] <= a.height[m.ip] + 1 /\ a.saved[m.ip + 1] <= a.saved[m.ip]
       /\ (m.ip + 1 \in a.yields => m.ip \in a.yields)
  BY DEF Goes, Fits
<1>11. Rests(c, a, m.frames[L], m.ip + 1, Len(m.stack) + 1)
  <2>1. Len(m.stack) + 1 >= m.frames[L].base + a.height[m.ip + 1]
    <3>1. Len(m.stack) \in Int /\ m.frames[L].base \in Int /\ a.height[m.ip] \in Nat /\ a.height[m.ip + 1] \in Int
      BY <1>1, <1>8
    <3>2. QED
      BY <1>9, <1>10, <3>1, OneMore
  <2>2. a.saved[m.ip + 1] # Lost => m.frames[L].depth >= m.frames[L].base + a.saved[m.ip + 1] /\ m.frames[L].depth = m.frames[L].base + m.frames[L].own
    <3>1. m.frames[L] \in Frame
      BY <1>1, LenNat
    <3>2. QED
      BY <1>8, <1>9, <1>10, <3>1, StillSaved
  <2>3. QED
    BY <1>7, <2>1, <2>2 DEF Rests
<1>12. \A j \in DOMAIN m.frames : Parkable(a, m, j) => Parkable(a, n, j)
  BY <1>6, StillParkable
<1>13. Based(n)
  <2>1. \A j \in 1..L : m.frames[j].base \in Int /\ m.frames[j].base >= 0
                        /\ m.frames[j].base <= m.frames[L].base
    BY <1>1, BaseBelow DEF Shape, Top
  <2>2. m.frames[L].base <= Len(m.stack)
    BY <1>1, <1>8, <1>9, SMTT(30)
  <2>3. \A j \in 1..L : n.frames[j].base <= Len(m.stack) /\ n.frames[j].base >= 0
    BY <1>1, <1>3, <2>1, <2>2
  <2>4. \A j \in DOMAIN n.frames : n.frames[j].base >= 0
    BY <1>1, <1>2, <1>3, <1>4, <2>3
  <2>5. ASSUME NEW i \in DOMAIN n.frames, NEW j \in DOMAIN n.frames, i < j
        PROVE  n.frames[i].base <= n.frames[j].base
    <3>1. i \in 1..L /\ i \in DOMAIN m.frames
      BY <1>1, <1>4, <2>5
    <3>2. CASE j = L + 1
      BY <1>2, <1>3, <2>3, <3>1, <3>2
    <3>3. CASE j # L + 1
      <4>1. j \in DOMAIN m.frames
        BY <1>1, <1>4, <3>3
      <4>2. QED
        BY <1>1, <1>3, <2>5, <3>1, <4>1 DEF Shape, Based
    <3>4. QED
      BY <3>2, <3>3
  <2>6. QED
    BY <2>4, <2>5 DEF Based
<1>14. FramesLinked(c, a, n)
  <2>1. SUFFICES ASSUME NEW j \in DOMAIN n.frames
                 PROVE  Called(c, a, n, j) \/ Started(c, n, j)
    BY DEF FramesLinked
  <2>2. CASE j \in DOMAIN m.frames
    BY <1>5, <1>6, <2>2, OldFrames DEF Shape
  <2>3. CASE j = L + 1
    <3>1. j > 1 /\ n.frames[j - 1] = m.frames[L] /\ n.frames[j] = f
      BY <1>1, <1>3, <2>3
    <3>2. m.ip + 1 \in a.yields => Parkable(a, n, L)
      BY <1>1, <1>10, <1>12 DEF Going
    <3>3. Called(c, a, n, j)
      BY <1>1, <1>2, <1>11, <2>3, <3>1, <3>2 DEF Called
    <3>4. QED
      BY <3>3
  <2>4. QED
    BY <1>1, <1>4, <2>2, <2>3
<1>15. RunsLinked(c, a, n)
  <2>1. SUFFICES ASSUME NEW i \in DOMAIN m.runs
                 PROVE  RunLinked(c, a, n, m.runs[i])
    BY DEF RunsLinked, Shape
  <2>2. RunLinked(c, a, m, m.runs[i])
    BY DEF Shape, RunsLinked
  <2>3. m.runs[i].frame < L /\ m.runs[i].frame \in DOMAIN m.frames /\ m.runs[i].frame + 1 \in DOMAIN m.frames
    BY BelowTop DEF Going
  <2>4. n.frames[m.runs[i].frame] = m.frames[m.runs[i].frame]
        /\ n.frames[m.runs[i].frame + 1] = m.frames[m.runs[i].frame + 1]
    BY <1>1, <1>3, <2>3
  <2>5. QED
    BY <1>1, <1>4, <1>12, <2>2, <2>3, <2>4 DEF RunLinked
<1>16. Going(c, a, n)
  <2>1. Top(n) = f
    BY <1>3 DEF Top
  <2>2. Rests(c, a, f, n.ip, Len(m.stack))
    <3>1. a.height[n.ip] = 0 /\ a.saved[n.ip] = Lost
      BY <1>8 DEF Entered, Fits, Lost
    <3>2. QED
      BY <1>1, <1>2, <1>8, <3>1 DEF Rests
  <2>3. n.ip \in a.yields => Parkable(a, n, L + 1)
    <3>1. SUFFICES ASSUME n.ip \in a.yields
                   PROVE  Parkable(a, n, L + 1)
      OBVIOUS
    <3>2. Parkable(a, m, L) /\ a.saved[f.ret] = Lost
      BY <1>2, <3>1 DEF Going
    <3>3. PICK i \in DOMAIN m.runs :
            /\ m.runs[i].kind # "each" /\ m.runs[i].frame < L
            /\ \A l \in DOMAIN m.runs : i < l => m.runs[l].frame >= L
            /\ \A l \in DOMAIN m.frames : l > m.runs[i].frame + 1 /\ l <= L => a.saved[m.frames[l].ret] = Lost
      BY <3>2 DEF Parkable
    <3>4. \A l \in DOMAIN m.runs : ~(i < l)
      <4>1. SUFFICES ASSUME NEW l \in DOMAIN m.runs, i < l
                     PROVE  FALSE
        OBVIOUS
      <4>2. m.runs[l].frame >= L
        BY <3>3, <4>1
      <4>3. m.runs[l].frame \in Int /\ m.runs[l].frame < L
        BY BelowTop DEF Going
      <4>4. QED
        BY <1>1, <4>2, <4>3
    <3>5. m.runs[i].frame \in Int
      BY MachineTypes
    <3>6. \A l \in DOMAIN n.frames : l > n.runs[i].frame + 1 /\ l <= L + 1 => a.saved[n.frames[l].ret] = Lost
      BY <1>1, <1>3, <1>4, <3>2, <3>3
    <3>7. i \in DOMAIN n.runs /\ n.runs[i].kind # "each" /\ n.runs[i].frame < L + 1
      BY <1>1, <3>3, <3>5
    <3>8. \A l \in DOMAIN n.runs : i < l => n.runs[l].frame >= L + 1
      BY <3>4
    <3>9. QED
      BY <3>6, <3>7, <3>8 DEF Parkable
  <2>4. m.runs # <<>> => m.runs[Len(m.runs)].frame < L + 1
    BY <1>1, LastRun DEF Going
  <2>5. QED
    BY <1>3, <1>4, <2>1, <2>2, <2>3, <2>4 DEF Going
<1>17. QED
  BY <1>13, <1>14, <1>15, <1>16 DEF Shape

\* The frames of m but the ones on top.
Shortens(m, n) ==
  /\ Len(n.frames) <= Len(m.frames)
  /\ \A j \in DOMAIN n.frames : n.frames[j] = m.frames[j]

LEMMA StillBased ==
  ASSUME NEW c \in Chunks, NEW m \in MachineType(c), NEW n \in MachineType(c), Based(m), Shortens(m, n)
  PROVE  Based(n)
<1>1. \A j \in DOMAIN n.frames : j \in DOMAIN m.frames
  BY MachineTypes DEF Shortens
<1>2. QED
  BY <1>1 DEF Based, Shortens

LEMMA FewerFrames ==
  ASSUME NEW c \in Chunks, NEW a \in Maps(c), NEW m \in MachineType(c), NEW n \in MachineType(c),
         FramesLinked(c, a, m), Shortens(m, n),
         \A j \in DOMAIN n.frames : AsBelow(m, n, j),
         \A i \in DOMAIN m.runs : \A j \in DOMAIN n.frames : m.runs[i].frame = j - 1 =>
           i \in DOMAIN n.runs /\ n.runs[i].frame = m.runs[i].frame
  PROVE  FramesLinked(c, a, n)
<1>1. DOMAIN m.frames = 1..Len(m.frames) /\ DOMAIN n.frames = 1..Len(n.frames)
      /\ Len(m.frames) \in Nat /\ Len(n.frames) \in Nat
  BY MachineTypes
<1>2. SUFFICES ASSUME NEW j \in DOMAIN n.frames
               PROVE  Called(c, a, n, j) \/ Started(c, n, j)
  BY DEF FramesLinked
<1>3. n.frames[j] = m.frames[j] /\ j \in DOMAIN m.frames
  BY <1>1 DEF Shortens
<1>4. CASE Called(c, a, m, j)
  <2>1. j - 1 \in DOMAIN n.frames
    BY <1>1, <1>4 DEF Called
  <2>2. n.frames[j - 1] = m.frames[j - 1]
    BY <2>1 DEF Shortens
  <2>3. Parkable(a, m, j - 1) => Parkable(a, n, j - 1)
    BY <2>1, StillParkable
  <2>4. QED
    BY <1>3, <1>4, <2>2, <2>3 DEF Called
<1>5. CASE Started(c, m, j)
  BY <1>3, <1>5 DEF Started
<1>6. QED
  BY <1>3, <1>4, <1>5 DEF FramesLinked

LEMMA ReturnStep ==
  ASSUME NEW c \in Chunks, NEW a \in Maps(c), NEW m \in MachineType(c), NEW n \in MachineType(c),
         Shape(c, a, m), Going(c, a, m),
         n.runs = m.runs, n.frames = Front(m.frames), n.ip = Top(m).ret,
         Len(n.stack) = Top(m).base + 1
  PROVE  Shape(c, a, n) /\ (Going(c, a, n) \/ Over(c, n))
<1> DEFINE L == Len(m.frames)
<1>1. /\ L \in Nat \ {0} /\ L \in DOMAIN m.frames /\ DOMAIN m.frames = 1..L
      /\ m.frames \in Seq(Frame) /\ m.frames # <<>>
      /\ m.frames[L].base \in Int
  BY MachineTypes DEF Going
<1>2. Len(n.frames) = L - 1 /\ \A j \in 1..L - 1 : n.frames[j] = m.frames[j]
  BY <1>1, FrontSeq
<1>3. DOMAIN n.frames = 1..L - 1 /\ (n.frames # <<>> <=> L > 1)
  <2>1. DOMAIN n.frames = 1..Len(n.frames) /\ (n.frames # <<>> <=> Len(n.frames) > 0)
    BY MachineTypes
  <2>2. QED
    BY <1>1, <1>2, <2>1
<1>4. Shortens(m, n) /\ \A j : j <= L - 1 => AsBelow(m, n, j)
  BY <1>1, <1>2, <1>3, SMTT(30) DEF Shortens, AsBelow
<1>5. \A j \in Int : j <= L - 1 /\ Parkable(a, m, j) => Parkable(a, n, j)
  BY <1>4, StillParkable
<1>6. FramesLinked(c, a, n)
  <2>1. \A j \in DOMAIN n.frames : AsBelow(m, n, j)
    BY <1>1, <1>3, <1>4
  <2>2. QED
    BY <1>4, <2>1, FewerFrames DEF Shape
<1>7. ASSUME NEW i \in DOMAIN m.runs
      PROVE  /\ RunLinked(c, a, m, m.runs[i]) /\ m.runs[i].frame \in 1..L - 1
             /\ m.frames[m.runs[i].frame + 1].ret = End(c)
             /\ m.frames[m.runs[i].frame + 1].base >= m.runs[i].base
  <2>1. m.runs[i].frame \in Int /\ m.runs[i].frame < L /\ m.runs[i].frame \in DOMAIN m.frames
    BY BelowTop DEF Going
  <2>2. RunLinked(c, a, m, m.runs[i])
    BY DEF Shape, RunsLinked
  <2>3. QED
    BY <1>1, <2>1, <2>2 DEF RunLinked
<1>8. RunsLinked(c, a, n)
  <2>1. SUFFICES ASSUME NEW i \in DOMAIN m.runs
                 PROVE  RunLinked(c, a, n, m.runs[i])
    BY DEF RunsLinked, Shape
  <2>2. /\ n.frames[m.runs[i].frame] = m.frames[m.runs[i].frame]
        /\ m.runs[i].frame < Len(n.frames) =>
             n.frames[m.runs[i].frame + 1] = m.frames[m.runs[i].frame + 1]
        /\ m.runs[i].frame \in DOMAIN n.frames
    BY <1>1, <1>2, <1>3, <1>7, SMTT(30)
  <2>3. Parkable(a, m, m.runs[i].frame) => Parkable(a, n, m.runs[i].frame)
    BY <1>1, <1>5, <1>7
  <2>4. RunLinked(c, a, m, m.runs[i])
    BY <1>7
  <2>5. QED
    BY <1>7, <2>2, <2>3, <2>4 DEF RunLinked
<1>9. Shape(c, a, n)
  BY <1>4, <1>6, <1>8, StillBased DEF Shape
<1>10. CASE Called(c, a, m, L)
  <2>1. L > 1 /\ L - 1 \in DOMAIN n.frames
    BY <1>1, <1>3, <1>10 DEF Called
  <2>2. Top(n) = m.frames[L - 1]
    BY <1>2, <2>1, <1>1 DEF Top
  <2>3. Rests(c, a, m.frames[L - 1], m.frames[L].ret, m.frames[L].base + 1)
        /\ (m.frames[L].ret \in a.yields => Parkable(a, m, L - 1))
    BY <1>10 DEF Called
  <2>4. m.frames[L].ret # End(c)
    BY <2>3, ChunkTypes DEF Rests
  <2>5. m.runs # <<>> => m.runs[Len(m.runs)].frame < L - 1
    <3>1. SUFFICES ASSUME m.runs # <<>>
                   PROVE  m.runs[Len(m.runs)].frame < L - 1
      OBVIOUS
    <3>2. Len(m.runs) \in DOMAIN m.runs
      BY <3>1, LastRun
    <3>3. m.runs[Len(m.runs)].frame \in 1..L - 1 /\ m.frames[m.runs[Len(m.runs)].frame + 1].ret = End(c)
      BY <1>7, <3>2
    <3>4. m.runs[Len(m.runs)].frame # L - 1
      BY <1>1, <2>4, <3>3
    <3>5. QED
      BY <1>1, <3>3, <3>4
  <2>6. Going(c, a, n)
    <3>1. Rests(c, a, Top(n), n.ip, Len(n.stack))
      BY <2>2, <2>3 DEF Top
    <3>2. n.ip \in a.yields => Parkable(a, n, L - 1)
      BY <1>1, <1>5, <2>3 DEF Top
    <3>3. QED
      BY <1>1, <1>2, <1>3, <2>1, <2>5, <3>1, <3>2 DEF Going
  <2>7. QED
    BY <1>9, <2>6
<1>11. CASE Started(c, m, L)
  <2>1. n.ip = End(c)
    BY <1>11 DEF Started, Top
  <2>2. CASE m.runs = <<>>
    <3>1. L = 1
      <4>1. DOMAIN m.runs = {}
        BY <2>2
      <4>2. QED
        BY <4>1, <1>11 DEF Started
    <3>2. Over(c, n)
      BY <1>3, <2>1, <2>2, <3>1 DEF Over
    <3>3. QED
      BY <1>9, <3>2
  <2>3. CASE m.runs # <<>>
    <3> DEFINE k == Len(m.runs)
    <3>1. k \in DOMAIN m.runs /\ k \in Nat /\ DOMAIN m.runs = 1..k
      BY <2>3, LastRun, MachineTypes
    <3>2. m.runs[k].frame \in 1..L - 1
      BY <1>7, <3>1
    <3>3. PICK i \in DOMAIN m.runs : m.runs[i].frame = L - 1
      BY <1>1, <1>11, <3>2 DEF Started
    <3>4. m.runs[k].frame = L - 1
      <4>1. i = k \/ i < k
        BY <3>1
      <4>2. i < k => m.runs[i].frame < m.runs[k].frame
        BY <3>1 DEF Shape, RunsLinked
      <4>3. QED
        BY <1>1, <3>2, <3>3, <4>1, <4>2
    <3>5. m.frames[L].base >= m.runs[k].base
      BY <1>1, <1>7, <3>1, <3>4, SMTT(30)
    <3>6. m.runs[k].base \in Int
      BY <3>1, MachineTypes
    <3>7. Len(n.stack) >= m.runs[k].base + 1
      BY <1>1, <3>5, <3>6 DEF Top
    <3>8. Over(c, n)
      BY <1>2, <2>1, <2>3, <3>4, <3>7 DEF Over
    <3>9. QED
      BY <1>9, <3>8
  <2>4. QED
    BY <2>2, <2>3
<1>12. QED
  BY <1>1, <1>10, <1>11 DEF Shape, FramesLinked

(* ---- runs that start and end ------------------------------------------------------ *)

\* The top frame waits over b operands for a value, to go on with it at p.
Awaits(c, a, m, p, b) ==
  /\ m.frames # <<>>
  /\ m.runs # <<>> => m.runs[Len(m.runs)].frame < Len(m.frames)
  /\ Top(m).base <= b
  /\ Rests(c, a, Top(m), p, b + 1)
  /\ p \in a.yields => Parkable(a, m, Len(m.frames))

LEMMA WaitsHere ==
  ASSUME NEW c \in Chunks, NEW a \in Maps(c), NEW m \in MachineType(c), Going(c, a, m),
         Goes(c, a, m.ip, m.ip + 1, a.height[m.ip] + 1, a.saved[m.ip])
  PROVE  Awaits(c, a, m, m.ip + 1, Len(m.stack))
<1>1. /\ m.frames # <<>> /\ Len(m.frames) \in 1..Len(m.frames) /\ Len(m.stack) \in Nat /\ m.ip \in Nat
      /\ Top(m).base \in Int /\ Top(m).depth \in Nat /\ Top(m).own \in Nat
  BY MachineTypes DEF Going, Top
<1>2. m.ip \in Positions(c) /\ m.ip + 1 \in Positions(c)
  BY DEF Going, Rests, Goes
<1>3. /\ a.height[m.ip] \in Nat /\ a.height[m.ip + 1] \in Nat
      /\ a.saved[m.ip + 1] = Lost \/ a.saved[m.ip + 1] \in Nat
      /\ a.saved[m.ip] = Lost \/ a.saved[m.ip] \in Nat
  BY <1>2, MapTypes
<1>4. Len(m.stack) >= Top(m).base + a.height[m.ip]
      /\ (a.saved[m.ip] # Lost => Top(m).depth >= Top(m).base + a.saved[m.ip] /\ Top(m).depth = Top(m).base + Top(m).own)
  BY DEF Going, Rests
<1>5. a.height[m.ip + 1] <= a.height[m.ip] + 1 /\ a.saved[m.ip + 1] <= a.saved[m.ip]
      /\ (m.ip + 1 \in a.yields => m.ip \in a.yields)
  BY DEF Goes, Fits
<1>6. Len(m.stack) + 1 >= Top(m).base + a.height[m.ip + 1] /\ Top(m).base <= Len(m.stack)
  <2>1. Len(m.stack) \in Int /\ Top(m).base \in Int /\ a.height[m.ip] \in Nat /\ a.height[m.ip + 1] \in Int
    BY <1>1, <1>3
  <2>2. QED
    BY <1>4, <1>5, <2>1, OneMore
<1>7. a.saved[m.ip + 1] # Lost => Top(m).depth >= Top(m).base + a.saved[m.ip + 1] /\ Top(m).depth = Top(m).base + Top(m).own
  <2>1. Top(m) \in Frame
    BY <1>1, MachineTypes DEF Top
  <2>2. QED
    BY <1>3, <1>4, <1>5, <2>1, StillSaved
<1>8. Rests(c, a, Top(m), m.ip + 1, Len(m.stack) + 1)
  BY <1>2, <1>6, <1>7 DEF Rests
<1>9. QED
  BY <1>1, <1>5, <1>6, <1>8 DEF Awaits, Going

\* A builtin that answers leaves its value and goes on.
LEMMA Answered ==
  ASSUME NEW c \in Chunks, NEW a \in Maps(c), NEW m \in MachineType(c), NEW n \in MachineType(c),
         NEW b \in Int, Shape(c, a, m), Awaits(c, a, m, n.ip, b),
         n.runs = m.runs, n.frames = m.frames, Len(n.stack) >= b + 1
  PROVE  Shape(c, a, n) /\ Going(c, a, n)
<1>1. \A j : Parkable(a, m, j) <=> Parkable(a, n, j)
  BY DEF Parkable
<1>2. Based(n)
  BY DEF Based, Shape
<1>3. FramesLinked(c, a, n)
  BY <1>1 DEF FramesLinked, Shape, Called, Started
<1>4. RunsLinked(c, a, n)
  BY <1>1 DEF RunsLinked, Shape, RunLinked
<1>5. Top(n) = Top(m)
  BY DEF Top
<1>6. Rests(c, a, Top(n), n.ip, Len(n.stack))
  <2>1. n.ip \in Positions(c) /\ a.height[n.ip] \in Nat
    BY MapTypes DEF Awaits, Rests
  <2>2. Top(n).base \in Int /\ Len(n.stack) \in Nat
    BY <1>5, BaseBelow, MachineTypes DEF Awaits, Shape
  <2>3. Len(n.stack) >= Top(n).base + a.height[n.ip]
    BY <1>5, <2>1, <2>2 DEF Awaits, Rests
  <2>4. QED
    BY <1>5, <2>1, <2>3 DEF Awaits, Rests
<1>7. QED
  BY <1>1, <1>2, <1>3, <1>4, <1>6 DEF Shape, Going, Awaits

\* New frames on top of m, for the run r: the first stands on the operands m
\* has, each of the others was called from the one below.
RunFrames(c, a, m, n, r) ==
  /\ Extends(m, n) /\ Len(n.frames) > Len(m.frames)
  /\ n.frames[Len(m.frames) + 1].ret = End(c)
  /\ \A j \in DOMAIN n.frames : j > Len(m.frames) => n.frames[j].base >= r.base
  /\ \A i, j \in DOMAIN n.frames : Len(m.frames) < i /\ i < j => n.frames[i].base <= n.frames[j].base
  /\ \A j \in DOMAIN n.frames : j > Len(m.frames) + 1 =>
       /\ r.kind # "each"
       /\ Rests(c, a, n.frames[j - 1], n.frames[j].ret, n.frames[j].base + 1)
       /\ a.saved[n.frames[j].ret] = Lost

RunOn(c, m, n, r) ==
  /\ Len(n.runs) = Len(m.runs) + 1 /\ n.runs[Len(m.runs) + 1] = r
  /\ \A i \in DOMAIN m.runs : n.runs[i] = m.runs[i]
  /\ r.frame = Len(m.frames)
  /\ r.kind = "each" => /\ r.ip - 1 \in Positions(c) /\ c.ops[r.ip - 1].op = "each"
                        /\ r.left <= c.ops[r.ip - 1].n
  /\ r.kind # "each" => r.it \in Iter

LEMMA StartRun ==
  ASSUME NEW c \in Chunks, NEW a \in Maps(c), NEW m \in MachineType(c), NEW n \in MachineType(c),
         NEW r \in Run, Shape(c, a, m), Awaits(c, a, m, r.ip, r.base),
         RunOn(c, m, n, r), RunFrames(c, a, m, n, r),
         Rests(c, a, Top(n), n.ip, Len(n.stack)),
         n.ip \in a.yields => r.kind # "each"
  PROVE  Shape(c, a, n) /\ Going(c, a, n)
<1> DEFINE L == Len(m.frames)
           R == Len(m.runs)
           N == Len(n.frames)
<1>1. /\ L \in Nat \ {0} /\ R \in Nat /\ N \in Nat /\ L < N
      /\ L \in DOMAIN m.frames /\ DOMAIN m.frames = 1..L /\ DOMAIN n.frames = 1..N
      /\ DOMAIN m.runs = 1..R /\ DOMAIN n.runs = 1..R + 1
      /\ n.frames # <<>> /\ n.runs # <<>>
  BY MachineTypes DEF Awaits, RunOn, RunFrames
<1>2. /\ \A j \in 1..L : n.frames[j] = m.frames[j]
      /\ \A i \in 1..R : n.runs[i] = m.runs[i]
      /\ n.runs[R + 1] = r /\ r.frame = L
  BY <1>1 DEF RunOn, RunFrames, Extends
<1>3. ASSUME NEW i \in 1..R
      PROVE  /\ m.runs[i].frame \in Int /\ m.runs[i].frame < L
             /\ m.runs[i].frame \in 1..L /\ m.runs[i].frame + 1 \in 1..L
  BY <1>1, <1>3, BelowTop DEF Awaits
<1>4. \A j \in 1..L : AsBelow(m, n, j)
  <2>1. SUFFICES ASSUME NEW j \in 1..L
                 PROVE  AsBelow(m, n, j)
    OBVIOUS
  <2>2. \A i \in DOMAIN n.runs :
          (i \in DOMAIN m.runs /\ n.runs[i].frame = m.runs[i].frame) \/ n.runs[i].frame >= j
    BY <1>1, <1>2
  <2>3. QED
    BY <1>1, <1>2, <2>2, SMTT(30) DEF AsBelow
<1>5. \A j \in 1..L : Parkable(a, m, j) => Parkable(a, n, j)
  BY <1>4, StillParkable
<1>6. \A j \in DOMAIN n.frames : j > L /\ r.kind # "each" => Parkable(a, n, j)
  <2>1. SUFFICES ASSUME NEW j \in DOMAIN n.frames, j > L, r.kind # "each"
                 PROVE  Parkable(a, n, j)
    OBVIOUS
  <2>2. R + 1 \in DOMAIN n.runs /\ n.runs[R + 1].kind # "each" /\ n.runs[R + 1].frame < j
    BY <1>1, <1>2, <2>1
  <2>3. \A l \in DOMAIN n.runs : R + 1 < l => n.runs[l].frame >= j
    BY <1>1
  <2>4. \A l \in DOMAIN n.frames : l > n.runs[R + 1].frame + 1 /\ l <= j => a.saved[n.frames[l].ret] = Lost
    BY <1>1, <1>2 DEF RunFrames
  <2>5. QED
    BY <2>2, <2>3, <2>4 DEF Parkable
<1>7. /\ r.base \in Int /\ \A j \in 1..N : n.frames[j].base \in Int
      /\ \A j \in 1..L : m.frames[j].base >= 0 /\ m.frames[j].base <= r.base
  <2>1. r.base \in Int /\ \A j \in 1..N : n.frames[j].base \in Int
    BY MachineTypes DEF Run
  <2>2. Top(m).base \in Int /\ Top(m).base <= r.base
        /\ \A j \in 1..L : m.frames[j].base \in Int /\ m.frames[j].base >= 0 /\ m.frames[j].base <= Top(m).base
    BY BaseBelow DEF Awaits, Shape
  <2>3. QED
    BY <2>1, <2>2
<1>8. Based(n)
  <2>1. \A j \in 1..L : n.frames[j].base >= 0 /\ n.frames[j].base <= r.base
    BY <1>2, <1>7
  <2>2. r.base >= 0
    BY <1>1, <1>2, <1>7
  <2>3. \A j \in DOMAIN n.frames : j > L => n.frames[j].base >= r.base
    BY DEF RunFrames
  <2>4. \A j \in DOMAIN n.frames : n.frames[j].base >= 0
    BY <1>1, <1>7, <2>1, <2>2, <2>3
  <2>5. ASSUME NEW i \in DOMAIN n.frames, NEW j \in DOMAIN n.frames, i < j
        PROVE  n.frames[i].base <= n.frames[j].base
    <3>1. CASE i > L
      BY <2>5, <3>1 DEF RunFrames
    <3>2. CASE i <= L /\ j > L
      BY <1>1, <1>7, <2>1, <2>3, <3>2
    <3>3. CASE j <= L
      <4>1. i \in DOMAIN m.frames /\ j \in DOMAIN m.frames
        BY <1>1, <2>5, <3>3
      <4>2. QED
        BY <1>1, <1>2, <2>5, <4>1 DEF Shape, Based
    <3>4. QED
      BY <1>1, <3>1, <3>2, <3>3
  <2>6. QED
    BY <2>4, <2>5 DEF Based
<1>9. FramesLinked(c, a, n)
  <2>1. SUFFICES ASSUME NEW j \in DOMAIN n.frames
                 PROVE  Called(c, a, n, j) \/ Started(c, n, j)
    BY DEF FramesLinked
  <2>2. CASE j <= L
    <3>1. j \in DOMAIN m.frames /\ \A i \in DOMAIN m.frames : AsBelow(m, n, i)
      BY <1>1, <1>4, <2>2
    <3>2. \A i \in DOMAIN m.runs : i \in DOMAIN n.runs /\ n.runs[i].frame = m.runs[i].frame
      BY <1>1, <1>2
    <3>3. FramesLinked(c, a, m) /\ Extends(m, n)
      BY DEF Shape, RunFrames
    <3>4. QED
      BY <3>1, <3>2, <3>3, OldFrames
  <2>3. CASE j = L + 1
    <3>1. n.frames[j].ret = End(c) /\ R + 1 \in DOMAIN n.runs /\ n.runs[R + 1].frame = j - 1
      BY <1>1, <1>2, <2>3 DEF RunFrames
    <3>2. QED
      BY <3>1 DEF Started
  <2>4. CASE j > L + 1
    <3>1. /\ r.kind # "each"
          /\ Rests(c, a, n.frames[j - 1], n.frames[j].ret, n.frames[j].base + 1)
      BY <2>4 DEF RunFrames
    <3>2. j - 1 \in DOMAIN n.frames /\ j - 1 > L /\ j > 1
      BY <1>1, <2>4
    <3>3. Parkable(a, n, j - 1)
      BY <1>6, <3>1, <3>2
    <3>4. QED
      BY <3>1, <3>2, <3>3 DEF Called
  <2>5. QED
    BY <1>1, <2>2, <2>3, <2>4
<1>10. RunsLinked(c, a, n)
  <2>1. ASSUME NEW i \in DOMAIN n.runs
        PROVE  RunLinked(c, a, n, n.runs[i])
    <3>1. CASE i \in 1..R
      <4>1. RunLinked(c, a, m, m.runs[i]) /\ n.runs[i] = m.runs[i]
        BY <1>1, <1>2, <3>1 DEF Shape, RunsLinked
      <4>2. /\ n.frames[m.runs[i].frame] = m.frames[m.runs[i].frame]
            /\ n.frames[m.runs[i].frame + 1] = m.frames[m.runs[i].frame + 1]
            /\ m.runs[i].frame \in DOMAIN n.frames /\ m.runs[i].frame < L
        BY <1>1, <1>2, <1>3, <3>1, SMTT(30)
      <4>3. Parkable(a, m, m.runs[i].frame) => Parkable(a, n, m.runs[i].frame)
        BY <1>3, <1>5, <3>1
      <4>4. QED
        BY <4>1, <4>2, <4>3 DEF RunLinked
    <3>2. CASE i = R + 1
      <4>1. n.runs[i] = r /\ r.frame = L /\ L \in DOMAIN n.frames /\ n.frames[L] = Top(m)
        BY <1>1, <1>2, <3>2 DEF Top
      <4>2. r.ip \in a.yields => Parkable(a, n, L)
        BY <1>1, <1>5 DEF Awaits
      <4>3. n.frames[L + 1].ret = End(c) /\ n.frames[L + 1].base >= r.base
        BY <1>1 DEF RunFrames
      <4>4. QED
        BY <4>1, <4>2, <4>3 DEF RunLinked, RunOn, Awaits
    <3>3. QED
      BY <1>1, <3>1, <3>2
  <2>2. ASSUME NEW i \in DOMAIN n.runs, NEW j \in DOMAIN n.runs, i < j
        PROVE  n.runs[i].frame < n.runs[j].frame
    <3>1. i \in 1..R /\ i \in DOMAIN m.runs
      BY <1>1, <2>2
    <3>2. CASE j \in 1..R
      BY <1>1, <1>2, <2>2, <3>1, <3>2 DEF Shape, RunsLinked
    <3>3. CASE j = R + 1
      BY <1>2, <1>3, <3>1, <3>3
    <3>4. QED
      BY <1>1, <3>2, <3>3
  <2>3. QED
    BY <2>1, <2>2 DEF RunsLinked
<1>11. Going(c, a, n)
  <2>1. n.ip \in a.yields => Parkable(a, n, N)
    BY <1>1, <1>6
  <2>2. n.runs[Len(n.runs)].frame < N
    BY <1>1, <1>2 DEF RunOn
  <2>3. QED
    BY <1>1, <2>1, <2>2 DEF Going
<1>12. QED
  BY <1>8, <1>9, <1>10, <1>11 DEF Shape

\* The machine below the last run, once it is over.
LEMMA EndRun ==
  ASSUME NEW c \in Chunks, NEW a \in Maps(c), NEW m \in MachineType(c), NEW n \in MachineType(c),
         NEW r \in Run, Shape(c, a, m), m.runs # <<>>, r = m.runs[Len(m.runs)],
         Len(n.runs) = Len(m.runs) - 1, \A i \in DOMAIN n.runs : n.runs[i] = m.runs[i],
         Len(n.frames) = r.frame, \A j \in DOMAIN n.frames : n.frames[j] = m.frames[j]
  PROVE  Shape(c, a, n) /\ Awaits(c, a, n, r.ip, r.base)
<1> DEFINE L == r.frame
           R == Len(m.runs)
<1>1. /\ RunLinked(c, a, m, r) /\ L \in DOMAIN m.frames /\ DOMAIN m.frames = 1..Len(m.frames)
      /\ Len(m.frames) \in Nat /\ L \in Nat \ {0} /\ L <= Len(m.frames)
      /\ R \in Nat \ {0} /\ DOMAIN m.runs = 1..R /\ r.base \in Int
  <2>1. R \in DOMAIN m.runs /\ R \in Nat \ {0} /\ DOMAIN m.runs = 1..R /\ r.base \in Int
    BY LastRun, MachineTypes
  <2>2. RunLinked(c, a, m, r)
    BY <2>1 DEF Shape, RunsLinked
  <2>3. L \in DOMAIN m.frames /\ DOMAIN m.frames = 1..Len(m.frames) /\ Len(m.frames) \in Nat
    BY <2>2, MachineTypes DEF RunLinked
  <2>4. QED
    BY <2>1, <2>2, <2>3
<1>2. DOMAIN n.frames = 1..L /\ DOMAIN n.runs = 1..R - 1 /\ n.frames # <<>>
      /\ (n.runs # <<>> => R - 1 > 0)
  <2>1. DOMAIN n.frames = 1..Len(n.frames) /\ DOMAIN n.runs = 1..Len(n.runs)
        /\ (n.frames # <<>> <=> Len(n.frames) > 0) /\ (n.runs # <<>> <=> Len(n.runs) > 0)
    BY MachineTypes
  <2>2. QED
    BY <1>1, <2>1
<1>3. Shortens(m, n)
  BY <1>1, <1>2 DEF Shortens
<1>4. ASSUME NEW i \in 1..R - 1
      PROVE  m.runs[i].frame \in Int /\ m.runs[i].frame < L /\ m.runs[i].frame \in 1..Len(m.frames)
  <2>1. m.runs[i].frame < L /\ i \in DOMAIN m.runs
    BY <1>1 DEF Shape, RunsLinked
  <2>2. m.runs[i].frame \in DOMAIN m.frames
    BY <2>1 DEF Shape, RunsLinked, RunLinked
  <2>3. QED
    BY <1>1, <2>1, <2>2
<1>5. \A j \in 1..L : AsBelow(m, n, j)
  <2>1. SUFFICES ASSUME NEW j \in 1..L
                 PROVE  AsBelow(m, n, j)
    OBVIOUS
  <2>2. \A l \in DOMAIN n.frames : l \in DOMAIN m.frames /\ n.frames[l].ret = m.frames[l].ret
    BY <1>1, <1>2
  <2>3. ASSUME NEW i \in DOMAIN m.runs, m.runs[i].frame < j
        PROVE  i \in DOMAIN n.runs /\ n.runs[i] = m.runs[i]
    <3>1. i # R
      BY <1>1, <2>3
    <3>2. i \in DOMAIN n.runs
      BY <1>1, <1>2, <3>1
    <3>3. QED
      BY <3>2
  <2>4. \A i \in DOMAIN n.runs : i \in DOMAIN m.runs /\ n.runs[i].frame = m.runs[i].frame
    BY <1>1, <1>2
  <2>5. QED
    BY <2>2, <2>3, <2>4 DEF AsBelow
<1>6. \A j \in 1..L : Parkable(a, m, j) => Parkable(a, n, j)
  BY <1>5, StillParkable
<1>7. FramesLinked(c, a, n)
  <2>1. ASSUME NEW i \in DOMAIN m.runs, NEW j \in DOMAIN n.frames, m.runs[i].frame = j - 1
        PROVE  i \in DOMAIN n.runs /\ n.runs[i].frame = m.runs[i].frame
    <3>1. i # R
      BY <1>1, <1>2, <2>1
    <3>2. i \in DOMAIN n.runs
      BY <1>1, <1>2, <3>1
    <3>3. QED
      BY <3>2
  <2>2. \A j \in DOMAIN n.frames : AsBelow(m, n, j)
    BY <1>2, <1>5
  <2>3. FramesLinked(c, a, m)
    BY DEF Shape
  <2>4. QED
    BY <1>3, <2>1, <2>2, <2>3, FewerFrames
<1>8. RunsLinked(c, a, n)
  <2>1. ASSUME NEW i \in DOMAIN n.runs
        PROVE  RunLinked(c, a, n, n.runs[i])
    <3>1. RunLinked(c, a, m, m.runs[i]) /\ n.runs[i] = m.runs[i]
      BY <1>1, <1>2 DEF Shape, RunsLinked
    <3>2. m.runs[i].frame \in 1..L - 1 /\ m.runs[i].frame < Len(m.frames)
      BY <1>1, <1>2, <1>4, SMTT(30)
    <3>3. /\ n.frames[m.runs[i].frame] = m.frames[m.runs[i].frame]
          /\ n.frames[m.runs[i].frame + 1] = m.frames[m.runs[i].frame + 1]
          /\ m.runs[i].frame \in DOMAIN n.frames
      <4>1. m.runs[i].frame \in DOMAIN n.frames /\ m.runs[i].frame + 1 \in DOMAIN n.frames
        BY <1>1, <1>2, <3>2, SMTT(30)
      <4>2. QED
        BY <4>1
    <3>4. Parkable(a, m, m.runs[i].frame) => Parkable(a, n, m.runs[i].frame)
      BY <1>1, <1>6, <3>2
    <3>5. QED
      BY <3>1, <3>2, <3>3, <3>4 DEF RunLinked
  <2>2. ASSUME NEW i \in DOMAIN n.runs, NEW j \in DOMAIN n.runs, i < j
        PROVE  n.runs[i].frame < n.runs[j].frame
    BY <1>1, <1>2, <2>2, SMTT(30) DEF Shape, RunsLinked
  <2>3. QED
    BY <2>1, <2>2 DEF RunsLinked
<1>9. Based(n)
  BY <1>3, StillBased DEF Shape
<1>10. Awaits(c, a, n, r.ip, r.base)
  <2>1. Top(n) = m.frames[L]
    BY <1>1, <1>2 DEF Top
  <2>2. n.runs # <<>> => n.runs[Len(n.runs)].frame < L
    <3>1. SUFFICES ASSUME n.runs # <<>>
                   PROVE  n.runs[Len(n.runs)].frame < L
      OBVIOUS
    <3>2. Len(n.runs) = R - 1 /\ R - 1 \in 1..R - 1 /\ R - 1 \in DOMAIN n.runs
      BY <1>1, <1>2, <3>1
    <3>3. n.runs[R - 1] = m.runs[R - 1] /\ m.runs[R - 1].frame < L
      BY <1>4, <3>2
    <3>4. QED
      BY <3>2, <3>3
  <2>3. r.ip \in a.yields => Parkable(a, n, L)
    BY <1>1, <1>6 DEF RunLinked
  <2>4. QED
    BY <1>1, <1>2, <2>1, <2>2, <2>3 DEF Awaits, RunLinked
<1>11. QED
  BY <1>7, <1>8, <1>9, <1>10 DEF Shape

(* ---- blocks that park and come back ------------------------------------------------ *)

\* The same heights on another base.
LEMMA Shifted ==
  ASSUME NEW x \in Int, NEW y \in Int, NEW b \in Int, NEW h \in Int, x + 1 >= y + h
  PROVE  (x + b) + 1 >= (y + b) + h /\ (x - b) + 1 >= (y - b) + h
  OBVIOUS

LEMMA InRange ==
  ASSUME NEW x \in Int, NEW b \in Int, NEW n \in Int, b <= x, x <= n
  PROVE  x - b \in 0..n - b
  OBVIOUS

\* The frames of co are those of m above the l-th, on bases b lower.
Lifted(m, l, b, co) ==
  /\ Len(m.frames) = l + Len(co.frames)
  /\ \A j \in DOMAIN co.frames : /\ co.frames[j].ret = m.frames[l + j].ret
                                 /\ co.frames[j].base = m.frames[l + j].base - b
                                 /\ co.frames[j].depth = m.frames[l + j].depth

LEMMA CoroTypes ==
  ASSUME NEW co \in Coro
  PROVE  /\ co.frames \in Seq(Frame) /\ co.stack \in Seq(Val) /\ co.ip \in Nat
         /\ Len(co.frames) \in Nat /\ Len(co.stack) \in Nat
         /\ DOMAIN co.frames = 1..Len(co.frames)
         /\ co.frames # <<>> <=> Len(co.frames) > 0
         /\ \A j \in 1..Len(co.frames) : co.frames[j] \in Frame /\ co.frames[j].base \in Int
                                         /\ co.frames[j].ret \in Nat /\ co.frames[j].depth \in Nat
<1>1. co.frames \in Seq(Frame) /\ co.stack \in Seq(Val) /\ co.ip \in Nat
  BY DEF Coro
<1>2. /\ Len(co.frames) \in Nat /\ Len(co.stack) \in Nat /\ DOMAIN co.frames = 1..Len(co.frames)
      /\ co.frames # <<>> <=> Len(co.frames) > 0
      /\ \A j \in 1..Len(co.frames) : co.frames[j] \in Frame
  BY <1>1, LenNat
<1>3. \A f \in Frame : f.base \in Int /\ f.ret \in Nat /\ f.depth \in Nat
  BY DEF Frame
<1>4. QED
  BY <1>1, <1>2, <1>3

LEMMA Parks ==
  ASSUME NEW c \in Chunks, NEW a \in Maps(c), NEW m \in MachineType(c), NEW co \in Coro,
         NEW r \in Run, Shape(c, a, m), Halting(c, a, m), m.runs # <<>>, r = m.runs[Len(m.runs)],
         co.ip = m.ip, Lifted(m, r.frame, r.base, co), Len(co.stack) = Len(m.stack) - 1 - r.base
  PROVE  BlockOK(c, a, co)
<1> DEFINE L == r.frame
           N == Len(m.frames)
           R == Len(m.runs)
           K == Len(co.frames)
           b == r.base
<1>1. /\ R \in Nat \ {0} /\ R \in DOMAIN m.runs /\ DOMAIN m.runs = 1..R
      /\ N \in Nat \ {0} /\ DOMAIN m.frames = 1..N /\ N \in DOMAIN m.frames /\ m.frames # <<>>
      /\ b \in Int /\ Len(m.stack) \in Nat
      /\ \A j \in 1..N : m.frames[j].base \in Int /\ m.frames[j].depth \in Nat
  BY LastRun, MachineTypes DEF Halting
<1>2. /\ L \in 1..N /\ L < N
      /\ m.frames[L + 1].ret = End(c) /\ m.frames[L + 1].base >= b
  <2>1. RunLinked(c, a, m, r)
    BY <1>1 DEF Shape, RunsLinked
  <2>2. L < N
    BY DEF Halting
  <2>3. QED
    BY <1>1, <2>1, <2>2 DEF RunLinked
<1>3. K \in Nat \ {0} /\ N = L + K /\ DOMAIN co.frames = 1..K /\ co.frames # <<>>
      /\ \A j \in 1..K : co.frames[j].base \in Int
  <2>1. K \in Nat /\ DOMAIN co.frames = 1..K /\ (co.frames # <<>> <=> K > 0)
        /\ \A j \in 1..K : co.frames[j].base \in Int
    BY CoroTypes
  <2>2. N = L + K
    BY DEF Lifted
  <2>3. QED
    BY <1>1, <1>2, <2>1, <2>2
<1> HIDE DEF L, N, R, K, b
<1>4. \A j \in 1..K : /\ L + j \in 1..N
                      /\ co.frames[j].ret = m.frames[L + j].ret
                      /\ co.frames[j].base = m.frames[L + j].base - b
  <2>1. \A j \in 1..K : L + j \in 1..N
    BY <1>1, <1>2, <1>3
  <2>2. \A j \in DOMAIN co.frames : /\ co.frames[j].ret = m.frames[L + j].ret
                                    /\ co.frames[j].base = m.frames[L + j].base - b
    BY DEF Lifted, L, b
  <2>3. QED
    BY <1>3, <2>1, <2>2
<1>5. \A j \in 1..K : b <= m.frames[L + j].base /\ m.frames[L + j].base <= m.frames[N].base
  <2>1. SUFFICES ASSUME NEW j \in 1..K
                 PROVE  b <= m.frames[L + j].base /\ m.frames[L + j].base <= m.frames[N].base
    OBVIOUS
  <2>2. L + j \in 1..N /\ L + 1 \in 1..N
    BY <1>1, <1>2, <1>3
  <2>3. m.frames[L + j].base <= m.frames[N].base
    BY <1>1, <2>2, BaseBelow DEF Shape, Top, N
  <2>4. m.frames[L + 1].base <= m.frames[L + j].base
    <3>1. CASE j = 1
      BY <1>1, <2>2, <3>1
    <3>2. CASE j # 1
      <4>1. L + 1 < L + j /\ L + 1 \in DOMAIN m.frames /\ L + j \in DOMAIN m.frames
        BY <1>1, <1>2, <2>2, <3>2
      <4>2. QED
        BY <4>1 DEF Shape, Based
    <3>3. QED
      BY <3>1, <3>2
  <2>5. QED
    BY <1>1, <1>2, <2>2, <2>3, <2>4, SMTT(30)
<1>6. /\ m.ip \in Positions(c) /\ a.height[m.ip] \in Nat /\ a.saved[m.ip] = Lost
      /\ Len(m.stack) - 1 >= m.frames[N].base + a.height[m.ip]
      /\ Len(co.stack) = Len(m.stack) - 1 - b
  BY MapTypes DEF Halting, Rests, Top, N, b
<1>7. Within(co)
  <2>1. SUFFICES ASSUME NEW j \in 1..K
                 PROVE  co.frames[j].base \in 0..Len(co.stack)
    BY <1>3 DEF Within
  <2>2. m.frames[L + j].base \in Int /\ m.frames[N].base \in Int
    BY <1>1, <1>4
  <2>3. /\ co.frames[j].base = m.frames[L + j].base - b
        /\ b <= m.frames[L + j].base /\ m.frames[L + j].base <= m.frames[N].base
    BY <1>4, <1>5
  <2>4. m.frames[N].base <= Len(m.stack) - 1
    BY <1>1, <1>6, <2>2, SMTT(30)
  <2>5. m.frames[L + j].base <= Len(m.stack) - 1 /\ Len(m.stack) - 1 \in Int
    BY <1>1, <2>2, <2>3, <2>4
  <2>6. m.frames[L + j].base - b \in 0..(Len(m.stack) - 1) - b
    BY <1>1, <2>2, <2>3, <2>5, InRange
  <2>7. QED
    BY <1>6, <2>3, <2>6
<1>8. Based(co)
  <2>1. \A j \in 1..K : co.frames[j].base >= 0
    BY <1>7, <1>3, SMTT(30) DEF Within
  <2>2. ASSUME NEW i \in 1..K, NEW j \in 1..K, i < j
        PROVE  co.frames[i].base <= co.frames[j].base
    <3>1. L + i \in DOMAIN m.frames /\ L + j \in DOMAIN m.frames /\ L + i < L + j
      BY <1>1, <1>2, <1>4, <2>2
    <3>2. m.frames[L + i].base <= m.frames[L + j].base
      BY <3>1 DEF Shape, Based
    <3>3. QED
      BY <1>1, <1>4, <3>2, SMTT(30)
  <2>3. QED
    BY <1>3, <2>1, <2>2 DEF Based
<1>9. Rests(c, a, Top(co), co.ip, Len(co.stack))
  <2>1. Top(co).base = m.frames[N].base - b
    BY <1>3, <1>4 DEF Top, K
  <2>2. Len(co.stack) >= Top(co).base + a.height[m.ip]
    <3>1. m.frames[N].base \in Int
      BY <1>1
    <3>2. Len(m.stack) - 1 - b >= (m.frames[N].base - b) + a.height[m.ip]
      BY <1>1, <1>6, <3>1, SMTT(30)
    <3>3. QED
      BY <1>6, <2>1, <3>2
  <2>3. QED
    BY <1>6, <2>2 DEF Rests
<1>10. co.frames[1].ret = End(c)
  BY <1>2, <1>3, <1>4
<1>11. ASSUME NEW j \in 1..K, j > 1
       PROVE  /\ Rests(c, a, co.frames[j - 1], co.frames[j].ret, co.frames[j].base + 1)
              /\ a.saved[co.frames[j].ret] = Lost
  <2>1. L + j \in DOMAIN m.frames /\ j - 1 \in 1..K /\ L + (j - 1) = (L + j) - 1 /\ L + j > L + 1
    <3>1. L + j \in DOMAIN m.frames
      BY <1>1, <1>4
    <3>2. j \in Int /\ L \in Int /\ K \in Nat
      BY <1>1, <1>2, <1>3
    <3>3. QED
      BY <1>11, <3>1, <3>2
  <2>2. ~Started(c, m, L + j)
    <3>1. SUFFICES ASSUME NEW i \in DOMAIN m.runs, m.runs[i].frame = L + j - 1
                   PROVE  FALSE
      BY <1>2, <2>1 DEF Started
    <3>2. m.runs[i].frame <= L
      <4>1. L \in Int /\ m.runs[R].frame = L /\ RunsLinked(c, a, m)
        BY <1>1, <1>2 DEF Shape, L, R
      <4>2. m.runs # <<>> => m.runs[Len(m.runs)].frame <= L
        BY <4>1 DEF R
      <4>3. QED
        BY <4>1, <4>2, RunsBelow
    <3>3. QED
      BY <1>2, <2>1, <3>1, <3>2
  <2>3. Called(c, a, m, L + j)
    BY <2>1, <2>2 DEF Shape, FramesLinked
  <2>4. Rests(c, a, m.frames[L + (j - 1)], m.frames[L + j].ret, m.frames[L + j].base + 1)
    BY <2>1, <2>3 DEF Called
  <2>5. a.saved[m.frames[L + j].ret] = Lost
    <3>1. PICK i \in DOMAIN m.runs :
            /\ m.runs[i].kind # "each" /\ m.runs[i].frame < N
            /\ \A l \in DOMAIN m.runs : i < l => m.runs[l].frame >= N
            /\ \A l \in DOMAIN m.frames : l > m.runs[i].frame + 1 /\ l <= N => a.saved[m.frames[l].ret] = Lost
      BY DEF Halting, Parkable, N
    <3>2. i = R
      <4>1. m.runs[R].frame < N /\ m.runs[R].frame \in Int
        BY <1>1, <1>2 DEF L, R
      <4>2. QED
        BY <1>1, <3>1, <4>1
    <3>3. m.runs[i].frame = L
      BY <3>2 DEF L, R
    <3>4. QED
      BY <1>1, <2>1, <3>1, <3>3
  <2>6. co.frames[j - 1].base = m.frames[L + (j - 1)].base - b /\ co.frames[j].base = m.frames[L + j].base - b
        /\ co.frames[j].ret = m.frames[L + j].ret
        /\ m.frames[L + (j - 1)].base \in Int /\ m.frames[L + j].base \in Int
    BY <1>1, <1>4, <2>1
  <2>7. m.frames[L + j].ret \in Positions(c) /\ a.height[m.frames[L + j].ret] \in Nat
    BY <2>4, MapTypes DEF Rests
  <2>8. m.frames[L + j].base + 1 >= m.frames[L + (j - 1)].base + a.height[m.frames[L + j].ret]
    BY <2>4 DEF Rests
  <2>9. co.frames[j].base + 1 >= co.frames[j - 1].base + a.height[co.frames[j].ret]
    <3> DEFINE x == m.frames[L + j].base
               y == m.frames[L + (j - 1)].base
               h == a.height[m.frames[L + j].ret]
    <3>1. x \in Int /\ y \in Int /\ h \in Int /\ b \in Int /\ x + 1 >= y + h
      BY <1>1, <2>6, <2>7, <2>8
    <3>2. co.frames[j].base = x - b /\ co.frames[j - 1].base = y - b /\ a.height[co.frames[j].ret] = h
      BY <2>6
    <3> HIDE DEF x, y, h
    <3>3. (x - b) + 1 >= (y - b) + h
      BY <3>1, Shifted
    <3>4. QED
      BY <3>2, <3>3
  <2>10. QED
    BY <2>5, <2>6, <2>7, <2>9 DEF Rests
<1>12. QED
  BY <1>3, <1>6, <1>7, <1>8, <1>9, <1>10, <1>11 DEF BlockOK, Resumable

LEMMA Restores ==
  ASSUME NEW c \in Chunks, NEW a \in Maps(c), NEW m \in MachineType(c), NEW n \in MachineType(c),
         NEW co \in Coro, NEW r \in Run, BlockOK(c, a, co), co.state = "Suspended",
         r.kind # "each", r.base \in Nat, Extends(m, n), Lifted(n, Len(m.frames), r.base, co),
         n.ip = co.ip, Len(n.stack) = r.base + Len(co.stack)
  PROVE  RunFrames(c, a, m, n, r) /\ Rests(c, a, Top(n), n.ip, Len(n.stack))
<1> DEFINE L == Len(m.frames)
           N == Len(n.frames)
           K == Len(co.frames)
           b == r.base
<1>1. /\ L \in Nat /\ DOMAIN n.frames = 1..N /\ N \in Nat
      /\ \A j \in 1..N : n.frames[j].base \in Int /\ n.frames[j].depth \in Nat
  BY MachineTypes
<1>2. /\ K \in Nat \ {0} /\ DOMAIN co.frames = 1..K /\ Len(co.stack) \in Nat
      /\ \A j \in 1..K : co.frames[j].base \in Int
      /\ Resumable(c, a, co)
  BY CoroTypes DEF BlockOK, Resumable
<1>3. N = L + K /\ b \in Nat
  BY DEF Lifted
<1> HIDE DEF L, N, K, b
<1>4. \A j \in 1..K : /\ n.frames[L + j].ret = co.frames[j].ret
                      /\ n.frames[L + j].base = co.frames[j].base + b
  <2>1. \A j \in 1..K : L + j \in 1..N
    BY <1>1, <1>2, <1>3
  <2>2. \A j \in DOMAIN co.frames : /\ co.frames[j].ret = n.frames[L + j].ret
                                    /\ co.frames[j].base = n.frames[L + j].base - b
    BY DEF Lifted, L, b
  <2>3. SUFFICES ASSUME NEW j \in 1..K
                 PROVE  /\ n.frames[L + j].ret = co.frames[j].ret
                        /\ n.frames[L + j].base = co.frames[j].base + b
    OBVIOUS
  <2>4. n.frames[L + j].base \in Int /\ co.frames[j].base = n.frames[L + j].base - b
        /\ co.frames[j].ret = n.frames[L + j].ret
    BY <1>1, <1>2, <2>1, <2>2
  <2>5. QED
    BY <1>3, <2>4
<1>5. \A j \in DOMAIN n.frames : j > L => j - L \in 1..K /\ L + (j - L) = j
  BY <1>1, <1>2, <1>3
<1>6. n.frames[L + 1].ret = End(c)
  BY <1>2, <1>4 DEF Resumable
<1>7. \A j \in 1..K : co.frames[j].base >= 0
  BY <1>2 DEF Resumable, Based
<1>8. \A j \in DOMAIN n.frames : j > L => n.frames[j].base >= b
  <2>1. SUFFICES ASSUME NEW j \in 1..K
                 PROVE  n.frames[L + j].base >= b
    BY <1>5
  <2>2. n.frames[L + j].base = co.frames[j].base + b /\ co.frames[j].base >= 0 /\ co.frames[j].base \in Int
    BY <1>2, <1>4, <1>7
  <2>3. QED
    BY <1>3, <2>2
<1>9. ASSUME NEW i \in DOMAIN n.frames, NEW j \in DOMAIN n.frames, L < i, i < j
      PROVE  n.frames[i].base <= n.frames[j].base
  <2>1. /\ i - L \in 1..K /\ j - L \in 1..K /\ i - L < j - L
        /\ n.frames[i].base = co.frames[i - L].base + b
        /\ n.frames[j].base = co.frames[j - L].base + b
    <3>1. j > L /\ L \in Int /\ i \in Int /\ j \in Int
      BY <1>1, <1>9
    <3>2. /\ i - L \in 1..K /\ L + (i - L) = i
          /\ j - L \in 1..K /\ L + (j - L) = j
      BY <1>5, <1>9, <3>1
    <3>3. /\ n.frames[L + (i - L)].base = co.frames[i - L].base + b
          /\ n.frames[L + (j - L)].base = co.frames[j - L].base + b
      BY <1>4, <3>2
    <3>4. QED
      BY <1>9, <3>1, <3>2, <3>3
  <2>2. co.frames[i - L].base <= co.frames[j - L].base
    BY <1>2, <2>1 DEF Resumable, Based
  <2>3. co.frames[i - L].base \in Int /\ co.frames[j - L].base \in Int
    BY <1>2, <2>1
  <2>4. QED
    BY <1>3, <2>1, <2>2, <2>3
<1>10. ASSUME NEW j \in DOMAIN n.frames, j > L + 1
       PROVE  /\ Rests(c, a, n.frames[j - 1], n.frames[j].ret, n.frames[j].base + 1)
              /\ a.saved[n.frames[j].ret] = Lost
  <2> DEFINE i == j - L
  <2>1. i \in 1..K /\ i - 1 \in 1..K /\ i > 1 /\ L + i = j /\ L + (i - 1) = j - 1
    BY <1>1, <1>2, <1>3, <1>10, SMTT(30)
  <2> HIDE DEF i
  <2>2. /\ Rests(c, a, co.frames[i - 1], co.frames[i].ret, co.frames[i].base + 1)
        /\ a.saved[co.frames[i].ret] = Lost
    BY <1>2, <2>1 DEF Resumable
  <2>3. n.frames[j - 1].base = co.frames[i - 1].base + b /\ n.frames[j].base = co.frames[i].base + b
        /\ n.frames[j].ret = co.frames[i].ret
    BY <1>4, <2>1
  <2>4. co.frames[i].ret \in Positions(c) /\ a.height[co.frames[i].ret] \in Nat
    BY <2>2, MapTypes DEF Rests
  <2>5. co.frames[i].base + 1 >= co.frames[i - 1].base + a.height[co.frames[i].ret]
    BY <2>2 DEF Rests
  <2>6. n.frames[j].base + 1 >= n.frames[j - 1].base + a.height[n.frames[j].ret]
    <3> DEFINE x == co.frames[i].base
               y == co.frames[i - 1].base
               h == a.height[co.frames[i].ret]
    <3>1. x \in Int /\ y \in Int /\ h \in Int /\ b \in Int /\ x + 1 >= y + h
      BY <1>2, <1>3, <2>1, <2>4, <2>5
    <3>2. n.frames[j].base = x + b /\ n.frames[j - 1].base = y + b /\ a.height[n.frames[j].ret] = h
      BY <2>3
    <3> HIDE DEF x, y, h
    <3>3. (x + b) + 1 >= (y + b) + h
      BY <3>1, Shifted
    <3>4. QED
      BY <3>2, <3>3
  <2>7. QED
    BY <2>2, <2>3, <2>4, <2>6 DEF Rests
<1>11. RunFrames(c, a, m, n, r)
  BY <1>1, <1>2, <1>3, <1>6, <1>8, <1>9, <1>10 DEF RunFrames, L, N, b
<1>12. Rests(c, a, Top(n), n.ip, Len(n.stack))
  <2>1. Top(n).base = Top(co).base + b
    BY <1>2, <1>3, <1>4 DEF Top, N, K
  <2>2. Rests(c, a, Top(co), co.ip, Len(co.stack)) /\ a.saved[co.ip] = Lost
    BY <1>2 DEF Resumable
  <2>3. co.ip \in Positions(c) /\ a.height[co.ip] \in Nat /\ Top(co).base \in Int
    BY <1>2, <2>2, MapTypes DEF Rests, Top, K
  <2>4. Len(co.stack) >= Top(co).base + a.height[co.ip]
    BY <2>2 DEF Rests
  <2>5. Len(n.stack) >= Top(n).base + a.height[n.ip]
    BY <1>2, <1>3, <2>1, <2>3, <2>4 DEF b
  <2>6. QED
    BY <2>2, <2>3, <2>5 DEF Rests
<1>13. QED
  BY <1>11, <1>12

(* ---- what lies below ------------------------------------------------------------------ *)

LEMMA AllBelow ==
  ASSUME NEW c \in Chunks, NEW a \in Maps(c), NEW m \in MachineType(c), Shape(c, a, m), NEW h \in Int,
         m.frames # <<>> => Top(m).base <= h,
         m.runs # <<>> /\ m.runs[Len(m.runs)].frame = Len(m.frames) => m.runs[Len(m.runs)].base <= h
  PROVE  /\ \A j \in DOMAIN m.frames : m.frames[j].base <= h
         /\ \A i \in DOMAIN m.runs : m.runs[i].base \in Nat /\ m.runs[i].base <= h
                                     /\ m.runs[i].frame \in Nat
<1>1. /\ Len(m.frames) \in Nat /\ DOMAIN m.frames = 1..Len(m.frames)
      /\ Len(m.runs) \in Nat /\ DOMAIN m.runs = 1..Len(m.runs)
      /\ m.frames # <<>> <=> Len(m.frames) > 0
      /\ m.runs # <<>> <=> Len(m.runs) > 0
  BY MachineTypes
<1>2. ASSUME NEW j \in DOMAIN m.frames
      PROVE  m.frames[j].base \in Int /\ m.frames[j].base >= 0 /\ m.frames[j].base <= h
  <2>1. m.frames # <<>>
    BY <1>1
  <2>2. m.frames[j].base \in Int /\ m.frames[j].base >= 0 /\ m.frames[j].base <= Top(m).base
        /\ Top(m).base \in Int
    BY <1>1, <2>1, BaseBelow DEF Shape
  <2>3. QED
    BY <2>1, <2>2
<1>3. ASSUME NEW i \in DOMAIN m.runs
      PROVE  m.runs[i].base \in Nat /\ m.runs[i].base <= h /\ m.runs[i].frame \in Nat
  <2>1. m.runs[i].base \in Int /\ m.runs[i].frame \in Int
    BY MachineTypes
  <2>2. /\ m.runs[i].frame \in DOMAIN m.frames
        /\ m.frames[m.runs[i].frame].base <= m.runs[i].base
        /\ m.runs[i].frame < Len(m.frames) => m.frames[m.runs[i].frame + 1].base >= m.runs[i].base
    BY DEF Shape, RunsLinked, RunLinked
  <2>3. m.runs[i].base \in Nat /\ m.runs[i].frame \in Nat
    <3>1. m.frames[m.runs[i].frame].base \in Int /\ m.frames[m.runs[i].frame].base >= 0
      BY <1>2, <2>2
    <3>2. QED
      BY <1>1, <2>1, <2>2, <3>1
  <2>4. CASE m.runs[i].frame < Len(m.frames)
    <3>1. m.runs[i].frame + 1 \in DOMAIN m.frames
      BY <1>1, <2>1, <2>2, <2>4
    <3>2. m.frames[m.runs[i].frame + 1].base \in Int /\ m.frames[m.runs[i].frame + 1].base <= h
      BY <1>2, <3>1
    <3>3. QED
      BY <2>1, <2>2, <2>3, <2>4, <3>2
  <2>5. CASE ~(m.runs[i].frame < Len(m.frames))
    <3>1. m.runs[i].frame = Len(m.frames)
      BY <1>1, <2>1, <2>2, <2>5
    <3>2. i = Len(m.runs)
      <4>1. SUFFICES ASSUME i < Len(m.runs) PROVE FALSE
        BY <1>1
      <4>2. Len(m.runs) \in DOMAIN m.runs
        BY <1>1
      <4>3. m.runs[i].frame < m.runs[Len(m.runs)].frame
            /\ m.runs[Len(m.runs)].frame \in DOMAIN m.frames
        BY <4>1, <4>2 DEF Shape, RunsLinked, RunLinked
      <4>4. QED
        BY <1>1, <3>1, <4>3
    <3>3. QED
      BY <1>1, <2>3, <3>1, <3>2
  <2>6. QED
    BY <2>4, <2>5
<1>4. QED
  BY <1>2, <1>3

LEMMA NestedBases ==
  ASSUME NEW c \in Chunks, NEW a \in Maps(c), NEW m \in MachineType(c), NEW stopped,
         MachineOK(c, a, m, stopped)
  PROVE  /\ \A j \in DOMAIN m.frames : m.frames[j].base <= Len(m.stack)
         /\ \A i, j \in DOMAIN m.frames : i < j => m.frames[i].base <= m.frames[j].base
         /\ \A i \in DOMAIN m.runs : m.runs[i].base <= Len(m.stack)
<1>1. Shape(c, a, m) /\ Len(m.stack) \in Nat
  BY MachineTypes DEF MachineOK
<1>2. CASE Going(c, a, m) \/ Halting(c, a, m)
  <2>1. m.frames # <<>> /\ Top(m).base \in Int
    BY <1>1, <1>2, BaseBelow DEF Going, Halting, Shape
  <2>2. m.ip \in Positions(c) /\ a.height[m.ip] \in Nat
    BY <1>2, MapTypes DEF Going, Halting, Rests
  <2>3. Top(m).base <= Len(m.stack)
    BY <1>1, <1>2, <2>1, <2>2 DEF Going, Halting, Rests
  <2>4. m.runs # <<>> => m.runs[Len(m.runs)].frame < Len(m.frames)
    BY <1>2 DEF Going, Halting
  <2>5. m.runs # <<>> => m.runs[Len(m.runs)].frame # Len(m.frames)
    BY <2>4, LastRun, MachineTypes
  <2>6. QED
    BY <1>1, <2>3, <2>5, AllBelow DEF Shape, Based
<1>3. CASE Over(c, m)
  <2>1. CASE m.runs = <<>>
    <3>1. m.frames = <<>> /\ DOMAIN m.frames = {} /\ DOMAIN m.runs = {}
      BY <1>3, <2>1 DEF Over
    <3>2. QED
      BY <3>1
  <2>2. CASE m.runs # <<>>
    <3> DEFINE r == m.runs[Len(m.runs)]
    <3>1. r.frame = Len(m.frames) /\ Len(m.stack) >= r.base + 1
      BY <1>3, <2>2 DEF Over
    <3>2. Len(m.runs) \in DOMAIN m.runs /\ r.base \in Int
      BY <2>2, LastRun, MachineTypes
    <3>3. m.frames[r.frame].base <= r.base /\ m.frames[r.frame].base \in Int
      <4>1. r.frame \in DOMAIN m.frames /\ m.frames[r.frame].base <= r.base
        BY <1>1, <3>2 DEF Shape, RunsLinked, RunLinked
      <4>2. QED
        BY <4>1, MachineTypes
    <3>4. Top(m).base <= Len(m.stack) /\ r.base <= Len(m.stack)
      BY <1>1, <3>1, <3>2, <3>3 DEF Top
    <3>5. QED
      BY <1>1, <3>4, AllBelow DEF Shape, Based
  <2>3. QED
    BY <2>1, <2>2
<1>4. QED
  BY <1>2, <1>3 DEF MachineOK

\* n has the operands of m up to h and its frames up to g.
Agree(m, n, h, g) ==
  /\ h <= Len(m.stack) /\ h <= Len(n.stack) /\ \A p \in 1..h : n.stack[p] = m.stack[p]
  /\ g <= Len(m.frames) /\ g <= Len(n.frames) /\ \A j \in 1..g : n.frames[j] = m.frames[j]

LEMMA KeptBelow ==
  ASSUME NEW c \in Chunks, NEW m \in MachineType(c), NEW n \in MachineType(c),
         NEW h \in Int, NEW g \in Int, Agree(m, n, h, g),
         \A i \in DOMAIN m.runs : /\ m.runs[i].base \in Nat /\ m.runs[i].base <= h
                                  /\ m.runs[i].frame \in Nat /\ m.runs[i].frame <= g
  PROVE  Kept(m, n)
<1>1. /\ m.stack \in Seq(Val) /\ n.stack \in Seq(Val) /\ m.frames \in Seq(Frame) /\ n.frames \in Seq(Frame)
      /\ Len(m.stack) \in Nat /\ Len(n.stack) \in Nat /\ Len(m.frames) \in Nat /\ Len(n.frames) \in Nat
  BY MachineTypes
<1>2. SUFFICES ASSUME NEW i \in DOMAIN m.runs
               PROVE  /\ SubSeq(n.stack, 1, m.runs[i].base) = SubSeq(m.stack, 1, m.runs[i].base)
                      /\ SubSeq(n.frames, 1, m.runs[i].frame) = SubSeq(m.frames, 1, m.runs[i].frame)
  BY DEF Kept
<1>3. PICK b \in Nat : b = m.runs[i].base /\ b <= h
  OBVIOUS
<1>4. PICK f \in Nat : f = m.runs[i].frame /\ f <= g
  OBVIOUS
<1>5. b <= Len(m.stack) /\ b <= Len(n.stack) /\ \A p \in 1..b : n.stack[p] = m.stack[p]
  BY <1>1, <1>3 DEF Agree
<1>6. f <= Len(m.frames) /\ f <= Len(n.frames) /\ \A p \in 1..f : n.frames[p] = m.frames[p]
  BY <1>1, <1>4 DEF Agree
<1>7. SubSeq(n.stack, 1, b) = SubSeq(m.stack, 1, b)
  BY <1>1, <1>5, SameStart
<1>8. SubSeq(n.frames, 1, f) = SubSeq(m.frames, 1, f)
  BY <1>1, <1>6, SameStart
<1>9. QED
  BY <1>3, <1>4, <1>7, <1>8

\* A step of the code that runs leaves what lies below its frame.
LEMMA KeptRunning ==
  ASSUME NEW c \in Chunks, NEW a \in Maps(c), NEW m \in MachineType(c), NEW n \in MachineType(c),
         Shape(c, a, m), Going(c, a, m), Agree(m, n, Top(m).base, Len(m.frames) - 1)
  PROVE  Kept(m, n)
<1>1. m.frames # <<>> /\ Top(m).base \in Int /\ Len(m.frames) \in Nat
  BY BaseBelow, MachineTypes DEF Going, Shape
<1>2. m.runs # <<>> => m.runs[Len(m.runs)].frame # Len(m.frames)
  BY LastRun, MachineTypes DEF Going
<1>3. \A i \in DOMAIN m.runs : m.runs[i].base \in Nat /\ m.runs[i].base <= Top(m).base /\ m.runs[i].frame \in Nat
  BY <1>1, <1>2, AllBelow
<1>4. \A i \in DOMAIN m.runs : m.runs[i].frame < Len(m.frames)
  BY BelowTop DEF Going
<1>5. \A i \in DOMAIN m.runs : m.runs[i].frame <= Len(m.frames) - 1
  BY <1>1, <1>3, <1>4
<1>6. QED
  BY <1>1, <1>3, <1>5, KeptBelow

\* The end of a run leaves what lies below it.
LEMMA KeptEnding ==
  ASSUME NEW c \in Chunks, NEW a \in Maps(c), NEW m \in MachineType(c), NEW k \in MachineType(c),
         NEW n \in MachineType(c), NEW r \in Run,
         Shape(c, a, k), Awaits(c, a, k, r.ip, r.base), r.base \in Int,
         Len(m.runs) = Len(k.runs) + 1, m.runs[Len(m.runs)] = r,
         \A i \in DOMAIN k.runs : k.runs[i] = m.runs[i],
         r.frame = Len(k.frames), Agree(m, n, r.base, r.frame)
  PROVE  Kept(m, n)
<1>1. /\ Len(k.frames) \in Nat /\ Len(k.runs) \in Nat /\ DOMAIN k.runs = 1..Len(k.runs)
      /\ DOMAIN m.runs = 1..Len(m.runs)
      /\ k.frames # <<>> /\ Top(k).base <= r.base /\ Top(k).base \in Int
      /\ \A i \in DOMAIN k.runs : k.runs[i].frame < Len(k.frames)
  BY BaseBelow, BelowTop, MachineTypes DEF Awaits, Shape
<1>2. Top(k).base >= 0
  BY <1>1, BaseBelow, MachineTypes DEF Shape, Top
<1>3. k.runs # <<>> => k.runs[Len(k.runs)].frame # Len(k.frames)
  BY <1>1, LastRun DEF Awaits
<1>4. \A i \in DOMAIN k.runs : k.runs[i].base \in Nat /\ k.runs[i].base <= r.base /\ k.runs[i].frame \in Nat
  BY <1>1, <1>3, AllBelow
<1>5. ASSUME NEW i \in DOMAIN m.runs
      PROVE  /\ m.runs[i].base \in Nat /\ m.runs[i].base <= r.base
             /\ m.runs[i].frame \in Nat /\ m.runs[i].frame <= r.frame
  <2>1. CASE i \in DOMAIN k.runs
    <3>1. m.runs[i] = k.runs[i] /\ k.runs[i].frame < Len(k.frames) /\ k.runs[i].frame \in Nat
      BY <1>1, <1>4, <2>1
    <3>2. k.runs[i].frame <= r.frame
      BY <1>1, <3>1
    <3>3. QED
      BY <1>4, <2>1, <3>1, <3>2
  <2>2. CASE i \notin DOMAIN k.runs
    <3>1. i = Len(m.runs)
      BY <1>1, <2>2
    <3>2. r.base \in Nat /\ r.frame \in Nat
      BY <1>1, <1>2
    <3>3. QED
      BY <3>1, <3>2
  <2>3. QED
    BY <2>1, <2>2
<1>6. r.frame \in Int
  BY <1>1
<1>7. QED
  BY <1>5, <1>6, KeptBelow

LEMMA AgreeAll ==
  ASSUME NEW c \in Chunks, NEW a \in Maps(c), NEW m \in MachineType(c), NEW n \in MachineType(c),
         Shape(c, a, m), Going(c, a, m), Agree(m, n, Len(m.stack), Len(m.frames))
  PROVE  Kept(m, n)
<1>1. m.frames # <<>> /\ Top(m).base \in Int /\ Len(m.frames) \in Nat /\ Len(m.stack) \in Nat /\ Len(n.stack) \in Nat
  BY BaseBelow, MachineTypes DEF Going, Shape
<1>2. Top(m).base <= Len(m.stack)
  <2>1. MachineOK(c, a, m, FALSE)
    BY DEF MachineOK
  <2>2. Len(m.frames) \in DOMAIN m.frames
    BY <1>1, MachineTypes
  <2>3. QED
    BY <2>1, <2>2, NestedBases DEF Top
<1>3. Agree(m, n, Top(m).base, Len(m.frames) - 1)
  BY <1>1, <1>2 DEF Agree
<1>4. QED
  BY <1>3, KeptRunning

(* ---- one operation ------------------------------------------------------------------ *)

\* What a step of the code that runs must show.
Steps(c, a, m, n) ==
  /\ n \in MachineType(c) /\ MachineOK(c, a, n, FALSE)
  /\ n.runs = m.runs /\ Kept(m, n)

Ready(c, a, m) == Verified(c, a) /\ m \in MachineType(c) /\ Shape(c, a, m) /\ Going(c, a, m)

LEMMA ReadyHere ==
  ASSUME NEW c \in Chunks, NEW a \in Maps(c), NEW m, Ready(c, a, m)
  PROVE  /\ m.ip \in Positions(c) /\ m.ip \in Nat /\ c.ops[m.ip] \in Op /\ OpVerified(c, a, m.ip)
         /\ a.height[m.ip] \in Nat /\ (a.saved[m.ip] = Lost \/ a.saved[m.ip] \in Nat) /\ a.saved[m.ip] \in Int
         /\ Len(m.stack) \in Nat /\ Len(m.frames) \in Nat \ {0} /\ Top(m) = m.frames[Len(m.frames)]
         /\ Top(m) \in Frame /\ Top(m).base \in Nat /\ Top(m).depth \in Nat /\ Top(m).own \in Nat /\ Top(m).slot \in Val
         /\ Len(m.stack) >= Top(m).base + a.height[m.ip]
         /\ (a.saved[m.ip] # Lost => Top(m).depth >= Top(m).base + a.saved[m.ip] /\ Top(m).depth = Top(m).base + Top(m).own)
<1>1. m \in MachineType(c) /\ m.ip \in Positions(c)
  BY DEF Ready, Going, Rests
<1>2. OpVerified(c, a, m.ip) /\ c.ops[m.ip] \in Op /\ m.ip \in Nat
  BY <1>1, ChunkTypes, MachineTypes DEF Ready, Verified
<1>3. Len(m.frames) \in Nat \ {0} /\ Len(m.frames) \in 1..Len(m.frames) /\ Len(m.stack) \in Nat
  BY <1>1, MachineTypes DEF Ready, Going
<1>4. /\ Top(m) \in Frame /\ Top(m).base \in Int /\ Top(m).depth \in Nat /\ Top(m).own \in Nat /\ Top(m).slot \in Val
      /\ Top(m).base >= 0
  BY <1>1, <1>3, MachineTypes DEF Top, Ready, Shape, Based
<1>5. QED
  BY <1>1, <1>2, <1>3, <1>4, MapTypes DEF Ready, Going, Rests, Top

\* An operation that pops k operands, pushes l, and goes on in the same frame.
LEMMA OperandStep ==
  ASSUME NEW c \in Chunks, NEW a \in Maps(c), NEW m, Ready(c, a, m), NEW n \in MachineType(c),
         NEW k \in Nat, NEW l \in Nat, a.height[m.ip] >= k,
         Goes(c, a, m.ip, n.ip, a.height[m.ip] - k + l, a.saved[m.ip]),
         SameFrames(m, n), Top(n).depth = Top(m).depth /\ Top(n).own = Top(m).own,
         Len(n.stack) >= Len(m.stack) - k + l,
         \A p \in 1..Len(m.stack) - k : n.stack[p] = m.stack[p]
  PROVE  Steps(c, a, m, n)
<1> DEFINE h == a.height[m.ip] - k + l
           s == a.saved[m.ip]
           b == Top(m).base
<1>1. /\ h \in Int /\ s \in Int /\ b \in Nat /\ Len(m.stack) \in Nat /\ Len(m.frames) \in Nat \ {0}
      /\ Len(m.stack) >= b + a.height[m.ip] /\ a.height[m.ip] \in Nat
      /\ (s # Lost => Top(m).depth >= b + s /\ Top(m).depth = Top(m).base + Top(m).own)
  BY ReadyHere
<1>2. m \in MachineType(c) /\ Shape(c, a, m) /\ Going(c, a, m)
  BY DEF Ready
<1>3. Top(n).base = b
  <2>1. Len(m.frames) \in DOMAIN m.frames
    BY <1>1, <1>2, MachineTypes
  <2>2. n.frames[Len(m.frames)].base = m.frames[Len(m.frames)].base
    BY <2>1 DEF SameFrames
  <2>3. Len(n.frames) = Len(m.frames)
    BY DEF SameFrames
  <2>4. QED
    BY <2>2, <2>3 DEF Top
<1>4. Len(n.stack) >= Top(n).base + h
  <2>1. Len(n.stack) \in Nat
    BY MachineTypes
  <2> DEFINE x == Len(m.stack)
             y == Len(n.stack)
             g == a.height[m.ip]
  <2>2. x \in Nat /\ y \in Nat /\ g \in Nat /\ b \in Nat /\ x >= b + g /\ y >= x - k + l
    BY <1>1, <2>1
  <2>3. h = g - k + l
    OBVIOUS
  <2> HIDE DEF x, y, g, b, h
  <2>4. y >= b + h
    BY <2>2, <2>3
  <2>5. QED
    BY <1>3, <2>4 DEF y
<1>5. Goes(c, a, m.ip, n.ip, h, s)
  OBVIOUS
<1>6. s # Lost => Top(n).depth >= Top(n).base + s /\ Top(n).depth = Top(n).base + Top(n).own
  <2>1. Top(n).depth = Top(m).depth /\ Top(n).own = Top(m).own
    OBVIOUS
  <2>2. (s # Lost => Top(m).depth >= b + s /\ Top(m).depth = b + Top(m).own)
    BY <1>1
  <2> HIDE DEF b, s
  <2>3. QED
    BY <1>3, <2>1, <2>2
<1>7. Agree(m, n, b, Len(m.frames) - 1)
  <2>1. b <= Len(m.stack) - k /\ b <= Len(m.stack) /\ b <= Len(n.stack)
    <3>1. Len(n.stack) \in Nat
      BY MachineTypes
    <3> DEFINE x == Len(m.stack)
               y == Len(n.stack)
               g == a.height[m.ip]
    <3>2. x \in Nat /\ y \in Nat /\ g \in Nat /\ b \in Nat /\ x >= b + g /\ g >= k /\ y >= x - k + l
      BY <1>1, <3>1
    <3> HIDE DEF x, y, g, b
    <3>3. b <= x - k /\ b <= x /\ b <= y
      BY <3>2
    <3>4. QED
      BY <3>3 DEF x, y
  <2>2. \A p \in 1..b : n.stack[p] = m.stack[p]
    BY <1>1, <2>1
  <2>3. /\ Len(n.frames) = Len(m.frames)
        /\ \A j \in 1..Len(m.frames) - 1 : n.frames[j] = m.frames[j]
    <3>1. DOMAIN m.frames = 1..Len(m.frames)
      BY <1>2, MachineTypes
    <3>2. \A j \in 1..Len(m.frames) - 1 : j \in DOMAIN m.frames /\ j < Len(m.frames)
      BY <1>1, <3>1
    <3>3. QED
      BY <3>2 DEF SameFrames
  <2>4. QED
    BY <1>1, <2>1, <2>2, <2>3 DEF Agree
<1> HIDE DEF h, s, b
<1>8. Shape(c, a, n) /\ Going(c, a, n)
  BY <1>1, <1>2, <1>4, <1>5, <1>6, FrameStep
<1>9. Kept(m, n)
  BY <1>2, <1>7, KeptRunning DEF b
<1>10. QED
  BY <1>8, <1>9 DEF Steps, MachineOK, SameFrames

LEMMA Onward ==
  ASSUME NEW c \in Chunks, NEW a, NEW i, NEW p, NEW h, NEW s, Goes(c, a, i, p, h, s)
  PROVE  p \in 1..End(c)
  BY ChunkTypes DEF Goes, Positions

\* The same, where the operands are given.
LEMMA StackStep ==
  ASSUME NEW c \in Chunks, NEW a \in Maps(c), NEW m, Ready(c, a, m), NEW st \in Seq(Val), NEW p,
         NEW k \in Nat, NEW l \in Nat, a.height[m.ip] >= k,
         Goes(c, a, m.ip, p, a.height[m.ip] - k + l, a.saved[m.ip]),
         Len(st) = Len(m.stack) - k + l,
         \A q \in 1..Len(m.stack) - k : st[q] = m.stack[q],
         NEW n, n = [m EXCEPT !.ip = p, !.stack = st]
  PROVE  Steps(c, a, m, n)
<1>1. m \in MachineType(c)
  BY DEF Ready
<1>2. n \in MachineType(c) /\ n.ip = p /\ n.stack = st /\ n.frames = m.frames /\ n.runs = m.runs
  BY <1>1, Onward DEF MachineType
<1>3. SameFrames(m, n) /\ Top(n).depth = Top(m).depth /\ Top(n).own = Top(m).own
  BY <1>2 DEF SameFrames, Top
<1>4. Len(n.stack) >= Len(m.stack) - k + l
  BY <1>1, <1>2, MachineTypes
<1>5. QED
  BY <1>2, <1>3, <1>4, OperandStep

LEMMA PushStep ==
  ASSUME NEW c \in Chunks, NEW a \in Maps(c), NEW m, Ready(c, a, m), NEW v \in Val,
         Goes(c, a, m.ip, m.ip + 1, a.height[m.ip] + 1, a.saved[m.ip])
  PROVE  Steps(c, a, m, Advance(Push(m, v)))
<1>1. m \in MachineType(c) /\ m.stack \in Seq(Val) /\ Len(m.stack) \in Nat
  BY MachineTypes DEF Ready
<1>2. a.height[m.ip] \in Nat
  BY ReadyHere
<1>3. /\ Append(m.stack, v) \in Seq(Val) /\ Len(Append(m.stack, v)) = Len(m.stack) + 1
      /\ \A q \in 1..Len(m.stack) : Append(m.stack, v)[q] = m.stack[q]
  BY <1>1, AppendSeq
<1>4. Advance(Push(m, v)) = [m EXCEPT !.ip = m.ip + 1, !.stack = Append(m.stack, v)]
  BY <1>1 DEF Advance, Push, MachineType
<1>5. /\ a.height[m.ip] >= 0 /\ a.height[m.ip] - 0 + 1 = a.height[m.ip] + 1
      /\ Len(m.stack) - 0 + 1 = Len(m.stack) + 1 /\ Len(m.stack) - 0 = Len(m.stack)
  BY <1>1, <1>2
<1>6. QED
  BY <1>3, <1>4, <1>5, StackStep

LEMMA PopStep ==
  ASSUME NEW c \in Chunks, NEW a \in Maps(c), NEW m, Ready(c, a, m), NEW p,
         a.height[m.ip] >= 1, Goes(c, a, m.ip, p, a.height[m.ip] - 1, a.saved[m.ip])
  PROVE  Steps(c, a, m, [PopOne(m) EXCEPT !.ip = p])
<1>1. m \in MachineType(c) /\ m.stack \in Seq(Val) /\ Len(m.stack) \in Nat
  BY MachineTypes DEF Ready
<1>2. a.height[m.ip] \in Nat /\ m.stack # <<>>
  <2>1. /\ a.height[m.ip] \in Nat /\ Top(m).base \in Nat
        /\ Len(m.stack) >= Top(m).base + a.height[m.ip]
    BY ReadyHere
  <2>2. Len(m.stack) > 0
    BY <1>1, <2>1
  <2>3. QED
    BY <1>1, <2>1, <2>2, LenNat
<1>3. /\ Front(m.stack) \in Seq(Val) /\ Len(Front(m.stack)) = Len(m.stack) - 1
      /\ \A q \in 1..Len(m.stack) - 1 : Front(m.stack)[q] = m.stack[q]
  BY <1>1, <1>2, FrontSeq
<1>4. [PopOne(m) EXCEPT !.ip = p] = [m EXCEPT !.ip = p, !.stack = Front(m.stack)]
  BY <1>1 DEF PopOne, MachineType
<1>5. /\ a.height[m.ip] - 1 + 0 = a.height[m.ip] - 1
      /\ Len(m.stack) - 1 + 0 = Len(m.stack) - 1
  BY <1>1, <1>2
<1>6. QED
  BY <1>3, <1>4, <1>5, StackStep

\* Another value on top.
LEMMA ChangeStep ==
  ASSUME NEW c \in Chunks, NEW a \in Maps(c), NEW m, Ready(c, a, m), NEW v \in Val,
         a.height[m.ip] >= 1, Goes(c, a, m.ip, m.ip + 1, a.height[m.ip], a.saved[m.ip])
  PROVE  Steps(c, a, m, Advance(Push(PopOne(m), v)))
<1>1. m \in MachineType(c) /\ m.stack \in Seq(Val) /\ Len(m.stack) \in Nat
  BY MachineTypes DEF Ready
<1>2. a.height[m.ip] \in Nat /\ m.stack # <<>>
  BY <1>1, ReadyHere, LenNat
<1> DEFINE f == Front(m.stack)
           n == [m EXCEPT !.ip = m.ip + 1, !.stack = Append(f, v)]
<1>3. f \in Seq(Val) /\ Len(f) = Len(m.stack) - 1 /\ \A q \in 1..Len(m.stack) - 1 : f[q] = m.stack[q]
  BY <1>1, <1>2, FrontSeq
<1>4. Advance(Push(PopOne(m), v)) = n
  BY <1>1 DEF PopOne, Push, Advance, MachineType
<1> HIDE DEF f
<1>5. Append(f, v) \in Seq(Val) /\ Len(Append(f, v)) = Len(f) + 1
      /\ \A q \in 1..Len(f) : Append(f, v)[q] = f[q]
  BY <1>3, AppendSeq
<1>6. \A q \in 1..Len(m.stack) - 1 : Append(f, v)[q] = m.stack[q]
  BY <1>3, <1>5
<1>7. a.height[m.ip] - 1 + 1 = a.height[m.ip]
  BY <1>2
<1>8. Len(Append(f, v)) = Len(m.stack) - 1 + 1
  BY <1>3, <1>5
<1>9. Goes(c, a, m.ip, m.ip + 1, a.height[m.ip] - 1 + 1, a.saved[m.ip])
  BY <1>7
<1>10. 1 \in Nat
  OBVIOUS
<1>11. Steps(c, a, m, n)
  BY <1>5, <1>6, <1>8, <1>9, <1>10, StackStep
<1>12. QED
  BY <1>4, <1>11

\* On to p with the same operands.
LEMMA MoveStep ==
  ASSUME NEW c \in Chunks, NEW a \in Maps(c), NEW m, Ready(c, a, m), NEW p,
         Goes(c, a, m.ip, p, a.height[m.ip], a.saved[m.ip])
  PROVE  Steps(c, a, m, [m EXCEPT !.ip = p])
<1>1. m \in MachineType(c) /\ m.stack \in Seq(Val) /\ Len(m.stack) \in Nat
  BY MachineTypes DEF Ready
<1>2. a.height[m.ip] \in Nat
  BY ReadyHere
<1>3. [m EXCEPT !.ip = p] = [m EXCEPT !.ip = p, !.stack = m.stack]
  BY <1>1 DEF MachineType
<1>4. a.height[m.ip] >= 0 /\ a.height[m.ip] - 0 + 0 = a.height[m.ip] /\ Len(m.stack) - 0 + 0 = Len(m.stack)
  BY <1>1, <1>2
<1>5. QED
  BY <1>1, <1>3, <1>4, StackStep

LEMMA SetStep ==
  ASSUME NEW c \in Chunks, NEW a \in Maps(c), NEW m, Ready(c, a, m), NEW v \in Val,
         a.height[m.ip] >= 1, Goes(c, a, m.ip, m.ip + 1, a.height[m.ip] - 1, a.saved[m.ip])
  PROVE  Steps(c, a, m, Advance(PopOne(SetSlot(m, v))))
<1>1. /\ m \in MachineType(c) /\ m.stack \in Seq(Val) /\ Len(m.stack) \in Nat /\ m.frames \in Seq(Frame)
      /\ DOMAIN m.frames = 1..Len(m.frames)
  BY MachineTypes DEF Ready
<1>2. /\ a.height[m.ip] \in Nat /\ m.stack # <<>> /\ Len(m.frames) \in Nat \ {0}
      /\ Top(m) \in Frame /\ Top(m) = m.frames[Len(m.frames)]
  BY <1>1, ReadyHere, LenNat
<1> DEFINE g == [Top(m) EXCEPT !.slot = v]
           fs == [m.frames EXCEPT ![Len(m.frames)] = g]
           n == [m EXCEPT !.ip = m.ip + 1, !.stack = Front(m.stack), !.frames = fs]
<1>3. g \in Frame /\ g.base = Top(m).base /\ g.ret = Top(m).ret /\ g.depth = Top(m).depth /\ g.own = Top(m).own
  BY <1>2 DEF Frame
<1>4. Front(m.stack) \in Seq(Val) /\ Len(Front(m.stack)) = Len(m.stack) - 1
      /\ \A q \in 1..Len(m.stack) - 1 : Front(m.stack)[q] = m.stack[q]
  BY <1>1, <1>2, FrontSeq
<1>5. Advance(PopOne(SetSlot(m, v))) = n
  BY <1>1, <1>2 DEF PopOne, SetSlot, Advance, MachineType
<1> HIDE DEF g
<1>6. /\ fs \in Seq(Frame) /\ Len(fs) = Len(m.frames) /\ fs[Len(m.frames)] = g
      /\ \A j \in 1..Len(m.frames) : j < Len(m.frames) => fs[j] = m.frames[j]
  BY <1>1, <1>2, <1>3, ExceptSeq
<1> HIDE DEF fs
<1>7. n \in MachineType(c) /\ n.ip = m.ip + 1 /\ n.stack = Front(m.stack) /\ n.frames = fs /\ n.runs = m.runs
  BY <1>1, <1>4, <1>6, Onward DEF MachineType
<1>8. SameFrames(m, n) /\ Top(n).depth = Top(m).depth /\ Top(n).own = Top(m).own
  BY <1>1, <1>2, <1>3, <1>6, <1>7 DEF SameFrames, Top
<1>9. a.height[m.ip] - 1 + 0 = a.height[m.ip] - 1 /\ Len(m.stack) - 1 + 0 = Len(m.stack) - 1
  BY <1>1, <1>2
<1> HIDE DEF n
<1>10. Steps(c, a, m, n)
  BY <1>4, <1>7, <1>8, <1>9, OperandStep
<1>11. QED
  BY <1>5, <1>10

LEMMA CallingStep ==
  ASSUME NEW c \in Chunks, NEW a \in Maps(c), NEW m, Ready(c, a, m), NEW p,
         Entered(c, a, p, 0),
         Goes(c, a, m.ip, m.ip + 1, a.height[m.ip] + 1, a.saved[m.ip]),
         p \in a.yields => m.ip \in a.yields /\ a.saved[m.ip + 1] = Lost
  PROVE  Steps(c, a, m, Enter(m, p, m.ip + 1, Len(m.stack)))
<1>1. /\ m \in MachineType(c) /\ m.stack \in Seq(Val) /\ Len(m.stack) \in Nat /\ m.frames \in Seq(Frame)
      /\ m.ip \in Nat /\ Shape(c, a, m) /\ Going(c, a, m)
  BY MachineTypes DEF Ready
<1>2. /\ a.height[m.ip] \in Nat /\ Len(m.frames) \in Nat \ {0} /\ Top(m).base \in Nat
      /\ Len(m.stack) >= Top(m).base + a.height[m.ip]
  BY ReadyHere
<1> DEFINE f == NewFrame(m.ip + 1, Len(m.stack))
           n == [m EXCEPT !.ip = p, !.frames = Append(m.frames, f)]
<1>3. f \in Frame
  BY <1>1, NewFrameType
<1>4. Enter(m, p, m.ip + 1, Len(m.stack)) = n
  BY <1>1 DEF Enter, NewFrame, MachineType
<1> HIDE DEF f
<1>5. /\ Append(m.frames, f) \in Seq(Frame) /\ Len(Append(m.frames, f)) = Len(m.frames) + 1
      /\ \A j \in 1..Len(m.frames) : Append(m.frames, f)[j] = m.frames[j]
  BY <1>1, <1>3, AppendSeq
<1>6. p \in 1..End(c)
  BY ChunkTypes DEF Entered, Positions
<1>7. n \in MachineType(c) /\ n.ip = p /\ n.stack = m.stack /\ n.frames = Append(m.frames, f) /\ n.runs = m.runs
  BY <1>1, <1>5, <1>6 DEF MachineType
<1> HIDE DEF n
<1>8. Shape(c, a, n) /\ Going(c, a, n)
  BY <1>1, <1>7, CallStep DEF f
<1>9. Agree(m, n, Top(m).base, Len(m.frames) - 1)
  BY <1>1, <1>2, <1>5, <1>7 DEF Agree
<1>10. Kept(m, n)
  BY <1>1, <1>7, <1>9, KeptRunning
<1>11. QED
  BY <1>4, <1>7, <1>8, <1>10 DEF Steps, MachineOK

LEMMA LeaveStep ==
  ASSUME NEW c \in Chunks, NEW a \in Maps(c), NEW m, Ready(c, a, m), a.height[m.ip] >= 1
  PROVE  Steps(c, a, m, Leave(m))
<1>1. /\ m \in MachineType(c) /\ m.stack \in Seq(Val) /\ Len(m.stack) \in Nat /\ m.frames \in Seq(Frame)
      /\ m.ip \in Nat /\ Shape(c, a, m) /\ Going(c, a, m) /\ m.frames # <<>>
  BY MachineTypes DEF Ready, Going
<1>2. /\ a.height[m.ip] \in Nat /\ Len(m.frames) \in Nat \ {0} /\ Top(m).base \in Nat
      /\ Len(m.stack) >= Top(m).base + a.height[m.ip] /\ m.stack # <<>>
  BY <1>1, ReadyHere, LenNat
<1> DEFINE b == Top(m).base
           f == Front(m.stack)
           t == Truncate(f, b)
           v == Tip(m.stack)
           n == [m EXCEPT !.ip = Top(m).ret, !.stack = Append(t, v), !.frames = Front(m.frames)]
<1>3. Leave(m) = n
  BY <1>1 DEF Leave, MachineType
<1>4. v \in Val
  BY <1>1, TipIn
<1>5. f \in Seq(Val) /\ Len(f) = Len(m.stack) - 1 /\ \A q \in 1..Len(m.stack) - 1 : f[q] = m.stack[q]
  BY <1>1, <1>2, FrontSeq
<1>6. b \in Nat /\ b <= Len(f)
  BY <1>1, <1>2, <1>5
<1> HIDE DEF b, f, v
<1>7. t \in Seq(Val) /\ Len(t) = b /\ \A q \in 1..Len(t) : t[q] = f[q]
  BY <1>5, <1>6, TruncateSeq
<1> HIDE DEF t
<1>8. /\ Append(t, v) \in Seq(Val) /\ Len(Append(t, v)) = b + 1
      /\ \A q \in 1..Len(t) : Append(t, v)[q] = t[q]
  BY <1>4, <1>7, AppendSeq
<1>9. /\ Front(m.frames) \in Seq(Frame) /\ Len(Front(m.frames)) = Len(m.frames) - 1
      /\ \A j \in 1..Len(m.frames) - 1 : Front(m.frames)[j] = m.frames[j]
  BY <1>1, <1>2, FrontSeq
<1>10. Top(m).ret \in 1..End(c)
  <2>1. Len(m.frames) \in DOMAIN m.frames
    BY <1>1, <1>2, MachineTypes
  <2>2. CASE Called(c, a, m, Len(m.frames))
    <3>1. Top(m).ret \in Positions(c)
      BY <2>2 DEF Called, Rests, Top
    <3>2. QED
      BY <3>1, ChunkTypes DEF Positions
  <2>3. CASE Started(c, m, Len(m.frames))
    <3>1. Top(m).ret = End(c)
      BY <2>3 DEF Started, Top
    <3>2. QED
      BY <3>1, ChunkTypes
  <2>4. QED
    BY <1>1, <2>1, <2>2, <2>3 DEF Shape, FramesLinked
<1>11. /\ n \in MachineType(c) /\ n.ip = Top(m).ret /\ n.stack = Append(t, v)
       /\ n.frames = Front(m.frames) /\ n.runs = m.runs
  BY <1>1, <1>8, <1>9, <1>10 DEF MachineType
<1> HIDE DEF n
<1>12. Shape(c, a, n) /\ (Going(c, a, n) \/ Over(c, n))
  BY <1>1, <1>8, <1>11, ReturnStep DEF b
<1>13. Agree(m, n, b, Len(m.frames) - 1)
  <2>1. \A q \in 1..b : n.stack[q] = f[q]
    BY <1>7, <1>8, <1>11
  <2>2. \A q \in 1..b : q \in 1..Len(m.stack) - 1
    BY <1>1, <1>5, <1>6
  <2>3. \A q \in 1..b : n.stack[q] = m.stack[q]
    BY <1>5, <2>1, <2>2
  <2>4. Len(n.stack) = b + 1
    BY <1>8, <1>11
  <2>5. b <= Len(m.stack) /\ b <= Len(n.stack)
    BY <1>1, <1>5, <1>6, <2>4
  <2>6. /\ Len(m.frames) - 1 <= Len(m.frames) /\ Len(m.frames) - 1 <= Len(n.frames)
        /\ \A j \in 1..Len(m.frames) - 1 : n.frames[j] = m.frames[j]
    BY <1>2, <1>9, <1>11
  <2>7. QED
    BY <2>3, <2>5, <2>6 DEF Agree
<1>14. Kept(m, n)
  BY <1>1, <1>11, <1>13, KeptRunning DEF b
<1>15. QED
  BY <1>3, <1>11, <1>12, <1>14 DEF Steps, MachineOK

LEMMA LocalStep ==
  ASSUME NEW c \in Chunks, NEW a \in Maps(c), NEW m, Ready(c, a, m), OpAt(c, m).op \in LocalOps
  PROVE  Steps(c, a, m, After(c, m))
<1> DEFINE o == c.ops[m.ip]
           v == Tip(m.stack)
<1>1. /\ m \in MachineType(c) /\ o \in Op /\ o.arg \in Val /\ o.op \in LocalOps /\ v \in Val
      /\ Top(m).slot \in Val /\ OpVerified(c, a, m.ip) /\ OpAt(c, m) = o
  BY ReadyHere, MachineTypes, TipIn DEF OpAt, Op, Ready
<1>2. CASE o.op = "load"
  <2>1. After(c, m) = Advance(Push(m, o.arg))
    BY <1>1, <1>2 DEF After
  <2>2. QED
    BY <1>1, <1>2, <2>1, PushStep DEF OpVerified
<1>3. CASE o.op = "get"
  <2>1. After(c, m) = Advance(Push(m, Top(m).slot))
    BY <1>1, <1>3 DEF After
  <2>2. QED
    BY <1>1, <1>3, <2>1, PushStep DEF OpVerified
<1>4. CASE o.op = "pop"
  <2>1. After(c, m) = [PopOne(m) EXCEPT !.ip = m.ip + 1]
    BY <1>1, <1>4 DEF After, Advance, PopOne, MachineType
  <2>2. QED
    BY <1>1, <1>4, <2>1, PopStep DEF OpVerified
<1>5. CASE o.op = "set"
  <2>1. After(c, m) = Advance(PopOne(SetSlot(m, v)))
    BY <1>1, <1>5 DEF After
  <2>2. QED
    BY <1>1, <1>5, <2>1, SetStep DEF OpVerified
<1>6. CASE o.op = "inc"
  <2> DEFINE w == IF v \in 0..8 THEN v + 1 ELSE v
  <2>1. w \in Val
    BY <1>1, ValuesAssumption
  <2>2. After(c, m) = Advance(Push(PopOne(m), w))
    BY <1>1, <1>6 DEF After
  <2>3. QED
    BY <1>1, <1>6, <2>1, <2>2, ChangeStep DEF OpVerified
<1>7. CASE o.op = "jump"
  <2>1. After(c, m) = [m EXCEPT !.ip = o.to]
    BY <1>1, <1>7 DEF After
  <2>2. QED
    BY <1>1, <1>7, <2>1, MoveStep DEF OpVerified
<1>8. CASE o.op = "jumpIfEnd"
  <2>1. \/ After(c, m) = [PopOne(m) EXCEPT !.ip = o.to]
        \/ After(c, m) = [PopOne(m) EXCEPT !.ip = m.ip + 1]
    BY <1>1, <1>8 DEF After, PopOne, MachineType
  <2>2. QED
    BY <1>1, <1>8, <2>1, PopStep DEF OpVerified
<1>9. CASE o.op = "call"
  <2>1. After(c, m) = Enter(m, o.to, m.ip + 1, Len(m.stack))
    BY <1>1, <1>9 DEF After
  <2>2. QED
    BY <1>1, <1>9, <2>1, CallingStep DEF OpVerified
<1>10. CASE o.op = "return"
  <2>1. After(c, m) = Leave(m)
    BY <1>1, <1>10 DEF After
  <2>2. QED
    BY <1>1, <1>10, <2>1, LeaveStep DEF OpVerified
<1>11. QED
  BY <1>1, <1>2, <1>3, <1>4, <1>5, <1>6, <1>7, <1>8, <1>9, <1>10 DEF LocalOps

LEMMA DepthStep ==
  ASSUME NEW c \in Chunks, NEW a \in Maps(c), NEW m, Ready(c, a, m),
         Goes(c, a, m.ip, m.ip + 1, a.height[m.ip], a.height[m.ip])
  PROVE  Steps(c, a, m, Advance([m EXCEPT !.frames[Len(m.frames)] = Saved(@, Len(m.stack))]))
<1>1. /\ m \in MachineType(c) /\ m.stack \in Seq(Val) /\ Len(m.stack) \in Nat /\ m.frames \in Seq(Frame)
      /\ DOMAIN m.frames = 1..Len(m.frames) /\ Shape(c, a, m) /\ Going(c, a, m)
  BY MachineTypes DEF Ready
<1>2. /\ a.height[m.ip] \in Nat /\ Len(m.frames) \in Nat \ {0} /\ Top(m).base \in Nat
      /\ Top(m) \in Frame /\ Top(m) = m.frames[Len(m.frames)]
      /\ Len(m.stack) >= Top(m).base + a.height[m.ip]
  BY ReadyHere
<1> DEFINE g == Saved(Top(m), Len(m.stack))
           fs == [m.frames EXCEPT ![Len(m.frames)] = g]
           n == [m EXCEPT !.ip = m.ip + 1, !.frames = fs]
<1>3. /\ g \in Frame /\ g.base = Top(m).base /\ g.ret = Top(m).ret
      /\ g.depth = Len(m.stack) /\ g.own = Len(m.stack) - Top(m).base
  <2>1. Len(m.stack) - Top(m).base \in Nat
    BY <1>1, <1>2
  <2>2. QED
    BY <1>1, <1>2, <2>1 DEF Frame, Saved
<1>4. Advance([m EXCEPT !.frames[Len(m.frames)] = Saved(@, Len(m.stack))]) = n
  BY <1>1, <1>2 DEF Advance, MachineType
<1> HIDE DEF g
<1>5. /\ fs \in Seq(Frame) /\ Len(fs) = Len(m.frames) /\ fs[Len(m.frames)] = g
      /\ \A j \in 1..Len(m.frames) : j < Len(m.frames) => fs[j] = m.frames[j]
  BY <1>1, <1>2, <1>3, ExceptSeq
<1> HIDE DEF fs
<1>6. n \in MachineType(c) /\ n.ip = m.ip + 1 /\ n.stack = m.stack /\ n.frames = fs /\ n.runs = m.runs
  BY <1>1, <1>5, Onward DEF MachineType
<1>7. SameFrames(m, n) /\ Top(n) = g
  BY <1>1, <1>2, <1>3, <1>5, <1>6 DEF SameFrames, Top
<1> HIDE DEF n
<1>8. Len(n.stack) >= Top(n).base + a.height[m.ip] /\ Top(n).depth >= Top(n).base + a.height[m.ip]
      /\ Top(n).depth = Top(n).base + Top(n).own
  BY <1>1, <1>2, <1>3, <1>6, <1>7
<1>9. Goes(c, a, m.ip, n.ip, a.height[m.ip], a.height[m.ip]) /\ a.height[m.ip] \in Int
  BY <1>2, <1>6
<1>10. Shape(c, a, n) /\ Going(c, a, n)
  BY <1>1, <1>6, <1>7, <1>8, <1>9, FrameStep
<1>11. Agree(m, n, Top(m).base, Len(m.frames) - 1)
  <2>1. /\ Top(m).base <= Len(m.stack) /\ Top(m).base <= Len(n.stack)
        /\ \A p \in 1..Top(m).base : n.stack[p] = m.stack[p]
    BY <1>1, <1>2, <1>6
  <2>2. Len(m.frames) - 1 <= Len(m.frames) /\ Len(m.frames) - 1 <= Len(n.frames)
    BY <1>1, <1>5, <1>6
  <2>3. \A j \in 1..Len(m.frames) - 1 : j \in 1..Len(m.frames) /\ j < Len(m.frames)
    BY <1>1
  <2>4. \A j \in 1..Len(m.frames) - 1 : n.frames[j] = m.frames[j]
    BY <1>5, <1>6, <2>3
  <2>5. QED
    BY <2>1, <2>2, <2>4 DEF Agree
<1>12. Kept(m, n)
  BY <1>1, <1>6, <1>11, KeptRunning
<1>13. QED
  BY <1>4, <1>6, <1>10, <1>12 DEF Steps, MachineOK

\* A handler cuts the stack back, and what its frame counts on is still there.
LEMMA CutStep ==
  ASSUME NEW c \in Chunks, NEW a \in Maps(c), NEW m, Ready(c, a, m), a.saved[m.ip] # Lost,
         Goes(c, a, m.ip, m.ip + 1, a.height[m.ip], a.saved[m.ip]),
         Goes(c, a, m.ip, m.ip + 1, a.saved[m.ip], a.saved[m.ip])
  PROVE  Steps(c, a, m, Advance([m EXCEPT !.stack = Truncate(@, Top(m).depth)]))
<1>1. /\ m \in MachineType(c) /\ m.stack \in Seq(Val) /\ Len(m.stack) \in Nat /\ m.frames \in Seq(Frame)
      /\ DOMAIN m.frames = 1..Len(m.frames) /\ Shape(c, a, m) /\ Going(c, a, m)
  BY MachineTypes DEF Ready
<1>2. /\ a.height[m.ip] \in Nat /\ a.saved[m.ip] \in Nat /\ Len(m.frames) \in Nat \ {0}
      /\ Top(m).base \in Nat /\ Top(m).depth \in Nat
      /\ Len(m.stack) >= Top(m).base + a.height[m.ip]
      /\ Top(m).depth >= Top(m).base + a.saved[m.ip] /\ Top(m).depth = Top(m).base + Top(m).own
  BY ReadyHere
<1> DEFINE d == Top(m).depth
           t == Truncate(m.stack, d)
           n == [m EXCEPT !.ip = m.ip + 1, !.stack = t]
<1>3. Advance([m EXCEPT !.stack = Truncate(@, Top(m).depth)]) = n
  BY <1>1 DEF Advance, MachineType
<1>4. /\ t \in Seq(Val) /\ (d <= Len(m.stack) => Len(t) = d) /\ (d > Len(m.stack) => Len(t) = Len(m.stack))
      /\ \A q \in 1..Len(t) : t[q] = m.stack[q]
  BY <1>1, <1>2, TruncateSeq
<1> HIDE DEF t
<1>5. n \in MachineType(c) /\ n.ip = m.ip + 1 /\ n.stack = t /\ n.frames = m.frames /\ n.runs = m.runs
  BY <1>1, <1>4, Onward DEF MachineType
<1> HIDE DEF n
<1>6. SameFrames(m, n) /\ Top(n) = Top(m)
  BY <1>5 DEF SameFrames, Top
<1>7. \/ Len(t) >= Top(m).base + a.height[m.ip]
      \/ Len(t) >= Top(m).base + a.saved[m.ip]
  BY <1>1, <1>2, <1>4
<1>8. Shape(c, a, n) /\ Going(c, a, n)
  <2>1. a.height[m.ip] \in Int /\ a.saved[m.ip] \in Int
    BY <1>2
  <2>2. Top(n).depth >= Top(n).base + a.saved[m.ip] /\ Top(n).depth = Top(n).base + Top(n).own
    BY <1>2, <1>6
  <2>3. CASE Len(t) >= Top(m).base + a.height[m.ip]
    BY <1>1, <1>5, <1>6, <2>1, <2>2, <2>3, FrameStep
  <2>4. CASE Len(t) >= Top(m).base + a.saved[m.ip]
    BY <1>1, <1>5, <1>6, <2>1, <2>2, <2>4, FrameStep
  <2>5. QED
    BY <1>7, <2>3, <2>4
<1>9. Agree(m, n, Top(m).base, Len(m.frames) - 1)
  <2>1. Top(m).base <= Len(t) /\ Top(m).base <= Len(m.stack) /\ Len(t) \in Nat
    BY <1>1, <1>2, <1>4, <1>7
  <2>2. QED
    BY <1>1, <1>2, <1>4, <1>5, <2>1 DEF Agree
<1>10. Kept(m, n)
  BY <1>1, <1>5, <1>9, KeptRunning
<1>11. QED
  BY <1>3, <1>5, <1>8, <1>10 DEF Steps, MachineOK

\* forEach in vain: no run starts, the two operands it left stay.
LEMMA RefusedStep ==
  ASSUME NEW c \in Chunks, NEW a \in Maps(c), NEW m, Ready(c, a, m),
         Goes(c, a, m.ip, m.ip + 1, a.height[m.ip] + 1, a.saved[m.ip])
  PROVE  Steps(c, a, m, Refused(c, m))
<1>1. m \in MachineType(c) /\ m.stack \in Seq(Val) /\ Len(m.stack) \in Nat
  BY MachineTypes DEF Ready
<1>2. a.height[m.ip] \in Nat
  BY ReadyHere
<1> DEFINE f == Append(m.stack, 1)
           g == Append(f, Undef)
           n == [m EXCEPT !.ip = m.ip + 1, !.stack = g]
<1>3. Refused(c, m) = n
  BY <1>1 DEF Refused, Advance, Push, MachineType
<1>4. 1 \in Val /\ Undef \in Val
  BY ValuesAssumption
<1>5. f \in Seq(Val) /\ Len(f) = Len(m.stack) + 1 /\ \A q \in 1..Len(m.stack) : f[q] = m.stack[q]
  BY <1>1, <1>4, AppendSeq
<1> HIDE DEF f
<1>6. g \in Seq(Val) /\ Len(g) = Len(f) + 1 /\ \A q \in 1..Len(f) : g[q] = f[q]
  BY <1>4, <1>5, AppendSeq
<1> HIDE DEF g
<1>7. /\ a.height[m.ip] >= 0 /\ Goes(c, a, m.ip, m.ip + 1, a.height[m.ip] - 0 + 1, a.saved[m.ip])
      /\ Len(g) >= Len(m.stack) - 0 + 1
      /\ \A q \in 1..Len(m.stack) - 0 : g[q] = m.stack[q]
  <2>1. a.height[m.ip] - 0 + 1 = a.height[m.ip] + 1 /\ a.height[m.ip] >= 0
    BY <1>2
  <2>2. Len(g) >= Len(m.stack) - 0 + 1 /\ \A q \in 1..Len(m.stack) - 0 : g[q] = m.stack[q]
    BY <1>1, <1>5, <1>6
  <2>3. QED
    BY <2>1, <2>2
<1>8. n \in MachineType(c) /\ n.ip = m.ip + 1 /\ n.stack = g /\ n.frames = m.frames /\ n.runs = m.runs
  BY <1>1, <1>6, Onward DEF MachineType
<1> HIDE DEF n
<1>9. SameFrames(m, n) /\ Top(n).depth = Top(m).depth /\ Top(n).own = Top(m).own
  BY <1>8 DEF SameFrames, Top
<1>10. 0 \in Nat /\ 1 \in Nat
  OBVIOUS
<1>11. Steps(c, a, m, n)
  BY <1>7, <1>8, <1>9, <1>10, OperandStep
<1>12. QED
  BY <1>3, <1>11

(* ---- elements of a forEach ------------------------------------------------------------ *)

\* A run that starts in one new frame.
LEMMA EnterRun ==
  ASSUME NEW c \in Chunks, NEW a \in Maps(c), NEW k \in MachineType(c), NEW n \in MachineType(c),
         NEW r \in Run, Shape(c, a, k), Awaits(c, a, k, r.ip, r.base), RunOn(c, k, n, r),
         NEW b \in Nat, n.frames = Append(k.frames, NewFrame(End(c), b)), b >= r.base,
         NEW h \in Nat, Entered(c, a, n.ip, h), Len(n.stack) >= b + h,
         n.ip \in a.yields => r.kind # "each"
  PROVE  Shape(c, a, n) /\ Going(c, a, n)
<1> DEFINE f == NewFrame(End(c), b)
<1>1. /\ k.frames \in Seq(Frame) /\ Len(k.frames) \in Nat /\ DOMAIN k.frames = 1..Len(k.frames)
      /\ Len(n.stack) \in Nat /\ DOMAIN n.frames = 1..Len(n.frames) /\ r.base \in Int
  BY MachineTypes DEF Run
<1>2. f \in Frame /\ f.ret = End(c) /\ f.base = b /\ f.depth = 0
  BY ChunkTypes, NewFrameType DEF NewFrame
<1>3. n.frames = Append(k.frames, f)
  OBVIOUS
<1> HIDE DEF f
<1>4. /\ Len(n.frames) = Len(k.frames) + 1 /\ n.frames[Len(k.frames) + 1] = f
      /\ \A j \in 1..Len(k.frames) : n.frames[j] = k.frames[j]
  BY <1>1, <1>2, <1>3, AppendSeq
<1>5. RunFrames(c, a, k, n, r)
  <2>1. Extends(k, n) /\ Len(n.frames) > Len(k.frames)
    BY <1>1, <1>4 DEF Extends
  <2>2. \A j \in DOMAIN n.frames : j > Len(k.frames) => n.frames[j].base >= r.base
    BY <1>1, <1>2, <1>4
  <2>3. \A i, j \in DOMAIN n.frames : ~(Len(k.frames) < i /\ i < j)
    BY <1>1, <1>4
  <2>4. \A j \in DOMAIN n.frames : ~(j > Len(k.frames) + 1)
    BY <1>1, <1>4
  <2>5. QED
    BY <1>2, <1>4, <2>1, <2>2, <2>3, <2>4 DEF RunFrames
<1>6. Rests(c, a, Top(n), n.ip, Len(n.stack))
  <2>1. Top(n) = f /\ n.ip \in Positions(c)
    BY <1>4 DEF Top, Entered
  <2>2. a.height[n.ip] \in Nat /\ a.height[n.ip] <= h /\ (a.saved[n.ip] = Lost \/ a.saved[n.ip] \in Nat)
        /\ a.saved[n.ip] <= Lost
    BY <2>1, MapTypes DEF Entered, Fits
  <2>3. a.saved[n.ip] = Lost
    BY <2>2 DEF Lost
  <2>4. QED
    BY <1>1, <1>2, <2>1, <2>2, <2>3 DEF Rests
<1>7. QED
  BY <1>5, <1>6, StartRun

\* The builtin of r, a run of forEach over k, goes on with m.
Runs(c, a, k, m, r) ==
  /\ Verified(c, a) /\ k \in MachineType(c) /\ m \in MachineType(c) /\ r \in Run
  /\ Shape(c, a, k) /\ Awaits(c, a, k, r.ip, r.base)
  /\ m.runs = Append(k.runs, r) /\ m.frames = k.frames /\ r.frame = Len(k.frames)
  /\ r.base <= Len(m.stack) /\ r.kind = "each"
  /\ r.ip - 1 \in Positions(c) /\ c.ops[r.ip - 1].op = "each" /\ r.left <= c.ops[r.ip - 1].n

\* What a step of it must show.
Leads(c, a, m, n) ==
  /\ n \in MachineType(c) /\ Shape(c, a, n) /\ Going(c, a, n)
  /\ Len(n.runs) <= Len(m.runs) /\ Agree(m, n, Len(m.stack), Len(m.frames))

LEMMA RunsHere ==
  ASSUME NEW c \in Chunks, NEW a \in Maps(c), NEW k, NEW m, NEW r, Runs(c, a, k, m, r)
  PROVE  /\ k \in MachineType(c) /\ m \in MachineType(c) /\ r \in Run /\ r.left \in Nat /\ r.base \in Int
         /\ k.runs \in Seq(Run) /\ Len(k.runs) \in Nat /\ DOMAIN k.runs = 1..Len(k.runs)
         /\ m.stack \in Seq(Val) /\ Len(m.stack) \in Nat
         /\ m.frames \in Seq(Frame) /\ Len(m.frames) \in Nat
         /\ m.runs \in Seq(Run) /\ Len(m.runs) = Len(k.runs) + 1 /\ m.runs[Len(m.runs)] = r
         /\ \A i \in 1..Len(k.runs) : m.runs[i] = k.runs[i]
         /\ r.ip \in Positions(c)
<1>1. k \in MachineType(c) /\ m \in MachineType(c) /\ r \in Run
  BY DEF Runs
<1>2. k.runs \in Seq(Run) /\ Len(k.runs) \in Nat /\ DOMAIN k.runs = 1..Len(k.runs)
  BY <1>1, MachineTypes
<1>3. m.runs = Append(k.runs, r)
  BY DEF Runs
<1>4. /\ Len(m.runs) = Len(k.runs) + 1 /\ m.runs[Len(k.runs) + 1] = r
      /\ \A i \in 1..Len(k.runs) : m.runs[i] = k.runs[i]
  BY <1>1, <1>2, <1>3, AppendSeq
<1>5. QED
  BY <1>1, <1>2, <1>4, MachineTypes DEF Runs, Run, Awaits, Rests

\* It is over,
LEMMA LastElement ==
  ASSUME NEW c \in Chunks, NEW a \in Maps(c), NEW k, NEW m, NEW r, Runs(c, a, k, m, r),
         NEW n, n = [m EXCEPT !.runs = Front(@), !.ip = r.ip, !.stack = Append(@, Undef)]
  PROVE  Leads(c, a, m, n)
<1>1. /\ k \in MachineType(c) /\ m \in MachineType(c) /\ m.runs \in Seq(Run)
      /\ k.runs \in Seq(Run) /\ Len(k.runs) \in Nat
      /\ m.stack \in Seq(Val) /\ Len(m.stack) \in Nat /\ m.frames \in Seq(Frame) /\ Len(m.frames) \in Nat
      /\ Len(m.runs) = Len(k.runs) + 1 /\ \A i \in 1..Len(k.runs) : m.runs[i] = k.runs[i]
      /\ r.ip \in Positions(c) /\ r.base \in Int
  BY RunsHere
<1>2. m.runs # <<>>
  BY <1>1, LenNat
<1>3. /\ Front(m.runs) \in Seq(Run) /\ Len(Front(m.runs)) = Len(k.runs)
      /\ \A i \in 1..Len(k.runs) : Front(m.runs)[i] = m.runs[i]
  <2>1. /\ Front(m.runs) \in Seq(Run) /\ Len(Front(m.runs)) = Len(m.runs) - 1
        /\ \A i \in 1..Len(m.runs) - 1 : Front(m.runs)[i] = m.runs[i]
    BY <1>1, <1>2, FrontSeq
  <2>2. Len(m.runs) - 1 = Len(k.runs)
    BY <1>1
  <2>3. QED
    BY <2>1, <2>2
<1>4. Front(m.runs) = k.runs
  BY <1>1, <1>3, SeqEqual
<1>5. Undef \in Val
  BY ValuesAssumption
<1>6. /\ Append(m.stack, Undef) \in Seq(Val) /\ Len(Append(m.stack, Undef)) = Len(m.stack) + 1
      /\ \A q \in 1..Len(m.stack) : Append(m.stack, Undef)[q] = m.stack[q]
  BY <1>1, <1>5, AppendSeq
<1>7. r.ip \in 1..End(c)
  BY <1>1, ChunkTypes DEF Positions
<1>8. /\ n \in MachineType(c) /\ n.ip = r.ip /\ n.stack = Append(m.stack, Undef)
      /\ n.frames = m.frames /\ n.runs = k.runs
  BY <1>1, <1>4, <1>6, <1>7 DEF MachineType
<1>9. Len(n.stack) >= r.base + 1
  BY <1>1, <1>6, <1>8 DEF Runs
<1>10. Shape(c, a, k) /\ Awaits(c, a, k, n.ip, r.base) /\ n.frames = k.frames
  BY <1>8 DEF Runs
<1>11. Shape(c, a, n) /\ Going(c, a, n)
  <2>1. k \in MachineType(c) /\ n \in MachineType(c) /\ r.base \in Int
    BY <1>1, <1>8
  <2>2. n.runs = k.runs /\ n.frames = k.frames
    BY <1>8, <1>10
  <2>3. QED
    BY <1>9, <1>10, <2>1, <2>2, Answered
<1>12. Agree(m, n, Len(m.stack), Len(m.frames))
  BY <1>1, <1>6, <1>8 DEF Agree
<1>13. QED
  BY <1>1, <1>8, <1>11, <1>12 DEF Leads

\* or its closure is called again.
LEMMA FurtherElement ==
  ASSUME NEW c \in Chunks, NEW a \in Maps(c), NEW k, NEW m, NEW r, Runs(c, a, k, m, r), r.left # 0,
         NEW n, n = Enter([m EXCEPT !.runs[Len(m.runs)].left = @ - 1,
                                    !.stack = Append(@, c.ops[r.ip - 1].n - r.left + 1)],
                          c.ops[r.ip - 1].to, End(c), Len(m.stack))
  PROVE  Leads(c, a, m, n)
<1> DEFINE o == c.ops[r.ip - 1]
           v == o.n - r.left + 1
           q == [r EXCEPT !.left = @ - 1]
           R == Len(m.runs)
           rs == [m.runs EXCEPT ![R] = q]
           st == Append(m.stack, v)
           f == NewFrame(End(c), Len(m.stack))
           fs == Append(m.frames, f)
<1>1. /\ k \in MachineType(c) /\ m \in MachineType(c) /\ m.runs \in Seq(Run) /\ r \in Run /\ r.left \in Nat
      /\ k.runs \in Seq(Run) /\ Len(k.runs) \in Nat /\ DOMAIN k.runs = 1..Len(k.runs)
      /\ m.stack \in Seq(Val) /\ Len(m.stack) \in Nat /\ m.frames \in Seq(Frame) /\ Len(m.frames) \in Nat
      /\ R = Len(k.runs) + 1 /\ m.runs[R] = r /\ \A i \in 1..Len(k.runs) : m.runs[i] = k.runs[i]
      /\ r.ip \in Positions(c) /\ r.base \in Int
  BY RunsHere
<1>2. /\ o \in Op /\ o.n \in Nat /\ o.op = "each" /\ r.left <= o.n /\ o.n <= 9
      /\ Entered(c, a, o.to, 1) /\ o.to \notin a.yields
  <2>1. r.ip - 1 \in Positions(c) /\ o.op = "each" /\ r.left <= o.n
    BY DEF Runs
  <2>2. OpVerified(c, a, r.ip - 1)
    BY <2>1 DEF Runs, Verified
  <2>3. o \in Op /\ o.n \in Nat
    BY <2>1, ChunkTypes DEF Op
  <2>4. QED
    BY <2>1, <2>2, <2>3 DEF OpVerified
<1>3. v \in Val
  <2>1. v \in 0..9
    <3> DEFINE x == o.n
               y == r.left
    <3>1. x \in Nat /\ y \in Nat /\ y <= x /\ x <= 9
      BY <1>1, <1>2
    <3> HIDE DEF x, y
    <3>2. x - y + 1 \in 0..9
      <4>1. y # 0
        BY DEF y
      <4>2. QED
        BY <3>1, <4>1
    <3>3. QED
      BY <3>2 DEF x, y
  <2>2. QED
    BY <2>1, ValuesAssumption
<1>4. q \in Run /\ q.left = r.left - 1 /\ q.kind = r.kind /\ q.it = r.it /\ q.base = r.base
      /\ q.frame = r.frame /\ q.ip = r.ip
  <2>1. r.left - 1 \in Nat
    BY <1>1
  <2>2. QED
    BY <1>1, <2>1 DEF Run
<1>5. f \in Frame
  BY <1>1, ChunkTypes, NewFrameType
<1>6. n = [ip |-> o.to, frames |-> fs, stack |-> st, runs |-> rs]
  BY <1>1 DEF Enter, NewFrame, MachineType
<1>7. o.to \in 1..End(c)
  BY <1>2, ChunkTypes DEF Entered, Positions
<1> HIDE DEF v, q, f, o
<1>8. /\ rs \in Seq(Run) /\ Len(rs) = R /\ rs[R] = q
      /\ \A i \in 1..Len(k.runs) : rs[i] = m.runs[i]
  <2>1. R \in 1..Len(m.runs)
    BY <1>1
  <2>2. /\ rs \in Seq(Run) /\ Len(rs) = R
        /\ \A i \in 1..Len(m.runs) : rs[i] = IF i = R THEN q ELSE m.runs[i]
    BY <1>1, <1>4, <2>1, ExceptSeq
  <2>3. \A i \in 1..Len(k.runs) : i \in 1..Len(m.runs) /\ i # R
    BY <1>1
  <2>4. QED
    BY <2>1, <2>2, <2>3
<1>9. st \in Seq(Val) /\ Len(st) = Len(m.stack) + 1 /\ \A p \in 1..Len(m.stack) : st[p] = m.stack[p]
  BY <1>1, <1>3, AppendSeq
<1>10. fs \in Seq(Frame) /\ Len(fs) = Len(m.frames) + 1 /\ \A j \in 1..Len(m.frames) : fs[j] = m.frames[j]
  BY <1>1, <1>5, AppendSeq
<1> HIDE DEF rs, st, fs
<1>11. n \in MachineType(c) /\ n.ip = o.to /\ n.frames = fs /\ n.stack = st /\ n.runs = rs
  BY <1>6, <1>7, <1>8, <1>9, <1>10 DEF MachineType
<1>12. n.frames = Append(k.frames, NewFrame(End(c), Len(m.stack)))
  BY <1>11 DEF Runs, f, fs
<1>13. RunOn(c, k, n, q)
  <2>1. Len(n.runs) = Len(k.runs) + 1 /\ n.runs[Len(k.runs) + 1] = q
    BY <1>1, <1>8, <1>11
  <2>2. \A i \in DOMAIN k.runs : n.runs[i] = k.runs[i]
    BY <1>1, <1>8, <1>11
  <2>3. q.left <= o.n
    BY <1>1, <1>2, <1>4
  <2>4. q.frame = Len(k.frames) /\ q.kind = "each" /\ q.ip - 1 \in Positions(c) /\ o.op = "each"
        /\ o = c.ops[q.ip - 1]
    BY <1>2, <1>4 DEF Runs, o
  <2>5. QED
    BY <2>1, <2>2, <2>3, <2>4 DEF RunOn
<1>14. Shape(c, a, k) /\ Awaits(c, a, k, q.ip, q.base) /\ Len(m.stack) >= q.base
  BY <1>1, <1>4 DEF Runs
<1>15. Entered(c, a, n.ip, 1) /\ Len(n.stack) >= Len(m.stack) + 1 /\ n.ip \notin a.yields
  BY <1>1, <1>2, <1>9, <1>11
<1>16. Shape(c, a, n) /\ Going(c, a, n)
  <2>1. 1 \in Nat
    OBVIOUS
  <2>2. QED
    BY <1>1, <1>4, <1>11, <1>12, <1>13, <1>14, <1>15, <2>1, EnterRun
<1>17. Agree(m, n, Len(m.stack), Len(m.frames))
  <2>1. Len(m.stack) <= Len(n.stack) /\ Len(m.frames) <= Len(n.frames)
        /\ Len(m.stack) <= Len(m.stack) /\ Len(m.frames) <= Len(m.frames)
    BY <1>1, <1>9, <1>10, <1>11
  <2>2. QED
    BY <1>9, <1>10, <1>11, <2>1 DEF Agree
<1>18. QED
  BY <1>1, <1>8, <1>11, <1>16, <1>17 DEF Leads

(* ---- the context switch ----------------------------------------------------------------- *)

PullOf(kind, k, m) ==
  [kind |-> kind, it |-> k, left |-> 0, base |-> Len(m.stack), frame |-> Len(m.frames), ip |-> m.ip + 1]

\* The run r of a pull goes on top of those of m.
PullRun(c, a, m, r, rs) ==
  /\ m \in MachineType(c) /\ Shape(c, a, m) /\ Going(c, a, m)
  /\ r \in Run /\ Awaits(c, a, m, r.ip, r.base) /\ r.base = Len(m.stack) /\ r.base \in Nat
  /\ r.kind # "each" /\ r.it \in Iter /\ r.frame = Len(m.frames)
  /\ rs \in Seq(Run) /\ Len(rs) = Len(m.runs) + 1 /\ rs[Len(m.runs) + 1] = r
  /\ \A i \in 1..Len(m.runs) : rs[i] = m.runs[i]
  /\ DOMAIN m.runs = 1..Len(m.runs)

LEMMA PullStarts ==
  ASSUME NEW c \in Chunks, NEW a \in Maps(c), NEW m, Ready(c, a, m),
         Goes(c, a, m.ip, m.ip + 1, a.height[m.ip] + 1, a.saved[m.ip]),
         NEW kind \in Asks, NEW k \in Iter, NEW r, r = PullOf(kind, k, m),
         NEW rs, rs = Append(m.runs, r)
  PROVE  PullRun(c, a, m, r, rs)
<1>1. /\ m \in MachineType(c) /\ Shape(c, a, m) /\ Going(c, a, m) /\ m.runs \in Seq(Run)
      /\ Len(m.runs) \in Nat /\ DOMAIN m.runs = 1..Len(m.runs)
      /\ Len(m.stack) \in Nat /\ Len(m.frames) \in Nat /\ m.ip \in Nat
  BY MachineTypes DEF Ready
<1>2. /\ r.kind = kind /\ r.it = k /\ r.base = Len(m.stack) /\ r.frame = Len(m.frames) /\ r.ip = m.ip + 1
      /\ r.kind # "each" /\ r.it \in Iter
  BY DEF PullOf, Asks
<1>3. r \in Run
  BY <1>1 DEF PullOf, Run, Asks
<1>4. Awaits(c, a, m, r.ip, r.base)
  BY <1>1, <1>2, WaitsHere
<1>5. /\ rs \in Seq(Run) /\ Len(rs) = Len(m.runs) + 1 /\ rs[Len(m.runs) + 1] = r
      /\ \A i \in 1..Len(m.runs) : rs[i] = m.runs[i]
  BY <1>1, <1>3, AppendSeq
<1>6. QED
  BY <1>1, <1>2, <1>3, <1>4, <1>5 DEF PullRun

\* What a pull that runs a block must show.
Enters(c, a, m, n) ==
  /\ n \in MachineType(c) /\ Shape(c, a, n) /\ Going(c, a, n)
  /\ Len(n.runs) = Len(m.runs) + 1 /\ Kept(m, n)

\* The machine a fresh block is entered with, in its parts.
Fresh(c, m, kind, k, r, rs, f, fs, ops, st, n) ==
  /\ r = PullOf(kind, k, m) /\ rs = Append(m.runs, r)
  /\ f = NewFrame(End(c), Len(m.stack)) /\ fs = Append(m.frames, f)
  /\ ops = c.block[k].captures /\ st = m.stack \o ops
  /\ n = [ip |-> c.block[k].entry, frames |-> fs, stack |-> st, runs |-> rs]

LEMMA FreshBlock ==
  ASSUME NEW c \in Chunks, NEW a \in Maps(c), NEW m, Ready(c, a, m),
         Goes(c, a, m.ip, m.ip + 1, a.height[m.ip] + 1, a.saved[m.ip]),
         NEW kind \in Asks, NEW k \in Iter,
         NEW r, NEW rs, NEW f, NEW fs, NEW ops, NEW st, NEW n,
         Fresh(c, m, kind, k, r, rs, f, fs, ops, st, n)
  PROVE  Enters(c, a, m, n)
<1> DEFINE e == c.block[k].entry
<1>0. PullRun(c, a, m, r, rs)
  BY PullStarts DEF Fresh
<1>1. /\ m \in MachineType(c) /\ Shape(c, a, m) /\ Going(c, a, m)
      /\ r \in Run /\ Awaits(c, a, m, r.ip, r.base) /\ r.base = Len(m.stack) /\ r.base \in Nat
      /\ r.kind # "each" /\ rs \in Seq(Run) /\ Len(rs) = Len(m.runs) + 1
  BY <1>0 DEF PullRun
<1>2. /\ m.stack \in Seq(Val) /\ Len(m.stack) \in Nat /\ m.frames \in Seq(Frame) /\ Len(m.frames) \in Nat
      /\ DOMAIN m.frames = 1..Len(m.frames)
  BY <1>1, MachineTypes
<1>3. f \in Frame
  BY <1>2, ChunkTypes, NewFrameType DEF Fresh
<1>4. ops \in Seq(Val) /\ Len(ops) \in Nat
  BY ChunkTypes, LenNat DEF Fresh
<1>5. Entered(c, a, e, Len(ops)) /\ e \in 1..End(c)
  <2>1. Entered(c, a, e, Len(ops))
    BY DEF Ready, Verified, Fresh
  <2>2. QED
    BY <2>1, ChunkTypes DEF Entered, Positions
<1>6. n = [ip |-> e, frames |-> fs, stack |-> st, runs |-> rs] /\ st = m.stack \o ops /\ fs = Append(m.frames, f)
  BY DEF Fresh
<1>7. /\ st \in Seq(Val) /\ Len(st) = Len(m.stack) + Len(ops)
      /\ \A q \in 1..Len(m.stack) : st[q] = m.stack[q]
  BY <1>2, <1>4, <1>6, ConcatSeq
<1>8. fs \in Seq(Frame) /\ Len(fs) = Len(m.frames) + 1 /\ \A j \in 1..Len(m.frames) : fs[j] = m.frames[j]
  BY <1>2, <1>3, <1>6, AppendSeq
<1> HIDE DEF e
<1>9. n \in MachineType(c) /\ n.ip = e /\ n.frames = fs /\ n.stack = st /\ n.runs = rs
  BY <1>1, <1>5, <1>6, <1>7, <1>8 DEF MachineType
<1>10. n.frames = Append(m.frames, NewFrame(End(c), Len(m.stack)))
  BY <1>9 DEF Fresh
<1>11. /\ RunOn(c, m, n, r) /\ Entered(c, a, n.ip, Len(ops)) /\ Len(n.stack) >= Len(m.stack) + Len(ops)
       /\ Len(m.stack) >= r.base
  <2>1. RunOn(c, m, n, r)
    BY <1>0, <1>9 DEF PullRun, RunOn
  <2>2. QED
    BY <1>1, <1>2, <1>4, <1>5, <1>7, <1>9, <2>1
<1>12. Shape(c, a, n) /\ Going(c, a, n)
  BY <1>1, <1>2, <1>4, <1>9, <1>10, <1>11, EnterRun
<1>13. Agree(m, n, Len(m.stack), Len(m.frames))
  <2>1. Len(m.stack) <= Len(n.stack) /\ \A q \in 1..Len(m.stack) : n.stack[q] = m.stack[q]
    BY <1>2, <1>4, <1>7, <1>9
  <2>2. Len(m.frames) <= Len(n.frames) /\ \A j \in 1..Len(m.frames) : n.frames[j] = m.frames[j]
    BY <1>2, <1>8, <1>9
  <2>3. QED
    BY <1>2, <2>1, <2>2 DEF Agree
<1>14. Kept(m, n)
  BY <1>1, <1>9, <1>13, AgreeAll
<1>15. QED
  BY <1>1, <1>9, <1>12, <1>14 DEF Enters

LEMMA RebaseSeq ==
  ASSUME NEW fs \in Seq(Frame), NEW by \in Int
  PROVE  /\ Rebase(fs, by) \in Seq(Frame) /\ Len(Rebase(fs, by)) = Len(fs)
         /\ \A j \in 1..Len(fs) : /\ Rebase(fs, by)[j].base = fs[j].base + by
                                  /\ Rebase(fs, by)[j].ret = fs[j].ret
                                  /\ Rebase(fs, by)[j].depth = fs[j].depth
<1>1. /\ Len(fs) \in Nat /\ DOMAIN fs = 1..Len(fs) /\ \A j \in 1..Len(fs) : fs[j] \in Frame
  BY LenNat
<1>2. ASSUME NEW g \in Frame
      PROVE  /\ [g EXCEPT !.base = @ + by] \in Frame
             /\ [g EXCEPT !.base = @ + by].base = g.base + by
             /\ [g EXCEPT !.base = @ + by].ret = g.ret
             /\ [g EXCEPT !.base = @ + by].depth = g.depth
  <2>1. g.base + by \in Int
    BY DEF Frame
  <2>2. QED
    BY <2>1 DEF Frame
<1>3. Rebase(fs, by) = [j \in 1..Len(fs) |-> [fs[j] EXCEPT !.base = @ + by]]
  BY <1>1 DEF Rebase
<1>4. Rebase(fs, by) \in [1..Len(fs) -> Frame]
  BY <1>1, <1>2, <1>3
<1>5. Rebase(fs, by) \in Seq(Frame) /\ Len(Rebase(fs, by)) = Len(fs)
  BY <1>1, <1>4, SeqDef, LenProperties
<1>6. QED
  BY <1>1, <1>2, <1>3, <1>5

\* The machine a parked block is put back with, in its parts.
Resumed(m, kind, k, co, r, rs, gs, fs, st, n) ==
  /\ r = PullOf(kind, k, m) /\ rs = Append(m.runs, r)
  /\ gs = Rebase(co.frames, Len(m.stack)) /\ fs = m.frames \o gs
  /\ st = m.stack \o co.stack
  /\ n = [ip |-> co.ip, frames |-> fs, stack |-> st, runs |-> rs]

LEMMA Longer ==
  ASSUME NEW x \in Nat, NEW y \in Nat, NEW z, z = x + y
  PROVE  z >= x /\ x <= z
  OBVIOUS

LEMMA ParkedBlock ==
  ASSUME NEW c \in Chunks, NEW a \in Maps(c), NEW m, Ready(c, a, m),
         Goes(c, a, m.ip, m.ip + 1, a.height[m.ip] + 1, a.saved[m.ip]),
         NEW kind \in Asks, NEW k \in Iter, NEW co \in Coro, BlockOK(c, a, co), co.state = "Suspended",
         NEW r, NEW rs, NEW gs, NEW fs, NEW st, NEW n, Resumed(m, kind, k, co, r, rs, gs, fs, st, n)
  PROVE  Enters(c, a, m, n)
<1>0. PullRun(c, a, m, r, rs)
  BY PullStarts DEF Resumed
<1>1. /\ m \in MachineType(c) /\ Shape(c, a, m) /\ Going(c, a, m)
      /\ r \in Run /\ Awaits(c, a, m, r.ip, r.base) /\ r.base = Len(m.stack) /\ r.base \in Nat
      /\ r.kind # "each" /\ rs \in Seq(Run) /\ Len(rs) = Len(m.runs) + 1
  BY <1>0 DEF PullRun
<1>2. /\ m.stack \in Seq(Val) /\ Len(m.stack) \in Nat /\ m.frames \in Seq(Frame) /\ Len(m.frames) \in Nat
      /\ DOMAIN m.frames = 1..Len(m.frames)
  BY <1>1, MachineTypes
<1>3. /\ co.frames \in Seq(Frame) /\ co.stack \in Seq(Val) /\ Len(co.frames) \in Nat /\ Len(co.stack) \in Nat
      /\ DOMAIN co.frames = 1..Len(co.frames)
      /\ \A j \in 1..Len(co.frames) : co.frames[j].base \in Int
  BY CoroTypes
<1>4. /\ n = [ip |-> co.ip, frames |-> fs, stack |-> st, runs |-> rs]
      /\ gs = Rebase(co.frames, Len(m.stack)) /\ fs = m.frames \o gs /\ st = m.stack \o co.stack
  BY DEF Resumed
<1>5. /\ gs \in Seq(Frame) /\ Len(gs) = Len(co.frames)
      /\ \A j \in 1..Len(co.frames) : /\ gs[j].base = co.frames[j].base + Len(m.stack)
                                      /\ gs[j].ret = co.frames[j].ret
                                      /\ gs[j].depth = co.frames[j].depth
  BY <1>2, <1>3, <1>4, RebaseSeq
<1>6. /\ fs \in Seq(Frame) /\ Len(fs) = Len(m.frames) + Len(gs)
      /\ \A j \in 1..Len(m.frames) : fs[j] = m.frames[j]
      /\ \A j \in 1..Len(gs) : fs[Len(m.frames) + j] = gs[j]
  <2>1. m.frames \in Seq(Frame) /\ gs \in Seq(Frame)
    BY <1>2, <1>5
  <2>2. /\ m.frames \o gs \in Seq(Frame) /\ Len(m.frames \o gs) = Len(m.frames) + Len(gs)
        /\ \A j \in 1..Len(m.frames) : (m.frames \o gs)[j] = m.frames[j]
        /\ \A j \in 1..Len(gs) : (m.frames \o gs)[Len(m.frames) + j] = gs[j]
    BY <2>1, ConcatSeq
  <2>3. fs = m.frames \o gs
    BY <1>4
  <2>4. QED
    BY <2>2, <2>3, Zenon
<1>7. /\ st \in Seq(Val) /\ Len(st) = Len(m.stack) + Len(co.stack)
      /\ \A q \in 1..Len(m.stack) : st[q] = m.stack[q]
  BY <1>2, <1>3, <1>4, ConcatSeq
<1>8. co.ip \in 1..End(c)
  <2>1. co.ip \in Positions(c)
    BY DEF BlockOK, Resumable, Rests
  <2>2. QED
    BY <2>1, ChunkTypes DEF Positions
<1>9. n \in MachineType(c) /\ n.ip = co.ip /\ n.frames = fs /\ n.stack = st /\ n.runs = rs
  <2>1. fs \in Seq(Frame) /\ st \in Seq(Val) /\ rs \in Seq(Run)
    BY <1>1, <1>6, <1>7
  <2>2. QED
    BY <1>4, <1>8, <2>1 DEF MachineType
<1>10. RunOn(c, m, n, r)
  BY <1>0, <1>9 DEF PullRun, RunOn
<1>11. Extends(m, n)
  <2>1. Len(fs) >= Len(m.frames)
    <3>1. Len(fs) = Len(m.frames) + Len(co.frames)
      BY <1>5, <1>6
    <3>2. Len(m.frames) \in Nat /\ Len(co.frames) \in Nat
      BY <1>2, <1>3
    <3>3. QED
      BY <3>1, <3>2, Longer, Zenon
  <2>2. QED
    BY <1>2, <1>6, <1>9, <2>1 DEF Extends
<1>12. Lifted(n, Len(m.frames), r.base, co)
  <2>1. ASSUME NEW j \in DOMAIN co.frames
        PROVE  /\ co.frames[j].ret = n.frames[Len(m.frames) + j].ret
               /\ co.frames[j].base = n.frames[Len(m.frames) + j].base - r.base
               /\ co.frames[j].depth = n.frames[Len(m.frames) + j].depth
    <3>1. /\ j \in 1..Len(gs) /\ j \in 1..Len(co.frames) /\ co.frames[j].base \in Int
          /\ n.frames[Len(m.frames) + j] = gs[j]
      BY <1>3, <1>5, <1>6, <1>9
    <3>2. gs[j].base = co.frames[j].base + Len(m.stack) /\ gs[j].ret = co.frames[j].ret
          /\ gs[j].depth = co.frames[j].depth
      BY <1>5, <3>1
    <3>3. co.frames[j].base = gs[j].base - r.base
      BY <1>1, <1>2, <3>1, <3>2
    <3>4. QED
      BY <3>1, <3>2, <3>3
  <2>2. Len(n.frames) = Len(m.frames) + Len(co.frames)
    BY <1>5, <1>6, <1>9
  <2>3. QED
    BY <2>1, <2>2 DEF Lifted
<1>13. Len(n.stack) = r.base + Len(co.stack)
  BY <1>1, <1>7, <1>9
<1>14. RunFrames(c, a, m, n, r) /\ Rests(c, a, Top(n), n.ip, Len(n.stack))
  BY <1>1, <1>9, <1>11, <1>12, <1>13, Restores
<1>15. Shape(c, a, n) /\ Going(c, a, n)
  BY <1>1, <1>9, <1>10, <1>14, StartRun
<1>16. Agree(m, n, Len(m.stack), Len(m.frames))
  <2>1. Len(m.stack) <= Len(n.stack) /\ \A q \in 1..Len(m.stack) : n.stack[q] = m.stack[q]
    <3>1. Len(n.stack) = Len(m.stack) + Len(co.stack)
      BY <1>7, <1>9
    <3>2. \A q \in 1..Len(m.stack) : n.stack[q] = m.stack[q]
      BY <1>7, <1>9
    <3>3. Len(m.stack) \in Nat /\ Len(co.stack) \in Nat
      BY <1>2, <1>3
    <3>4. QED
      BY <3>1, <3>2, <3>3, Longer, Zenon
  <2>2. Len(m.frames) <= Len(n.frames) /\ \A j \in DOMAIN m.frames : n.frames[j] = m.frames[j]
    BY <1>2, <1>11, MachineTypes, <1>9 DEF Extends
  <2>3. QED
    BY <1>2, <2>1, <2>2 DEF Agree
<1>17. Kept(m, n)
  BY <1>1, <1>9, <1>16, AgreeAll
<1>18. QED
  BY <1>1, <1>9, <1>15, <1>17 DEF Enters

\* KT_YIELD halts the machine where its block can be parked.
LEMMA YieldStep ==
  ASSUME NEW c \in Chunks, NEW a \in Maps(c), NEW m, Ready(c, a, m), m.ip \in a.yields, a.height[m.ip] >= 1,
         Goes(c, a, m.ip, m.ip + 1, a.height[m.ip], Lost),
         NEW n, n = Advance(Push(Push(PopOne(m), Undef), Undef))
  PROVE  /\ n \in MachineType(c) /\ n.runs = m.runs /\ Kept(m, n)
         /\ Shape(c, a, n) /\ Halting(c, a, n)
<1> DEFINE f == Front(m.stack)
           g == Append(f, Undef)
           st == Append(g, Undef)
<1>1. m \in MachineType(c) /\ m.stack \in Seq(Val) /\ Len(m.stack) \in Nat /\ Going(c, a, m)
  BY MachineTypes DEF Ready
<1>2. /\ a.height[m.ip] \in Nat /\ m.stack # <<>> /\ a.saved[m.ip] \in Int /\ Lost <= a.saved[m.ip]
      /\ Top(m).base \in Nat /\ Len(m.stack) >= Top(m).base + a.height[m.ip]
      /\ Len(m.frames) \in Nat \ {0}
  <2>1. /\ a.height[m.ip] \in Nat /\ (a.saved[m.ip] = Lost \/ a.saved[m.ip] \in Nat)
        /\ a.saved[m.ip] \in Int /\ Top(m).base \in Nat /\ Len(m.stack) >= Top(m).base + a.height[m.ip]
        /\ Len(m.frames) \in Nat \ {0}
    BY ReadyHere
  <2>2. Len(m.stack) > 0
    BY <1>1, <2>1
  <2>3. m.stack # <<>>
    BY <1>1, <2>2, LenNat
  <2>4. Lost <= a.saved[m.ip]
    BY <2>1 DEF Lost
  <2>5. QED
    BY <2>1, <2>3, <2>4
<1>3. f \in Seq(Val) /\ Len(f) = Len(m.stack) - 1 /\ \A q \in 1..Len(m.stack) - 1 : f[q] = m.stack[q]
  BY <1>1, <1>2, FrontSeq
<1>4. n = [m EXCEPT !.ip = m.ip + 1, !.stack = st]
  BY <1>1 DEF PopOne, Push, Advance, MachineType
<1>5. Undef \in Val
  BY ValuesAssumption
<1> HIDE DEF f
<1>6. g \in Seq(Val) /\ Len(g) = Len(f) + 1 /\ \A q \in 1..Len(f) : g[q] = f[q]
  BY <1>3, <1>5, AppendSeq
<1> HIDE DEF g
<1>7. st \in Seq(Val) /\ Len(st) = Len(g) + 1 /\ \A q \in 1..Len(g) : st[q] = g[q]
  BY <1>5, <1>6, AppendSeq
<1> HIDE DEF st
<1>8. n \in MachineType(c) /\ n.ip = m.ip + 1 /\ n.stack = st /\ n.frames = m.frames /\ n.runs = m.runs
  BY <1>1, <1>4, <1>7, Onward, ZenonT(40) DEF MachineType
<1>9. Len(n.stack) = Len(m.stack) + 1
  BY <1>1, <1>3, <1>6, <1>7, <1>8
<1>10. \A q \in 1..Len(m.stack) - 1 : n.stack[q] = m.stack[q]
  <2>1. ASSUME NEW q \in 1..Len(m.stack) - 1
        PROVE  n.stack[q] = m.stack[q]
    <3>1. q \in 1..Len(f) /\ q \in 1..Len(g)
      BY <1>1, <1>3, <1>6
    <3>2. f[q] = m.stack[q] /\ g[q] = f[q] /\ st[q] = g[q]
      BY <1>3, <1>6, <1>7, <3>1
    <3>3. QED
      BY <1>8, <3>2
  <2>2. QED
    BY <2>1
<1>11. SameFrames(m, n) /\ Top(n) = Top(m)
  BY <1>8 DEF SameFrames, Top
<1>12. a.saved[n.ip] = Lost /\ n.ip \in Positions(c) /\ a.height[n.ip] \in Nat /\ a.height[n.ip] <= a.height[m.ip]
  <2>1. n.ip \in Positions(c) /\ a.height[n.ip] <= a.height[m.ip] /\ a.saved[n.ip] <= Lost
    BY <1>8 DEF Goes, Fits
  <2>2. a.height[n.ip] \in Nat /\ (a.saved[n.ip] = Lost \/ a.saved[n.ip] \in Nat)
    BY <2>1, MapTypes
  <2>3. QED
    BY <2>1, <2>2 DEF Lost
<1>13. Goes(c, a, m.ip, n.ip, a.height[m.ip], a.saved[m.ip])
  BY <1>2, <1>8, <1>12 DEF Goes, Fits
<1>14. Steps(c, a, m, n)
  <2>1. /\ a.height[m.ip] - 1 + 1 = a.height[m.ip] /\ Len(n.stack) >= Len(m.stack) - 1 + 1
        /\ 1 \in Nat /\ Top(n).depth = Top(m).depth /\ Top(n).own = Top(m).own
    BY <1>1, <1>2, <1>9, <1>11
  <2>2. Goes(c, a, m.ip, n.ip, a.height[m.ip] - 1 + 1, a.saved[m.ip])
    BY <1>13, <2>1
  <2>3. QED
    BY <1>8, <1>10, <1>11, <2>1, <2>2, OperandStep
<1>15. Parkable(a, n, Len(n.frames)) /\ n.frames # <<>>
  BY <1>1, <1>8 DEF Going, Parkable
<1>16. n.runs[Len(n.runs)].frame < Len(n.frames)
  <2>1. n.runs # <<>>
    BY <1>15, <1>8, MachineTypes DEF Parkable
  <2>2. QED
    BY <1>1, <1>8, <2>1 DEF Going
<1>17. Rests(c, a, Top(n), n.ip, Len(n.stack) - 1)
  <2>1. Len(n.stack) - 1 >= Top(n).base + a.height[n.ip]
    BY <1>1, <1>2, <1>9, <1>11, <1>12
  <2>2. QED
    BY <1>12, <2>1 DEF Rests
<1>18. n.stack # <<>>
  BY <1>1, <1>7, <1>8, <1>9, LenNat
<1>19. QED
  BY <1>8, <1>12, <1>14, <1>15, <1>16, <1>17, <1>18 DEF Halting, Steps, MachineOK

\* What the end of a run finds below it.
LEMMA EndsOver ==
  ASSUME NEW c \in Chunks, NEW a \in Maps(c), NEW m \in MachineType(c), Shape(c, a, m), m.runs # <<>>,
         Over(c, m) \/ Halting(c, a, m), NEW r, r = m.runs[Len(m.runs)]
  PROVE  /\ r \in Run /\ r.base \in Nat /\ r.frame \in 1..Len(m.frames) /\ r.ip \in Positions(c)
         /\ m.stack # <<>> /\ r.base <= Len(m.stack) - 1
         /\ Halting(c, a, m) => r.kind # "each"
         /\ r.kind # "each" => r.it \in Iter
         /\ r.kind = "each" => /\ r.ip - 1 \in Positions(c) /\ c.ops[r.ip - 1].op = "each"
                               /\ r.left <= c.ops[r.ip - 1].n
<1>1. /\ Len(m.runs) \in DOMAIN m.runs /\ DOMAIN m.runs = 1..Len(m.runs) /\ Len(m.runs) \in Nat
      /\ r \in Run /\ r.base \in Int /\ r.frame \in Int
      /\ Len(m.stack) \in Nat /\ Len(m.frames) \in Nat /\ DOMAIN m.frames = 1..Len(m.frames)
  BY LastRun, MachineTypes
<1>2. RunLinked(c, a, m, r)
  BY <1>1 DEF Shape, RunsLinked
<1>3. r.frame \in 1..Len(m.frames) /\ r.ip \in Positions(c) /\ m.frames # <<>>
  BY <1>1, <1>2, MachineTypes DEF RunLinked, Rests
<1>4. r.base \in Nat
  <2>1. m.frames[r.frame].base >= 0 /\ m.frames[r.frame].base <= r.base /\ m.frames[r.frame].base \in Int
    BY <1>1, <1>2, <1>3, MachineTypes DEF RunLinked, Shape, Based
  <2>2. QED
    BY <1>1, <2>1
<1>5. r.base <= Len(m.stack) - 1
  <2>1. CASE Over(c, m)
    BY <1>1, <2>1 DEF Over
  <2>2. CASE Halting(c, a, m)
    <3>1. r.frame + 1 \in 1..Len(m.frames) /\ r.frame < Len(m.frames)
      BY <1>1, <1>3, <2>2 DEF Halting
    <3>2. r.base <= m.frames[r.frame + 1].base /\ m.frames[r.frame + 1].base <= Top(m).base
          /\ m.frames[r.frame + 1].base \in Int /\ Top(m).base \in Int
      BY <1>2, <1>3, <3>1, BaseBelow DEF RunLinked, Shape
    <3>3. Len(m.stack) - 1 >= Top(m).base + a.height[m.ip] /\ a.height[m.ip] \in Nat
      BY <2>2, MapTypes DEF Halting, Rests
    <3> DEFINE x == m.frames[r.frame + 1].base
               y == Top(m).base
               z == Len(m.stack) - 1
               h == a.height[m.ip]
               b == r.base
    <3>4. x \in Int /\ y \in Int /\ z \in Int /\ h \in Nat /\ b \in Int /\ b <= x /\ x <= y /\ z >= y + h
      BY <1>1, <3>2, <3>3
    <3> HIDE DEF x, y, z, h, b
    <3>5. b <= z
      BY <3>4
    <3>6. QED
      BY <3>5 DEF b, z
  <2>3. QED
    BY <2>1, <2>2
<1>6. m.stack # <<>>
  <2>1. Len(m.stack) > 0
    BY <1>1, <1>4, <1>5
  <2>2. QED
    BY <2>1, MachineTypes, LenNat
<1>7. Halting(c, a, m) => r.kind # "each"
  <2>1. SUFFICES ASSUME Halting(c, a, m)
                 PROVE  r.kind # "each"
    OBVIOUS
  <2>2. PICK i \in DOMAIN m.runs : /\ m.runs[i].kind # "each"
                                   /\ \A l \in DOMAIN m.runs : i < l => m.runs[l].frame >= Len(m.frames)
    BY <2>1 DEF Halting, Parkable
  <2>3. r.frame < Len(m.frames)
    BY <2>1 DEF Halting
  <2>4. ~(i < Len(m.runs))
    BY <1>1, <2>2, <2>3
  <2>5. i = Len(m.runs)
    BY <1>1, <2>4
  <2>6. QED
    BY <2>2, <2>5
<1>8. QED
  BY <1>1, <1>2, <1>3, <1>4, <1>5, <1>6, <1>7 DEF RunLinked

LEMMA FrontThenLast ==
  ASSUME NEW S, NEW s \in Seq(S), s # <<>>
  PROVE  s = Append(Front(s), s[Len(s)])
<1> DEFINE f == Front(s)
           e == s[Len(s)]
<1>1. Len(s) \in Nat /\ Len(s) > 0 /\ e \in S
  BY LenNat
<1>2. f \in Seq(S) /\ Len(f) = Len(s) - 1 /\ \A i \in 1..Len(s) - 1 : f[i] = s[i]
  BY FrontSeq
<1>3. e = s[Len(s)]
  OBVIOUS
<1> HIDE DEF f, e
<1>4. /\ Append(f, e) \in Seq(S) /\ Len(Append(f, e)) = Len(f) + 1 /\ Append(f, e)[Len(f) + 1] = e
      /\ \A i \in 1..Len(f) : Append(f, e)[i] = f[i]
  BY <1>1, <1>2, AppendSeq
<1>5. Len(Append(f, e)) = Len(s)
  BY <1>1, <1>2, <1>4
<1>6. \A i \in 1..Len(s) : Append(f, e)[i] = s[i]
  <2>1. ASSUME NEW i \in 1..Len(s)
        PROVE  Append(f, e)[i] = s[i]
    <3>1. CASE i = Len(s)
      BY <1>1, <1>2, <1>3, <1>4, <3>1
    <3>2. CASE i # Len(s)
      <4>1. i \in 1..Len(s) - 1 /\ i \in 1..Len(f)
        BY <1>1, <1>2, <3>2
      <4>2. QED
        BY <1>2, <1>4, <4>1
    <3>3. QED
      BY <3>1, <3>2
  <2>2. QED
    BY <2>1
<1>7. s = Append(f, e)
  BY <1>4, <1>5, <1>6, SeqEqual
<1>8. QED
  BY <1>7 DEF f, e

\* What is left below the last run.
Below(m, r) ==
  [ ip |-> r.ip, frames |-> Truncate(m.frames, r.frame),
    stack |-> Truncate(Front(m.stack), r.base), runs |-> Front(m.runs) ]

LEMMA BelowIt ==
  ASSUME NEW c \in Chunks, NEW a \in Maps(c), NEW m \in MachineType(c), Shape(c, a, m), m.runs # <<>>,
         Over(c, m) \/ Halting(c, a, m), NEW r, r = m.runs[Len(m.runs)],
         NEW k, k = Below(m, r)
  PROVE  /\ k \in MachineType(c) /\ Shape(c, a, k) /\ Awaits(c, a, k, r.ip, r.base)
         /\ k.ip = r.ip /\ Len(k.stack) = r.base /\ Len(k.frames) = r.frame
         /\ Len(m.runs) = Len(k.runs) + 1 /\ \A i \in DOMAIN k.runs : k.runs[i] = m.runs[i]
         /\ \A q \in 1..r.base : k.stack[q] = m.stack[q]
         /\ \A j \in 1..r.frame : k.frames[j] = m.frames[j]
<1> DEFINE f == Front(m.stack)
           st == Truncate(f, r.base)
           fs == Truncate(m.frames, r.frame)
           rs == Front(m.runs)
<1>1. /\ m.stack \in Seq(Val) /\ Len(m.stack) \in Nat /\ m.frames \in Seq(Frame) /\ Len(m.frames) \in Nat
      /\ m.runs \in Seq(Run) /\ Len(m.runs) \in Nat /\ DOMAIN m.frames = 1..Len(m.frames)
  BY MachineTypes
<1>2. /\ r \in Run /\ r.base \in Nat /\ r.frame \in 1..Len(m.frames) /\ r.frame \in Nat
      /\ r.ip \in Positions(c) /\ m.stack # <<>> /\ r.base <= Len(m.stack) - 1
  BY <1>1, EndsOver
<1>3. f \in Seq(Val) /\ Len(f) = Len(m.stack) - 1 /\ \A q \in 1..Len(m.stack) - 1 : f[q] = m.stack[q]
  BY <1>1, <1>2, FrontSeq
<1>4. k = [ip |-> r.ip, frames |-> fs, stack |-> st, runs |-> rs]
  BY DEF Below
<1> HIDE DEF f
<1>5. st \in Seq(Val) /\ Len(st) = r.base /\ \A q \in 1..Len(st) : st[q] = f[q]
  BY <1>2, <1>3, TruncateSeq
<1>6. fs \in Seq(Frame) /\ Len(fs) = r.frame /\ \A j \in 1..Len(fs) : fs[j] = m.frames[j]
  BY <1>1, <1>2, TruncateSeq
<1>7. rs \in Seq(Run) /\ Len(rs) = Len(m.runs) - 1 /\ \A i \in 1..Len(m.runs) - 1 : rs[i] = m.runs[i]
  BY <1>1, FrontSeq
<1> HIDE DEF st, fs, rs
<1>8. r.ip \in 1..End(c)
  BY <1>2, ChunkTypes DEF Positions
<1>9. k \in MachineType(c) /\ k.ip = r.ip /\ k.frames = fs /\ k.stack = st /\ k.runs = rs
  BY <1>4, <1>5, <1>6, <1>7, <1>8 DEF MachineType
<1>10. DOMAIN k.runs = 1..Len(m.runs) - 1 /\ DOMAIN k.frames = 1..r.frame
  BY <1>6, <1>7, <1>9, MachineTypes
<1>11. /\ Len(k.runs) = Len(m.runs) - 1 /\ \A i \in DOMAIN k.runs : k.runs[i] = m.runs[i]
       /\ Len(k.frames) = r.frame /\ \A j \in DOMAIN k.frames : k.frames[j] = m.frames[j]
  BY <1>6, <1>7, <1>9, <1>10
<1>12. Shape(c, a, k) /\ Awaits(c, a, k, r.ip, r.base)
  BY <1>2, <1>9, <1>11, EndRun, SMTT(30)
<1>13. \A q \in 1..r.base : k.stack[q] = m.stack[q]
  <2>1. ASSUME NEW q \in 1..r.base
        PROVE  k.stack[q] = m.stack[q]
    <3>1. q \in 1..Len(st) /\ q \in 1..Len(m.stack) - 1
      BY <1>1, <1>2, <1>5
    <3>2. QED
      BY <1>3, <1>5, <1>9, <3>1
  <2>2. QED
    BY <2>1
<1>14. Len(m.runs) = Len(k.runs) + 1
  BY <1>1, <1>11
<1>15. QED
  BY <1>5, <1>9, <1>10, <1>11, <1>12, <1>13, <1>14

\* A pull is over: the one who asked finds its machine, and an answer on top.
LEMMA BackStep ==
  ASSUME NEW c \in Chunks, NEW a \in Maps(c), NEW m \in MachineType(c), Shape(c, a, m), m.runs # <<>>,
         Over(c, m) \/ Halting(c, a, m), NEW r, r = m.runs[Len(m.runs)],
         NEW v \in Val, NEW n, n = Push(Below(m, r), v)
  PROVE  /\ n \in MachineType(c) /\ Shape(c, a, n) /\ Going(c, a, n)
         /\ Len(n.runs) <= Len(m.runs) /\ Kept(m, n)
<1>1. PICK k : k = Below(m, r)
  OBVIOUS
<1>2. /\ k \in MachineType(c) /\ Shape(c, a, k) /\ Awaits(c, a, k, r.ip, r.base)
      /\ k.ip = r.ip /\ Len(k.stack) = r.base /\ Len(k.frames) = r.frame
      /\ Len(m.runs) = Len(k.runs) + 1 /\ \A i \in DOMAIN k.runs : k.runs[i] = m.runs[i]
      /\ \A q \in 1..r.base : k.stack[q] = m.stack[q]
      /\ \A j \in 1..r.frame : k.frames[j] = m.frames[j]
  BY <1>1, BelowIt
<1>3. r \in Run /\ r.base \in Nat /\ r.frame \in 1..Len(m.frames) /\ m.stack # <<>> /\ r.base <= Len(m.stack) - 1
  BY EndsOver
<1>4. k.stack \in Seq(Val) /\ Len(m.stack) \in Nat /\ Len(m.frames) \in Nat /\ Len(k.runs) \in Nat
      /\ k.frames \in Seq(Frame)
  BY <1>2, MachineTypes
<1>5. /\ Append(k.stack, v) \in Seq(Val) /\ Len(Append(k.stack, v)) = Len(k.stack) + 1
      /\ \A q \in 1..Len(k.stack) : Append(k.stack, v)[q] = k.stack[q]
  BY <1>4, AppendSeq
<1>6. n = [k EXCEPT !.stack = Append(k.stack, v)]
  BY <1>1, <1>2 DEF Push, MachineType
<1>7. n \in MachineType(c) /\ n.ip = r.ip /\ n.frames = k.frames /\ n.runs = k.runs /\ n.stack = Append(k.stack, v)
  BY <1>2, <1>5, <1>6 DEF MachineType
<1>8. Len(n.stack) = r.base + 1 /\ \A q \in 1..r.base : n.stack[q] = m.stack[q]
  BY <1>2, <1>5, <1>7
<1>9. Shape(c, a, n) /\ Going(c, a, n)
  <2>1. Len(n.stack) >= r.base + 1 /\ r.base \in Int
    BY <1>3, <1>8
  <2>2. Awaits(c, a, k, n.ip, r.base)
    BY <1>2, <1>7
  <2>3. QED
    BY <1>2, <1>7, <2>1, <2>2, Answered
<1>10. Agree(m, n, r.base, r.frame)
  <2>1. r.base <= Len(m.stack) /\ r.base <= Len(n.stack)
    BY <1>3, <1>4, <1>8
  <2>2. r.frame <= Len(m.frames) /\ r.frame <= Len(n.frames)
    BY <1>2, <1>3, <1>4, <1>7
  <2>3. QED
    BY <1>2, <1>7, <1>8, <2>1, <2>2 DEF Agree
<1>11. Kept(m, n)
  BY <1>2, <1>3, <1>7, <1>10, KeptEnding
<1>12. Len(n.runs) <= Len(m.runs)
  BY <1>2, <1>4, <1>7
<1>13. QED
  BY <1>7, <1>9, <1>11, <1>12

\* What Element answers.
Elements(c, p, r, n) ==
  \/ n = [p EXCEPT !.runs = Front(@), !.ip = r.ip, !.stack = Append(@, Undef)]
  \/ /\ r.left # 0
     /\ n = Enter([p EXCEPT !.runs[Len(p.runs)].left = @ - 1,
                            !.stack = Append(@, c.ops[r.ip - 1].n - r.left + 1)],
                  c.ops[r.ip - 1].to, End(c), Len(p.stack))

\* A closure of forEach returned.
LEMMA ElementStep ==
  ASSUME NEW c \in Chunks, NEW a \in Maps(c), Verified(c, a), NEW m \in MachineType(c), Shape(c, a, m),
         m.runs # <<>>, Over(c, m), NEW r, r = m.runs[Len(m.runs)], r.kind = "each",
         NEW p, p = PopOne(m),
         NEW n, Elements(c, p, r, n)
  PROVE  /\ n \in MachineType(c) /\ Shape(c, a, n) /\ Going(c, a, n)
         /\ Len(n.runs) <= Len(m.runs) /\ Kept(m, n)
<1> DEFINE rs == Front(m.runs)
           f == Front(m.stack)
<1>1. /\ m.stack \in Seq(Val) /\ Len(m.stack) \in Nat /\ m.frames \in Seq(Frame) /\ Len(m.frames) \in Nat
      /\ m.runs \in Seq(Run) /\ Len(m.runs) \in Nat /\ DOMAIN m.frames = 1..Len(m.frames)
  BY MachineTypes
<1>2. /\ r \in Run /\ r.base \in Nat /\ r.ip \in Positions(c) /\ m.stack # <<>> /\ r.base <= Len(m.stack) - 1
      /\ r.ip - 1 \in Positions(c) /\ c.ops[r.ip - 1].op = "each" /\ r.left <= c.ops[r.ip - 1].n
  BY EndsOver
<1>3. r.frame = Len(m.frames)
  BY DEF Over
<1>4. f \in Seq(Val) /\ Len(f) = Len(m.stack) - 1 /\ \A q \in 1..Len(m.stack) - 1 : f[q] = m.stack[q]
  BY <1>1, <1>2, FrontSeq
<1>5. rs \in Seq(Run) /\ Len(rs) = Len(m.runs) - 1 /\ \A i \in 1..Len(m.runs) - 1 : rs[i] = m.runs[i]
  BY <1>1, FrontSeq
<1>6. m.runs = Append(rs, r)
  BY <1>1, FrontThenLast
<1>7. p = [m EXCEPT !.stack = f]
  BY <1>1 DEF PopOne, MachineType
<1>8. PICK k : k = [m EXCEPT !.ip = r.ip, !.stack = f, !.runs = rs]
  OBVIOUS
<1> HIDE DEF rs, f
<1>9. r.ip \in 1..End(c)
  BY <1>2, ChunkTypes DEF Positions
<1>10. k \in MachineType(c) /\ k.frames = m.frames /\ k.runs = rs
  BY <1>4, <1>5, <1>8, <1>9 DEF MachineType
<1>11. p \in MachineType(c) /\ p.frames = m.frames /\ p.runs = m.runs /\ p.stack = f
  BY <1>4, <1>7 DEF MachineType
<1>12. /\ DOMAIN k.runs = 1..Len(m.runs) - 1 /\ Len(m.runs) = Len(k.runs) + 1 /\ Len(k.runs) = Len(m.runs) - 1
       /\ \A i \in DOMAIN k.runs : k.runs[i] = m.runs[i]
  <2>1. DOMAIN k.runs = 1..Len(k.runs)
    BY <1>10, MachineTypes
  <2>2. Len(k.runs) = Len(m.runs) - 1
    BY <1>5, <1>10
  <2>3. DOMAIN k.runs = 1..Len(m.runs) - 1
    BY <2>1, <2>2
  <2>4. \A i \in DOMAIN k.runs : k.runs[i] = m.runs[i]
    BY <1>5, <1>10, <2>3
  <2>5. QED
    BY <1>1, <2>2, <2>3, <2>4
<1>13. Shape(c, a, k) /\ Awaits(c, a, k, r.ip, r.base)
  <2>1. Len(k.frames) = r.frame /\ \A j \in DOMAIN k.frames : k.frames[j] = m.frames[j]
    BY <1>3, <1>10
  <2>2. QED
    BY <1>2, <1>10, <1>12, <2>1, EndRun
<1>14. Runs(c, a, k, p, r)
  BY <1>2, <1>3, <1>4, <1>6, <1>10, <1>11, <1>13 DEF Runs
<1>15. Leads(c, a, p, n)
  BY <1>14, LastElement, FurtherElement DEF Elements
<1>16. n \in MachineType(c) /\ Shape(c, a, n) /\ Going(c, a, n) /\ Len(n.runs) <= Len(m.runs)
  BY <1>11, <1>15 DEF Leads
<1>17. Agree(m, n, r.base, r.frame)
  <2>1. /\ Len(f) <= Len(n.stack) /\ \A q \in 1..Len(f) : n.stack[q] = f[q]
        /\ Len(m.frames) <= Len(n.frames) /\ \A j \in 1..Len(m.frames) : n.frames[j] = m.frames[j]
    BY <1>11, <1>15 DEF Leads, Agree
  <2>2. /\ r.base <= Len(m.stack) /\ r.base <= Len(n.stack) /\ Len(m.frames) <= Len(m.frames)
        /\ \A q \in 1..r.base : q \in 1..Len(f) /\ q \in 1..Len(m.stack) - 1
    <3>1. Len(n.stack) \in Nat
      BY <1>16, MachineTypes
    <3>2. QED
      BY <1>1, <1>2, <1>4, <2>1, <3>1, SMTT(30)
  <2>3. \A q \in 1..r.base : n.stack[q] = m.stack[q]
    BY <1>4, <2>1, <2>2
  <2>4. QED
    BY <1>3, <2>1, <2>2, <2>3 DEF Agree
<1>18. Kept(m, n)
  <2>1. r.base \in Int /\ m.runs[Len(m.runs)] = r /\ r.frame = Len(k.frames)
    BY <1>2, <1>3, <1>10
  <2>2. QED
    BY <1>2, <1>10, <1>12, <1>13, <1>16, <1>17, <2>1, KeptEnding
<1>19. QED
  BY <1>16, <1>18

\* forEach starts.
LEMMA EachStep ==
  ASSUME NEW c \in Chunks, NEW a \in Maps(c), NEW m, Ready(c, a, m), OpAt(c, m).op = "each",
         NEW r, r = [ kind |-> "each", it |-> None, left |-> OpAt(c, m).n, base |-> Len(m.stack),
                      frame |-> Len(m.frames), ip |-> m.ip + 1 ],
         NEW p, p = [m EXCEPT !.runs = Append(@, r)],
         NEW n, Elements(c, p, r, n)
  PROVE  /\ n \in MachineType(c) /\ Shape(c, a, n) /\ Going(c, a, n)
         /\ Len(n.runs) <= Len(m.runs) + 1 /\ Kept(m, n)
<1>1. /\ m \in MachineType(c) /\ Shape(c, a, m) /\ Going(c, a, m) /\ m.runs \in Seq(Run) /\ Len(m.runs) \in Nat
      /\ Len(m.stack) \in Nat /\ Len(m.frames) \in Nat /\ m.ip \in Nat
  BY MachineTypes DEF Ready
<1>2. /\ m.ip \in Positions(c) /\ OpVerified(c, a, m.ip) /\ c.ops[m.ip] \in Op /\ c.ops[m.ip].n \in Nat
      /\ c.ops[m.ip].op = "each" /\ Verified(c, a)
  BY ReadyHere DEF OpAt, Op, Ready
<1>3. /\ r.kind = "each" /\ r.left = c.ops[m.ip].n /\ r.base = Len(m.stack) /\ r.frame = Len(m.frames)
      /\ r.ip = m.ip + 1 /\ r.ip - 1 = m.ip
  BY <1>1 DEF OpAt
<1>4. r \in Run
  BY <1>1, <1>2 DEF Run, OpAt
<1>5. Awaits(c, a, m, r.ip, r.base)
  <2>1. Goes(c, a, m.ip, m.ip + 1, a.height[m.ip] + 1, a.saved[m.ip])
    BY <1>2 DEF OpVerified
  <2>2. QED
    BY <1>1, <1>3, <2>1, WaitsHere
<1>6. Append(m.runs, r) \in Seq(Run) /\ Len(Append(m.runs, r)) = Len(m.runs) + 1
  BY <1>1, <1>4, AppendSeq
<1>7. p \in MachineType(c) /\ p.runs = Append(m.runs, r) /\ p.frames = m.frames /\ p.stack = m.stack
  BY <1>1, <1>6 DEF MachineType
<1>8. Runs(c, a, m, p, r)
  BY <1>1, <1>2, <1>3, <1>4, <1>5, <1>7 DEF Runs
<1>9. Leads(c, a, p, n)
  BY <1>8, LastElement, FurtherElement DEF Elements
<1>10. n \in MachineType(c) /\ Shape(c, a, n) /\ Going(c, a, n) /\ Len(n.runs) <= Len(m.runs) + 1
  BY <1>6, <1>7, <1>9 DEF Leads
<1>11. Agree(m, n, Len(m.stack), Len(m.frames))
  BY <1>7, <1>9 DEF Leads, Agree
<1>12. Kept(m, n)
  BY <1>1, <1>10, <1>11, AgreeAll
<1>13. QED
  BY <1>10, <1>12

(* ---- the steps of the specification ------------------------------------------------------- *)

Sane(a) == a \in Maps(chunk) /\ Verified(chunk, a) /\ Typed /\ Sound(a)

\* What a step keeps.
Safe(a) == Typed' /\ Sound(a)' /\ Kept(vm, vm') /\ chunk' = chunk

LEMMA SaneTypes ==
  ASSUME NEW a, Sane(a)
  PROVE  /\ chunk \in Chunks /\ a \in Maps(chunk) /\ Verified(chunk, a)
         /\ vm \in MachineType(chunk) /\ Shape(chunk, a, vm) /\ Len(vm.runs) <= Limit
         /\ halted = (yielded # None) /\ yielded \in Val \cup {None} /\ pending \in Exc \cup {None}
         /\ StashType(stash) /\ coros \in [Iter -> Coro] /\ ahead \in [Iter -> Val \cup {None}]
         /\ \A k \in Iter : ahead[k] # None => coros[k].state = "Suspended"
         /\ \A k \in Iter : BlockOK(chunk, a, coros[k])
  BY DEF Sane, Typed, TypeOK, Sound, MachineOK, depth

LEMMA AtReady ==
  ASSUME NEW a, Sane(a), ~halted, vm.ip \in DOMAIN chunk.ops
  PROVE  /\ Ready(chunk, a, vm) /\ halted = FALSE /\ yielded = None
         /\ OpVerified(chunk, a, vm.ip) /\ Cur = chunk.ops[vm.ip] /\ Cur \in Op
<1>1. /\ chunk \in Chunks /\ a \in Maps(chunk) /\ Verified(chunk, a)
      /\ vm \in MachineType(chunk) /\ Shape(chunk, a, vm) /\ halted = (yielded # None)
  BY SaneTypes
<1>2. halted = FALSE /\ yielded = None
  BY <1>1
<1>3. Going(chunk, a, vm) \/ Over(chunk, vm)
  BY <1>2 DEF Sane, Sound, MachineOK
<1>4. vm.ip # End(chunk)
  BY <1>1, ChunkTypes
<1>5. Ready(chunk, a, vm)
  BY <1>1, <1>3, <1>4 DEF Ready, Over
<1>6. OpVerified(chunk, a, vm.ip) /\ chunk.ops[vm.ip] \in Op
  BY <1>1, <1>5, ReadyHere
<1>7. QED
  BY <1>2, <1>5, <1>6 DEF Cur, OpAt

\* A step that leaves the blocks alone, and the machine running.
LEMMA Onwards ==
  ASSUME NEW a, Sane(a), UNCHANGED chunk, UNCHANGED coros, UNCHANGED ahead,
         yielded = None, UNCHANGED yielded, halted = FALSE, UNCHANGED halted,
         vm' \in MachineType(chunk), MachineOK(chunk, a, vm', FALSE), Len(vm'.runs) <= Limit, Kept(vm, vm'),
         pending' \in Exc \cup {None}, StashType(stash')
  PROVE  Safe(a)
<1>1. /\ chunk \in Chunks /\ coros \in [Iter -> Coro] /\ ahead \in [Iter -> Val \cup {None}]
      /\ \A k \in Iter : ahead[k] # None => coros[k].state = "Suspended"
      /\ \A k \in Iter : BlockOK(chunk, a, coros[k])
  BY SaneTypes
<1>2. /\ vm'.ip \in 1..End(chunk) /\ vm'.frames \in Seq(Frame) /\ vm'.stack \in Seq(Val) /\ vm'.runs \in Seq(Run)
  BY DEF MachineType
<1>3. TypeOK'
  BY <1>1, <1>2 DEF TypeOK, depth
<1>4. Typed'
  BY <1>1, <1>3 DEF Typed
<1>5. Sound(a)'
  BY <1>1 DEF Sound
<1>6. QED
  BY <1>4, <1>5 DEF Safe

\* The same, for the operations inside a frame.
LEMMA Stepping ==
  ASSUME NEW a, Sane(a), UNCHANGED chunk, UNCHANGED coros, UNCHANGED ahead,
         yielded = None, UNCHANGED yielded, halted = FALSE, UNCHANGED halted,
         Steps(chunk, a, vm, vm'),
         pending' \in Exc \cup {None}, StashType(stash')
  PROVE  Safe(a)
<1>1. Len(vm.runs) <= Limit
  BY SaneTypes
<1>2. /\ vm' \in MachineType(chunk) /\ MachineOK(chunk, a, vm', FALSE) /\ Len(vm'.runs) <= Limit /\ Kept(vm, vm')
  BY <1>1 DEF Steps
<1>3. QED
  BY <1>2, Onwards

LEMMA FaultType ==
  ASSUME NEW a, Sane(a), NEW e \in Exc \cup {None}
  PROVE  Fault(e) \in Exc \cup {None}
  BY SaneTypes DEF Fault

LEMMA LocalSafe ==
  ASSUME NEW a, Sane(a), Local
  PROVE  Safe(a)
<1>1. vm' = After(chunk, vm) /\ ~halted /\ vm.ip \in DOMAIN chunk.ops /\ Cur.op \in LocalOps
  BY DEF Local, At
<1>2. /\ UNCHANGED chunk /\ UNCHANGED coros /\ UNCHANGED ahead /\ UNCHANGED yielded /\ UNCHANGED halted
      /\ UNCHANGED pending /\ UNCHANGED stash
  BY DEF Local, switch_vars
<1>3. /\ chunk \in Chunks /\ a \in Maps(chunk) /\ pending' \in Exc \cup {None} /\ StashType(stash')
  BY <1>2, SaneTypes
<1>4. /\ Ready(chunk, a, vm) /\ halted = FALSE /\ yielded = None /\ OpAt(chunk, vm).op \in LocalOps
  BY <1>1, AtReady DEF Cur
<1>5. Steps(chunk, a, vm, vm')
  BY <1>1, <1>3, <1>4, LocalStep
<1>6. QED
  BY <1>2, <1>3, <1>4, <1>5, Stepping

LEMMA LastAppended ==
  ASSUME NEW S, NEW s \in Seq(S), NEW e, NEW t, t = Append(s, e)
  PROVE  t[Len(t)] = e
<1>1. Len(s) \in Nat
  BY LenNat
<1>2. QED
  BY <1>1

LEMMA PrintlnSafe ==
  ASSUME NEW a, Sane(a), Println
  PROVE  Safe(a)
<1>1. ~halted /\ vm.ip \in DOMAIN chunk.ops /\ Cur.op = "println" /\ vm' = Advance(Push(PopOne(vm), Undef))
  BY DEF Println, At
<1>2. /\ UNCHANGED chunk /\ UNCHANGED coros /\ UNCHANGED ahead /\ UNCHANGED yielded /\ UNCHANGED halted
      /\ UNCHANGED pending /\ UNCHANGED stash
  BY DEF Println, switch_vars
<1>3. /\ chunk \in Chunks /\ a \in Maps(chunk) /\ pending' \in Exc \cup {None} /\ StashType(stash')
  BY <1>2, SaneTypes
<1>4. /\ Ready(chunk, a, vm) /\ halted = FALSE /\ yielded = None
      /\ OpVerified(chunk, a, vm.ip) /\ Cur = chunk.ops[vm.ip] /\ Cur.op = "println"
  BY <1>1, AtReady
<1>5. a.height[vm.ip] >= 1 /\ Goes(chunk, a, vm.ip, vm.ip + 1, a.height[vm.ip], a.saved[vm.ip])
  BY <1>4 DEF OpVerified
<1>6. Steps(chunk, a, vm, vm')
  BY <1>1, <1>3, <1>4, <1>5, ValuesAssumption, ChangeStep
<1>7. QED
  BY <1>2, <1>3, <1>4, <1>6, Stepping

LEMMA RaiseSafe ==
  ASSUME NEW a, Sane(a), Raise
  PROVE  Safe(a)
<1>1. ~halted /\ vm.ip \in DOMAIN chunk.ops /\ Cur.op = "raise" /\ vm' = Advance(Push(vm, Undef)) /\ pending' = Fault(Cur.exc)
  BY DEF Raise, At
<1>2. /\ UNCHANGED chunk /\ UNCHANGED coros /\ UNCHANGED ahead /\ UNCHANGED yielded /\ UNCHANGED halted
      /\ UNCHANGED stash
  BY DEF Raise, switch_vars
<1>3. /\ chunk \in Chunks /\ a \in Maps(chunk) /\ StashType(stash')
  BY <1>2, SaneTypes
<1>4. /\ Ready(chunk, a, vm) /\ halted = FALSE /\ yielded = None
      /\ OpVerified(chunk, a, vm.ip) /\ Cur = chunk.ops[vm.ip] /\ Cur \in Op /\ Cur.op = "raise"
  BY <1>1, AtReady
<1>5. pending' \in Exc \cup {None}
  <2>1. Cur.exc \in Exc \cup {None}
    BY <1>4 DEF Op
  <2>2. QED
    BY <1>1, <2>1, FaultType
<1>6. Goes(chunk, a, vm.ip, vm.ip + 1, a.height[vm.ip] + 1, a.saved[vm.ip])
  BY <1>4 DEF OpVerified
<1>7. Steps(chunk, a, vm, vm')
  BY <1>1, <1>3, <1>4, <1>6, ValuesAssumption, PushStep
<1>8. QED
  BY <1>2, <1>3, <1>4, <1>5, <1>7, Stepping

LEMMA CheckSafe ==
  ASSUME NEW a, Sane(a), Check
  PROVE  Safe(a)
<1>1. ~halted /\ vm.ip \in DOMAIN chunk.ops /\ Cur.op = "check" /\ vm' = [vm EXCEPT !.ip = IF unwinding THEN Cur.to ELSE @ + 1]
  BY DEF Check, At
<1>2. /\ UNCHANGED chunk /\ UNCHANGED coros /\ UNCHANGED ahead /\ UNCHANGED yielded /\ UNCHANGED halted
      /\ UNCHANGED pending /\ UNCHANGED stash
  BY DEF Check, switch_vars
<1>3. /\ chunk \in Chunks /\ a \in Maps(chunk) /\ pending' \in Exc \cup {None} /\ StashType(stash')
      /\ vm \in MachineType(chunk)
  BY <1>2, SaneTypes
<1>4. /\ Ready(chunk, a, vm) /\ halted = FALSE /\ yielded = None
      /\ OpVerified(chunk, a, vm.ip) /\ Cur = chunk.ops[vm.ip] /\ Cur.op = "check"
  BY <1>1, AtReady
<1>5. /\ Goes(chunk, a, vm.ip, vm.ip + 1, a.height[vm.ip], a.saved[vm.ip])
      /\ Goes(chunk, a, vm.ip, Cur.to, a.height[vm.ip], a.saved[vm.ip])
  BY <1>4 DEF OpVerified
<1>6. Steps(chunk, a, vm, vm')
  <2>1. CASE unwinding
    <3>1. vm' = [vm EXCEPT !.ip = Cur.to]
      BY <1>1, <2>1
    <3>2. QED
      BY <1>3, <1>4, <1>5, <3>1, MoveStep
  <2>2. CASE ~unwinding
    <3>1. vm' = [vm EXCEPT !.ip = vm.ip + 1]
      BY <1>1, <1>3, <2>2 DEF MachineType
    <3>2. QED
      BY <1>3, <1>4, <1>5, <3>1, MoveStep
  <2>3. QED
    BY <2>1, <2>2
<1>7. QED
  BY <1>2, <1>3, <1>4, <1>6, Stepping

LEMMA TakeSafe ==
  ASSUME NEW a, Sane(a), Take
  PROVE  Safe(a)
<1>1. ~halted /\ vm.ip \in DOMAIN chunk.ops /\ Cur.op = "take" /\ vm' = Advance(vm)
  BY DEF Take, At
<1>2. /\ UNCHANGED chunk /\ UNCHANGED coros /\ UNCHANGED ahead /\ UNCHANGED yielded /\ UNCHANGED halted
  BY DEF Take, switch_vars
<1>3. /\ chunk \in Chunks /\ a \in Maps(chunk) /\ vm \in MachineType(chunk)
      /\ StashType(stash) /\ pending \in Exc \cup {None}
  BY SaneTypes
<1>4. /\ Ready(chunk, a, vm) /\ halted = FALSE /\ yielded = None
      /\ OpVerified(chunk, a, vm.ip) /\ Cur = chunk.ops[vm.ip] /\ Cur.op = "take"
  BY <1>1, AtReady
<1>5. pending' \in Exc \cup {None} /\ StashType(stash')
  BY <1>3 DEF Take
<1>6. Goes(chunk, a, vm.ip, vm.ip + 1, a.height[vm.ip], a.saved[vm.ip])
  BY <1>4 DEF OpVerified
<1>7. Steps(chunk, a, vm, vm')
  <2>1. vm' = [vm EXCEPT !.ip = vm.ip + 1]
    BY <1>1, <1>3 DEF Advance, MachineType
  <2>2. QED
    BY <1>3, <1>4, <1>6, <2>1, MoveStep
<1>8. QED
  BY <1>2, <1>3, <1>4, <1>5, <1>7, Stepping

LEMMA StashSafe ==
  ASSUME NEW a, Sane(a), Stash
  PROVE  Safe(a)
<1>1. ~halted /\ vm.ip \in DOMAIN chunk.ops /\ Cur.op = "stash" /\ vm' = Advance(vm)
  BY DEF Stash, At
<1>2. /\ UNCHANGED chunk /\ UNCHANGED coros /\ UNCHANGED ahead /\ UNCHANGED yielded /\ UNCHANGED halted
  BY DEF Stash, switch_vars
<1>3. /\ chunk \in Chunks /\ a \in Maps(chunk) /\ vm \in MachineType(chunk)
      /\ StashType(stash) /\ pending \in Exc \cup {None}
  BY SaneTypes
<1>4. /\ Ready(chunk, a, vm) /\ halted = FALSE /\ yielded = None
      /\ OpVerified(chunk, a, vm.ip) /\ Cur = chunk.ops[vm.ip] /\ Cur.op = "stash"
  BY <1>1, AtReady
<1>5. pending' \in Exc \cup {None} /\ StashType(stash')
  BY <1>3, AppendSeq DEF Stash, StashType
<1>6. Goes(chunk, a, vm.ip, vm.ip + 1, a.height[vm.ip], a.saved[vm.ip])
  BY <1>4 DEF OpVerified
<1>7. Steps(chunk, a, vm, vm')
  <2>1. vm' = [vm EXCEPT !.ip = vm.ip + 1]
    BY <1>1, <1>3 DEF Advance, MachineType
  <2>2. QED
    BY <1>3, <1>4, <1>6, <2>1, MoveStep
<1>8. QED
  BY <1>2, <1>3, <1>4, <1>5, <1>7, Stepping

LEMMA UnstashSafe ==
  ASSUME NEW a, Sane(a), Unstash
  PROVE  Safe(a)
<1>1. ~halted /\ vm.ip \in DOMAIN chunk.ops /\ Cur.op = "unstash" /\ vm' = Advance(vm)
  BY DEF Unstash, At
<1>2. /\ UNCHANGED chunk /\ UNCHANGED coros /\ UNCHANGED ahead /\ UNCHANGED yielded /\ UNCHANGED halted
  BY DEF Unstash, switch_vars
<1>3. /\ chunk \in Chunks /\ a \in Maps(chunk) /\ vm \in MachineType(chunk)
      /\ StashType(stash) /\ pending \in Exc \cup {None}
  BY SaneTypes
<1>4. /\ Ready(chunk, a, vm) /\ halted = FALSE /\ yielded = None
      /\ OpVerified(chunk, a, vm.ip) /\ Cur = chunk.ops[vm.ip] /\ Cur.op = "unstash"
  BY <1>1, AtReady
<1>5. pending' \in Exc \cup {None} /\ StashType(stash')
  <2>1. /\ pending' = Fault(IF stash = <<>> THEN None ELSE stash[Len(stash)])
        /\ stash' = IF stash = <<>> THEN stash ELSE Front(stash)
    BY DEF Unstash
  <2>2. CASE stash = <<>>
    <3>1. pending' = Fault(None) /\ stash' = stash
      BY <2>1, <2>2
    <3>2. QED
      BY <1>3, <3>1, FaultType
  <2>3. CASE stash # <<>>
    <3>1. pending' = Fault(stash[Len(stash)]) /\ stash' = Front(stash)
      BY <2>1, <2>3
    <3>2. Front(stash) \in Seq(Exc \cup {None}) /\ stash[Len(stash)] \in Exc \cup {None}
      BY <1>3, <2>3, FrontSeq, LenNat DEF StashType
    <3>3. QED
      BY <3>1, <3>2, FaultType DEF StashType
  <2>4. QED
    BY <2>2, <2>3
<1>6. Goes(chunk, a, vm.ip, vm.ip + 1, a.height[vm.ip], a.saved[vm.ip])
  BY <1>4 DEF OpVerified
<1>7. Steps(chunk, a, vm, vm')
  <2>1. vm' = [vm EXCEPT !.ip = vm.ip + 1]
    BY <1>1, <1>3 DEF Advance, MachineType
  <2>2. QED
    BY <1>3, <1>4, <1>6, <2>1, MoveStep
<1>8. QED
  BY <1>2, <1>3, <1>4, <1>5, <1>7, Stepping

LEMMA DepthSafe ==
  ASSUME NEW a, Sane(a), Depth
  PROVE  Safe(a)
<1>1. ~halted /\ vm.ip \in DOMAIN chunk.ops /\ Cur.op = "depth" /\ vm' = Advance([vm EXCEPT !.frames[Len(vm.frames)] = Saved(@, Len(vm.stack))])
  BY DEF Depth, At
<1>2. /\ UNCHANGED chunk /\ UNCHANGED coros /\ UNCHANGED ahead /\ UNCHANGED yielded /\ UNCHANGED halted
      /\ UNCHANGED pending /\ UNCHANGED stash
  BY DEF Depth, switch_vars
<1>3. /\ chunk \in Chunks /\ a \in Maps(chunk) /\ pending' \in Exc \cup {None} /\ StashType(stash')
  BY <1>2, SaneTypes
<1>4. /\ Ready(chunk, a, vm) /\ halted = FALSE /\ yielded = None
      /\ OpVerified(chunk, a, vm.ip) /\ Cur = chunk.ops[vm.ip] /\ Cur.op = "depth"
  BY <1>1, AtReady
<1>5. Goes(chunk, a, vm.ip, vm.ip + 1, a.height[vm.ip], a.height[vm.ip])
  BY <1>4 DEF OpVerified
<1>6. Steps(chunk, a, vm, vm')
  BY <1>1, <1>3, <1>4, <1>5, DepthStep
<1>7. QED
  BY <1>2, <1>3, <1>4, <1>6, Stepping

LEMMA CutSafe ==
  ASSUME NEW a, Sane(a), Cut
  PROVE  Safe(a)
<1>1. ~halted /\ vm.ip \in DOMAIN chunk.ops /\ Cur.op = "cut" /\ vm' = Advance([vm EXCEPT !.stack = Truncate(@, Top(vm).depth)])
  BY DEF Cut, At
<1>2. /\ UNCHANGED chunk /\ UNCHANGED coros /\ UNCHANGED ahead /\ UNCHANGED yielded /\ UNCHANGED halted
      /\ UNCHANGED pending /\ UNCHANGED stash
  BY DEF Cut, switch_vars
<1>3. /\ chunk \in Chunks /\ a \in Maps(chunk) /\ pending' \in Exc \cup {None} /\ StashType(stash')
  BY <1>2, SaneTypes
<1>4. /\ Ready(chunk, a, vm) /\ halted = FALSE /\ yielded = None
      /\ OpVerified(chunk, a, vm.ip) /\ Cur = chunk.ops[vm.ip] /\ Cur.op = "cut"
  BY <1>1, AtReady
<1>5. /\ a.saved[vm.ip] # Lost
      /\ Goes(chunk, a, vm.ip, vm.ip + 1, a.height[vm.ip], a.saved[vm.ip])
      /\ Goes(chunk, a, vm.ip, vm.ip + 1, a.saved[vm.ip], a.saved[vm.ip])
  BY <1>4 DEF OpVerified
<1>6. Steps(chunk, a, vm, vm')
  BY <1>1, <1>3, <1>4, <1>5, CutStep
<1>7. QED
  BY <1>2, <1>3, <1>4, <1>6, Stepping

LEMMA ForEachSafe ==
  ASSUME NEW a, Sane(a), ForEach
  PROVE  Safe(a)
<1>1. ~halted /\ vm.ip \in DOMAIN chunk.ops /\ Cur.op = "each"
  BY DEF ForEach, At
<1>2. /\ UNCHANGED chunk /\ UNCHANGED coros /\ UNCHANGED ahead /\ UNCHANGED yielded /\ UNCHANGED halted
      /\ UNCHANGED stash
  BY DEF ForEach, switch_vars
<1>3. /\ chunk \in Chunks /\ a \in Maps(chunk) /\ StashType(stash') /\ pending \in Exc \cup {None}
      /\ vm \in MachineType(chunk) /\ Len(vm.runs) <= Limit /\ Len(vm.runs) \in Nat /\ Limit \in Nat
  BY <1>2, SaneTypes, MachineTypes, ChunksAssumption
<1>4. /\ Ready(chunk, a, vm) /\ halted = FALSE /\ yielded = None
      /\ OpVerified(chunk, a, vm.ip) /\ Cur = chunk.ops[vm.ip] /\ Cur.op = "each"
  BY <1>1, AtReady
<1>5. CASE Full
  <2>1. pending' = Fault("StackOverflowError") /\ vm' = Refused(chunk, vm)
    BY <1>5 DEF ForEach
  <2>2. pending' \in Exc \cup {None}
    <3>1. "StackOverflowError" \in Exc \cup {None}
      BY ValuesAssumption
    <3>2. QED
      BY <2>1, <3>1, FaultType
  <2>3. Goes(chunk, a, vm.ip, vm.ip + 1, a.height[vm.ip] + 1, a.saved[vm.ip])
    BY <1>4 DEF OpVerified
  <2>4. Steps(chunk, a, vm, vm')
    BY <1>3, <1>4, <2>1, <2>3, RefusedStep
  <2>5. QED
    BY <1>2, <1>3, <1>4, <2>2, <2>4, Stepping
<1>6. CASE ~Full
  <2>1. pending' = pending /\ vm' = Element(chunk, Each(vm, Cur.n), unwinding)
    BY <1>6 DEF ForEach
  <2>2. PICK r : r = [ kind |-> "each", it |-> None, left |-> OpAt(chunk, vm).n, base |-> Len(vm.stack),
                       frame |-> Len(vm.frames), ip |-> vm.ip + 1 ]
    OBVIOUS
  <2>3. PICK p : p = [vm EXCEPT !.runs = Append(@, r)]
    OBVIOUS
  <2>4. p = Each(vm, Cur.n)
    BY <2>2, <2>3 DEF Each, Cur
  <2>5. p.runs[Len(p.runs)] = r
    <3>1. vm.runs \in Seq(Run) /\ p.runs = Append(vm.runs, r)
      BY <1>3, <2>3, MachineTypes DEF MachineType
    <3>2. QED
      BY <3>1, LastAppended
  <2>6. Elements(chunk, p, r, vm')
    <3>1. vm' = Element(chunk, p, unwinding)
      BY <2>1, <2>4
    <3>2. CASE r.left = 0 \/ unwinding
      BY <2>5, <3>1, <3>2 DEF Element, Elements
    <3>3. CASE ~(r.left = 0 \/ unwinding)
      BY <2>5, <3>1, <3>3 DEF Element, Elements
    <3>4. QED
      BY <3>2, <3>3
  <2>7. OpAt(chunk, vm).op = "each"
    BY <1>4 DEF Cur
  <2>8. /\ vm' \in MachineType(chunk) /\ Shape(chunk, a, vm') /\ Going(chunk, a, vm')
        /\ Len(vm'.runs) <= Len(vm.runs) + 1 /\ Kept(vm, vm')
    BY <1>3, <1>4, <2>2, <2>3, <2>6, <2>7, EachStep
  <2>9. Len(vm'.runs) <= Limit
    <3>1. Len(vm'.runs) \in Nat
      BY <1>3, <2>8, MachineTypes
    <3>2. Len(vm.runs) < Limit
      BY <1>3, <1>6 DEF Full, depth
    <3>3. QED
      BY <1>3, <2>8, <3>1, <3>2
  <2>10. MachineOK(chunk, a, vm', FALSE)
    BY <2>8 DEF MachineOK
  <2>11. QED
    BY <1>2, <1>3, <1>4, <2>1, <2>8, <2>9, <2>10, Onwards
<1>7. QED
  BY <1>5, <1>6

LEMMA Ending ==
  ASSUME NEW a, Sane(a), vm.runs # <<>>, halted \/ vm.ip = End(chunk)
  PROVE  /\ halted => Halting(chunk, a, vm) /\ yielded # None
         /\ ~halted => Over(chunk, vm) /\ yielded = None
         /\ Over(chunk, vm) \/ Halting(chunk, a, vm)
<1>1. halted = (yielded # None) /\ chunk \in Chunks /\ MachineOK(chunk, a, vm, halted)
  BY SaneTypes DEF Sane, Sound
<1>2. CASE halted
  BY <1>1, <1>2 DEF MachineOK
<1>3. CASE ~halted
  <2>1. vm.ip = End(chunk) /\ yielded = None
    BY <1>1, <1>3
  <2>2. ~Going(chunk, a, vm)
    BY <1>1, <2>1, ChunkTypes DEF Going, Rests
  <2>3. Over(chunk, vm)
    BY <1>1, <1>3, <2>2 DEF MachineOK
  <2>4. QED
    BY <1>3, <2>1, <2>3
<1>4. QED
  BY <1>2, <1>3

LEMMA NextElementSafe ==
  ASSUME NEW a, Sane(a), NextElement
  PROVE  Safe(a)
<1>1. /\ vm.runs # <<>> /\ vm.runs[depth].kind = "each" /\ (halted \/ vm.ip = End(chunk))
      /\ vm' = Element(chunk, PopOne(vm), unwinding)
  BY DEF NextElement
<1>2. /\ UNCHANGED chunk /\ UNCHANGED coros /\ UNCHANGED ahead /\ UNCHANGED yielded /\ UNCHANGED halted
      /\ UNCHANGED pending /\ UNCHANGED stash
  BY DEF NextElement, switch_vars
<1>3. /\ chunk \in Chunks /\ a \in Maps(chunk) /\ pending' \in Exc \cup {None} /\ StashType(stash')
      /\ Verified(chunk, a) /\ vm \in MachineType(chunk) /\ Shape(chunk, a, vm) /\ Len(vm.runs) <= Limit
      /\ Len(vm.runs) \in Nat /\ Limit \in Nat
  BY <1>2, SaneTypes, MachineTypes, ChunksAssumption
<1>4. PICK r : r = vm.runs[Len(vm.runs)]
  OBVIOUS
<1>5. PICK p : p = PopOne(vm)
  OBVIOUS
<1>6. r.kind = "each"
  BY <1>1, <1>4 DEF depth
<1>7. Over(chunk, vm) /\ ~halted /\ yielded = None
  <2>1. /\ halted => Halting(chunk, a, vm) /\ yielded # None
        /\ ~halted => Over(chunk, vm) /\ yielded = None
        /\ Over(chunk, vm) \/ Halting(chunk, a, vm)
    BY <1>1, Ending
  <2>2. ~Halting(chunk, a, vm)
    BY <1>1, <1>3, <1>4, <1>6, <2>1, EndsOver
  <2>3. QED
    BY <2>1, <2>2
<1>8. halted = FALSE
  BY <1>7, SaneTypes
<1>9. p.runs[Len(p.runs)] = r
  BY <1>3, <1>4, <1>5 DEF PopOne, MachineType
<1>10. Elements(chunk, p, r, vm')
  <2>1. vm' = Element(chunk, p, unwinding)
    BY <1>1, <1>5
  <2>2. CASE r.left = 0 \/ unwinding
    BY <1>9, <2>1, <2>2 DEF Element, Elements
  <2>3. CASE ~(r.left = 0 \/ unwinding)
    BY <1>9, <2>1, <2>3 DEF Element, Elements
  <2>4. QED
    BY <2>2, <2>3
<1>11. /\ vm' \in MachineType(chunk) /\ Shape(chunk, a, vm') /\ Going(chunk, a, vm')
       /\ Len(vm'.runs) <= Len(vm.runs) /\ Kept(vm, vm')
  BY <1>1, <1>3, <1>4, <1>5, <1>6, <1>7, <1>10, ElementStep
<1>12. Len(vm'.runs) <= Limit
  <2>1. Len(vm'.runs) \in Nat
    BY <1>3, <1>11, MachineTypes
  <2>2. QED
    BY <1>3, <1>11, <2>1
<1>13. MachineOK(chunk, a, vm', FALSE)
  BY <1>11 DEF MachineOK
<1>14. QED
  BY <1>2, <1>3, <1>7, <1>8, <1>11, <1>12, <1>13, Onwards

(* ---- the steps between the contexts ------------------------------------------------------- *)

\* A step that leaves the machine running.
LEMMA Resuming ==
  ASSUME NEW a, Sane(a), UNCHANGED chunk, yielded' = None, halted' = FALSE,
         coros' \in [Iter -> Coro], \A k \in Iter : BlockOK(chunk, a, coros'[k]),
         ahead' \in [Iter -> Val \cup {None}],
         \A k \in Iter : ahead'[k] # None => coros'[k].state = "Suspended",
         vm' \in MachineType(chunk), MachineOK(chunk, a, vm', FALSE), Len(vm'.runs) <= Limit, Kept(vm, vm'),
         pending' \in Exc \cup {None}, StashType(stash')
  PROVE  Safe(a)
<1>1. chunk \in Chunks
  BY SaneTypes
<1>2. /\ vm'.ip \in 1..End(chunk) /\ vm'.frames \in Seq(Frame) /\ vm'.stack \in Seq(Val) /\ vm'.runs \in Seq(Run)
  BY DEF MachineType
<1>3. TypeOK'
  BY <1>1, <1>2 DEF TypeOK, depth
<1>4. Typed'
  BY <1>1, <1>3 DEF Typed
<1>5. Sound(a)'
  BY <1>1 DEF Sound
<1>6. QED
  BY <1>4, <1>5 DEF Safe

LEMMA AnswerIn ==
  ASSUME NEW kind \in Asks, NEW v \in Val \cup {None}
  PROVE  \E w \in Val : \A m : AnswerTo(m, kind, v) = Push(m, w)
<1>1. Undef \in Val /\ Yes \in Val /\ No \in Val /\ EndMark \in Val
  BY ValuesAssumption
<1>2. CASE kind = "next"
  <2>1. PICK w \in Val : w = IF v = None THEN Undef ELSE v
    BY <1>1
  <2>2. ASSUME NEW m PROVE AnswerTo(m, kind, v) = Push(m, w)
    BY <1>2, <2>1 DEF AnswerTo
  <2>3. QED
    BY <2>2
<1>3. CASE kind = "has"
  <2>1. PICK w \in Val : w = IF v = None THEN No ELSE Yes
    BY <1>1
  <2>2. ASSUME NEW m PROVE AnswerTo(m, kind, v) = Push(m, w)
    BY <1>3, <2>1 DEF AnswerTo
  <2>3. QED
    BY <2>2
<1>4. CASE kind = "pull"
  <2>1. PICK w \in Val : w = IF v = None THEN EndMark ELSE v
    BY <1>1
  <2>2. ASSUME NEW m PROVE AnswerTo(m, kind, v) = Push(m, w)
    BY <1>4, <2>1 DEF AnswerTo
  <2>3. QED
    BY <2>2
<1>5. QED
  BY <1>2, <1>3, <1>4 DEF Asks

LEMMA MissingType ==
  ASSUME NEW kind, NEW v, NEW e \in Exc \cup {None}
  PROVE  Missing(kind, v, e) \in Exc \cup {None}
  BY ValuesAssumption DEF Missing

LEMMA AskKnownSafe ==
  ASSUME NEW a, Sane(a), AskKnown
  PROVE  Safe(a)
<1>1. ~halted /\ vm.ip \in DOMAIN chunk.ops /\ Cur.op \in Asks
  BY DEF AskKnown, At
<1>2. UNCHANGED chunk /\ UNCHANGED coros /\ UNCHANGED yielded /\ UNCHANGED halted /\ UNCHANGED stash
  BY DEF AskKnown
<1>3. /\ chunk \in Chunks /\ a \in Maps(chunk) /\ StashType(stash') /\ pending \in Exc \cup {None}
      /\ vm \in MachineType(chunk) /\ Len(vm.runs) <= Limit
      /\ coros \in [Iter -> Coro] /\ ahead \in [Iter -> Val \cup {None}]
      /\ \A k \in Iter : ahead[k] # None => coros[k].state = "Suspended"
      /\ \A k \in Iter : BlockOK(chunk, a, coros[k])
  BY <1>2, SaneTypes
<1>4. /\ Ready(chunk, a, vm) /\ halted = FALSE /\ yielded = None
      /\ OpVerified(chunk, a, vm.ip) /\ Cur = chunk.ops[vm.ip] /\ Cur \in Op
  BY <1>1, AtReady
<1>5. Cur.it \in Iter
  BY <1>4 DEF Op
<1>6. PICK k \in Iter : k = Cur.it
  BY <1>5
<1>7. PICK v \in Val \cup {None} : v = ahead[k]
  BY <1>3
<1>8. PICK e \in Exc \cup {None} : pending' = Missing(Cur.op, v, e)
  <2>1. "StackOverflowError" \in Exc \cup {None}
    BY ValuesAssumption
  <2>2. Fault("StackOverflowError") \in Exc \cup {None}
    BY <2>1, FaultType
  <2>3. pending' = Missing(Cur.op, v, IF v = None /\ coros[k].state # "Done" THEN Fault("StackOverflowError") ELSE pending)
    BY <1>6, <1>7 DEF AskKnown
  <2>4. CASE v = None /\ coros[k].state # "Done"
    BY <2>2, <2>3, <2>4
  <2>5. CASE ~(v = None /\ coros[k].state # "Done")
    BY <1>3, <2>3, <2>5
  <2>6. QED
    BY <2>4, <2>5
<1>9. pending' \in Exc \cup {None}
  BY <1>8, MissingType
<1>10. PICK w \in Val : \A m : AnswerTo(m, Cur.op, v) = Push(m, w)
  BY <1>1, AnswerIn
<1>11. vm' = Advance(Push(vm, w))
  <2>1. vm' = AnswerTo(Advance(vm), Cur.op, v)
    BY <1>6, <1>7 DEF AskKnown
  <2>2. vm' = Push(Advance(vm), w)
    BY <1>10, <2>1
  <2>3. Push(Advance(vm), w) = Advance(Push(vm, w))
    BY <1>3 DEF Push, Advance, MachineType
  <2>4. QED
    BY <2>2, <2>3
<1>12. Goes(chunk, a, vm.ip, vm.ip + 1, a.height[vm.ip] + 1, a.saved[vm.ip])
  BY <1>1, <1>4 DEF OpVerified
<1>13. Steps(chunk, a, vm, vm')
  BY <1>3, <1>4, <1>11, <1>12, PushStep
<1>14. /\ ahead' \in [Iter -> Val \cup {None}]
       /\ \A j \in Iter : ahead'[j] # None => coros'[j].state = "Suspended"
  <2>1. ahead' = [ahead EXCEPT ![k] = Park(Cur.op, v)]
    BY <1>6, <1>7 DEF AskKnown
  <2>2. Park(Cur.op, v) \in Val \cup {None} /\ (Park(Cur.op, v) # None => v # None)
    BY DEF Park
  <2>3. QED
    BY <1>2, <1>3, <1>7, <2>1, <2>2
<1>15. /\ vm' \in MachineType(chunk) /\ MachineOK(chunk, a, vm', FALSE) /\ Len(vm'.runs) <= Limit /\ Kept(vm, vm')
  BY <1>3, <1>13 DEF Steps
<1>16. /\ yielded' = None /\ halted' = FALSE /\ coros' \in [Iter -> Coro]
       /\ \A j \in Iter : BlockOK(chunk, a, coros'[j])
  BY <1>2, <1>3, <1>4
<1>17. QED
  BY <1>2, <1>3, <1>9, <1>14, <1>15, <1>16, Resuming

\* A machine, wherever its instruction pointer is.
Parts == [ip : Nat, frames : Seq(Frame), stack : Seq(Val), runs : Seq(Run)]

LEMMA EnterParts ==
  ASSUME NEW p \in Parts, NEW e \in Nat, NEW ret \in Nat, NEW b \in Nat, NEW f, f = NewFrame(ret, b),
         NEW fs, fs = Append(p.frames, f)
  PROVE  /\ Enter(p, e, ret, b) = [ip |-> e, frames |-> fs, stack |-> p.stack, runs |-> p.runs]
         /\ Enter(p, e, ret, b) \in Parts
<1>1. f \in Frame
  BY NewFrameType
<1>2. fs \in Seq(Frame)
  BY <1>1, AppendSeq DEF Parts
<1>3. Enter(p, e, ret, b) = [p EXCEPT !.ip = e, !.frames = fs]
  BY DEF Enter, NewFrame, Parts
<1>4. QED
  BY <1>2, <1>3 DEF Parts

LEMMA OtherOperands ==
  ASSUME NEW q \in Parts, NEW st \in Seq(Val)
  PROVE  [q EXCEPT !.stack = st] = [ip |-> q.ip, frames |-> q.frames, stack |-> st, runs |-> q.runs]
  BY SMTT(30) DEF Parts

LEMMA MoreOperands ==
  ASSUME NEW q \in Parts, NEW ops \in Seq(Val), NEW st, st = q.stack \o ops
  PROVE  [q EXCEPT !.stack = @ \o ops] = [ip |-> q.ip, frames |-> q.frames, stack |-> st, runs |-> q.runs]
<1>1. [q EXCEPT !.stack = @ \o ops] = [q EXCEPT !.stack = st]
  OBVIOUS
<1>2. st \in Seq(Val)
  BY ConcatSeq DEF Parts
<1>3. [q EXCEPT !.stack = st] = [ip |-> q.ip, frames |-> q.frames, stack |-> st, runs |-> q.runs]
  BY <1>2, OtherOperands
<1>4. QED
  BY <1>1, <1>3, Zenon

\* The machine coro_next leaves for its vm.run(): a fresh block with its captures,
CaptureParts(k, rs, f, fs, ops, st) ==
  /\ rs \in Seq(Run) /\ Pulled(vm, k) = [vm EXCEPT !.runs = rs]
  /\ f = NewFrame(End(chunk), Len(vm.stack)) /\ fs = Append(vm.frames, f)
  /\ ops = chunk.block[k].captures /\ st = vm.stack \o ops

LEMMA EntersFresh ==
  ASSUME NEW a, Sane(a), NEW k \in Iter, NEW rs, NEW f, NEW fs, NEW ops, NEW st,
         CaptureParts(k, rs, f, fs, ops, st)
  PROVE  EnterBlock(vm, k) = [ip |-> chunk.block[k].entry, frames |-> fs, stack |-> st, runs |-> rs]
<1>1. chunk \in Chunks /\ vm \in MachineType(chunk)
  BY SaneTypes
<1>c. /\ rs \in Seq(Run) /\ Pulled(vm, k) = [vm EXCEPT !.runs = rs]
      /\ f = NewFrame(End(chunk), Len(vm.stack)) /\ fs = Append(vm.frames, f)
      /\ ops = chunk.block[k].captures /\ st = vm.stack \o ops
  BY DEF CaptureParts
<1>2. PICK p : p = Pulled(vm, k)
  OBVIOUS
<1>3. p \in Parts /\ p.frames = vm.frames /\ p.stack = vm.stack /\ p.runs = rs
  <2>1. vm.ip \in Nat /\ vm.frames \in Seq(Frame) /\ vm.stack \in Seq(Val)
    BY <1>1, MachineTypes
  <2>2. p = [ip |-> vm.ip, frames |-> vm.frames, stack |-> vm.stack, runs |-> rs]
    BY <1>1, <1>2, <1>c DEF MachineType
  <2>3. [ip |-> vm.ip, frames |-> vm.frames, stack |-> vm.stack, runs |-> rs] \in Parts
    BY <2>1, <1>c DEF Parts
  <2>4. QED
    BY <2>2, <2>3
<1>4. /\ chunk.block[k].entry \in Nat /\ End(chunk) \in Nat /\ Len(vm.stack) \in Nat /\ ops \in Seq(Val)
  BY <1>1, <1>c, ChunkTypes, MachineTypes
<1>5. PICK q : q = Enter(p, chunk.block[k].entry, End(chunk), Len(vm.stack))
  OBVIOUS
<1>6. /\ q = [ip |-> chunk.block[k].entry, frames |-> fs, stack |-> p.stack, runs |-> p.runs] /\ q \in Parts
  <2>1. fs = Append(p.frames, f) /\ f = NewFrame(End(chunk), Len(vm.stack))
    BY <1>3, <1>c
  <2>2. /\ Enter(p, chunk.block[k].entry, End(chunk), Len(vm.stack))
           = [ip |-> chunk.block[k].entry, frames |-> fs, stack |-> p.stack, runs |-> p.runs]
        /\ Enter(p, chunk.block[k].entry, End(chunk), Len(vm.stack)) \in Parts
    BY <1>3, <1>4, <2>1, EnterParts, SMTT(30)
  <2>3. QED
    BY <1>5, <2>2
<1>7. EnterBlock(vm, k) = [q EXCEPT !.stack = @ \o ops]
  BY <1>2, <1>5, <1>c DEF EnterBlock
<1>8. st = q.stack \o ops
  BY <1>3, <1>6, <1>c
<1>9. EnterBlock(vm, k) = [ip |-> q.ip, frames |-> q.frames, stack |-> st, runs |-> q.runs]
  BY <1>4, <1>6, <1>7, <1>8, MoreOperands
<1>10. QED
  BY <1>3, <1>6, <1>9

\* and a parked one as it was, on the stack there is now.
ParkedParts(k, rs, co, gs, fs, st) ==
  /\ rs \in Seq(Run) /\ Pulled(vm, k) = [vm EXCEPT !.runs = rs]
  /\ co = coros[k] /\ gs = Rebase(co.frames, Len(vm.stack))
  /\ fs = vm.frames \o gs /\ st = vm.stack \o co.stack

LEMMA PutsBack ==
  ASSUME NEW a, Sane(a), NEW k \in Iter, NEW rs, NEW co, NEW gs, NEW fs, NEW st,
         ParkedParts(k, rs, co, gs, fs, st)
  PROVE  Restore(vm, k) = [ip |-> co.ip, frames |-> fs, stack |-> st, runs |-> rs]
<1>1. vm \in MachineType(chunk)
  BY SaneTypes
<1>c. /\ rs \in Seq(Run) /\ Pulled(vm, k) = [vm EXCEPT !.runs = rs]
      /\ co = coros[k] /\ gs = Rebase(co.frames, Len(vm.stack))
      /\ fs = vm.frames \o gs /\ st = vm.stack \o co.stack
  BY DEF ParkedParts
<1>2. PICK p : p = Pulled(vm, k)
  OBVIOUS
<1>3. p = [ip |-> vm.ip, frames |-> vm.frames, stack |-> vm.stack, runs |-> rs]
  BY <1>1, <1>2, <1>c DEF MachineType
<1>4. Restore(vm, k) = [p EXCEPT !.stack = @ \o co.stack, !.frames = @ \o gs, !.ip = co.ip]
  BY <1>2, <1>c DEF Restore
<1>5. QED
  BY <1>3, <1>4, <1>c

LEMMA AskBlockSafe ==
  ASSUME NEW a, Sane(a), AskBlock
  PROVE  Safe(a)
<1>1. ~halted /\ vm.ip \in DOMAIN chunk.ops /\ Cur.op \in Asks
  BY DEF AskBlock, At
<1>2. /\ UNCHANGED chunk /\ UNCHANGED coros /\ UNCHANGED ahead /\ UNCHANGED halted /\ UNCHANGED pending
      /\ UNCHANGED stash /\ yielded' = None
  BY DEF AskBlock
<1>3. /\ chunk \in Chunks /\ a \in Maps(chunk) /\ StashType(stash') /\ pending' \in Exc \cup {None}
      /\ vm \in MachineType(chunk) /\ Len(vm.runs) <= Limit /\ Len(vm.runs) \in Nat /\ Limit \in Nat
      /\ coros \in [Iter -> Coro] /\ \A k \in Iter : BlockOK(chunk, a, coros[k])
  BY <1>2, SaneTypes, MachineTypes, ChunksAssumption
<1>4. /\ Ready(chunk, a, vm) /\ halted = FALSE /\ yielded = None
      /\ OpVerified(chunk, a, vm.ip) /\ Cur = chunk.ops[vm.ip] /\ Cur \in Op
  BY <1>1, AtReady
<1>5. Cur.it \in Iter
  BY <1>4 DEF Op
<1>6. PICK k \in Iter : k = Cur.it
  BY <1>5
<1>7. PICK kind \in Asks : kind = Cur.op
  BY <1>1
<1>8. /\ coros[k].state # "Done" /\ ~Full
      /\ vm' = IF coros[k].state = "Fresh" THEN EnterBlock(vm, k) ELSE Restore(vm, k)
  BY <1>6 DEF AskBlock
<1>9. Goes(chunk, a, vm.ip, vm.ip + 1, a.height[vm.ip] + 1, a.saved[vm.ip])
  BY <1>1, <1>4 DEF OpVerified
<1>10. PICK r : r = PullOf(kind, k, vm)
  OBVIOUS
<1>11. PICK rs : rs = Append(vm.runs, r)
  OBVIOUS
<1>12. Pulled(vm, k) = [vm EXCEPT !.runs = rs]
  BY <1>3, <1>7, <1>10, <1>11 DEF Pulled, PullOf, MachineType
<1>13. PullRun(chunk, a, vm, r, rs)
  BY <1>3, <1>4, <1>9, <1>10, <1>11, PullStarts
<1>14. Enters(chunk, a, vm, vm')
  <2>1. CASE coros[k].state = "Fresh"
    <3>1. PICK f : f = NewFrame(End(chunk), Len(vm.stack))
      OBVIOUS
    <3>2. PICK fs : fs = Append(vm.frames, f)
      OBVIOUS
    <3>3. PICK ops : ops = chunk.block[k].captures
      OBVIOUS
    <3>4. PICK st : st = vm.stack \o ops
      OBVIOUS
    <3>5. vm' = EnterBlock(vm, k)
      BY <1>8, <2>1
    <3>6. EnterBlock(vm, k) = [ip |-> chunk.block[k].entry, frames |-> fs, stack |-> st, runs |-> rs]
      <4>1. rs \in Seq(Run)
        BY <1>13 DEF PullRun
      <4>2. CaptureParts(k, rs, f, fs, ops, st)
        BY <1>12, <3>1, <3>2, <3>3, <3>4, <4>1 DEF CaptureParts
      <4>3. QED
        BY <4>2, EntersFresh
    <3>7. Fresh(chunk, vm, kind, k, r, rs, f, fs, ops, st, vm')
      BY <1>10, <1>11, <3>1, <3>2, <3>3, <3>4, <3>5, <3>6 DEF Fresh
    <3>8. QED
      BY <1>3, <1>4, <1>9, <3>7, FreshBlock
  <2>2. CASE coros[k].state # "Fresh"
    <3>1. PICK co \in Coro : co = coros[k]
      BY <1>3
    <3>2. co.state = "Suspended" /\ BlockOK(chunk, a, co)
      BY <1>3, <1>8, <2>2, <3>1 DEF Coro
    <3>3. PICK gs : gs = Rebase(co.frames, Len(vm.stack))
      OBVIOUS
    <3>4. PICK fs : fs = vm.frames \o gs
      OBVIOUS
    <3>5. PICK st : st = vm.stack \o co.stack
      OBVIOUS
    <3>6. vm' = Restore(vm, k)
      BY <1>8, <2>2
    <3>7. Restore(vm, k) = [ip |-> co.ip, frames |-> fs, stack |-> st, runs |-> rs]
      <4>1. rs \in Seq(Run)
        BY <1>13 DEF PullRun
      <4>2. ParkedParts(k, rs, co, gs, fs, st)
        BY <1>12, <3>1, <3>3, <3>4, <3>5, <4>1 DEF ParkedParts
      <4>3. QED
        BY <4>2, PutsBack
    <3>8. Resumed(vm, kind, k, co, r, rs, gs, fs, st, vm')
      BY <1>10, <1>11, <3>3, <3>4, <3>5, <3>6, <3>7 DEF Resumed
    <3>9. QED
      BY <1>3, <1>4, <1>9, <3>2, <3>8, ParkedBlock
  <2>3. QED
    BY <2>1, <2>2
<1>15. /\ vm' \in MachineType(chunk) /\ Shape(chunk, a, vm') /\ Going(chunk, a, vm')
       /\ Len(vm'.runs) = Len(vm.runs) + 1 /\ Kept(vm, vm')
  BY <1>14 DEF Enters
<1>16. Len(vm'.runs) <= Limit
  BY <1>3, <1>8, <1>15 DEF Full, depth
<1>17. MachineOK(chunk, a, vm', FALSE)
  BY <1>15 DEF MachineOK
<1>18. UNCHANGED yielded
  BY <1>2, <1>4
<1>19. QED
  BY <1>2, <1>3, <1>4, <1>15, <1>16, <1>17, <1>18, Onwards

LEMMA YieldSafe ==
  ASSUME NEW a, Sane(a), Yield
  PROVE  Safe(a)
<1>1. /\ ~halted /\ vm.ip \in DOMAIN chunk.ops /\ Cur.op = "yield"
      /\ yielded' = Tip(vm.stack) /\ vm' = Advance(Push(Push(PopOne(vm), Undef), Undef)) /\ halted' = TRUE
  BY DEF Yield, At
<1>2. /\ UNCHANGED chunk /\ UNCHANGED coros /\ UNCHANGED ahead /\ UNCHANGED pending /\ UNCHANGED stash
  BY DEF Yield
<1>3. /\ chunk \in Chunks /\ a \in Maps(chunk) /\ StashType(stash) /\ pending \in Exc \cup {None}
      /\ vm \in MachineType(chunk) /\ Len(vm.runs) <= Limit
      /\ coros \in [Iter -> Coro] /\ ahead \in [Iter -> Val \cup {None}]
      /\ \A k \in Iter : ahead[k] # None => coros[k].state = "Suspended"
      /\ \A k \in Iter : BlockOK(chunk, a, coros[k])
  BY SaneTypes
<1>4. /\ Ready(chunk, a, vm) /\ OpVerified(chunk, a, vm.ip) /\ Cur = chunk.ops[vm.ip]
  BY <1>1, AtReady
<1>5. vm.ip \in a.yields /\ a.height[vm.ip] >= 1 /\ Goes(chunk, a, vm.ip, vm.ip + 1, a.height[vm.ip], Lost)
  BY <1>1, <1>4 DEF OpVerified
<1>6. /\ vm' \in MachineType(chunk) /\ vm'.runs = vm.runs /\ Kept(vm, vm')
      /\ Shape(chunk, a, vm') /\ Halting(chunk, a, vm')
  BY <1>1, <1>3, <1>4, <1>5, YieldStep
<1>7. yielded' \in Val /\ yielded' # None
  BY <1>1, <1>3, TipIn, MachineTypes, ValuesAssumption
<1>8. /\ vm'.ip \in 1..End(chunk) /\ vm'.frames \in Seq(Frame) /\ vm'.stack \in Seq(Val)
      /\ vm'.runs \in Seq(Run) /\ Len(vm'.runs) <= Limit
  BY <1>3, <1>6 DEF MachineType
<1>9. TypeOK'
  BY <1>1, <1>2, <1>3, <1>7, <1>8 DEF TypeOK, depth
<1>10. Typed'
  BY <1>2, <1>3, <1>6, <1>9 DEF Typed
<1>11. Sound(a)'
  BY <1>1, <1>2, <1>3, <1>6 DEF Sound, MachineOK
<1>12. QED
  BY <1>2, <1>6, <1>10, <1>11 DEF Safe

LEMMA AboveIt ==
  ASSUME NEW n \in Nat, NEW g \in Nat, NEW j \in 1..n - g
  PROVE  g + j \in 1..n
  OBVIOUS

\* What coro_next lifts off the machine when its block yielded.
LEMMA LiftedOff ==
  ASSUME NEW c \in Chunks, NEW a \in Maps(c), NEW m \in MachineType(c), Shape(c, a, m), m.runs # <<>>,
         Halting(c, a, m), NEW r, r = m.runs[Len(m.runs)],
         NEW co, co = [ state |-> "Suspended", ip |-> m.ip, stack |-> Drop(Front(m.stack), r.base),
                        frames |-> Rebase(Drop(m.frames, r.frame), -r.base) ]
  PROVE  co \in Coro /\ BlockOK(c, a, co)
<1> DEFINE s == Front(m.stack)
           st == Drop(s, r.base)
           gs == Drop(m.frames, r.frame)
           fs == Rebase(gs, -r.base)
<1>1. /\ m.stack \in Seq(Val) /\ Len(m.stack) \in Nat /\ m.frames \in Seq(Frame) /\ Len(m.frames) \in Nat
      /\ m.ip \in Nat /\ DOMAIN m.frames = 1..Len(m.frames)
      /\ \A j \in 1..Len(m.frames) : m.frames[j].base \in Int
  BY MachineTypes
<1>2. /\ r \in Run /\ r.base \in Nat /\ r.frame \in 1..Len(m.frames) /\ r.frame \in Nat
      /\ m.stack # <<>> /\ r.base <= Len(m.stack) - 1
  BY <1>1, EndsOver
<1>3. s \in Seq(Val) /\ Len(s) = Len(m.stack) - 1
  BY <1>1, <1>2, FrontSeq
<1>4. co = [state |-> "Suspended", ip |-> m.ip, stack |-> st, frames |-> fs]
  OBVIOUS
<1> HIDE DEF s
<1>5. st \in Seq(Val) /\ Len(st) = Len(s) - r.base
  BY <1>2, <1>3, DropSeq
<1>6. gs \in Seq(Frame) /\ Len(gs) = Len(m.frames) - r.frame
      /\ \A j \in 1..Len(m.frames) - r.frame : gs[j] = m.frames[r.frame + j]
  <2>1. r.frame \in Nat /\ r.frame <= Len(m.frames) /\ m.frames \in Seq(Frame)
    BY <1>1, <1>2
  <2>2. QED
    BY <2>1, DropSeq
<1> HIDE DEF gs
<1>7. /\ fs \in Seq(Frame) /\ Len(fs) = Len(gs)
      /\ \A j \in 1..Len(gs) : /\ fs[j].base = gs[j].base + (-r.base)
                               /\ fs[j].ret = gs[j].ret /\ fs[j].depth = gs[j].depth
  BY <1>2, <1>6, RebaseSeq
<1> HIDE DEF fs, st
<1>8. co \in Coro /\ co.ip = m.ip /\ co.stack = st /\ co.frames = fs
  BY <1>1, <1>4, <1>5, <1>7 DEF Coro
<1>9. Lifted(m, r.frame, r.base, co)
  <2>1. Len(m.frames) = r.frame + Len(co.frames) /\ DOMAIN co.frames = 1..Len(gs)
    BY <1>1, <1>2, <1>6, <1>7, <1>8, CoroTypes
  <2>2. ASSUME NEW j \in DOMAIN co.frames
        PROVE  /\ co.frames[j].ret = m.frames[r.frame + j].ret
               /\ co.frames[j].base = m.frames[r.frame + j].base - r.base
               /\ co.frames[j].depth = m.frames[r.frame + j].depth
    <3>1. j \in 1..Len(gs) /\ j \in 1..Len(m.frames) - r.frame /\ r.frame + j \in 1..Len(m.frames)
      <4>1. j \in 1..Len(m.frames) - r.frame
        BY <1>6, <2>1
      <4>2. QED
        BY <1>1, <1>2, <1>6, <4>1, AboveIt
    <3>2. gs[j] = m.frames[r.frame + j] /\ m.frames[r.frame + j].base \in Int
      BY <1>1, <1>6, <3>1
    <3>3. /\ fs[j].base = gs[j].base + (-r.base) /\ fs[j].ret = gs[j].ret /\ fs[j].depth = gs[j].depth
      BY <1>7, <3>1
    <3>4. gs[j].base + (-r.base) = gs[j].base - r.base
      BY <1>2, <3>2
    <3>5. QED
      BY <1>8, <3>2, <3>3, <3>4
  <2>3. QED
    BY <2>1, <2>2 DEF Lifted
<1>10. Len(co.stack) = Len(m.stack) - 1 - r.base
  BY <1>3, <1>5, <1>8
<1>11. BlockOK(c, a, co)
  BY <1>2, <1>8, <1>9, <1>10, Parks
<1>12. QED
  BY <1>8, <1>11

LEMMA BackSafe ==
  ASSUME NEW a, Sane(a), Back
  PROVE  Safe(a)
<1>1. vm.runs # <<>> /\ vm.runs[depth].kind # "each" /\ (halted \/ vm.ip = End(chunk))
  BY DEF Back
<1>2. UNCHANGED chunk /\ UNCHANGED stash /\ yielded' = None /\ halted' = (halted /\ yielded = None)
  BY DEF Back
<1>3. /\ chunk \in Chunks /\ a \in Maps(chunk) /\ StashType(stash') /\ pending \in Exc \cup {None}
      /\ vm \in MachineType(chunk) /\ Shape(chunk, a, vm) /\ Len(vm.runs) <= Limit
      /\ Len(vm.runs) \in Nat /\ Limit \in Nat
      /\ yielded \in Val \cup {None} /\ halted = (yielded # None)
      /\ coros \in [Iter -> Coro] /\ ahead \in [Iter -> Val \cup {None}]
      /\ \A k \in Iter : ahead[k] # None => coros[k].state = "Suspended"
      /\ \A k \in Iter : BlockOK(chunk, a, coros[k])
  BY <1>2, SaneTypes, MachineTypes, ChunksAssumption
<1>4. PICK r : r = vm.runs[Len(vm.runs)]
  OBVIOUS
<1>5. /\ halted => Halting(chunk, a, vm) /\ yielded # None
      /\ ~halted => Over(chunk, vm) /\ yielded = None
      /\ Over(chunk, vm) \/ Halting(chunk, a, vm)
  BY <1>1, Ending
<1>6. r.kind # "each"
  BY <1>1, <1>4 DEF depth
<1>7. /\ r \in Run /\ r.it \in Iter /\ r.kind \in Asks
  <2>1. r \in Run /\ r.it \in Iter
    BY <1>1, <1>3, <1>4, <1>5, <1>6, EndsOver
  <2>2. QED
    BY <1>6, <2>1 DEF Run
<1>8. PICK parked : parked = [ state |-> "Suspended", ip |-> vm.ip, stack |-> Drop(Front(vm.stack), r.base),
                               frames |-> Rebase(Drop(vm.frames, r.frame), -r.base) ]
  OBVIOUS
<1>9. /\ coros' = [coros EXCEPT ![r.it] = IF yielded # None THEN parked ELSE Ended(coros[r.it])]
      /\ vm' = AnswerTo(Below(vm, r), r.kind, yielded)
      /\ ahead' = [ahead EXCEPT ![r.it] = Park(r.kind, yielded)]
      /\ pending' = Missing(r.kind, yielded, pending)
  BY <1>4, <1>8 DEF Back, depth, Below
<1>10. PICK w \in Val : \A m : AnswerTo(m, r.kind, yielded) = Push(m, w)
  BY <1>3, <1>7, AnswerIn
<1>11. vm' = Push(Below(vm, r), w)
  BY <1>9, <1>10
<1>12. /\ vm' \in MachineType(chunk) /\ Shape(chunk, a, vm') /\ Going(chunk, a, vm')
       /\ Len(vm'.runs) <= Len(vm.runs) /\ Kept(vm, vm')
  BY <1>1, <1>3, <1>4, <1>5, <1>11, BackStep
<1>13. Len(vm'.runs) <= Limit /\ MachineOK(chunk, a, vm', FALSE)
  <2>1. Len(vm'.runs) \in Nat
    BY <1>3, <1>12, MachineTypes
  <2>2. QED
    BY <1>3, <1>12, <2>1 DEF MachineOK
<1>14. pending' \in Exc \cup {None}
  BY <1>3, <1>9, MissingType
<1>15. halted' = FALSE
  BY <1>2, <1>3
<1>16. PICK co : co = IF yielded # None THEN parked ELSE Ended(coros[r.it])
  OBVIOUS
<1>17. co \in Coro /\ BlockOK(chunk, a, co) /\ (yielded # None => co.state = "Suspended")
  <2>1. CASE yielded # None
    <3>1. Halting(chunk, a, vm) /\ co = parked
      BY <1>3, <1>5, <1>16, <2>1
    <3>2. parked \in Coro /\ BlockOK(chunk, a, parked)
      BY <1>1, <1>3, <1>4, <1>8, <3>1, LiftedOff
    <3>3. parked.state = "Suspended"
      BY <1>8
    <3>4. QED
      BY <3>1, <3>2, <3>3
  <2>2. CASE yielded = None
    <3>1. PICK old \in Coro : old = coros[r.it]
      BY <1>3, <1>7
    <3>2. co = [old EXCEPT !.state = "Done"]
      BY <1>16, <2>2, <3>1 DEF Ended
    <3>3. co \in Coro /\ co.state = "Done" /\ co.frames = old.frames /\ co.stack = old.stack
      BY <3>2 DEF Coro
    <3>4. Within(old)
      BY <1>3, <1>7, <3>1 DEF BlockOK
    <3>5. QED
      BY <2>2, <3>3, <3>4 DEF BlockOK, Within
  <2>3. QED
    BY <2>1, <2>2
<1>18. coros' = [coros EXCEPT ![r.it] = co]
  BY <1>9, <1>16
<1>19. coros' \in [Iter -> Coro] /\ \A k \in Iter : BlockOK(chunk, a, coros'[k])
  BY <1>3, <1>7, <1>17, <1>18
<1>20. Park(r.kind, yielded) \in Val \cup {None} /\ (Park(r.kind, yielded) # None => yielded # None)
  BY <1>3 DEF Park
<1>21. /\ ahead' \in [Iter -> Val \cup {None}]
       /\ \A k \in Iter : ahead'[k] # None => coros'[k].state = "Suspended"
  BY <1>3, <1>7, <1>9, <1>17, <1>18, <1>20
<1>22. QED
  BY <1>2, <1>3, <1>12, <1>13, <1>14, <1>15, <1>19, <1>21, Resuming

(* ---- the inductive invariant, and what follows ----------------------------------------------- *)

\* There is one map of the program that every operation, every frame in line
\* and every parked block agrees with.
IInv == Typed /\ \E a \in Maps(chunk) : Verified(chunk, a) /\ Sound(a)

LEMMA InitSane ==
  ASSUME Init, NEW a \in Maps(chunk), Verified(chunk, a)
  PROVE  /\ Sane(a)
         /\ vm = [ip |-> chunk.main, frames |-> <<NewFrame(End(chunk), 0)>>, stack |-> <<>>, runs |-> <<>>]
<1>2. /\ chunk \in Chunks /\ vm = Enter(NoMachine, chunk.main, End(chunk), 0)
      /\ halted = FALSE /\ yielded = None /\ pending = None /\ stash = <<>>
      /\ coros = [k \in Iter |-> [state |-> "Fresh", ip |-> 0, frames |-> <<>>, stack |-> <<>>]]
      /\ ahead = [k \in Iter |-> None]
  BY DEF Init
<1>3. PICK f : f = NewFrame(End(chunk), 0)
  OBVIOUS
<1>4. PICK fs : fs = Append(NoMachine.frames, f)
  OBVIOUS
<1>5. chunk.main \in Positions(chunk) /\ Fits(a, chunk.main, 0, Lost) /\ chunk.main \notin a.yields
  BY DEF Verified, Entered
<1>6. chunk.main \in 1..End(chunk) /\ chunk.main \in Nat /\ End(chunk) \in Nat
  BY <1>2, <1>5, ChunkTypes DEF Positions
<1>7. NoMachine \in Parts /\ NoMachine.frames = <<>> /\ NoMachine.stack = <<>> /\ NoMachine.runs = <<>>
  BY EmptySeq DEF NoMachine, Parts
<1>8. vm = [ip |-> chunk.main, frames |-> fs, stack |-> <<>>, runs |-> <<>>]
  <2>1. 0 \in Nat /\ NoMachine \in Parts
    BY <1>7
  <2>2. Enter(NoMachine, chunk.main, End(chunk), 0)
        = [ip |-> chunk.main, frames |-> fs, stack |-> NoMachine.stack, runs |-> NoMachine.runs]
    <3> DEFINE p == NoMachine
               e == chunk.main
               ret == End(chunk)
    <3>1. p \in Parts /\ e \in Nat /\ ret \in Nat /\ f = NewFrame(ret, 0) /\ fs = Append(p.frames, f)
      BY <1>3, <1>4, <1>6, <2>1
    <3> HIDE DEF p, e, ret
    <3>2. Enter(p, e, ret, 0) = [ip |-> e, frames |-> fs, stack |-> p.stack, runs |-> p.runs]
      BY <2>1, <3>1, EnterParts
    <3>3. QED
      BY <3>2 DEF p, e, ret
  <2>3. QED
    BY <1>2, <1>7, <2>2
<1>9. /\ f \in Frame /\ f.ret = End(chunk) /\ f.base = 0
  BY <1>3, <1>6, NewFrameType DEF NewFrame
<1>10. fs \in Seq(Frame) /\ Len(fs) = 1 /\ fs[1] = f /\ DOMAIN fs = 1..1 /\ fs # <<>>
  <2>1. fs = Append(<<>>, f) /\ <<>> \in Seq(Frame) /\ Len(<<>>) = 0
    BY <1>4, <1>7, EmptySeq
  <2>2. /\ Append(<<>>, f) \in Seq(Frame) /\ Len(Append(<<>>, f)) = Len(<<>>) + 1
        /\ Append(<<>>, f)[Len(<<>>) + 1] = f
    BY <1>9, <2>1, AppendSeq
  <2>3. fs \in Seq(Frame) /\ Len(fs) = 1 /\ fs[1] = f
    BY <2>1, <2>2
  <2>4. QED
    BY <2>3, LenNat
<1>11. /\ vm \in MachineType(chunk) /\ vm.ip = chunk.main /\ vm.frames = fs /\ vm.stack = <<>> /\ vm.runs = <<>>
       /\ <<>> \in Seq(Run)
  BY <1>6, <1>8, <1>10, EmptySeq DEF MachineType
<1>12. Top(vm) = f /\ Len(vm.frames) = 1 /\ Len(vm.stack) = 0 /\ Len(vm.runs) = 0 /\ DOMAIN vm.runs = {}
  <2>1. Len(vm.runs) = 0 /\ DOMAIN vm.runs = 1..Len(vm.runs) /\ Len(vm.stack) = 0
    BY <1>2, <1>11, EmptySeq, MachineTypes
  <2>2. DOMAIN vm.runs = {}
    BY <2>1
  <2>3. Len(vm.frames) = 1 /\ vm.frames[1] = f
    BY <1>10, <1>11
  <2>4. Top(vm) = f
    BY <2>3 DEF Top
  <2>5. QED
    BY <2>1, <2>2, <2>3, <2>4
<1>13. Shape(chunk, a, vm)
  <2>1. Based(vm)
    BY <1>9, <1>10, <1>11 DEF Based
  <2>2. FramesLinked(chunk, a, vm)
    BY <1>9, <1>10, <1>11 DEF FramesLinked, Started
  <2>3. RunsLinked(chunk, a, vm)
    BY <1>12 DEF RunsLinked
  <2>4. QED
    BY <2>1, <2>2, <2>3 DEF Shape
<1>14. Going(chunk, a, vm)
  <2>1. a.height[chunk.main] \in Nat /\ (a.saved[chunk.main] = Lost \/ a.saved[chunk.main] \in Nat)
    BY <1>2, <1>5, MapTypes
  <2>2. a.height[chunk.main] = 0 /\ a.saved[chunk.main] = Lost
    BY <1>5, <2>1 DEF Fits, Lost
  <2>3. Rests(chunk, a, f, chunk.main, 0)
    BY <1>5, <1>9, <2>2 DEF Rests
  <2>4. QED
    BY <1>5, <1>10, <1>11, <1>12, <2>3 DEF Going
<1>15. MachineOK(chunk, a, vm, halted)
  BY <1>2, <1>13, <1>14 DEF MachineOK
<1>16. ASSUME NEW k \in Iter
       PROVE  coros[k] \in Coro /\ BlockOK(chunk, a, coros[k])
  <2>1. coros[k] = [state |-> "Fresh", ip |-> 0, frames |-> <<>>, stack |-> <<>>]
    BY <1>2
  <2>2. /\ coros[k].state = "Fresh" /\ coros[k].frames = <<>> /\ <<>> \in Seq(Frame) /\ <<>> \in Seq(Val)
        /\ coros[k] \in Coro
    BY <2>1, EmptySeq DEF Coro
  <2>3. DOMAIN coros[k].frames = {}
    <3>1. DOMAIN coros[k].frames = 1..0
      BY <2>2, EmptySeq, LenNat
    <3>2. QED
      BY <3>1
  <2>4. QED
    BY <2>2, <2>3 DEF BlockOK, Within
<1>17. Sound(a)
  BY <1>15, <1>16 DEF Sound
<1>18. TypeOK
  <2>1. /\ vm.ip \in 1..End(chunk) /\ vm.frames \in Seq(Frame) /\ vm.stack \in Seq(Val) /\ vm.runs \in Seq(Run)
    BY <1>11 DEF MachineType
  <2>2. depth <= Limit
    BY <1>12, ChunksAssumption DEF depth
  <2>3. coros \in [Iter -> Coro]
    BY <1>2, <1>16
  <2>4. QED
    BY <1>2, <2>1, <2>2, <2>3 DEF TypeOK
<1>19. StashType(stash)
  BY <1>2, EmptySeq DEF StashType
<1>20. Sane(a)
  BY <1>2, <1>11, <1>17, <1>18, <1>19 DEF Sane, Typed
<1>21. fs = <<f>>
  BY <1>4, <1>7
<1>22. QED
  BY <1>3, <1>8, <1>20, <1>21

LEMMA NextSafe ==
  ASSUME NEW a, Sane(a), [Next]_vars
  PROVE  Safe(a)
<1>1. CASE Local      BY <1>1, LocalSafe
<1>2. CASE Println    BY <1>2, PrintlnSafe
<1>3. CASE Raise      BY <1>3, RaiseSafe
<1>4. CASE Check      BY <1>4, CheckSafe
<1>5. CASE Take       BY <1>5, TakeSafe
<1>6. CASE Depth      BY <1>6, DepthSafe
<1>7. CASE Cut        BY <1>7, CutSafe
<1>8. CASE Stash      BY <1>8, StashSafe
<1>9. CASE Unstash    BY <1>9, UnstashSafe
<1>10. CASE ForEach     BY <1>10, ForEachSafe
<1>11. CASE NextElement BY <1>11, NextElementSafe
<1>12. CASE AskKnown    BY <1>12, AskKnownSafe
<1>13. CASE AskBlock    BY <1>13, AskBlockSafe
<1>14. CASE Yield       BY <1>14, YieldSafe
<1>15. CASE Back        BY <1>15, BackSafe
<1>16. CASE UNCHANGED vars
  <2>1. /\ UNCHANGED chunk /\ UNCHANGED vm /\ UNCHANGED halted /\ UNCHANGED coros /\ UNCHANGED ahead
        /\ UNCHANGED yielded /\ UNCHANGED pending /\ UNCHANGED stash
    BY <1>16 DEF vars
  <2>2. Typed'
    BY <2>1 DEF Sane, Typed, TypeOK, depth
  <2>3. Sound(a)'
    BY <2>1 DEF Sane, Sound
  <2>4. Kept(vm, vm')
    BY <2>1 DEF Kept
  <2>5. QED
    BY <2>1, <2>2, <2>3, <2>4 DEF Safe
<1>17. QED
  BY <1>1, <1>2, <1>3, <1>4, <1>5, <1>6, <1>7, <1>8, <1>9, <1>10, <1>11, <1>12, <1>13, <1>14, <1>15, <1>16
  DEF Next

LEMMA NextSane ==
  ASSUME IInv, [Next]_vars
  PROVE  IInv' /\ Kept(vm, vm')
<1>1. PICK a \in Maps(chunk) : Verified(chunk, a) /\ Sound(a)
  BY DEF IInv
<1>2. Sane(a)
  BY <1>1 DEF IInv, Sane
<1>3. Typed' /\ Sound(a)' /\ Kept(vm, vm') /\ chunk' = chunk
  BY <1>2, NextSafe DEF Safe
<1>4. \E b \in Maps(chunk') : Verified(chunk', b) /\ Sound(b)'
  BY <1>1, <1>3
<1>5. IInv'
  BY <1>3, <1>4 DEF IInv
<1>6. QED
  BY <1>3, <1>5

\* Whatever a program the compiler left balanced does, one map of it describes
\* every frame in line and every parked block: the invariant of the theorems.
THEOREM Invariant == Spec /\ Balanced(chunk) => []IInv
<1>1. ASSUME Init, Balanced(chunk) PROVE IInv
  <2>1. PICK a \in Maps(chunk) : Verified(chunk, a)
    BY <1>1 DEF Balanced
  <2>2. Sane(a)
    BY <1>1, <2>1, InitSane
  <2>3. QED
    BY <2>1, <2>2 DEF IInv, Sane
<1>2. IInv /\ [Next]_vars => IInv'
  BY NextSane
<1>3. QED
  BY <1>1, <1>2, PTL DEF Spec

\* The machine, the parked blocks and the host's cells of coro_next stay within
\* their types: no pop of an empty frame hands out what is no value, no run
\* nests deeper than NESTED_RUN_LIMIT, a block that is over keeps no element,
\* and the machine is halted exactly while a value is on its way in YIELDED.
THEOREM TypeCorrect == Spec /\ Balanced(chunk) => []TypeOK
<1>1. IInv => TypeOK
  BY DEF IInv, Typed
<1>2. QED
  BY <1>1, Invariant, PTL

\* The frames of the consumer and of every block it pulls from lie above one
\* another on the one stack, the base of each pull within it, and a parked
\* block's within its own operands: split_off never gets past the end.
THEOREM Nested == Spec /\ Balanced(chunk) => []BasesNested
<1>1. ASSUME IInv PROVE BasesNested
  <2>1. PICK a \in Maps(chunk) : Sound(a)
    BY <1>1 DEF IInv
  <2>2. chunk \in Chunks /\ vm \in MachineType(chunk)
    BY <1>1 DEF IInv, Typed
  <2>3. MachineOK(chunk, a, vm, halted) /\ \A k \in Iter : Within(coros[k])
    BY <2>1 DEF Sound, BlockOK
  <2>4. /\ \A j \in DOMAIN vm.frames : vm.frames[j].base <= Len(vm.stack)
        /\ \A i, j \in DOMAIN vm.frames : i < j => vm.frames[i].base <= vm.frames[j].base
        /\ \A i \in DOMAIN vm.runs : vm.runs[i].base <= Len(vm.stack)
    BY <2>2, <2>3, NestedBases
  <2>5. QED
    BY <2>3, <2>4 DEF BasesNested, Within
<1>2. QED
  BY <1>1, Invariant, PTL

\* No step touches an operand or a frame below a run in progress, whichever
\* context takes it: a block that is entered, resumed, parked or over leaves
\* its consumer's part of the machine as it was, and so does the closure of a
\* forEach.
THEOREM LeavesAlone == Spec /\ Balanced(chunk) => Undisturbed
<1>1. IInv /\ [Next]_vars => [Kept(vm, vm')]_vars
  BY NextSane
<1>2. QED
  BY <1>1, Invariant, PTL DEF Spec, Undisturbed
=============================================================================

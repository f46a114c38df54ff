-------------------------- MODULE CoroutineRefinement --------------------------
(***************************************************************************)
(* Coroutine implements OwnMachines, for every set of iterators, values,   *)
(* throwables and chunks that are disciplined: each block of a sequence    *)
(* builder runs as if it had a machine, a pending throwable and a stash of *)
(* its own.                                                                *)
(*                                                                         *)
(* The proof keeps, beside the invariant of CoroutineProofs, an account of *)
(* each machine (how many finalizers its frames have open, what they may   *)
(* still ask) and of the line of those who wait: the accounts say that the *)
(* throwables parked in the one stash lie in the order of the line, so     *)
(* that each context's own stash is a stretch of it.                       *)
(***************************************************************************)
EXTENDS CoroutineProofs

(* ---- the accounts of a machine ----------------------------------------------- *)

\* The j-th frame of a machine goes on at p: x finalizers are open then, g[j] of
\* them in the frames below.
Owes(c, a, d, g, j, p, x, R) ==
  /\ p \in Positions(c)
  /\ g[j] + d.parks[p] = x
  /\ d.rank[p] <= R
  /\ p \in a.yields => g[j] = 0

\* A forEach goes on in the frame it was called from, where what its closure threw may be
\* in flight.
RunOwes(c, a, d, m, n, R, g, r) ==
  LET L == Len(m.frames)
  IN  /\ r.frame \in 1..L /\ r.ip - 1 \in Positions(c)
      /\ c.ops[r.ip - 1].op = "each" /\ d.rank[r.ip - 1] <= R
      /\ Owes(c, a, d, g, r.frame, r.ip, IF r.frame < L THEN g[r.frame + 1] ELSE n, R)
      /\ r.ip \notin d.calm
      /\ r.frame < L => m.frames[r.frame + 1].ret = End(c)

\* The j-th frame was called by the one below, or is the first of a run.
FrameOwes(c, a, d, m, R, g, j) ==
  IF m.frames[j].ret = End(c) THEN \E i \in DOMAIN m.runs : m.runs[i].frame = j - 1
  ELSE Owes(c, a, d, g, j - 1, m.frames[j].ret, g[j], R) /\ m.frames[j].ret \notin d.calm

\* A later run was started from a higher frame.
RunsRise(m) == \A i, j \in DOMAIN m.runs : i < j => m.runs[i].frame < m.runs[j].frame

\* n finalizers are open in the frames of m, g[j] of them below the j-th, and
\* nothing it goes on with asks a block of rank R or above.
Counted(c, a, d, m, n, R, g) ==
  LET L == Len(m.frames)
  IN  /\ L = 0 => n = 0 /\ m.runs = <<>>
      /\ L > 0 => g[1] = 0 /\ m.frames[1].ret = End(c)
      /\ \A j \in 2..L : FrameOwes(c, a, d, m, R, g, j)
      /\ \A i \in DOMAIN m.runs : RunOwes(c, a, d, m, n, R, g, m.runs[i])
      /\ RunsRise(m)
      /\ IF m.ip = End(c) THEN L > 0 => m.runs # <<>> /\ m.runs[Len(m.runs)].frame = L
         ELSE /\ L > 0 /\ Owes(c, a, d, g, L, m.ip, n, R)
              /\ m.runs # <<>> => m.runs[Len(m.runs)].frame < L

\* The machine m is accounted for.
Tidy(c, a, d, m, n, R) == \E g \in [1..Len(m.frames) -> Nat] : Counted(c, a, d, m, n, R, g)

LEMMA AccountTypes ==
  ASSUME NEW c \in Chunks, NEW d \in Accounts(c), NEW i \in Positions(c)
  PROVE  d.parks[i] \in Nat /\ d.rank[i] \in Nat
  BY DEF Accounts

LEMMA AtMost ==
  ASSUME NEW x \in Nat, NEW y \in Nat, NEW z \in Nat, x <= y, y <= z
  PROVE  x <= z
  OBVIOUS

LEMMA PartTypes ==
  ASSUME NEW m \in Parts
  PROVE  /\ m.ip \in Nat /\ m.frames \in Seq(Frame) /\ m.stack \in Seq(Val) /\ m.runs \in Seq(Run)
         /\ Len(m.frames) \in Nat /\ Len(m.stack) \in Nat /\ Len(m.runs) \in Nat
         /\ DOMAIN m.frames = 1..Len(m.frames) /\ DOMAIN m.runs = 1..Len(m.runs)
         /\ m.frames # <<>> <=> Len(m.frames) > 0
         /\ m.runs # <<>> <=> Len(m.runs) > 0
         /\ \A j \in 1..Len(m.frames) : m.frames[j] \in Frame /\ m.frames[j].ret \in Nat
         /\ \A i \in 1..Len(m.runs) : m.runs[i] \in Run /\ m.runs[i].frame \in Int /\ m.runs[i].ip \in Nat
<1>1. m.ip \in Nat /\ m.frames \in Seq(Frame) /\ m.stack \in Seq(Val) /\ m.runs \in Seq(Run)
  BY DEF Parts
<1>2. \A f \in Frame : f.ret \in Nat
  BY DEF Frame
<1>3. \A r \in Run : r.frame \in Int /\ r.ip \in Nat
  BY DEF Run
<1>4. QED
  BY <1>1, <1>2, <1>3, LenNat

\* Every run started below the last one.
LEMMA RunsUpTo ==
  ASSUME NEW m \in Parts, RunsRise(m), NEW i \in DOMAIN m.runs
  PROVE  /\ m.runs # <<>> /\ Len(m.runs) \in DOMAIN m.runs
         /\ i = Len(m.runs) \/ m.runs[i].frame < m.runs[Len(m.runs)].frame
         /\ m.runs[i].frame <= m.runs[Len(m.runs)].frame
<1>1. /\ Len(m.runs) \in Nat /\ i \in 1..Len(m.runs) /\ DOMAIN m.runs = 1..Len(m.runs)
      /\ m.runs # <<>> <=> Len(m.runs) > 0
      /\ \A l \in 1..Len(m.runs) : m.runs[l].frame \in Int
  BY PartTypes
<1>2. Len(m.runs) \in DOMAIN m.runs /\ m.runs # <<>> /\ i <= Len(m.runs)
  BY <1>1
<1>3. CASE i = Len(m.runs)
  BY <1>1, <1>2, <1>3
<1>4. CASE i < Len(m.runs)
  <2>1. m.runs[i].frame < m.runs[Len(m.runs)].frame
    BY <1>2, <1>4 DEF RunsRise
  <2>2. QED
    BY <1>1, <1>2, <2>1
<1>5. QED
  BY <1>1, <1>2, <1>3, <1>4

\* While a frame runs, every run in progress has one of its own.
LEMMA RunsUnder ==
  ASSUME NEW m \in Parts, RunsRise(m), NEW L \in Nat,
         m.runs # <<>> => m.runs[Len(m.runs)].frame < L, NEW i \in DOMAIN m.runs
  PROVE  m.runs[i].frame < L
<1>1. /\ m.runs # <<>> /\ Len(m.runs) \in DOMAIN m.runs
      /\ m.runs[i].frame <= m.runs[Len(m.runs)].frame
  BY RunsUpTo
<1>2. m.runs[i].frame \in Int /\ m.runs[Len(m.runs)].frame \in Int
  BY <1>1, PartTypes
<1>3. QED
  BY <1>1, <1>2

\* The same calls and runs.
Skeleton(m, n) ==
  /\ n.runs = m.runs /\ Len(n.frames) = Len(m.frames)
  /\ \A j \in DOMAIN m.frames : n.frames[j].ret = m.frames[j].ret

LEMMA TidyMove ==
  ASSUME NEW c \in Chunks, NEW a, NEW d \in Accounts(c), NEW m \in Parts, NEW n \in Parts,
         NEW x \in Nat, NEW y \in Nat, NEW R \in Nat, Tidy(c, a, d, m, x, R), Skeleton(m, n),
         m.ip \in Positions(c), n.ip \in Positions(c), d.rank[n.ip] <= d.rank[m.ip],
         y + d.parks[m.ip] = x + d.parks[n.ip], n.ip \in a.yields => m.ip \in a.yields
  PROVE  Tidy(c, a, d, n, y, R)
<1> DEFINE L == Len(m.frames)
<1>1. PICK g \in [1..L -> Nat] : Counted(c, a, d, m, x, R, g)
  BY DEF Tidy
<1>2. /\ L \in Nat /\ DOMAIN m.frames = 1..L /\ Len(n.frames) = L /\ n.runs = m.runs
      /\ \A j \in 1..L : n.frames[j].ret = m.frames[j].ret
  BY PartTypes DEF Skeleton
<1>3. m.ip # End(c) /\ n.ip # End(c)
  BY ChunkTypes
<1>4. /\ L > 0 /\ Owes(c, a, d, g, L, m.ip, x, R) /\ g[1] = 0 /\ m.frames[1].ret = End(c) /\ RunsRise(m)
      /\ m.runs # <<>> => m.runs[Len(m.runs)].frame < L
      /\ \A j \in 2..L : FrameOwes(c, a, d, m, R, g, j)
      /\ \A i \in DOMAIN m.runs : RunOwes(c, a, d, m, x, R, g, m.runs[i])
  BY <1>1, <1>3 DEF Counted
<1>5. Owes(c, a, d, g, L, n.ip, y, R)
  <2>1. /\ d.parks[m.ip] \in Nat /\ d.parks[n.ip] \in Nat /\ d.rank[m.ip] \in Nat /\ d.rank[n.ip] \in Nat
        /\ g[L] \in Nat
    <3>1. L \in 1..L
      BY <1>2, <1>4
    <3>2. QED
      BY <1>1, <3>1, AccountTypes
  <2>2. g[L] + d.parks[n.ip] = y /\ d.rank[n.ip] <= R
    <3>1. g[L] + d.parks[m.ip] = x /\ d.rank[m.ip] <= R
      BY <1>4 DEF Owes
    <3>2. d.rank[n.ip] <= R
      BY <2>1, <3>1, AtMost
    <3>3. g[L] + d.parks[n.ip] = y
      <4>1. PICK z, p, q : z = g[L] /\ p = d.parks[m.ip] /\ q = d.parks[n.ip]
        OBVIOUS
      <4>2. z \in Nat /\ p \in Nat /\ q \in Nat /\ z + p = x /\ y + p = x + q
        BY <2>1, <3>1, <4>1
      <4>3. z + q = y
        BY <4>2
      <4>4. QED
        BY <4>1, <4>3
    <3>4. QED
      BY <3>2, <3>3
  <2>3. QED
    BY <1>4, <2>2 DEF Owes
<1>6. \A j \in 2..L : FrameOwes(c, a, d, n, R, g, j)
  <2>1. \A j \in 2..L : j \in 1..L
    BY <1>2
  <2>2. QED
    BY <1>2, <1>4, <2>1 DEF FrameOwes
<1>7. ASSUME NEW i \in DOMAIN m.runs
      PROVE  RunOwes(c, a, d, n, y, R, g, m.runs[i])
  <2>1. m.runs[i].frame < L
    BY <1>2, <1>4, RunsUnder
  <2>2. RunOwes(c, a, d, m, x, R, g, m.runs[i])
    BY <1>4
  <2>3. m.runs[i].frame + 1 \in 1..L
    BY <1>2, <2>1, <2>2 DEF RunOwes
  <2>4. QED
    BY <1>2, <2>1, <2>2, <2>3 DEF RunOwes
<1>8. RunsRise(n)
  BY <1>2, <1>4 DEF RunsRise
<1>9. Counted(c, a, d, n, y, R, g)
  BY <1>2, <1>3, <1>4, <1>5, <1>6, <1>7, <1>8 DEF Counted
<1>10. QED
  BY <1>1, <1>2, <1>9 DEF Tidy

\* A call: the frame below keeps what it has open for later.
LEMMA TidyCall ==
  ASSUME NEW c \in Chunks, NEW a, NEW d \in Accounts(c), NEW m \in Parts, NEW n \in Parts,
         NEW x \in Nat, NEW R \in Nat, Tidy(c, a, d, m, x, R),
         m.ip \in Positions(c), NEW f \in Frame, f.ret = m.ip + 1, m.ip + 1 \in Positions(c),
         m.ip + 1 \notin d.calm, d.rank[m.ip + 1] <= d.rank[m.ip], d.parks[m.ip + 1] = d.parks[m.ip],
         m.ip + 1 \in a.yields => m.ip \in a.yields,
         n.frames = Append(m.frames, f), n.runs = m.runs,
         n.ip \in Positions(c), d.rank[n.ip] <= d.rank[m.ip], d.parks[n.ip] = 0,
         n.ip \in a.yields => m.ip \in a.yields /\ d.parks[m.ip] = 0
  PROVE  Tidy(c, a, d, n, x, R)
<1> DEFINE L == Len(m.frames)
           K == Len(n.frames)
<1>1. PICK g \in [1..L -> Nat] : Counted(c, a, d, m, x, R, g)
  BY DEF Tidy
<1>2. /\ L \in Nat /\ m.frames \in Seq(Frame) /\ K = L + 1 /\ n.frames[L + 1] = f
      /\ \A j \in 1..L : n.frames[j] = m.frames[j]
  BY PartTypes, AppendSeq
<1>3. m.ip # End(c) /\ n.ip # End(c) /\ f.ret # End(c)
  BY ChunkTypes
<1>4. /\ L > 0 /\ Owes(c, a, d, g, L, m.ip, x, R) /\ g[1] = 0 /\ m.frames[1].ret = End(c) /\ RunsRise(m)
      /\ m.runs # <<>> => m.runs[Len(m.runs)].frame < L
      /\ \A j \in 2..L : FrameOwes(c, a, d, m, R, g, j)
      /\ \A i \in DOMAIN m.runs : RunOwes(c, a, d, m, x, R, g, m.runs[i])
  BY <1>1, <1>3 DEF Counted
<1> DEFINE h == [j \in 1..K |-> IF j = L + 1 THEN x ELSE g[j]]
<1>5. h \in [1..K -> Nat] /\ h[L + 1] = x /\ (\A j \in 1..L : h[j] = g[j]) /\ g[L] \in Nat
  BY <1>2, <1>4
<1> HIDE DEF h
<1>6. /\ d.parks[m.ip] \in Nat /\ d.rank[m.ip] \in Nat /\ d.rank[n.ip] \in Nat /\ d.rank[m.ip + 1] \in Nat
  BY AccountTypes
<1>7. L \in 1..L /\ L + 1 \in 1..K /\ 1 \in 1..L
  BY <1>2, <1>4
<1>8. g[L] + d.parks[m.ip] = x /\ d.rank[m.ip] <= R /\ (m.ip \in a.yields => g[L] = 0)
  BY <1>4 DEF Owes
<1>9. Owes(c, a, d, h, K, n.ip, x, R)
  <2>1. h[K] + d.parks[n.ip] = x /\ d.rank[n.ip] <= R
    <3>1. h[K] = x /\ x + 0 = x
      BY <1>2, <1>5
    <3>2. d.rank[n.ip] <= R
      BY <1>6, <1>8, AtMost
    <3>3. QED
      BY <3>1, <3>2
  <2>2. n.ip \in a.yields => h[K] = 0
    BY <1>2, <1>5, <1>8
  <2>3. QED
    BY <2>1, <2>2 DEF Owes
<1>10. Owes(c, a, d, h, L, f.ret, h[L + 1], R)
  <2>1. h[L] + d.parks[m.ip + 1] = h[L + 1] /\ d.rank[m.ip + 1] <= R
    <3>1. d.rank[m.ip + 1] <= R
      BY <1>6, <1>8, AtMost
    <3>2. h[L] + d.parks[m.ip + 1] = g[L] + d.parks[m.ip]
      BY <1>5, <1>7
    <3>3. QED
      BY <1>5, <1>8, <3>1, <3>2
  <2>2. m.ip + 1 \in a.yields => h[L] = 0
    BY <1>5, <1>7, <1>8
  <2>3. QED
    BY <2>1, <2>2 DEF Owes
<1>11. ASSUME NEW j \in 2..K
       PROVE  FrameOwes(c, a, d, n, R, h, j)
  <2>1. CASE j = L + 1
    <3>1. n.frames[j] = f /\ j - 1 = L
      BY <1>2, <2>1
    <3>2. QED
      BY <1>3, <1>10, <2>1, <3>1 DEF FrameOwes
  <2>2. CASE j # L + 1
    <3>1. j \in 2..L /\ j \in 1..L /\ j - 1 \in 1..L
      BY <1>2, <2>2
    <3>2. h[j] = g[j] /\ h[j - 1] = g[j - 1] /\ n.frames[j] = m.frames[j]
      BY <1>2, <1>5, <3>1
    <3>3. FrameOwes(c, a, d, m, R, g, j)
      BY <1>4, <3>1
    <3>4. QED
      BY <3>2, <3>3 DEF FrameOwes, Owes
  <2>3. QED
    BY <2>1, <2>2
<1>12. ASSUME NEW i \in DOMAIN m.runs
       PROVE  m.runs[i].frame < L /\ RunOwes(c, a, d, n, x, R, h, m.runs[i])
  <2>1. m.runs[i].frame < L
    BY <1>2, <1>4, RunsUnder
  <2>2. RunOwes(c, a, d, m, x, R, g, m.runs[i])
    BY <1>4
  <2>3. m.runs[i].frame \in 1..L /\ m.runs[i].frame + 1 \in 1..L /\ m.runs[i].frame < K
        /\ m.runs[i].frame \in 1..K
    BY <1>2, <2>1, <2>2 DEF RunOwes
  <2>4. /\ h[m.runs[i].frame] = g[m.runs[i].frame] /\ h[m.runs[i].frame + 1] = g[m.runs[i].frame + 1]
        /\ n.frames[m.runs[i].frame + 1] = m.frames[m.runs[i].frame + 1]
    BY <1>2, <1>5, <2>3
  <2>5. Owes(c, a, d, g, m.runs[i].frame, m.runs[i].ip, g[m.runs[i].frame + 1], R)
    BY <2>1, <2>2 DEF RunOwes
  <2>6. Owes(c, a, d, h, m.runs[i].frame, m.runs[i].ip, h[m.runs[i].frame + 1], R)
    BY <2>4, <2>5 DEF Owes
  <2>7. QED
    BY <2>1, <2>2, <2>3, <2>4, <2>6 DEF RunOwes
<1>13. RunsRise(n)
  BY <1>4 DEF RunsRise
<1>14. h[1] = 0 /\ n.frames[1].ret = End(c)
  BY <1>2, <1>4, <1>5, <1>7
<1>15. n.runs # <<>> => n.runs[Len(n.runs)].frame < K
  <2>1. SUFFICES ASSUME n.runs # <<>>
                 PROVE  n.runs[Len(n.runs)].frame < K
    OBVIOUS
  <2>2. Len(m.runs) \in DOMAIN m.runs
    BY <2>1, PartTypes
  <2>3. m.runs[Len(m.runs)].frame < L /\ m.runs[Len(m.runs)].frame \in Int
    BY <1>12, <2>2, PartTypes
  <2>4. QED
    BY <1>2, <2>3
<1>16. Counted(c, a, d, n, x, R, h)
  <2>1. K > 0 /\ K # 0
    BY <1>2
  <2>2. QED
    BY <1>3, <1>9, <1>11, <1>12, <1>13, <1>14, <1>15, <2>1 DEF Counted
<1>17. QED
  BY <1>5, <1>16 DEF Tidy

LEMMA OneLess ==
  ASSUME NEW L \in Nat, L > 0, L # 1
  PROVE  L \in 2..L /\ L - 1 > 0 /\ L - 1 # 0
  OBVIOUS

\* A return: the frame below goes on, or the run the frame was the first of ends.
LEMMA TidyReturn ==
  ASSUME NEW c \in Chunks, NEW a, NEW d \in Accounts(c), NEW m \in Parts, NEW n \in Parts,
         NEW x \in Nat, NEW R \in Nat, Tidy(c, a, d, m, x, R),
         m.ip \in Positions(c), d.parks[m.ip] = 0,
         n.frames = Front(m.frames), n.runs = m.runs, n.ip = Top(m).ret
  PROVE  Tidy(c, a, d, n, x, R) /\ n.ip \notin d.calm
<1> PICK L : L = Len(m.frames)
  OBVIOUS
<1> PICK K : K = L - 1
  OBVIOUS
<1>1. PICK g \in [1..L -> Nat] : Counted(c, a, d, m, x, R, g)
  BY DEF Tidy
<1>2. m.ip # End(c) /\ End(c) \notin Positions(c) /\ \A p \in d.calm : p \in Positions(c)
  BY ChunkTypes DEF Accounts
<1>3. /\ L > 0 /\ Owes(c, a, d, g, L, m.ip, x, R) /\ g[1] = 0 /\ m.frames[1].ret = End(c) /\ RunsRise(m)
      /\ m.runs # <<>> => m.runs[Len(m.runs)].frame < L
      /\ \A j \in 2..L : FrameOwes(c, a, d, m, R, g, j)
      /\ \A i \in DOMAIN m.runs : RunOwes(c, a, d, m, x, R, g, m.runs[i])
  BY <1>1, <1>2 DEF Counted
<1>4. /\ L \in Nat /\ m.frames \in Seq(Frame) /\ m.frames # <<>> /\ L \in 1..L
      /\ K \in Nat /\ Len(n.frames) = K
      /\ \A j \in 1..K : n.frames[j] = m.frames[j] /\ j \in 1..L /\ j < L
  <2>1. L \in Nat /\ m.frames \in Seq(Frame) /\ m.frames # <<>>
    BY <1>3, PartTypes
  <2>2. Len(n.frames) = K /\ \A j \in 1..K : n.frames[j] = m.frames[j]
    BY <2>1, FrontSeq
  <2>3. K \in Nat /\ L \in 1..L /\ \A j \in 1..K : j \in 1..L /\ j < L
    BY <1>3, <2>1
  <2>4. QED
    BY <2>1, <2>2, <2>3
<1>5. g[L] = x
  <2>1. g[L] \in Nat /\ g[L] + 0 = x
    BY <1>1, <1>3, <1>4 DEF Owes
  <2>2. QED
    BY <2>1
<1> DEFINE h == [j \in 1..K |-> g[j]]
<1>6. h \in [1..K -> Nat] /\ \A j \in 1..K : h[j] = g[j]
  BY <1>1, <1>4
<1> HIDE DEF h
<1>7. n.ip = m.frames[L].ret
  BY DEF Top
<1>8. ASSUME NEW i \in DOMAIN m.runs
      PROVE  /\ m.runs[i].frame \in 1..K /\ m.runs[i].frame < L
             /\ m.frames[m.runs[i].frame + 1].ret = End(c)
             /\ RunOwes(c, a, d, m, x, R, g, m.runs[i])
  <2>1. m.runs[i].frame < L
    BY <1>3, <1>4, RunsUnder
  <2>2. RunOwes(c, a, d, m, x, R, g, m.runs[i]) /\ m.runs[i].frame \in 1..L
    BY <1>3 DEF RunOwes
  <2>3. QED
    BY <1>4, <2>1, <2>2 DEF RunOwes
<1>9. \A j \in 2..K : FrameOwes(c, a, d, n, R, h, j)
  <2>1. SUFFICES ASSUME NEW j \in 2..K
                 PROVE  FrameOwes(c, a, d, n, R, h, j)
    OBVIOUS
  <2>2. j \in 1..K /\ j - 1 \in 1..K /\ j \in 2..L
    BY <1>4
  <2>3. h[j] = g[j] /\ h[j - 1] = g[j - 1] /\ n.frames[j] = m.frames[j]
    BY <1>4, <1>6, <2>2
  <2>4. FrameOwes(c, a, d, m, R, g, j)
    BY <1>3, <2>2
  <2>5. QED
    BY <2>3, <2>4 DEF FrameOwes, Owes
<1>10. \A i \in DOMAIN n.runs : RunOwes(c, a, d, n, x, R, h, n.runs[i])
  <2>1. SUFFICES ASSUME NEW i \in DOMAIN m.runs
                 PROVE  RunOwes(c, a, d, n, x, R, h, m.runs[i])
    OBVIOUS
  <2> DEFINE r == m.runs[i]
             u == IF r.frame < K THEN h[r.frame + 1] ELSE x
  <2>2. /\ r.frame \in 1..K /\ r.frame < L /\ m.frames[r.frame + 1].ret = End(c)
        /\ RunOwes(c, a, d, m, x, R, g, r)
    BY <1>8
  <2>3. Owes(c, a, d, g, r.frame, r.ip, g[r.frame + 1], R)
    BY <2>2 DEF RunOwes
  <2>4. u = g[r.frame + 1]
    <3>1. CASE r.frame < K
      <4>1. r.frame + 1 \in 1..K
        BY <1>4, <2>2, <3>1
      <4>2. QED
        BY <1>6, <3>1, <4>1
    <3>2. CASE ~(r.frame < K)
      <4>1. r.frame + 1 = L
        BY <1>4, <2>2, <3>2
      <4>2. QED
        BY <1>5, <3>2, <4>1
    <3>3. QED
      BY <3>1, <3>2
  <2>5. h[r.frame] = g[r.frame]
    BY <1>6, <2>2
  <2>6. Owes(c, a, d, h, r.frame, r.ip, u, R)
    BY <2>3, <2>4, <2>5 DEF Owes
  <2>7. r.frame < K => n.frames[r.frame + 1].ret = End(c)
    <3>1. SUFFICES ASSUME r.frame < K
                   PROVE  n.frames[r.frame + 1].ret = End(c)
      OBVIOUS
    <3>2. r.frame + 1 \in 1..K
      BY <1>4, <2>2, <3>1, SMTT(30)
    <3>3. QED
      BY <1>4, <2>2, <3>2
  <2>8. r.frame \in 1..Len(n.frames) /\ Len(n.frames) = K
    BY <1>4, <2>2
  <2>9. QED
    BY <2>2, <2>6, <2>7, <2>8 DEF RunOwes
<1>11. RunsRise(n)
  BY <1>3 DEF RunsRise
<1>12. K > 0 => h[1] = 0 /\ n.frames[1].ret = End(c)
  <2>1. SUFFICES ASSUME K > 0
                 PROVE  h[1] = 0 /\ n.frames[1].ret = End(c)
    OBVIOUS
  <2>2. 1 \in 1..K
    BY <1>4, <2>1
  <2>3. QED
    BY <1>3, <1>4, <1>6, <2>2
<1>13. K = 0 => x = 0 /\ n.runs = <<>>
  <2>1. SUFFICES ASSUME K = 0
                 PROVE  x = 0 /\ n.runs = <<>>
    OBVIOUS
  <2>2. L = 1
    BY <1>4, <2>1
  <2>3. x = 0
    BY <1>3, <1>5, <2>2
  <2>4. m.runs = <<>>
    <3>1. SUFFICES ASSUME m.runs # <<>>
                   PROVE  FALSE
      OBVIOUS
    <3>2. Len(m.runs) \in DOMAIN m.runs
      BY <3>1, PartTypes
    <3>3. m.runs[Len(m.runs)].frame \in 1..0
      BY <1>8, <2>1, <3>2
    <3>4. QED
      BY <3>3
  <2>5. QED
    BY <2>3, <2>4
<1>14. CASE n.ip = End(c)
  <2>1. K > 0 => n.runs # <<>> /\ n.runs[Len(n.runs)].frame = K
    <3>1. SUFFICES ASSUME K > 0
                   PROVE  m.runs # <<>> /\ m.runs[Len(m.runs)].frame = K
      OBVIOUS
    <3>2. L \in 2..L
      BY <1>4, <3>1
    <3>3. PICK i \in DOMAIN m.runs : m.runs[i].frame = L - 1
      BY <1>3, <1>7, <1>14, <3>2 DEF FrameOwes
    <3>4. m.runs # <<>> /\ Len(m.runs) \in DOMAIN m.runs /\ m.runs[i].frame <= m.runs[Len(m.runs)].frame
      BY <1>3, RunsUpTo
    <3>5. m.runs[Len(m.runs)].frame \in 1..K
      BY <1>8, <3>4
    <3>6. QED
      BY <1>4, <3>3, <3>4, <3>5
  <2>2. Counted(c, a, d, n, x, R, h)
    BY <1>4, <1>9, <1>10, <1>11, <1>12, <1>13, <1>14, <2>1 DEF Counted
  <2>3. QED
    BY <1>2, <1>4, <1>6, <1>14, <2>2 DEF Tidy
<1>15. CASE n.ip # End(c)
  <2>1. L # 1
    BY <1>3, <1>7, <1>15
  <2>2. L \in 2..L /\ K > 0 /\ K # 0
    <3>1. L > 0 /\ L \in Nat
      BY <1>3, <1>4
    <3>2. QED
      BY <2>1, <3>1, OneLess
  <2>3. Owes(c, a, d, g, L - 1, n.ip, g[L], R) /\ n.ip \notin d.calm
    BY <1>3, <1>7, <1>15, <2>2 DEF FrameOwes
  <2>4. Owes(c, a, d, h, K, n.ip, x, R)
    <3>1. K \in 1..K
      BY <1>4, <2>2
    <3>2. h[K] = g[L - 1]
      BY <1>6, <3>1
    <3>3. QED
      BY <1>5, <2>3, <3>2 DEF Owes
  <2>5. n.runs # <<>> => n.runs[Len(n.runs)].frame < K
    <3>1. SUFFICES ASSUME m.runs # <<>>
                   PROVE  m.runs[Len(m.runs)].frame < K
      OBVIOUS
    <3>2. Len(m.runs) \in DOMAIN m.runs
      BY <3>1, PartTypes
    <3>3. m.runs[Len(m.runs)].frame \in 1..K /\ m.frames[m.runs[Len(m.runs)].frame + 1].ret = End(c)
      BY <1>8, <3>2
    <3>4. m.runs[Len(m.runs)].frame + 1 # L
      BY <1>7, <1>15, <3>3
    <3>5. QED
      BY <1>4, <3>3, <3>4
  <2>6. Counted(c, a, d, n, x, R, h)
    BY <1>4, <1>9, <1>10, <1>11, <1>12, <1>15, <2>2, <2>4, <2>5 DEF Counted
  <2>7. QED
    BY <1>4, <1>6, <2>3, <2>6 DEF Tidy
<1>16. QED
  BY <1>14, <1>15

\* A forEach starts: its builtin answers later, where the frame that runs goes on.
LEMMA TidyRun ==
  ASSUME NEW c \in Chunks, NEW a, NEW d \in Accounts(c), NEW m \in Parts, NEW n \in Parts,
         NEW x \in Nat, NEW R \in Nat, Tidy(c, a, d, m, x, R),
         m.ip \in Positions(c), c.ops[m.ip].op = "each", m.ip + 1 \in Positions(c),
         m.ip + 1 \notin d.calm, d.rank[m.ip + 1] <= d.rank[m.ip], d.parks[m.ip + 1] = d.parks[m.ip],
         m.ip + 1 \in a.yields => m.ip \in a.yields,
         NEW r \in Run, r.frame = Len(m.frames), r.ip = m.ip + 1,
         n.frames = m.frames, n.runs = Append(m.runs, r), n.ip = End(c)
  PROVE  Tidy(c, a, d, n, x, R)
<1> PICK L : L = Len(m.frames)
  OBVIOUS
<1> PICK K : K = Len(m.runs)
  OBVIOUS
<1>1. PICK g \in [1..L -> Nat] : Counted(c, a, d, m, x, R, g)
  BY DEF Tidy
<1>2. m.ip # End(c)
  BY ChunkTypes
<1>3. /\ L > 0 /\ Owes(c, a, d, g, L, m.ip, x, R) /\ g[1] = 0 /\ m.frames[1].ret = End(c) /\ RunsRise(m)
      /\ m.runs # <<>> => m.runs[Len(m.runs)].frame < L
      /\ \A j \in 2..L : FrameOwes(c, a, d, m, R, g, j)
      /\ \A i \in DOMAIN m.runs : RunOwes(c, a, d, m, x, R, g, m.runs[i])
  BY <1>1, <1>2 DEF Counted
<1>4. /\ L \in Nat /\ L \in 1..L /\ m.runs \in Seq(Run) /\ K \in Nat
      /\ DOMAIN m.runs = 1..K /\ g[L] \in Nat
  BY <1>1, <1>3, PartTypes
<1>5. /\ Len(n.runs) = K + 1 /\ DOMAIN n.runs = 1..K + 1 /\ n.runs[K + 1] = r
      /\ \A i \in 1..K : n.runs[i] = m.runs[i]
  <2>1. Len(n.runs) = K + 1 /\ n.runs[K + 1] = r /\ \A i \in 1..K : n.runs[i] = m.runs[i]
    BY <1>4, AppendSeq
  <2>2. QED
    BY <2>1, PartTypes
<1>6. \A i \in 1..K : m.runs[i].frame < L
  BY <1>3, <1>4, RunsUnder
<1>7. \A i \in 1..K + 1 : i \in 1..K \/ i = K + 1
  BY <1>4
<1>8. Owes(c, a, d, g, L, m.ip + 1, x, R) /\ d.rank[m.ip] <= R
  <2>1. g[L] + d.parks[m.ip] = x /\ d.rank[m.ip] <= R /\ (m.ip \in a.yields => g[L] = 0)
    BY <1>3 DEF Owes
  <2>2. d.rank[m.ip + 1] \in Nat /\ d.rank[m.ip] \in Nat
    BY AccountTypes
  <2>3. d.rank[m.ip + 1] <= R
    BY <2>1, <2>2, AtMost
  <2>4. QED
    BY <2>1, <2>3 DEF Owes
<1>9. RunOwes(c, a, d, n, x, R, g, r)
  <2>1. r.ip - 1 = m.ip
    BY PartTypes
  <2>2. ~(r.frame < L) /\ r.frame \in 1..L
    BY <1>4
  <2>3. QED
    BY <1>8, <2>1, <2>2 DEF RunOwes
<1>10. ASSUME NEW i \in DOMAIN n.runs
       PROVE  RunOwes(c, a, d, n, x, R, g, n.runs[i])
  <2>1. CASE i \in 1..K
    <3>1. n.runs[i] = m.runs[i] /\ m.runs[i].frame < L
      BY <1>5, <1>6, <2>1
    <3>2. RunOwes(c, a, d, m, x, R, g, m.runs[i])
      BY <1>3, <1>4, <2>1
    <3>3. QED
      BY <3>1, <3>2 DEF RunOwes
  <2>2. CASE i = K + 1
    BY <1>5, <1>9, <2>2
  <2>3. QED
    BY <1>5, <1>7, <2>1, <2>2
<1>11. RunsRise(n)
  <2>1. SUFFICES ASSUME NEW i \in DOMAIN n.runs, NEW j \in DOMAIN n.runs, i < j
                 PROVE  n.runs[i].frame < n.runs[j].frame
    BY DEF RunsRise
  <2>2. i \in 1..K
    BY <1>4, <1>5, <2>1
  <2>3. CASE j \in 1..K
    BY <1>3, <1>4, <1>5, <2>1, <2>2, <2>3 DEF RunsRise
  <2>4. CASE j = K + 1
    BY <1>5, <1>6, <2>2, <2>4
  <2>5. QED
    BY <1>5, <1>7, <2>3, <2>4
<1>12. \A j \in 2..L : FrameOwes(c, a, d, n, R, g, j)
  <2>1. SUFFICES ASSUME NEW j \in 2..L
                 PROVE  FrameOwes(c, a, d, n, R, g, j)
    OBVIOUS
  <2>2. FrameOwes(c, a, d, m, R, g, j)
    BY <1>3
  <2>3. \A i \in DOMAIN m.runs : i \in DOMAIN n.runs /\ n.runs[i] = m.runs[i]
    BY <1>4, <1>5
  <2>4. QED
    BY <2>2, <2>3 DEF FrameOwes
<1>13. n.runs # <<>> /\ n.runs[Len(n.runs)].frame = L
  <2>1. Len(n.runs) > 0
    BY <1>4, <1>5
  <2>2. QED
    BY <1>5, <2>1, PartTypes
<1>14. Counted(c, a, d, n, x, R, g)
  BY <1>3, <1>10, <1>11, <1>12, <1>13 DEF Counted
<1>15. QED
  BY <1>1, <1>14 DEF Tidy

\* Its next element: the closure is entered.
LEMMA TidyElement ==
  ASSUME NEW c \in Chunks, NEW a, NEW d \in Accounts(c), NEW m \in Parts, NEW n \in Parts,
         NEW x \in Nat, NEW R \in Nat, Tidy(c, a, d, m, x, R),
         m.ip = End(c), m.runs # <<>>, NEW r, r = m.runs[Len(m.runs)],
         NEW f \in Frame, f.ret = End(c), n.frames = Append(m.frames, f),
         Len(n.runs) = Len(m.runs),
         \A i \in DOMAIN m.runs : n.runs[i].frame = m.runs[i].frame /\ n.runs[i].ip = m.runs[i].ip,
         n.ip \in Positions(c), n.ip \notin a.yields, d.parks[n.ip] = 0,
         d.rank[n.ip] <= d.rank[r.ip - 1]
  PROVE  Tidy(c, a, d, n, x, R)
<1> PICK L : L = Len(m.frames)
  OBVIOUS
<1> PICK K : K = Len(m.runs)
  OBVIOUS
<1>1. PICK g \in [1..L -> Nat] : Counted(c, a, d, m, x, R, g)
  BY DEF Tidy
<1>2. n.ip # End(c)
  BY ChunkTypes
<1>3. /\ L \in Nat /\ K \in Nat /\ K \in DOMAIN m.runs /\ m.frames \in Seq(Frame)
      /\ DOMAIN m.runs = 1..K /\ DOMAIN n.runs = 1..K
  <2>1. /\ L \in Nat /\ K \in Nat /\ K > 0 /\ DOMAIN m.runs = 1..K /\ DOMAIN n.runs = 1..K
        /\ m.frames \in Seq(Frame)
    BY PartTypes
  <2>2. QED
    BY <2>1
<1>4. \A i \in DOMAIN m.runs : RunOwes(c, a, d, m, x, R, g, m.runs[i])
  BY <1>1 DEF Counted
<1>5. L > 0 /\ L \in 1..L
  <2>1. m.runs[K].frame \in 1..L
    BY <1>3, <1>4 DEF RunOwes
  <2>2. QED
    BY <1>3, <2>1
<1>6. /\ m.runs[K].frame = L /\ g[1] = 0 /\ m.frames[1].ret = End(c) /\ RunsRise(m)
      /\ \A j \in 2..L : FrameOwes(c, a, d, m, R, g, j)
  BY <1>1, <1>5 DEF Counted
<1>7. /\ Len(n.frames) = L + 1 /\ n.frames[L + 1] = f
      /\ \A j \in 1..L : n.frames[j] = m.frames[j]
  BY <1>3, AppendSeq
<1> DEFINE h == [j \in 1..L + 1 |-> IF j = L + 1 THEN x ELSE g[j]]
<1>8. h \in [1..L + 1 -> Nat] /\ h[L + 1] = x /\ \A j \in 1..L : h[j] = g[j]
  BY <1>1, <1>3
<1> HIDE DEF h
<1>9. Owes(c, a, d, h, L + 1, n.ip, x, R)
  <2>1. d.rank[r.ip - 1] <= R /\ r.ip - 1 \in Positions(c)
    BY <1>3, <1>4 DEF RunOwes
  <2>2. d.rank[n.ip] \in Nat /\ d.rank[r.ip - 1] \in Nat
    BY <2>1, AccountTypes
  <2>3. d.rank[n.ip] <= R
    BY <2>1, <2>2, AtMost
  <2>4. h[L + 1] + d.parks[n.ip] = x
    BY <1>8
  <2>5. QED
    BY <2>3, <2>4 DEF Owes
<1>10. ASSUME NEW i \in DOMAIN m.runs
       PROVE  m.runs[i].frame \in 1..L /\ RunOwes(c, a, d, n, x, R, h, n.runs[i])
  <2> DEFINE q == m.runs[i]
  <2>1. n.runs[i].frame = q.frame /\ n.runs[i].ip = q.ip
    OBVIOUS
  <2>2. RunOwes(c, a, d, m, x, R, g, q) /\ q.frame \in 1..L
    BY <1>4 DEF RunOwes
  <2> HIDE DEF q
  <2>3. Owes(c, a, d, g, q.frame, q.ip, IF q.frame < L THEN g[q.frame + 1] ELSE x, R)
    BY <2>2 DEF RunOwes
  <2>4. q.frame < L + 1 /\ q.frame \in 1..L + 1
    BY <1>3, <2>2
  <2>5. (IF q.frame < L THEN g[q.frame + 1] ELSE x) = h[q.frame + 1]
    <3>1. CASE q.frame < L
      <4>1. q.frame + 1 \in 1..L
        BY <1>3, <2>2, <3>1
      <4>2. QED
        BY <1>8, <3>1, <4>1
    <3>2. CASE ~(q.frame < L)
      <4>1. q.frame = L
        BY <1>3, <2>2, <3>2
      <4>2. QED
        BY <1>8, <3>2, <4>1
    <3>3. QED
      BY <3>1, <3>2
  <2>6. Owes(c, a, d, h, q.frame, q.ip, h[q.frame + 1], R)
    BY <1>8, <2>2, <2>3, <2>5 DEF Owes
  <2>7. n.frames[q.frame + 1].ret = End(c)
    <3>1. CASE q.frame < L
      <4>1. q.frame + 1 \in 1..L
        BY <1>3, <2>2, <3>1
      <4>2. QED
        BY <1>7, <2>2, <3>1, <4>1 DEF RunOwes
    <3>2. CASE ~(q.frame < L)
      <4>1. q.frame = L
        BY <1>3, <2>2, <3>2
      <4>2. QED
        BY <1>7, <4>1
    <3>3. QED
      BY <3>1, <3>2
  <2>8. RunOwes(c, a, d, n, x, R, h, n.runs[i])
    BY <1>7, <2>1, <2>2, <2>4, <2>6, <2>7 DEF RunOwes
  <2>9. QED
    BY <2>2, <2>8 DEF q
<1>11. \A j \in 2..L + 1 : FrameOwes(c, a, d, n, R, h, j)
  <2>1. SUFFICES ASSUME NEW j \in 2..L + 1
                 PROVE  FrameOwes(c, a, d, n, R, h, j)
    OBVIOUS
  <2>2. CASE j = L + 1
    <3>1. n.frames[j].ret = End(c) /\ n.runs[K].frame = j - 1 /\ K \in DOMAIN n.runs
      <4>1. n.frames[j].ret = End(c) /\ j - 1 = L
        BY <1>3, <1>7, <2>2
      <4>2. n.runs[K].frame = L /\ K \in DOMAIN n.runs
        BY <1>3, <1>6
      <4>3. QED
        BY <4>1, <4>2
    <3>2. QED
      BY <3>1 DEF FrameOwes
  <2>3. CASE j # L + 1
    <3>1. j \in 2..L /\ j \in 1..L /\ j - 1 \in 1..L
      BY <1>3, <2>3
    <3>2. h[j] = g[j] /\ h[j - 1] = g[j - 1] /\ n.frames[j] = m.frames[j]
      BY <1>7, <1>8, <3>1
    <3>3. FrameOwes(c, a, d, m, R, g, j)
      BY <1>6, <3>1
    <3>4. \A i \in DOMAIN m.runs : i \in DOMAIN n.runs /\ n.runs[i].frame = m.runs[i].frame
      BY <1>3
    <3>5. QED
      BY <3>2, <3>3, <3>4 DEF FrameOwes, Owes
  <2>4. QED
    BY <2>2, <2>3
<1>12. RunsRise(n)
  <2>1. \A i \in 1..K : n.runs[i].frame = m.runs[i].frame
    BY <1>3
  <2>2. QED
    BY <1>3, <1>6, <2>1 DEF RunsRise
<1>13. h[1] = 0 /\ n.frames[1].ret = End(c)
  <2>1. 1 \in 1..L
    BY <1>3, <1>5
  <2>2. QED
    BY <1>6, <1>7, <1>8, <2>1
<1>14. n.runs[Len(n.runs)].frame < L + 1
  BY <1>3, <1>6, SMTT(30)
<1>15. Counted(c, a, d, n, x, R, h)
  <2>1. Len(n.frames) = L + 1 /\ L + 1 > 0 /\ L + 1 # 0
    BY <1>3, <1>7
  <2>2. \A i \in DOMAIN n.runs : RunOwes(c, a, d, n, x, R, h, n.runs[i])
    BY <1>3, <1>10
  <2>3. QED
    BY <1>2, <1>9, <1>11, <1>12, <1>13, <1>14, <2>1, <2>2 DEF Counted
<1>16. QED
  BY <1>7, <1>8, <1>15 DEF Tidy

\* The last element of a forEach was served: its builtin answers.
LEMMA TidyEnd ==
  ASSUME NEW c \in Chunks, NEW a, NEW d \in Accounts(c), NEW m \in Parts, NEW n \in Parts,
         NEW x \in Nat, NEW R \in Nat, Tidy(c, a, d, m, x, R),
         m.ip = End(c), m.runs # <<>>, NEW r, r = m.runs[Len(m.runs)],
         n.frames = m.frames, n.runs = Front(m.runs), n.ip = r.ip
  PROVE  Tidy(c, a, d, n, x, R) /\ n.ip \notin d.calm
<1> PICK L : L = Len(m.frames)
  OBVIOUS
<1> PICK K : K = Len(m.runs)
  OBVIOUS
<1>1. PICK g \in [1..L -> Nat] : Counted(c, a, d, m, x, R, g)
  BY DEF Tidy
<1>2. /\ L \in Nat /\ K \in Nat /\ K > 0 /\ K \in DOMAIN m.runs /\ m.runs \in Seq(Run)
      /\ DOMAIN m.runs = 1..K /\ DOMAIN n.runs = 1..Len(n.runs)
  <2>1. L \in Nat /\ K \in Nat /\ K > 0 /\ DOMAIN m.runs = 1..K /\ DOMAIN n.runs = 1..Len(n.runs)
        /\ m.runs \in Seq(Run)
    BY PartTypes
  <2>2. QED
    BY <2>1
<1>3. Len(n.runs) = K - 1 /\ \A i \in 1..K - 1 : n.runs[i] = m.runs[i]
  BY <1>2, FrontSeq
<1>4. \A i \in DOMAIN m.runs : RunOwes(c, a, d, m, x, R, g, m.runs[i])
  BY <1>1 DEF Counted
<1>5. L > 0
  <2>1. m.runs[K].frame \in 1..L
    BY <1>2, <1>4 DEF RunOwes
  <2>2. QED
    BY <1>2, <2>1
<1>6. /\ r.frame = L /\ g[1] = 0 /\ m.frames[1].ret = End(c) /\ RunsRise(m)
      /\ \A j \in 2..L : FrameOwes(c, a, d, m, R, g, j)
  BY <1>1, <1>5 DEF Counted
<1>7. RunOwes(c, a, d, m, x, R, g, r)
  BY <1>2, <1>4
<1>8. Owes(c, a, d, g, L, n.ip, x, R) /\ n.ip \notin d.calm /\ n.ip # End(c)
  <2>1. ~(r.frame < L)
    BY <1>2, <1>6
  <2>2. Owes(c, a, d, g, L, n.ip, x, R) /\ n.ip \notin d.calm
    BY <1>6, <1>7, <2>1 DEF RunOwes
  <2>3. QED
    BY <2>2, ChunkTypes DEF Owes
<1>9. \A i \in 1..K - 1 : i \in DOMAIN m.runs /\ m.runs[i].frame < L
  <2>1. SUFFICES ASSUME NEW i \in 1..K - 1
                 PROVE  i \in DOMAIN m.runs /\ m.runs[i].frame < L
    OBVIOUS
  <2>2. i \in DOMAIN m.runs /\ i < K
    BY <1>2
  <2>3. QED
    BY <1>2, <1>6, <2>2 DEF RunsRise
<1>10. ASSUME NEW i \in DOMAIN n.runs
       PROVE  RunOwes(c, a, d, n, x, R, g, n.runs[i])
  <2>1. n.runs[i] = m.runs[i] /\ i \in DOMAIN m.runs
    BY <1>2, <1>3, <1>9
  <2>2. RunOwes(c, a, d, m, x, R, g, m.runs[i])
    BY <1>4, <2>1
  <2>3. QED
    BY <2>1, <2>2 DEF RunOwes
<1>11. RunsRise(n)
  <2>1. \A i \in DOMAIN n.runs : i \in DOMAIN m.runs /\ n.runs[i] = m.runs[i]
    BY <1>2, <1>3, <1>9
  <2>2. QED
    BY <1>6, <2>1 DEF RunsRise
<1>12. ASSUME NEW j \in 2..L
       PROVE  FrameOwes(c, a, d, n, R, g, j)
  <2>1. FrameOwes(c, a, d, m, R, g, j)
    BY <1>6
  <2>2. ASSUME NEW i \in DOMAIN m.runs, m.runs[i].frame = j - 1
        PROVE  i \in DOMAIN n.runs /\ n.runs[i].frame = j - 1
    <3>1. m.runs[i].frame # L
      BY <1>2, <2>2
    <3>2. i # K
      BY <1>6, <3>1
    <3>3. i \in 1..K - 1
      BY <1>2, <3>2
    <3>4. QED
      BY <1>2, <1>3, <2>2, <3>3
  <2>3. QED
    BY <2>1, <2>2 DEF FrameOwes
<1>13. n.runs # <<>> => n.runs[Len(n.runs)].frame < L
  <2>1. SUFFICES ASSUME n.runs # <<>>
                 PROVE  n.runs[Len(n.runs)].frame < L
    OBVIOUS
  <2>2. Len(n.runs) > 0
    BY <2>1, PartTypes
  <2>3. K - 1 \in 1..K - 1
    BY <1>2, <1>3, <2>2
  <2>4. QED
    BY <1>3, <1>9, <2>3
<1>14. Counted(c, a, d, n, x, R, g)
  <2>1. Len(n.frames) = L
    OBVIOUS
  <2>2. QED
    BY <1>2, <1>5, <1>6, <1>8, <1>10, <1>11, <1>12, <1>13, <2>1 DEF Counted
<1>15. QED
  BY <1>1, <1>8, <1>14 DEF Tidy

\* A context that was just entered has nothing open.
LEMMA TidyFresh ==
  ASSUME NEW c \in Chunks, NEW a, NEW d \in Accounts(c), NEW n \in Parts,
         Len(n.frames) = 1, n.frames[1].ret = End(c), n.runs = <<>>,
         n.ip \in Positions(c), d.parks[n.ip] = 0, NEW R \in Nat, d.rank[n.ip] <= R
  PROVE  Tidy(c, a, d, n, 0, R)
<1> DEFINE g == [j \in 1..1 |-> 0]
<1>1. g \in [1..1 -> Nat] /\ g[1] = 0
  OBVIOUS
<1> HIDE DEF g
<1>2. n.ip # End(c)
  BY ChunkTypes
<1>3. Owes(c, a, d, g, 1, n.ip, 0, R)
  BY <1>1 DEF Owes
<1>4. DOMAIN n.runs = {}
  BY PartTypes
<1>5. Counted(c, a, d, n, 0, R, g)
  BY <1>1, <1>2, <1>3, <1>4 DEF Counted, RunsRise
<1>6. QED
  BY <1>1, <1>5 DEF Tidy

\* What the operation that runs next may rely on.
LEMMA TidyHere ==
  ASSUME NEW c \in Chunks, NEW a, NEW d \in Accounts(c), NEW m \in Parts,
         NEW x \in Nat, NEW R \in Nat, Tidy(c, a, d, m, x, R), m.ip \in Positions(c)
  PROVE  /\ d.rank[m.ip] <= R /\ d.rank[m.ip] \in Nat
         /\ d.parks[m.ip] <= x /\ d.parks[m.ip] \in Nat
         /\ m.ip \in a.yields => d.parks[m.ip] = x
<1> PICK L : L = Len(m.frames)
  OBVIOUS
<1>1. PICK g \in [1..L -> Nat] : Counted(c, a, d, m, x, R, g)
  BY DEF Tidy
<1>2. m.ip # End(c)
  BY ChunkTypes
<1>3. L > 0 /\ Owes(c, a, d, g, L, m.ip, x, R)
  BY <1>1, <1>2 DEF Counted
<1>4. d.parks[m.ip] \in Nat /\ d.rank[m.ip] \in Nat
  BY AccountTypes
<1>5. L \in Nat
  BY PartTypes
<1>6. g[L] \in Nat
  BY <1>1, <1>3, <1>5
<1>7. g[L] + d.parks[m.ip] = x /\ d.rank[m.ip] <= R /\ (m.ip \in a.yields => g[L] = 0)
  BY <1>3 DEF Owes
<1> PICK z, p : z = g[L] /\ p = d.parks[m.ip]
  OBVIOUS
<1>8. z \in Nat /\ p \in Nat /\ z + p = x /\ (m.ip \in a.yields => z = 0)
  BY <1>4, <1>6, <1>7
<1>9. p <= x /\ (m.ip \in a.yields => p = x)
  BY <1>8
<1>10. QED
  BY <1>4, <1>7, <1>9

LEMMA TidyDone ==
  ASSUME NEW c, NEW a, NEW d, NEW m, NEW x, NEW R, Tidy(c, a, d, m, x, R), Len(m.frames) = 0
  PROVE  x = 0
  BY DEF Tidy, Counted

(* ---- what one context has of a machine ---------------------------------------- *)

LEMMA DropAppend ==
  ASSUME NEW S, NEW s \in Seq(S), NEW e \in S, NEW n \in Nat, n <= Len(s)
  PROVE  Drop(Append(s, e), n) = Append(Drop(s, n), e)
<1> PICK L : L = Len(s)
  OBVIOUS
<1> PICK u : u = Append(s, e)
  OBVIOUS
<1> PICK t : t = Drop(s, n)
  OBVIOUS
<1>1. L \in Nat /\ n <= L
  BY LenNat
<1>2. u \in Seq(S) /\ Len(u) = L + 1 /\ u[L + 1] = e /\ \A i \in 1..L : u[i] = s[i]
  BY AppendSeq
<1>3. t \in Seq(S) /\ Len(t) = L - n /\ \A i \in 1..L - n : t[i] = s[n + i]
  BY DropSeq
<1>4. /\ Drop(u, n) \in Seq(S) /\ Len(Drop(u, n)) = L + 1 - n
      /\ \A i \in 1..L + 1 - n : Drop(u, n)[i] = u[n + i]
  <2>1. n <= Len(u)
    BY <1>1, <1>2
  <2>2. /\ Drop(u, n) \in Seq(S) /\ Len(Drop(u, n)) = Len(u) - n
        /\ \A i \in 1..Len(u) - n : Drop(u, n)[i] = u[n + i]
    <3>1. u \in Seq(S)
      BY <1>2
    <3>2. QED
      BY <2>1, <3>1, DropSeq
  <2>3. QED
    BY <1>2, <2>2
<1>5. /\ Append(t, e) \in Seq(S) /\ Len(Append(t, e)) = L - n + 1
      /\ Append(t, e)[L - n + 1] = e /\ \A i \in 1..L - n : Append(t, e)[i] = t[i]
  BY <1>3, AppendSeq
<1>6. ASSUME NEW i \in 1..L + 1 - n
      PROVE  Drop(u, n)[i] = Append(t, e)[i]
  <2>1. CASE i = L - n + 1
    <3>1. n + i = L + 1
      BY <1>1, <2>1
    <3>2. QED
      BY <1>2, <1>4, <1>5, <2>1, <3>1
  <2>2. CASE i # L - n + 1
    <3>1. i \in 1..L - n /\ n + i \in 1..L
      BY <1>1, <2>2
    <3>2. QED
      BY <1>2, <1>3, <1>4, <1>5, <3>1
  <2>3. QED
    BY <2>1, <2>2
<1>7. Len(Drop(u, n)) = Len(Append(t, e))
  BY <1>1, <1>4, <1>5
<1>8. Drop(u, n) = Append(t, e)
  BY <1>4, <1>5, <1>6, <1>7, SeqEqual
<1>9. QED
  BY <1>8

LEMMA DropFront ==
  ASSUME NEW S, NEW s \in Seq(S), NEW n \in Nat, n < Len(s)
  PROVE  /\ Drop(Front(s), n) = Front(Drop(s, n))
         /\ Drop(s, n) # <<>> /\ s # <<>>
         /\ Tip(Drop(s, n)) = Tip(s)
<1> PICK L : L = Len(s)
  OBVIOUS
<1> PICK u : u = Front(s)
  OBVIOUS
<1> PICK t : t = Drop(s, n)
  OBVIOUS
<1>1. L \in Nat /\ n < L /\ s # <<>>
  BY LenNat
<1>2. u \in Seq(S) /\ Len(u) = L - 1 /\ \A i \in 1..L - 1 : u[i] = s[i]
  BY <1>1, FrontSeq
<1>3. t \in Seq(S) /\ Len(t) = L - n /\ \A i \in 1..L - n : t[i] = s[n + i]
  <2>1. n <= Len(s)
    BY <1>1
  <2>2. QED
    BY <2>1, DropSeq
<1>4. t # <<>>
  BY <1>1, <1>3, LenNat
<1>5. /\ Drop(u, n) \in Seq(S) /\ Len(Drop(u, n)) = L - 1 - n
      /\ \A i \in 1..L - 1 - n : Drop(u, n)[i] = u[n + i]
  <2>1. n <= Len(u)
    BY <1>1, <1>2
  <2>2. /\ Drop(u, n) \in Seq(S) /\ Len(Drop(u, n)) = Len(u) - n
        /\ \A i \in 1..Len(u) - n : Drop(u, n)[i] = u[n + i]
    <3>1. u \in Seq(S)
      BY <1>2
    <3>2. QED
      BY <2>1, <3>1, DropSeq
  <2>3. QED
    BY <1>2, <2>2
<1>6. /\ Front(t) \in Seq(S) /\ Len(Front(t)) = L - n - 1
      /\ \A i \in 1..L - n - 1 : Front(t)[i] = t[i]
  BY <1>3, <1>4, FrontSeq
<1>7. ASSUME NEW i \in 1..L - 1 - n
      PROVE  Drop(u, n)[i] = Front(t)[i]
  <2>1. i \in 1..L - n - 1 /\ i \in 1..L - n /\ n + i \in 1..L - 1
    BY <1>1
  <2>2. QED
    BY <1>2, <1>3, <1>5, <1>6, <2>1
<1>8. Len(Drop(u, n)) = Len(Front(t))
  BY <1>1, <1>5, <1>6
<1>9. Drop(u, n) = Front(t)
  BY <1>5, <1>6, <1>7, <1>8, SeqEqual
<1>10. Tip(t) = Tip(s)
  <2>1. L - n \in 1..L - n /\ n + (L - n) = L
    BY <1>1
  <2>2. t[L - n] = s[L]
    BY <1>3, <2>1
  <2>3. QED
    BY <1>1, <1>3, <1>4, <2>2 DEF Tip
<1>11. QED
  BY <1>1, <1>4, <1>9, <1>10

LEMMA DropTruncate ==
  ASSUME NEW S, NEW s \in Seq(S), NEW n \in Nat, n <= Len(s), NEW k \in Nat, n <= k
  PROVE  Drop(Truncate(s, k), n) = Truncate(Drop(s, n), k - n)
<1> PICK L : L = Len(s)
  OBVIOUS
<1> PICK u : u = Truncate(s, k)
  OBVIOUS
<1> PICK t : t = Drop(s, n)
  OBVIOUS
<1>1. L \in Nat /\ n <= L /\ k - n \in Nat
  BY LenNat
<1>2. t \in Seq(S) /\ Len(t) = L - n /\ \A i \in 1..L - n : t[i] = s[n + i]
  BY DropSeq
<1>3. CASE k <= L
  <2>1. u \in Seq(S) /\ Len(u) = k /\ \A i \in 1..k : u[i] = s[i]
    BY <1>3, TruncateSeq
  <2>2. /\ Drop(u, n) \in Seq(S) /\ Len(Drop(u, n)) = k - n
        /\ \A i \in 1..k - n : Drop(u, n)[i] = u[n + i]
    BY <2>1, DropSeq
  <2>3. /\ Truncate(t, k - n) \in Seq(S) /\ Len(Truncate(t, k - n)) = k - n
        /\ \A i \in 1..k - n : Truncate(t, k - n)[i] = t[i]
    <3>1. k - n <= Len(t)
      BY <1>1, <1>2, <1>3
    <3>2. QED
      BY <1>1, <1>2, <3>1, TruncateSeq
  <2>4. ASSUME NEW i \in 1..k - n
        PROVE  Drop(u, n)[i] = Truncate(t, k - n)[i]
    <3>1. i \in 1..L - n /\ n + i \in 1..k
      BY <1>1, <1>3
    <3>2. QED
      BY <1>2, <2>1, <2>2, <2>3, <3>1
  <2>5. QED
    BY <2>2, <2>3, <2>4, SeqEqual
<1>4. CASE ~(k <= L)
  <2>1. u = s
    BY <1>4 DEF Truncate
  <2>2. ~(k - n <= Len(t))
    BY <1>1, <1>2, <1>4
  <2>3. Truncate(t, k - n) = t
    BY <2>2 DEF Truncate
  <2>4. QED
    BY <2>1, <2>3
<1>5. QED
  BY <1>3, <1>4

LEMMA DropAll ==
  ASSUME NEW S, NEW s \in Seq(S)
  PROVE  Drop(s, Len(s)) = <<>>
<1>1. Len(s) \in Nat
  BY LenNat
<1>2. Drop(s, Len(s)) \in Seq(S) /\ Len(Drop(s, Len(s))) = 0
  BY <1>1, DropSeq
<1>3. QED
  BY <1>2, EmptySeq

LEMMA OwnFrameType ==
  ASSUME NEW f \in Frame, NEW b \in Int
  PROVE  /\ OwnFrame(f, b) \in Frame
         /\ OwnFrame(f, b) = [ret |-> f.ret, base |-> f.base - b, slot |-> f.slot, depth |-> 0, own |-> f.own]
<1> PICK z : z = f.base - b
  OBVIOUS
<1>1. z \in Int
  BY DEF Frame
<1>2. OwnFrame(f, b) = [f EXCEPT !.base = z, !.depth = 0]
  BY DEF OwnFrame
<1> PICK g : g = [f EXCEPT !.base = z, !.depth = 0]
  OBVIOUS
<1>3. g = [ret |-> f.ret, base |-> z, slot |-> f.slot, depth |-> 0, own |-> f.own]
  <2>1. g \in Frame /\ g.ret = f.ret /\ g.base = z /\ g.slot = f.slot /\ g.depth = 0 /\ g.own = f.own
    BY <1>1 DEF Frame
  <2>2. QED
    BY <2>1 DEF Frame
<1>4. [ret |-> f.ret, base |-> z, slot |-> f.slot, depth |-> 0, own |-> f.own] \in Frame
  BY <1>1 DEF Frame
<1>5. QED
  BY <1>2, <1>3, <1>4

\* Where a context's part of the machine begins.
Lows == [base : Nat, frame : Nat, place : Nat, parked : Nat]

LEMMA OwnRunType ==
  ASSUME NEW r \in Run, NEW low \in Lows
  PROVE  /\ OwnRun(r, low) \in Run
         /\ OwnRun(r, low) = [ kind |-> r.kind, it |-> r.it, left |-> r.left,
                               base |-> r.base - low.base, frame |-> r.frame - low.frame, ip |-> r.ip ]
<1> PICK z, w : z = r.base - low.base /\ w = r.frame - low.frame
  OBVIOUS
<1>1. z \in Int /\ w \in Int
  BY DEF Run, Lows
<1>2. OwnRun(r, low) = [r EXCEPT !.base = z, !.frame = w]
  BY DEF OwnRun
<1> PICK g : g = [r EXCEPT !.base = z, !.frame = w]
  OBVIOUS
<1>3. g = [kind |-> r.kind, it |-> r.it, left |-> r.left, base |-> z, frame |-> w, ip |-> r.ip]
  <2>1. /\ g \in Run /\ g.kind = r.kind /\ g.it = r.it /\ g.left = r.left
        /\ g.base = z /\ g.frame = w /\ g.ip = r.ip
    BY <1>1 DEF Run
  <2>2. QED
    BY <2>1 DEF Run
<1>4. [kind |-> r.kind, it |-> r.it, left |-> r.left, base |-> z, frame |-> w, ip |-> r.ip] \in Run
  BY <1>1 DEF Run
<1>5. QED
  BY <1>2, <1>3, <1>4

LEMMA ViewSeq ==
  ASSUME NEW S, NEW k \in Nat, NEW s, s \in [1..k -> S]
  PROVE  s \in Seq(S) /\ Len(s) = k
  BY SeqDef, LenProperties

\* The entries of s above the n-th, each seen through F.
Into(F, S) == F \in [S -> S]
Seen(s, n, F) == [j \in 1..Len(s) - n |-> F[s[n + j]]]
IsSeen(t, s, n, F, S) ==
  /\ t \in Seq(S) /\ Len(t) = Len(s) - n
  /\ \A j \in 1..Len(s) - n : t[j] = F[s[n + j]]

LEMMA SeenSeq ==
  ASSUME NEW S, NEW F, Into(F, S), NEW s \in Seq(S), NEW n \in Nat, n <= Len(s)
  PROVE  IsSeen(Seen(s, n, F), s, n, F, S)
<1> PICK k : k = Len(s) - n
  OBVIOUS
<1>1. k \in Nat /\ Len(s) \in Nat
  BY LenNat
<1>2. \A j \in 1..k : n + j \in 1..Len(s)
  BY <1>1
<1>3. \A j \in 1..k : F[s[n + j]] \in S
  BY <1>2, LenNat DEF Into
<1> PICK t : t = [j \in 1..k |-> F[s[n + j]]]
  OBVIOUS
<1>4. t = Seen(s, n, F)
  BY DEF Seen
<1>5. t \in [1..k -> S] /\ \A j \in 1..k : t[j] = F[s[n + j]]
  BY <1>3
<1>6. t \in Seq(S) /\ Len(t) = k
  BY <1>1, <1>5, ViewSeq
<1>7. QED
  BY <1>4, <1>5, <1>6 DEF IsSeen

LEMMA SeenAppend ==
  ASSUME NEW S, NEW F, Into(F, S), NEW s \in Seq(S), NEW e \in S, NEW n \in Nat, n <= Len(s)
  PROVE  Seen(Append(s, e), n, F) = Append(Seen(s, n, F), F[e])
<1>0. IsSeen(Seen(s, n, F), s, n, F, S)
  BY SeenSeq
<1> PICK L : L = Len(s)
  OBVIOUS
<1> PICK u : u = Append(s, e)
  OBVIOUS
<1> PICK t : t = Seen(s, n, F)
  OBVIOUS
<1> PICK v : v = Append(t, F[e])
  OBVIOUS
<1> PICK w : w = Seen(u, n, F)
  OBVIOUS
<1>1. L \in Nat /\ n <= L /\ F[e] \in S
  BY LenNat DEF Into
<1>2. u \in Seq(S) /\ Len(u) = L + 1 /\ u[L + 1] = e /\ \A i \in 1..L : u[i] = s[i]
  BY AppendSeq
<1>3. t \in Seq(S) /\ Len(t) = L - n /\ \A i \in 1..L - n : t[i] = F[s[n + i]]
  BY <1>0 DEF IsSeen
<1>4. w \in Seq(S) /\ Len(w) = L + 1 - n /\ \A i \in 1..L + 1 - n : w[i] = F[u[n + i]]
  <2>1. n <= Len(u) /\ u \in Seq(S)
    BY <1>1, <1>2
  <2>2. IsSeen(Seen(u, n, F), u, n, F, S)
    BY <2>1, SeenSeq
  <2>3. QED
    BY <1>2, <2>2 DEF IsSeen
<1>5. v \in Seq(S) /\ Len(v) = Len(t) + 1 /\ v[Len(t) + 1] = F[e] /\ \A i \in 1..Len(t) : v[i] = t[i]
  BY <1>1, <1>3, AppendSeq
<1>6. ASSUME NEW i \in 1..L + 1 - n
      PROVE  w[i] = v[i]
  <2>1. CASE i = L - n + 1
    <3>1. n + i = L + 1
      BY <1>1, <2>1
    <3>2. w[i] = F[e]
      BY <1>2, <1>4, <3>1
    <3>3. v[i] = F[e]
      BY <1>3, <1>5, <2>1
    <3>4. QED
      BY <3>2, <3>3
  <2>2. CASE i # L - n + 1
    <3>1. i \in 1..L - n /\ n + i \in 1..L
      BY <1>1, <2>2
    <3>2. w[i] = F[s[n + i]]
      BY <1>2, <1>4, <3>1
    <3>3. v[i] = t[i]
      BY <1>3, <1>5, <3>1
    <3>4. QED
      BY <1>3, <3>1, <3>2, <3>3
  <2>3. QED
    BY <2>1, <2>2
<1>7. Len(w) = Len(v)
  BY <1>1, <1>3, <1>4, <1>5
<1>8. w = v
  BY <1>4, <1>5, <1>6, <1>7, SeqEqual
<1>9. QED
  BY <1>8

LEMMA SeenFront ==
  ASSUME NEW S, NEW F, Into(F, S), NEW s \in Seq(S), NEW n \in Nat, n < Len(s)
  PROVE  /\ Seen(Front(s), n, F) = Front(Seen(s, n, F)) /\ Seen(s, n, F) # <<>>
         /\ Seen(s, n, F)[Len(Seen(s, n, F))] = F[s[Len(s)]]
<1>0. IsSeen(Seen(s, n, F), s, n, F, S)
  <2>1. Len(s) \in Nat /\ n <= Len(s)
    BY LenNat
  <2>2. QED
    BY <2>1, SeenSeq
<1> PICK L : L = Len(s)
  OBVIOUS
<1> PICK u : u = Front(s)
  OBVIOUS
<1> PICK t : t = Seen(s, n, F)
  OBVIOUS
<1> PICK w : w = Seen(u, n, F)
  OBVIOUS
<1> PICK v : v = Front(t)
  OBVIOUS
<1>1. L \in Nat /\ n < L /\ s # <<>>
  BY LenNat
<1>2. u \in Seq(S) /\ Len(u) = L - 1 /\ \A i \in 1..L - 1 : u[i] = s[i]
  BY <1>1, FrontSeq
<1>3. t \in Seq(S) /\ Len(t) = L - n /\ \A i \in 1..L - n : t[i] = F[s[n + i]]
  BY <1>0 DEF IsSeen
<1>4. t # <<>>
  BY <1>1, <1>3, LenNat
<1>5. w \in Seq(S) /\ Len(w) = L - 1 - n /\ \A i \in 1..L - 1 - n : w[i] = F[u[n + i]]
  <2>1. n <= Len(u) /\ u \in Seq(S)
    BY <1>1, <1>2
  <2>2. IsSeen(Seen(u, n, F), u, n, F, S)
    BY <2>1, SeenSeq
  <2>3. QED
    BY <1>2, <2>2 DEF IsSeen
<1>6. v \in Seq(S) /\ Len(v) = Len(t) - 1 /\ \A i \in 1..Len(t) - 1 : v[i] = t[i]
  BY <1>3, <1>4, FrontSeq
<1>7. ASSUME NEW i \in 1..L - 1 - n
      PROVE  w[i] = v[i]
  <2>1. i \in 1..Len(t) - 1 /\ i \in 1..L - n /\ n + i \in 1..L - 1
    BY <1>1, <1>3
  <2>2. w[i] = F[s[n + i]]
    BY <1>2, <1>5, <2>1
  <2>3. v[i] = t[i]
    BY <1>6, <2>1
  <2>4. QED
    BY <1>3, <2>1, <2>2, <2>3
<1>8. Len(w) = Len(v)
  BY <1>1, <1>3, <1>5, <1>6
<1>9. w = v
  BY <1>5, <1>6, <1>7, <1>8, SeqEqual
<1>10. t[Len(t)] = F[s[L]]
  <2>1. L - n \in 1..L - n /\ n + (L - n) = L
    BY <1>1
  <2>2. QED
    BY <1>3, <2>1
<1>11. QED
  BY <1>4, <1>9, <1>10

\* A sequence with another last entry.
WithLast(s, e) == [s EXCEPT ![Len(s)] = e]

IsWithLast(t, s, e, S) ==
  /\ t \in Seq(S) /\ Len(t) = Len(s)
  /\ \A i \in 1..Len(s) : t[i] = IF i = Len(s) THEN e ELSE s[i]

LEMMA WithLastSeq ==
  ASSUME NEW S, NEW s \in Seq(S), s # <<>>, NEW e \in S
  PROVE  IsWithLast(WithLast(s, e), s, e, S)
<1>1. Len(s) \in 1..Len(s)
  BY LenNat
<1>2. QED
  BY <1>1, ExceptSeq DEF WithLast, IsWithLast

LEMMA SeenLast ==
  ASSUME NEW S, NEW F, Into(F, S), NEW s \in Seq(S), NEW n \in Nat, n < Len(s), NEW e \in S
  PROVE  Seen(WithLast(s, e), n, F) = WithLast(Seen(s, n, F), F[e])
<1>0. IsSeen(Seen(s, n, F), s, n, F, S)
  <2>1. Len(s) \in Nat /\ n <= Len(s)
    BY LenNat
  <2>2. QED
    BY <2>1, SeenSeq
<1> PICK L : L = Len(s)
  OBVIOUS
<1> PICK u : u = WithLast(s, e)
  OBVIOUS
<1> PICK t : t = Seen(s, n, F)
  OBVIOUS
<1> PICK w : w = Seen(u, n, F)
  OBVIOUS
<1> PICK K : K = Len(t)
  OBVIOUS
<1> PICK v : v = WithLast(t, F[e])
  OBVIOUS
<1>1. L \in Nat /\ n < L /\ n <= L /\ L \in 1..L /\ F[e] \in S
  BY LenNat DEF Into
<1>2. u \in Seq(S) /\ Len(u) = L /\ \A i \in 1..L : u[i] = IF i = L THEN e ELSE s[i]
  <2>1. s # <<>>
    BY <1>1, LenNat
  <2>2. IsWithLast(WithLast(s, e), s, e, S)
    BY <2>1, WithLastSeq
  <2>3. QED
    BY <2>2 DEF IsWithLast
<1>3. t \in Seq(S) /\ K = L - n /\ \A i \in 1..L - n : t[i] = F[s[n + i]]
  BY <1>0 DEF IsSeen
<1>4. K \in Nat /\ K \in 1..Len(t)
  BY <1>1, <1>3
<1>5. w \in Seq(S) /\ Len(w) = K /\ \A i \in 1..K : w[i] = F[u[n + i]]
  <2>1. n <= Len(u) /\ u \in Seq(S)
    BY <1>1, <1>2
  <2>2. IsSeen(Seen(u, n, F), u, n, F, S)
    BY <2>1, SeenSeq
  <2>3. QED
    BY <1>2, <1>3, <2>2 DEF IsSeen
<1>6. v \in Seq(S) /\ Len(v) = K /\ \A i \in 1..K : v[i] = IF i = K THEN F[e] ELSE t[i]
  <2>1. t # <<>>
    BY <1>1, SeenFront
  <2>2. IsWithLast(v, t, F[e], S)
    BY <1>1, <1>3, <2>1, WithLastSeq
  <2>3. v \in Seq(S) /\ Len(v) = Len(t) /\ \A i \in 1..Len(t) : v[i] = IF i = Len(t) THEN F[e] ELSE t[i]
    BY <2>2 DEF IsWithLast
  <2>4. QED
    BY <2>3
<1>7. ASSUME NEW i \in 1..K
      PROVE  w[i] = v[i]
  <2>1. i \in 1..L - n /\ n + i \in 1..L /\ (n + i = L <=> i = K)
    BY <1>1, <1>3
  <2>2. CASE i = K
    <3>1. w[i] = F[e]
      BY <1>2, <1>5, <2>1, <2>2
    <3>2. QED
      BY <1>6, <2>2, <3>1
  <2>3. CASE i # K
    <3>1. w[i] = F[s[n + i]]
      BY <1>2, <1>5, <2>1, <2>3
    <3>2. v[i] = t[i]
      BY <1>6, <2>3
    <3>3. QED
      BY <1>3, <2>1, <3>1, <3>2
  <2>4. QED
    BY <2>2, <2>3
<1>8. w = v
  BY <1>5, <1>6, <1>7, SeqEqual
<1>9. QED
  BY <1>8

LEMMA FramesSeen ==
  ASSUME NEW fs \in Seq(Frame), NEW n \in Nat, NEW b \in Int, n <= Len(fs),
         NEW F, F = [f \in Frame |-> OwnFrame(f, b)]
  PROVE  OwnFrames(fs, n, b) = Seen(fs, n, F) /\ Into(F, Frame) /\ \A f \in Frame : F[f] = OwnFrame(f, b)
<1>1. \A f \in Frame : F[f] = OwnFrame(f, b) /\ OwnFrame(f, b) \in Frame
  BY OwnFrameType
<1>2. Into(F, Frame)
  BY <1>1 DEF Into
<1> PICK k : k = Len(fs) - n
  OBVIOUS
<1>3. \A j \in 1..k : fs[n + j] \in Frame
  <2>1. Len(fs) \in Nat
    BY LenNat
  <2>2. \A j \in 1..k : n + j \in 1..Len(fs)
    BY <2>1
  <2>3. QED
    BY <2>2, LenNat
<1>4. \A j \in 1..k : F[fs[n + j]] = OwnFrame(fs[n + j], b)
  BY <1>1, <1>3
<1>5. [j \in 1..k |-> F[fs[n + j]]] = [j \in 1..k |-> OwnFrame(fs[n + j], b)]
  BY <1>4
<1>6. QED
  BY <1>1, <1>2, <1>5 DEF OwnFrames, Seen

LEMMA RunsSeen ==
  ASSUME NEW rs \in Seq(Run), NEW low \in Lows,
         low.place <= Len(rs), NEW F, F = [r \in Run |-> OwnRun(r, low)]
  PROVE  OwnRuns(rs, low) = Seen(rs, low.place, F) /\ Into(F, Run) /\ \A r \in Run : F[r] = OwnRun(r, low)
<1>1. \A r \in Run : F[r] = OwnRun(r, low) /\ OwnRun(r, low) \in Run
  BY OwnRunType
<1>2. Into(F, Run)
  BY <1>1 DEF Into
<1> PICK n : n = low.place
  OBVIOUS
<1> PICK k : k = Len(rs) - n
  OBVIOUS
<1>3. \A j \in 1..k : rs[n + j] \in Run
  <2>1. Len(rs) \in Nat /\ n \in Nat
    BY LenNat DEF Lows
  <2>2. \A j \in 1..k : n + j \in 1..Len(rs)
    BY <2>1
  <2>3. QED
    BY <2>2, LenNat
<1>4. \A j \in 1..k : F[rs[n + j]] = OwnRun(rs[n + j], low)
  BY <1>1, <1>3
<1>5. [j \in 1..k |-> F[rs[n + j]]] = [j \in 1..k |-> OwnRun(rs[n + j], low)]
  BY <1>4
<1>6. QED
  BY <1>1, <1>2, <1>5 DEF OwnRuns, Seen

\* The frames of a context, and its runs, are the machine's seen through a function.
LEMMA FramesThrough ==
  ASSUME NEW n \in Nat, NEW b \in Int
  PROVE  \E F : /\ Into(F, Frame) /\ \A f \in Frame : F[f] = OwnFrame(f, b)
                /\ \A fs \in Seq(Frame) : n <= Len(fs) => OwnFrames(fs, n, b) = Seen(fs, n, F)
<1> PICK F : F = [g \in Frame |-> OwnFrame(g, b)]
  OBVIOUS
<1>1. <<>> \in Seq(Frame) /\ Into(F, Frame) /\ \A f \in Frame : F[f] = OwnFrame(f, b)
  BY OwnFrameType, EmptySeq DEF Into
<1>2. \A fs \in Seq(Frame) : n <= Len(fs) => OwnFrames(fs, n, b) = Seen(fs, n, F)
  BY FramesSeen
<1>3. QED
  BY <1>1, <1>2

LEMMA RunsThrough ==
  ASSUME NEW low \in Lows
  PROVE  \E F : /\ Into(F, Run) /\ \A r \in Run : F[r] = OwnRun(r, low)
                /\ \A rs \in Seq(Run) : low.place <= Len(rs) => OwnRuns(rs, low) = Seen(rs, low.place, F)
<1> PICK F : F = [g \in Run |-> OwnRun(g, low)]
  OBVIOUS
<1>1. Into(F, Run) /\ \A r \in Run : F[r] = OwnRun(r, low)
  BY OwnRunType DEF Into
<1>2. \A rs \in Seq(Run) : low.place <= Len(rs) => OwnRuns(rs, low) = Seen(rs, low.place, F)
  BY RunsSeen
<1>3. QED
  BY <1>1, <1>2

LEMMA FramesView ==
  ASSUME NEW fs \in Seq(Frame), NEW n \in Nat, NEW b \in Int, n <= Len(fs)
  PROVE  /\ OwnFrames(fs, n, b) \in Seq(Frame) /\ Len(OwnFrames(fs, n, b)) = Len(fs) - n
         /\ \A j \in 1..Len(fs) - n : OwnFrames(fs, n, b)[j] = OwnFrame(fs[n + j], b)
<1> PICK F : /\ Into(F, Frame) /\ \A g \in Frame : F[g] = OwnFrame(g, b)
             /\ \A gs \in Seq(Frame) : n <= Len(gs) => OwnFrames(gs, n, b) = Seen(gs, n, F)
  BY FramesThrough
<1>1. OwnFrames(fs, n, b) = Seen(fs, n, F) /\ Into(F, Frame) /\ \A f \in Frame : F[f] = OwnFrame(f, b)
  OBVIOUS
<1>2. IsSeen(Seen(fs, n, F), fs, n, F, Frame)
  BY <1>1, SeenSeq
<1>3. \A j \in 1..Len(fs) - n : fs[n + j] \in Frame
  <2>1. Len(fs) \in Nat
    BY LenNat
  <2>2. \A j \in 1..Len(fs) - n : n + j \in 1..Len(fs)
    BY <2>1
  <2>3. QED
    BY <2>2, LenNat
<1>4. QED
  BY <1>1, <1>2, <1>3 DEF IsSeen

LEMMA RunsView ==
  ASSUME NEW rs \in Seq(Run), NEW low \in Lows,
         low.place <= Len(rs)
  PROVE  /\ OwnRuns(rs, low) \in Seq(Run) /\ Len(OwnRuns(rs, low)) = Len(rs) - low.place
         /\ \A j \in 1..Len(rs) - low.place : OwnRuns(rs, low)[j] = OwnRun(rs[low.place + j], low)
<1> PICK F : /\ Into(F, Run) /\ \A g \in Run : F[g] = OwnRun(g, low)
             /\ \A gs \in Seq(Run) : low.place <= Len(gs) => OwnRuns(gs, low) = Seen(gs, low.place, F)
  BY RunsThrough
<1> PICK n : n = low.place
  OBVIOUS
<1>1. n \in Nat /\ OwnRuns(rs, low) = Seen(rs, n, F) /\ Into(F, Run) /\ \A r \in Run : F[r] = OwnRun(r, low)
  BY DEF Lows
<1>2. IsSeen(Seen(rs, n, F), rs, n, F, Run)
  BY <1>1, SeenSeq
<1>3. \A j \in 1..Len(rs) - n : rs[n + j] \in Run
  <2>1. Len(rs) \in Nat
    BY LenNat
  <2>2. \A j \in 1..Len(rs) - n : n + j \in 1..Len(rs)
    BY <1>1, <2>1
  <2>3. QED
    BY <2>2, LenNat
<1>4. QED
  BY <1>1, <1>2, <1>3 DEF IsSeen

LEMMA FramesAppend ==
  ASSUME NEW fs \in Seq(Frame), NEW n \in Nat, NEW b \in Int, n <= Len(fs), NEW f \in Frame
  PROVE  OwnFrames(Append(fs, f), n, b) = Append(OwnFrames(fs, n, b), OwnFrame(f, b))
<1> PICK F : /\ Into(F, Frame) /\ \A g \in Frame : F[g] = OwnFrame(g, b)
             /\ \A gs \in Seq(Frame) : n <= Len(gs) => OwnFrames(gs, n, b) = Seen(gs, n, F)
  BY FramesThrough
<1> PICK u : u = Append(fs, f)
  OBVIOUS
<1>1. OwnFrames(fs, n, b) = Seen(fs, n, F) /\ Into(F, Frame) /\ F[f] = OwnFrame(f, b)
  OBVIOUS
<1>2. OwnFrames(u, n, b) = Seen(u, n, F)
  <2>1. u \in Seq(Frame) /\ Len(u) = Len(fs) + 1 /\ Len(fs) \in Nat
    BY AppendSeq, LenNat
  <2>2. n <= Len(u)
    BY <2>1
  <2>3. QED
    BY <2>1, <2>2
<1>3. Seen(Append(fs, f), n, F) = Append(Seen(fs, n, F), F[f])
  BY <1>1, SeenAppend
<1>4. QED
  BY <1>1, <1>2, <1>3

LEMMA RunsAppend ==
  ASSUME NEW rs \in Seq(Run), NEW low \in Lows,
         low.place <= Len(rs), NEW r \in Run
  PROVE  OwnRuns(Append(rs, r), low) = Append(OwnRuns(rs, low), OwnRun(r, low))
<1> PICK F : /\ Into(F, Run) /\ \A g \in Run : F[g] = OwnRun(g, low)
             /\ \A gs \in Seq(Run) : low.place <= Len(gs) => OwnRuns(gs, low) = Seen(gs, low.place, F)
  BY RunsThrough
<1> PICK u : u = Append(rs, r)
  OBVIOUS
<1> PICK n : n = low.place
  OBVIOUS
<1>1. n \in Nat /\ n <= Len(rs) /\ OwnRuns(rs, low) = Seen(rs, n, F) /\ Into(F, Run) /\ F[r] = OwnRun(r, low)
  BY DEF Lows
<1>2. OwnRuns(u, low) = Seen(u, n, F)
  <2>1. u \in Seq(Run) /\ Len(u) = Len(rs) + 1 /\ Len(rs) \in Nat
    BY AppendSeq, LenNat
  <2>2. low.place <= Len(u)
    BY <1>1, <2>1
  <2>3. QED
    BY <2>1, <2>2
<1>3. Seen(Append(rs, r), n, F) = Append(Seen(rs, n, F), F[r])
  BY <1>1, SeenAppend
<1>4. QED
  BY <1>1, <1>2, <1>3

LEMMA FramesFront ==
  ASSUME NEW fs \in Seq(Frame), NEW n \in Nat, NEW b \in Int, n < Len(fs)
  PROVE  /\ OwnFrames(Front(fs), n, b) = Front(OwnFrames(fs, n, b)) /\ OwnFrames(fs, n, b) # <<>>
         /\ OwnFrames(fs, n, b)[Len(OwnFrames(fs, n, b))] = OwnFrame(fs[Len(fs)], b)
<1> PICK F : /\ Into(F, Frame) /\ \A g \in Frame : F[g] = OwnFrame(g, b)
             /\ \A gs \in Seq(Frame) : n <= Len(gs) => OwnFrames(gs, n, b) = Seen(gs, n, F)
  BY FramesThrough
<1> PICK u : u = Front(fs)
  OBVIOUS
<1>0. Len(fs) \in Nat /\ n <= Len(fs) /\ fs # <<>> /\ fs[Len(fs)] \in Frame
  <2>1. Len(fs) \in Nat /\ \A i \in 1..Len(fs) : fs[i] \in Frame
    BY LenNat
  <2>2. Len(fs) \in 1..Len(fs) /\ Len(fs) > 0
    BY <2>1
  <2>3. QED
    BY <2>1, <2>2, LenNat
<1>1. OwnFrames(fs, n, b) = Seen(fs, n, F) /\ Into(F, Frame) /\ F[fs[Len(fs)]] = OwnFrame(fs[Len(fs)], b)
  BY <1>0
<1>2. OwnFrames(u, n, b) = Seen(u, n, F)
  <2>1. u \in Seq(Frame) /\ Len(u) = Len(fs) - 1
    BY <1>0, FrontSeq
  <2>2. n <= Len(u)
    BY <1>0, <2>1
  <2>3. QED
    BY <2>1, <2>2
<1>3. /\ Seen(u, n, F) = Front(Seen(fs, n, F)) /\ Seen(fs, n, F) # <<>>
      /\ Seen(fs, n, F)[Len(Seen(fs, n, F))] = F[fs[Len(fs)]]
  BY <1>1, SeenFront
<1>4. QED
  BY <1>1, <1>2, <1>3

LEMMA RunsFront ==
  ASSUME NEW rs \in Seq(Run), NEW low \in Lows,
         low.place < Len(rs)
  PROVE  /\ OwnRuns(Front(rs), low) = Front(OwnRuns(rs, low)) /\ OwnRuns(rs, low) # <<>>
         /\ OwnRuns(rs, low)[Len(OwnRuns(rs, low))] = OwnRun(rs[Len(rs)], low)
<1> PICK F : /\ Into(F, Run) /\ \A g \in Run : F[g] = OwnRun(g, low)
             /\ \A gs \in Seq(Run) : low.place <= Len(gs) => OwnRuns(gs, low) = Seen(gs, low.place, F)
  BY RunsThrough
<1> PICK u : u = Front(rs)
  OBVIOUS
<1> PICK n : n = low.place
  OBVIOUS
<1>0. n \in Nat /\ n < Len(rs) /\ Len(rs) \in Nat /\ low.place <= Len(rs) /\ rs # <<>> /\ rs[Len(rs)] \in Run
  <2>1. n \in Nat /\ Len(rs) \in Nat /\ \A i \in 1..Len(rs) : rs[i] \in Run
    BY LenNat DEF Lows
  <2>2. Len(rs) \in 1..Len(rs) /\ Len(rs) > 0
    BY <2>1
  <2>3. QED
    BY <2>1, <2>2, LenNat
<1>1. OwnRuns(rs, low) = Seen(rs, n, F) /\ Into(F, Run) /\ F[rs[Len(rs)]] = OwnRun(rs[Len(rs)], low)
  BY <1>0
<1>2. OwnRuns(u, low) = Seen(u, n, F)
  <2>1. u \in Seq(Run) /\ Len(u) = Len(rs) - 1
    BY <1>0, FrontSeq
  <2>2. low.place <= Len(u)
    BY <1>0, <2>1
  <2>3. QED
    BY <2>1, <2>2
<1>3. /\ Seen(u, n, F) = Front(Seen(rs, n, F)) /\ Seen(rs, n, F) # <<>>
      /\ Seen(rs, n, F)[Len(Seen(rs, n, F))] = F[rs[Len(rs)]]
  BY <1>0, <1>1, SeenFront
<1>4. QED
  BY <1>1, <1>2, <1>3

LEMMA FramesLast ==
  ASSUME NEW fs \in Seq(Frame), NEW n \in Nat, NEW b \in Int, n < Len(fs), NEW f \in Frame
  PROVE  OwnFrames(WithLast(fs, f), n, b) =
           WithLast(OwnFrames(fs, n, b), OwnFrame(f, b))
<1> PICK F : /\ Into(F, Frame) /\ \A g \in Frame : F[g] = OwnFrame(g, b)
             /\ \A gs \in Seq(Frame) : n <= Len(gs) => OwnFrames(gs, n, b) = Seen(gs, n, F)
  BY FramesThrough
<1> PICK u : u = WithLast(fs, f)
  OBVIOUS
<1>0. Len(fs) \in Nat /\ n <= Len(fs) /\ Len(fs) \in 1..Len(fs)
  <2>1. Len(fs) \in Nat
    BY LenNat
  <2>2. QED
    BY <2>1
<1>1. OwnFrames(fs, n, b) = Seen(fs, n, F) /\ Into(F, Frame) /\ F[f] = OwnFrame(f, b)
  BY <1>0
<1>2. OwnFrames(u, n, b) = Seen(u, n, F)
  <2>1. u \in Seq(Frame) /\ Len(u) = Len(fs)
    <3>1. fs # <<>>
      BY <1>0, LenNat
    <3>2. IsWithLast(u, fs, f, Frame)
      BY <3>1, WithLastSeq
    <3>3. QED
      BY <3>2 DEF IsWithLast
  <2>2. n <= Len(u)
    BY <1>0, <2>1
  <2>3. QED
    BY <2>1, <2>2
<1>3. Seen(WithLast(fs, f), n, F) = WithLast(Seen(fs, n, F), F[f])
  BY <1>1, SeenLast
<1>4. QED
  BY <1>1, <1>2, <1>3

LEMMA RunsLast ==
  ASSUME NEW rs \in Seq(Run), NEW low \in Lows,
         low.place < Len(rs), NEW r \in Run
  PROVE  OwnRuns(WithLast(rs, r), low) =
           WithLast(OwnRuns(rs, low), OwnRun(r, low))
<1> PICK F : /\ Into(F, Run) /\ \A g \in Run : F[g] = OwnRun(g, low)
             /\ \A gs \in Seq(Run) : low.place <= Len(gs) => OwnRuns(gs, low) = Seen(gs, low.place, F)
  BY RunsThrough
<1> PICK u : u = WithLast(rs, r)
  OBVIOUS
<1> PICK n : n = low.place
  OBVIOUS
<1>0. n \in Nat /\ n < Len(rs) /\ Len(rs) \in Nat /\ low.place <= Len(rs) /\ Len(rs) \in 1..Len(rs)
  <2>1. Len(rs) \in Nat /\ n \in Nat
    BY LenNat DEF Lows
  <2>2. QED
    BY <2>1
<1>1. OwnRuns(rs, low) = Seen(rs, n, F) /\ Into(F, Run) /\ F[r] = OwnRun(r, low)
  BY <1>0
<1>2. OwnRuns(u, low) = Seen(u, n, F)
  <2>1. u \in Seq(Run) /\ Len(u) = Len(rs)
    <3>1. rs # <<>>
      BY <1>0, LenNat
    <3>2. IsWithLast(u, rs, r, Run)
      BY <3>1, WithLastSeq
    <3>3. QED
      BY <3>2 DEF IsWithLast
  <2>2. QED
    BY <1>0, <2>1
<1>3. Seen(WithLast(rs, r), n, F) = WithLast(Seen(rs, n, F), F[r])
  BY <1>0, <1>1, SeenLast
<1>4. QED
  BY <1>1, <1>2, <1>3

\* The part of m above low begins within it.
Above(m, low) ==
  low.base <= Len(m.stack) /\ low.frame <= Len(m.frames) /\ low.place <= Len(m.runs)

LEMMA SameParts ==
  ASSUME NEW m \in Parts, NEW n \in Parts,
         m.ip = n.ip, m.frames = n.frames, m.stack = n.stack, m.runs = n.runs
  PROVE  m = n
  BY DEF Parts

LEMMA Made ==
  ASSUME NEW p \in Nat, NEW fs \in Seq(Frame), NEW st \in Seq(Val), NEW rs \in Seq(Run)
  PROVE  [ip |-> p, frames |-> fs, stack |-> st, runs |-> rs] \in Parts
  BY DEF Parts

LEMMA OtherIp ==
  ASSUME NEW q \in Parts, NEW p \in Nat
  PROVE  [q EXCEPT !.ip = p] = [ip |-> p, frames |-> q.frames, stack |-> q.stack, runs |-> q.runs]
  BY DEF Parts

LEMMA OtherFrames ==
  ASSUME NEW q \in Parts, NEW fs \in Seq(Frame)
  PROVE  [q EXCEPT !.frames = fs] = [ip |-> q.ip, frames |-> fs, stack |-> q.stack, runs |-> q.runs]
  BY DEF Parts

LEMMA OtherRuns ==
  ASSUME NEW q \in Parts, NEW rs \in Seq(Run)
  PROVE  [q EXCEPT !.runs = rs] = [ip |-> q.ip, frames |-> q.frames, stack |-> q.stack, runs |-> rs]
  BY DEF Parts

LEMMA OwnParts ==
  ASSUME NEW m \in Parts, NEW low \in Lows, Above(m, low)
  PROVE  /\ Own(m, low) \in Parts
         /\ Own(m, low).ip = m.ip
         /\ Own(m, low).frames = OwnFrames(m.frames, low.frame, low.base)
         /\ Own(m, low).stack = Drop(m.stack, low.base)
         /\ Own(m, low).runs = OwnRuns(m.runs, low)
         /\ Len(Own(m, low).frames) = Len(m.frames) - low.frame
         /\ Len(Own(m, low).stack) = Len(m.stack) - low.base
         /\ Len(Own(m, low).runs) = Len(m.runs) - low.place
<1>1. /\ m.ip \in Nat /\ m.frames \in Seq(Frame) /\ m.stack \in Seq(Val) /\ m.runs \in Seq(Run)
      /\ low.base \in Nat /\ low.frame \in Nat /\ low.place \in Nat
      /\ low.base <= Len(m.stack) /\ low.frame <= Len(m.frames) /\ low.place <= Len(m.runs)
  BY DEF Parts, Lows, Above
<1> PICK fs, st, rs : /\ fs = OwnFrames(m.frames, low.frame, low.base)
                      /\ st = Drop(m.stack, low.base) /\ rs = OwnRuns(m.runs, low)
  OBVIOUS
<1>2. fs \in Seq(Frame) /\ Len(fs) = Len(m.frames) - low.frame
  BY <1>1, FramesView
<1>3. st \in Seq(Val) /\ Len(st) = Len(m.stack) - low.base
  BY <1>1, DropSeq
<1>4. rs \in Seq(Run) /\ Len(rs) = Len(m.runs) - low.place
  BY <1>1, RunsView
<1>5. Own(m, low) = [ip |-> m.ip, frames |-> fs, stack |-> st, runs |-> rs]
  BY DEF Own
<1>6. [ip |-> m.ip, frames |-> fs, stack |-> st, runs |-> rs] \in Parts
  BY <1>1, <1>2, <1>3, <1>4, Made
<1>7. QED
  BY <1>2, <1>3, <1>4, <1>5, <1>6

\* A step of the machine is the same step of the part one context has of it.
LEMMA OwnJump ==
  ASSUME NEW m \in Parts, NEW low \in Lows, Above(m, low), NEW p \in Nat
  PROVE  /\ [m EXCEPT !.ip = p] \in Parts /\ Above([m EXCEPT !.ip = p], low)
         /\ Own([m EXCEPT !.ip = p], low) = [Own(m, low) EXCEPT !.ip = p]
<1>1. m.frames \in Seq(Frame) /\ m.stack \in Seq(Val) /\ m.runs \in Seq(Run)
  BY DEF Parts
<1> PICK n : n = [m EXCEPT !.ip = p]
  OBVIOUS
<1>2. n = [ip |-> p, frames |-> m.frames, stack |-> m.stack, runs |-> m.runs]
  BY OtherIp
<1>3. n \in Parts
  <2>1. [ip |-> p, frames |-> m.frames, stack |-> m.stack, runs |-> m.runs] \in Parts
    BY <1>1, Made
  <2>2. QED
    BY <1>2, <2>1
<1>4. Above(n, low)
  BY <1>2 DEF Above
<1> PICK k : k = Own(m, low)
  OBVIOUS
<1>5. k \in Parts /\ k.frames = OwnFrames(m.frames, low.frame, low.base)
      /\ k.stack = Drop(m.stack, low.base) /\ k.runs = OwnRuns(m.runs, low)
  BY OwnParts
<1>6. k.frames \in Seq(Frame) /\ k.stack \in Seq(Val) /\ k.runs \in Seq(Run)
  BY <1>5 DEF Parts
<1>7. [k EXCEPT !.ip = p] = [ip |-> p, frames |-> k.frames, stack |-> k.stack, runs |-> k.runs]
  BY <1>5, OtherIp
<1>8. Own(n, low) = [ip |-> p, frames |-> k.frames, stack |-> k.stack, runs |-> k.runs]
  BY <1>2, <1>5 DEF Own
<1>9. QED
  BY <1>3, <1>4, <1>7, <1>8

LEMMA OwnAdvance ==
  ASSUME NEW m \in Parts, NEW low \in Lows, Above(m, low)
  PROVE  /\ Advance(m) \in Parts /\ Above(Advance(m), low)
         /\ Own(Advance(m), low) = Advance(Own(m, low))
<1>1. m.ip \in Nat /\ m.ip + 1 \in Nat
  BY DEF Parts
<1>2. Advance(m) = [m EXCEPT !.ip = m.ip + 1]
  BY DEF Advance
<1>3. Own(m, low).ip = m.ip
  BY OwnParts
<1>4. Advance(Own(m, low)) = [Own(m, low) EXCEPT !.ip = m.ip + 1]
  BY <1>3 DEF Advance
<1>5. QED
  BY <1>1, <1>2, <1>4, OwnJump

LEMMA OwnPush ==
  ASSUME NEW m \in Parts, NEW low \in Lows, Above(m, low), NEW v \in Val
  PROVE  /\ Push(m, v) \in Parts /\ Above(Push(m, v), low)
         /\ Own(Push(m, v), low) = Push(Own(m, low), v)
<1>1. m.ip \in Nat /\ m.frames \in Seq(Frame) /\ m.stack \in Seq(Val) /\ m.runs \in Seq(Run)
      /\ low.base \in Nat /\ low.base <= Len(m.stack) /\ Len(m.stack) \in Nat
  BY LenNat DEF Parts, Lows, Above
<1> PICK st : st = Append(m.stack, v)
  OBVIOUS
<1>2. st \in Seq(Val) /\ Len(st) = Len(m.stack) + 1
  BY <1>1, AppendSeq
<1> PICK n : n = Push(m, v)
  OBVIOUS
<1>3. n = [ip |-> m.ip, frames |-> m.frames, stack |-> st, runs |-> m.runs]
  BY <1>2, OtherOperands DEF Push
<1>4. n \in Parts
  <2>1. [ip |-> m.ip, frames |-> m.frames, stack |-> st, runs |-> m.runs] \in Parts
    BY <1>1, <1>2, Made
  <2>2. QED
    BY <1>3, <2>1
<1>5. Above(n, low)
  <2>1. low.base <= Len(st)
    BY <1>1, <1>2
  <2>2. QED
    BY <1>3, <2>1 DEF Above
<1> PICK k : k = Own(m, low)
  OBVIOUS
<1>6. /\ k \in Parts /\ k.ip = m.ip /\ k.frames = OwnFrames(m.frames, low.frame, low.base)
      /\ k.stack = Drop(m.stack, low.base) /\ k.runs = OwnRuns(m.runs, low)
  BY OwnParts
<1>7. Drop(st, low.base) = Append(k.stack, v)
  BY <1>1, <1>6, DropAppend
<1> PICK t : t = Append(k.stack, v)
  OBVIOUS
<1>8. t \in Seq(Val)
  <2>1. k.stack \in Seq(Val)
    BY <1>6 DEF Parts
  <2>2. QED
    BY <2>1, AppendSeq
<1>9. [k EXCEPT !.stack = t] = [ip |-> k.ip, frames |-> k.frames, stack |-> t, runs |-> k.runs]
  BY <1>6, <1>8, OtherOperands
<1>10. Own(n, low) = [ip |-> k.ip, frames |-> k.frames, stack |-> t, runs |-> k.runs]
  <2>1. n.ip = m.ip /\ n.frames = m.frames /\ n.stack = st /\ n.runs = m.runs
    BY <1>3
  <2>2. Own(n, low) = [ ip |-> n.ip, frames |-> OwnFrames(n.frames, low.frame, low.base),
                        stack |-> Drop(n.stack, low.base), runs |-> OwnRuns(n.runs, low) ]
    BY DEF Own
  <2>3. QED
    BY <1>6, <1>7, <2>1, <2>2
<1>11. Push(k, v) = [k EXCEPT !.stack = t]
  BY DEF Push
<1>12. QED
  BY <1>4, <1>5, <1>9, <1>10, <1>11

LEMMA OwnPop ==
  ASSUME NEW m \in Parts, NEW low \in Lows, Above(m, low), low.base < Len(m.stack)
  PROVE  /\ PopOne(m) \in Parts /\ Above(PopOne(m), low)
         /\ Own(PopOne(m), low) = PopOne(Own(m, low))
         /\ Tip(Own(m, low).stack) = Tip(m.stack) /\ Tip(m.stack) \in Val
<1>1. m.ip \in Nat /\ m.frames \in Seq(Frame) /\ m.stack \in Seq(Val) /\ m.runs \in Seq(Run)
      /\ low.base \in Nat /\ low.base < Len(m.stack) /\ Len(m.stack) \in Nat /\ m.stack # <<>>
  <2>1. m.ip \in Nat /\ m.frames \in Seq(Frame) /\ m.stack \in Seq(Val) /\ m.runs \in Seq(Run) /\ low.base \in Nat
    BY DEF Parts, Lows
  <2>2. Len(m.stack) \in Nat /\ (m.stack # <<>> <=> Len(m.stack) > 0)
    BY <2>1, LenNat
  <2>3. QED
    BY <2>1, <2>2
<1> PICK st : st = Front(m.stack)
  OBVIOUS
<1>2. st \in Seq(Val) /\ Len(st) = Len(m.stack) - 1
  BY <1>1, FrontSeq
<1> PICK n : n = PopOne(m)
  OBVIOUS
<1>3. n = [ip |-> m.ip, frames |-> m.frames, stack |-> st, runs |-> m.runs]
  BY <1>2, OtherOperands DEF PopOne
<1>4. n \in Parts
  <2>1. [ip |-> m.ip, frames |-> m.frames, stack |-> st, runs |-> m.runs] \in Parts
    BY <1>1, <1>2, Made
  <2>2. QED
    BY <1>3, <2>1
<1>5. Above(n, low)
  <2>1. low.base <= Len(st)
    BY <1>1, <1>2
  <2>2. QED
    BY <1>3, <2>1 DEF Above
<1> PICK k : k = Own(m, low)
  OBVIOUS
<1>6. /\ k \in Parts /\ k.ip = m.ip /\ k.frames = OwnFrames(m.frames, low.frame, low.base)
      /\ k.stack = Drop(m.stack, low.base) /\ k.runs = OwnRuns(m.runs, low)
  BY OwnParts
<1>7. Drop(st, low.base) = Front(k.stack) /\ k.stack # <<>> /\ Tip(k.stack) = Tip(m.stack)
  BY <1>1, <1>6, DropFront
<1> PICK t : t = Front(k.stack)
  OBVIOUS
<1>8. t \in Seq(Val)
  <2>1. k.stack \in Seq(Val)
    BY <1>6 DEF Parts
  <2>2. QED
    BY <1>7, <2>1, FrontSeq
<1>9. [k EXCEPT !.stack = t] = [ip |-> k.ip, frames |-> k.frames, stack |-> t, runs |-> k.runs]
  BY <1>6, <1>8, OtherOperands
<1>10. Own(n, low) = [ip |-> k.ip, frames |-> k.frames, stack |-> t, runs |-> k.runs]
  <2>1. n.ip = m.ip /\ n.frames = m.frames /\ n.stack = st /\ n.runs = m.runs
    BY <1>3
  <2>2. Own(n, low) = [ ip |-> n.ip, frames |-> OwnFrames(n.frames, low.frame, low.base),
                        stack |-> Drop(n.stack, low.base), runs |-> OwnRuns(n.runs, low) ]
    BY DEF Own
  <2>3. QED
    BY <1>6, <1>7, <2>1, <2>2
<1>11. PopOne(k) = [k EXCEPT !.stack = t]
  BY DEF PopOne
<1>12. Tip(m.stack) \in Val
  BY <1>1, TipIn
<1>13. QED
  BY <1>4, <1>5, <1>7, <1>9, <1>10, <1>11, <1>12

\* k is the part of m above low.
Twin(m, k, low) == m \in Parts /\ low \in Lows /\ Above(m, low) /\ k = Own(m, low)

LEMMA TwinParts ==
  ASSUME NEW m, NEW k, NEW low, Twin(m, k, low)
  PROVE  /\ m \in Parts /\ k \in Parts /\ low \in Lows /\ Above(m, low) /\ k = Own(m, low)
         /\ m.ip \in Nat /\ m.frames \in Seq(Frame) /\ m.stack \in Seq(Val) /\ m.runs \in Seq(Run)
         /\ k.frames \in Seq(Frame) /\ k.stack \in Seq(Val) /\ k.runs \in Seq(Run)
         /\ low.base \in Nat /\ low.frame \in Nat /\ low.place \in Nat
         /\ low.base <= Len(m.stack) /\ low.frame <= Len(m.frames) /\ low.place <= Len(m.runs)
         /\ Len(m.stack) \in Nat /\ Len(m.frames) \in Nat /\ Len(m.runs) \in Nat
         /\ k.ip = m.ip
         /\ k.frames = OwnFrames(m.frames, low.frame, low.base)
         /\ k.stack = Drop(m.stack, low.base)
         /\ k.runs = OwnRuns(m.runs, low)
         /\ Len(k.frames) = Len(m.frames) - low.frame
         /\ Len(k.stack) = Len(m.stack) - low.base
         /\ Len(k.runs) = Len(m.runs) - low.place
<1>1. m \in Parts /\ low \in Lows /\ Above(m, low) /\ k = Own(m, low)
  BY DEF Twin
<1>2. /\ k \in Parts /\ k.ip = m.ip
      /\ k.frames = OwnFrames(m.frames, low.frame, low.base)
      /\ k.stack = Drop(m.stack, low.base)
      /\ k.runs = OwnRuns(m.runs, low)
      /\ Len(k.frames) = Len(m.frames) - low.frame
      /\ Len(k.stack) = Len(m.stack) - low.base
      /\ Len(k.runs) = Len(m.runs) - low.place
  BY <1>1, OwnParts
<1>3. m.ip \in Nat /\ m.frames \in Seq(Frame) /\ m.stack \in Seq(Val) /\ m.runs \in Seq(Run)
  BY <1>1 DEF Parts
<1>4. k.frames \in Seq(Frame) /\ k.stack \in Seq(Val) /\ k.runs \in Seq(Run)
  BY <1>2 DEF Parts
<1>5. /\ low.base \in Nat /\ low.frame \in Nat /\ low.place \in Nat
      /\ low.base <= Len(m.stack) /\ low.frame <= Len(m.frames) /\ low.place <= Len(m.runs)
  BY <1>1 DEF Lows, Above
<1>6. Len(m.stack) \in Nat /\ Len(m.frames) \in Nat /\ Len(m.runs) \in Nat
  BY <1>3, LenNat
<1>7. QED
  BY <1>1, <1>2, <1>3, <1>4, <1>5, <1>6

\* Two machines are twins part by part.
Like(p, fs, st, rs, gs, ops, qs, low) ==
  /\ p \in Nat /\ fs \in Seq(Frame) /\ st \in Seq(Val) /\ rs \in Seq(Run) /\ low \in Lows
  /\ low.base <= Len(st) /\ low.frame <= Len(fs) /\ low.place <= Len(rs)
  /\ OwnFrames(fs, low.frame, low.base) = gs /\ Drop(st, low.base) = ops /\ OwnRuns(rs, low) = qs

LEMMA TwinMade ==
  ASSUME NEW p, NEW fs, NEW st, NEW rs, NEW gs, NEW ops, NEW qs, NEW low,
         Like(p, fs, st, rs, gs, ops, qs, low),
         NEW m, m = [ip |-> p, frames |-> fs, stack |-> st, runs |-> rs],
         NEW k, k = [ip |-> p, frames |-> gs, stack |-> ops, runs |-> qs]
  PROVE  Twin(m, k, low)
<1>1. p \in Nat /\ fs \in Seq(Frame) /\ st \in Seq(Val) /\ rs \in Seq(Run) /\ low \in Lows
  BY DEF Like
<1>2. m \in Parts
  BY <1>1, Made
<1>3. Above(m, low)
  BY DEF Above, Like
<1>4. k = Own(m, low)
  <2>1. m.ip = p /\ m.frames = fs /\ m.stack = st /\ m.runs = rs
    OBVIOUS
  <2>2. Own(m, low) = [ ip |-> m.ip, frames |-> OwnFrames(m.frames, low.frame, low.base),
                        stack |-> Drop(m.stack, low.base), runs |-> OwnRuns(m.runs, low) ]
    BY DEF Own
  <2>3. QED
    BY <2>1, <2>2 DEF Like
<1>5. QED
  BY <1>1, <1>2, <1>3, <1>4 DEF Twin

LEMMA TwinJump ==
  ASSUME NEW m, NEW k, NEW low, Twin(m, k, low), NEW p \in Nat
  PROVE  Twin([m EXCEPT !.ip = p], [k EXCEPT !.ip = p], low)
<1>1. m \in Parts /\ low \in Lows /\ Above(m, low) /\ k = Own(m, low)
  BY DEF Twin
<1>2. /\ [m EXCEPT !.ip = p] \in Parts /\ Above([m EXCEPT !.ip = p], low)
      /\ Own([m EXCEPT !.ip = p], low) = [Own(m, low) EXCEPT !.ip = p]
  BY <1>1, OwnJump
<1>3. QED
  BY <1>1, <1>2 DEF Twin

LEMMA TwinAdvance ==
  ASSUME NEW m, NEW k, NEW low, Twin(m, k, low)
  PROVE  Twin(Advance(m), Advance(k), low)
<1>1. m \in Parts /\ low \in Lows /\ Above(m, low) /\ k = Own(m, low)
  BY DEF Twin
<1>2. /\ Advance(m) \in Parts /\ Above(Advance(m), low)
      /\ Own(Advance(m), low) = Advance(Own(m, low))
  BY <1>1, OwnAdvance
<1>3. QED
  BY <1>1, <1>2 DEF Twin

LEMMA TwinPush ==
  ASSUME NEW m, NEW k, NEW low, Twin(m, k, low), NEW v \in Val
  PROVE  Twin(Push(m, v), Push(k, v), low)
<1>1. m \in Parts /\ low \in Lows /\ Above(m, low) /\ k = Own(m, low)
  BY DEF Twin
<1>2. /\ Push(m, v) \in Parts /\ Above(Push(m, v), low)
      /\ Own(Push(m, v), low) = Push(Own(m, low), v)
  BY <1>1, OwnPush
<1>3. QED
  BY <1>1, <1>2 DEF Twin

LEMMA TwinPop ==
  ASSUME NEW m, NEW k, NEW low, Twin(m, k, low), low.base < Len(m.stack)
  PROVE  Twin(PopOne(m), PopOne(k), low) /\ Tip(k.stack) = Tip(m.stack) /\ Tip(m.stack) \in Val
<1>1. m \in Parts /\ low \in Lows /\ Above(m, low) /\ k = Own(m, low)
  BY DEF Twin
<1>2. /\ PopOne(m) \in Parts /\ Above(PopOne(m), low)
      /\ Own(PopOne(m), low) = PopOne(Own(m, low))
      /\ Tip(Own(m, low).stack) = Tip(m.stack) /\ Tip(m.stack) \in Val
  BY <1>1, OwnPop
<1>3. QED
  BY <1>1, <1>2 DEF Twin

\* The frame that runs has its base as many lower, and no depth.
LEMMA TwinTop ==
  ASSUME NEW m, NEW k, NEW low, Twin(m, k, low), low.frame < Len(m.frames)
  PROVE  /\ m.frames # <<>> /\ k.frames # <<>>
         /\ Top(m) \in Frame /\ Top(k) = OwnFrame(Top(m), low.base) /\ Top(k) \in Frame
         /\ Top(k).base = Top(m).base - low.base /\ Top(k).ret = Top(m).ret
         /\ Top(k).slot = Top(m).slot /\ Top(k).own = Top(m).own /\ Top(k).depth = 0
         /\ Top(m).base \in Int /\ Top(m).ret \in Nat /\ Top(m).slot \in Val /\ Top(m).own \in Nat
         /\ Top(m).depth \in Nat
         /\ Len(m.frames) \in 1..Len(m.frames) /\ Len(k.frames) \in 1..Len(k.frames)
<1>1. /\ m.frames \in Seq(Frame) /\ low.frame \in Nat /\ low.base \in Nat /\ Len(m.frames) \in Nat
      /\ k.frames = OwnFrames(m.frames, low.frame, low.base) /\ k.frames \in Seq(Frame)
      /\ Len(k.frames) = Len(m.frames) - low.frame
  BY TwinParts
<1>2. Len(m.frames) \in 1..Len(m.frames) /\ Len(k.frames) \in 1..Len(k.frames)
  BY <1>1
<1>3. m.frames # <<>> /\ Top(m) \in Frame
  BY <1>1, <1>2, LenNat DEF Top
<1>4. k.frames # <<>> /\ Top(k) = OwnFrame(Top(m), low.base)
  BY <1>1, FramesFront DEF Top
<1> PICK t : t = Top(m)
  OBVIOUS
<1> PICK b : b = low.base
  OBVIOUS
<1>5. /\ OwnFrame(t, b) \in Frame
      /\ OwnFrame(t, b) =
           [ret |-> t.ret, base |-> t.base - b, slot |-> t.slot, depth |-> 0, own |-> t.own]
  <2>1. t \in Frame /\ b \in Int
    BY <1>1, <1>3
  <2>2. QED
    BY <2>1, OwnFrameType
<1>6. /\ Top(m).base \in Int /\ Top(m).ret \in Nat /\ Top(m).slot \in Val /\ Top(m).own \in Nat
      /\ Top(m).depth \in Nat
  BY <1>3 DEF Frame
<1>7. QED
  BY <1>2, <1>3, <1>4, <1>5, <1>6

LEMMA LastFrame ==
  ASSUME NEW m \in Parts, m.frames # <<>>, NEW g \in Frame
  PROVE  [m EXCEPT !.frames = WithLast(m.frames, g)] =
           [ip |-> m.ip, frames |-> WithLast(m.frames, g), stack |-> m.stack, runs |-> m.runs]
<1>1. m.frames \in Seq(Frame)
  BY DEF Parts
<1>2. IsWithLast(WithLast(m.frames, g), m.frames, g, Frame)
  BY <1>1, WithLastSeq
<1>3. WithLast(m.frames, g) \in Seq(Frame)
  BY <1>2 DEF IsWithLast
<1>4. QED
  BY <1>3, OtherFrames

LEMMA TwinFrame ==
  ASSUME NEW m, NEW k, NEW low, Twin(m, k, low), low.frame < Len(m.frames), NEW g \in Frame
  PROVE  Twin([m EXCEPT !.frames = WithLast(m.frames, g)],
              [k EXCEPT !.frames = WithLast(k.frames, OwnFrame(g, low.base))], low)
<1>1. /\ m.frames \in Seq(Frame) /\ low.frame \in Nat /\ low.base \in Nat /\ Len(m.frames) \in Nat
      /\ k.frames = OwnFrames(m.frames, low.frame, low.base) /\ low \in Lows
      /\ m \in Parts /\ k \in Parts /\ m.ip \in Nat /\ k.ip = m.ip
      /\ m.stack \in Seq(Val) /\ m.runs \in Seq(Run) /\ low.base <= Len(m.stack) /\ low.place <= Len(m.runs)
      /\ k.stack = Drop(m.stack, low.base) /\ k.runs = OwnRuns(m.runs, low)
  BY TwinParts
<1>2. m.frames # <<>> /\ k.frames # <<>>
  BY TwinTop
<1>3. OwnFrame(g, low.base) \in Frame
  BY <1>1, OwnFrameType
<1> PICK fs, gs : fs = WithLast(m.frames, g) /\ gs = WithLast(k.frames, OwnFrame(g, low.base))
  OBVIOUS
<1>4. [m EXCEPT !.frames = fs] = [ip |-> m.ip, frames |-> fs, stack |-> m.stack, runs |-> m.runs]
  BY <1>1, <1>2, LastFrame
<1>5. [k EXCEPT !.frames = gs] = [ip |-> m.ip, frames |-> gs, stack |-> k.stack, runs |-> k.runs]
  BY <1>1, <1>2, <1>3, LastFrame
<1>6. OwnFrames(fs, low.frame, low.base) = gs
  BY <1>1, FramesLast
<1>7. fs \in Seq(Frame) /\ Len(fs) = Len(m.frames)
  <2>1. IsWithLast(WithLast(m.frames, g), m.frames, g, Frame)
    BY <1>1, <1>2, WithLastSeq
  <2>2. QED
    BY <2>1 DEF IsWithLast
<1>8. Like(m.ip, fs, m.stack, m.runs, gs, k.stack, k.runs, low)
  BY <1>1, <1>6, <1>7 DEF Like
<1>9. QED
  BY <1>4, <1>5, <1>8, TwinMade

LEMMA TwinSet ==
  ASSUME NEW m, NEW k, NEW low, Twin(m, k, low), low.frame < Len(m.frames), NEW v \in Val
  PROVE  Twin(SetSlot(m, v), SetSlot(k, v), low)
<1>1. /\ m.frames # <<>> /\ k.frames # <<>>
      /\ Top(m) \in Frame /\ Top(k) = OwnFrame(Top(m), low.base) /\ Top(k) \in Frame
      /\ Len(m.frames) \in 1..Len(m.frames) /\ Len(k.frames) \in 1..Len(k.frames)
  BY TwinTop
<1>2. m \in Parts /\ k \in Parts /\ low.base \in Nat
  BY TwinParts
<1>3. m.frames \in Seq(Frame) /\ k.frames \in Seq(Frame)
  BY TwinParts
<1>4. DOMAIN m.frames = 1..Len(m.frames) /\ DOMAIN k.frames = 1..Len(k.frames)
  BY <1>3, LenNat
<1> PICK f : f = [Top(m) EXCEPT !.slot = v]
  OBVIOUS
<1> PICK g : g = [Top(k) EXCEPT !.slot = v]
  OBVIOUS
<1>5. f \in Frame
  BY <1>1 DEF Frame
<1>6. g = OwnFrame(f, low.base)
  BY <1>1, <1>2 DEF OwnFrame, Frame
<1>7. SetSlot(m, v) = [m EXCEPT !.frames = WithLast(m.frames, f)]
  BY <1>1, <1>2, <1>4 DEF SetSlot, WithLast, Top, Parts
<1>8. SetSlot(k, v) = [k EXCEPT !.frames = WithLast(k.frames, g)]
  BY <1>1, <1>2, <1>4 DEF SetSlot, WithLast, Top, Parts
<1>9. QED
  BY <1>5, <1>6, <1>7, <1>8, TwinFrame

\* m at another address, with other frames and operands.
Remake(m, p, fs, st) == [m EXCEPT !.ip = p, !.stack = st, !.frames = fs]

LEMMA Remade ==
  ASSUME NEW m \in Parts, NEW p \in Nat, NEW fs \in Seq(Frame), NEW st \in Seq(Val)
  PROVE  Remake(m, p, fs, st) =
           [ip |-> p, frames |-> fs, stack |-> st, runs |-> m.runs]
<1> PICK g : g = [m EXCEPT !.ip = p, !.stack = st, !.frames = fs]
  OBVIOUS
<1>1. g \in Parts /\ g.ip = p /\ g.frames = fs /\ g.stack = st /\ g.runs = m.runs
  BY DEF Parts
<1>2. g = [ip |-> p, frames |-> fs, stack |-> st, runs |-> m.runs]
  BY <1>1 DEF Parts
<1>3. QED
  BY <1>2 DEF Remake

LEMMA TwinEnter ==
  ASSUME NEW m, NEW k, NEW low, Twin(m, k, low), NEW e \in Nat, NEW ret \in Nat,
         NEW b \in Nat, low.base <= b
  PROVE  Twin(Enter(m, e, ret, b), Enter(k, e, ret, b - low.base), low)
<1>1. /\ m \in Parts /\ k \in Parts /\ low \in Lows /\ low.base \in Nat
      /\ m.frames \in Seq(Frame) /\ low.frame \in Nat /\ Len(m.frames) \in Nat /\ low.frame <= Len(m.frames)
      /\ k.frames = OwnFrames(m.frames, low.frame, low.base) /\ k.frames \in Seq(Frame)
      /\ m.stack \in Seq(Val) /\ m.runs \in Seq(Run) /\ low.base <= Len(m.stack) /\ low.place <= Len(m.runs)
      /\ k.stack = Drop(m.stack, low.base) /\ k.runs = OwnRuns(m.runs, low)
  BY TwinParts
<1> PICK d : d = b - low.base
  OBVIOUS
<1>2. d \in Nat
  BY <1>1
<1> PICK f : f = NewFrame(ret, b)
  OBVIOUS
<1> PICK g : g = NewFrame(ret, d)
  OBVIOUS
<1> PICK fs : fs = Append(m.frames, f)
  OBVIOUS
<1> PICK gs : gs = Append(k.frames, g)
  OBVIOUS
<1>3. Enter(m, e, ret, b) = [ip |-> e, frames |-> fs, stack |-> m.stack, runs |-> m.runs]
  <2>1. m \in Parts
    BY <1>1
  <2>2. Enter(m, e, ret, b) = [ip |-> e, frames |-> fs, stack |-> m.stack, runs |-> m.runs]
    BY <2>1, EnterParts
  <2>3. QED
    BY <2>2
<1>4. Enter(k, e, ret, d) = [ip |-> e, frames |-> gs, stack |-> k.stack, runs |-> k.runs]
  <2>1. k \in Parts
    BY <1>1
  <2>2. Enter(k, e, ret, d) = [ip |-> e, frames |-> gs, stack |-> k.stack, runs |-> k.runs]
    BY <1>2, <2>1, EnterParts, SMTT(30)
  <2>3. QED
    BY <2>2
<1>5. f \in Frame
  <2>1. b \in Int
    OBVIOUS
  <2>2. QED
    BY <2>1, NewFrameType
<1>6. OwnFrame(f, low.base) = g
  <2> PICK lb : lb = low.base
    OBVIOUS
  <2>1. lb \in Int
    BY <1>1
  <2>2. OwnFrame(f, lb) = [ret |-> f.ret, base |-> f.base - lb, slot |-> f.slot, depth |-> 0, own |-> f.own]
    BY <1>5, <2>1, OwnFrameType
  <2>3. f.ret = ret /\ f.base = b /\ f.slot = Undef /\ f.own = 0
    BY DEF NewFrame
  <2>4. QED
    BY <2>2, <2>3 DEF NewFrame
<1>7. OwnFrames(fs, low.frame, low.base) = gs
  <2>1. low.base \in Int
    BY <1>1
  <2>2. QED
    BY <1>1, <1>5, <1>6, <2>1, FramesAppend
<1>8. fs \in Seq(Frame) /\ low.frame <= Len(fs)
  <2>1. fs \in Seq(Frame) /\ Len(fs) = Len(m.frames) + 1
    BY <1>1, <1>5, AppendSeq
  <2>2. QED
    BY <1>1, <2>1
<1>9. Like(e, fs, m.stack, m.runs, gs, k.stack, k.runs, low)
  BY <1>1, <1>7, <1>8 DEF Like
<1>10. QED
  BY <1>3, <1>4, <1>9, TwinMade

LEMMA Lower ==
  ASSUME NEW x \in Nat, NEW b \in Nat, NEW n \in Nat, b <= x, x < n
  PROVE  b < n /\ x - b \in Nat /\ b <= n - 1 /\ x <= n - 1 /\ b <= x + 1
  OBVIOUS

LEMMA TwinLeave ==
  ASSUME NEW m, NEW k, NEW low, Twin(m, k, low), low.frame < Len(m.frames),
         low.base <= Top(m).base, Top(m).base < Len(m.stack)
  PROVE  Twin(Leave(m), Leave(k), low)
<1>1. /\ m \in Parts /\ k \in Parts /\ low \in Lows /\ low.base \in Nat
      /\ m.frames \in Seq(Frame) /\ low.frame \in Nat /\ Len(m.frames) \in Nat
      /\ k.frames = OwnFrames(m.frames, low.frame, low.base) /\ k.frames \in Seq(Frame)
      /\ m.stack \in Seq(Val) /\ m.runs \in Seq(Run) /\ low.place <= Len(m.runs)
      /\ Len(m.stack) \in Nat /\ k.stack \in Seq(Val) /\ k.runs \in Seq(Run)
      /\ k.stack = Drop(m.stack, low.base) /\ k.runs = OwnRuns(m.runs, low)
  BY TwinParts
<1>2. /\ m.frames # <<>> /\ k.frames # <<>> /\ Top(m).base \in Int /\ Top(m).ret \in Nat
      /\ Top(k).ret = Top(m).ret /\ Top(k).base = Top(m).base - low.base
  BY TwinTop
<1>x. PICK x : x = Top(m).base
  OBVIOUS
<1>b. PICK b : b = low.base
  OBVIOUS
<1>L. PICK L : L = Len(m.stack)
  OBVIOUS
<1>3. x \in Nat /\ b \in Nat /\ L \in Nat /\ b <= x /\ x < L
  BY <1>x, <1>b, <1>L, <1>1, <1>2
<1>4. b < L /\ x - b \in Nat /\ b <= L - 1 /\ x <= L - 1 /\ b <= x + 1
  BY <1>3, Lower
<1>p. PICK p : p = Front(m.stack)
  OBVIOUS
<1>t. PICK t : t = Truncate(p, x)
  OBVIOUS
<1>q. PICK q : q = Front(k.stack)
  OBVIOUS
<1>u. PICK u : u = Truncate(q, x - b)
  OBVIOUS
<1>v. PICK v : v = Tip(m.stack)
  OBVIOUS
<1>5. /\ Drop(p, b) = q /\ k.stack # <<>> /\ m.stack # <<>> /\ Tip(k.stack) = v
  BY <1>p, <1>q, <1>v, <1>b, <1>L, <1>1, <1>3, <1>4, DropFront
<1>6. p \in Seq(Val) /\ Len(p) = L - 1 /\ q \in Seq(Val)
  BY <1>p, <1>q, <1>L, <1>1, <1>5, FrontSeq
<1>7. Drop(t, b) = u
  <2>1. b <= Len(p)
    BY <1>4, <1>6
  <2>2. QED
    BY <1>t, <1>u, <1>3, <1>5, <1>6, <2>1, DropTruncate
<1>8. t \in Seq(Val) /\ Len(t) = x /\ u \in Seq(Val)
  <2>1. t \in Seq(Val) /\ (x <= Len(p) => Len(t) = x)
    BY <1>t, <1>3, <1>6, TruncateSeq
  <2>2. x <= Len(p)
    BY <1>4, <1>6
  <2>3. u \in Seq(Val)
    BY <1>u, <1>4, <1>6, TruncateSeq
  <2>4. QED
    BY <2>1, <2>2, <2>3
<1>9. v \in Val
  BY <1>v, <1>1, TipIn
<1>st. PICK st : st = Append(t, v)
  OBVIOUS
<1>ops. PICK ops : ops = Append(u, v)
  OBVIOUS
<1>10. Drop(st, b) = ops
  <2>1. b <= Len(t)
    BY <1>3, <1>8
  <2>2. QED
    BY <1>st, <1>ops, <1>3, <1>7, <1>8, <1>9, <2>1, DropAppend
<1>11. st \in Seq(Val) /\ b <= Len(st) /\ ops \in Seq(Val)
  <2>1. st \in Seq(Val) /\ Len(st) = Len(t) + 1 /\ ops \in Seq(Val)
    BY <1>st, <1>ops, <1>8, <1>9, AppendSeq
  <2>2. QED
    BY <1>4, <1>8, <2>1
<1>fs. PICK fs : fs = Front(m.frames)
  OBVIOUS
<1>gs. PICK gs : gs = Front(k.frames)
  OBVIOUS
<1>12. OwnFrames(fs, low.frame, low.base) = gs
  <2>1. low.base \in Int
    BY <1>1
  <2>2. QED
    BY <1>fs, <1>gs, <1>1, <2>1, FramesFront
<1>13. fs \in Seq(Frame) /\ low.frame <= Len(fs) /\ gs \in Seq(Frame)
  <2>1. fs \in Seq(Frame) /\ Len(fs) = Len(m.frames) - 1 /\ gs \in Seq(Frame)
    BY <1>fs, <1>gs, <1>1, <1>2, FrontSeq
  <2>2. QED
    BY <1>1, <2>1
<1>r. PICK r : r = Top(m).ret
  OBVIOUS
<1>14. Leave(m) = [m EXCEPT !.ip = r, !.stack = st, !.frames = fs]
  BY <1>r, <1>st, <1>fs, <1>t, <1>p, <1>v, <1>x, <1>1 DEF Leave, Parts
<1>15. Leave(k) = [k EXCEPT !.ip = r, !.stack = ops, !.frames = gs]
  <2>1. Top(k).ret = r /\ Top(k).base = x - b /\ Tip(k.stack) = v
    BY <1>x, <1>b, <1>r, <1>2, <1>5
  <2>2. QED
    BY <1>ops, <1>gs, <1>u, <1>q, <1>1, <2>1 DEF Leave, Parts
<1>16. Leave(m) = [ip |-> r, frames |-> fs, stack |-> st, runs |-> m.runs]
  <2>1. r \in Nat /\ m \in Parts /\ fs \in Seq(Frame) /\ st \in Seq(Val)
    BY <1>r, <1>1, <1>2, <1>11, <1>13
  <2>2. Remake(m, r, fs, st) = [ip |-> r, frames |-> fs, stack |-> st, runs |-> m.runs]
    BY <2>1, Remade
  <2>3. QED
    BY <1>14, <2>2 DEF Remake
<1>17. Leave(k) = [ip |-> r, frames |-> gs, stack |-> ops, runs |-> k.runs]
  <2>1. r \in Nat /\ k \in Parts /\ gs \in Seq(Frame) /\ ops \in Seq(Val)
    BY <1>r, <1>1, <1>2, <1>11, <1>13
  <2>2. Remake(k, r, gs, ops) = [ip |-> r, frames |-> gs, stack |-> ops, runs |-> k.runs]
    BY <2>1, Remade
  <2>3. QED
    BY <1>15, <2>2 DEF Remake
<1>18. Like(r, fs, st, m.runs, gs, ops, k.runs, low)
  BY <1>r, <1>b, <1>1, <1>2, <1>10, <1>11, <1>12, <1>13 DEF Like
<1>n. PICK n : n = Leave(m)
  OBVIOUS
<1>h. PICK h : h = Leave(k)
  OBVIOUS
<1>19. n = [ip |-> r, frames |-> fs, stack |-> st, runs |-> m.runs]
  BY <1>n, <1>16
<1>20. h = [ip |-> r, frames |-> gs, stack |-> ops, runs |-> k.runs]
  BY <1>h, <1>17
<1>21. Twin(n, h, low)
  BY <1>18, <1>19, <1>20, TwinMade
<1>22. QED
  BY <1>n, <1>h, <1>21

\* A depth saved is told by how many operands it spares; a machine of its own
\* saves that number alone.
LEMMA TwinDepth ==
  ASSUME NEW m, NEW k, NEW low, Twin(m, k, low), low.frame < Len(m.frames),
         Len(m.stack) - Top(m).base \in Nat
  PROVE  Twin([m EXCEPT !.frames[Len(m.frames)] = Saved(@, Len(m.stack))],
              [k EXCEPT !.frames[Len(k.frames)].own = Len(k.stack) - Top(k).base], low)
<1>1. /\ m.frames # <<>> /\ k.frames # <<>>
      /\ Top(m) \in Frame /\ Top(k) = OwnFrame(Top(m), low.base) /\ Top(k) \in Frame
      /\ Len(m.frames) \in 1..Len(m.frames) /\ Len(k.frames) \in 1..Len(k.frames)
      /\ Top(m).base \in Int /\ Top(k).base = Top(m).base - low.base
  BY TwinTop
<1>2. /\ m \in Parts /\ k \in Parts /\ low.base \in Nat
      /\ Len(m.stack) \in Nat /\ Len(k.stack) = Len(m.stack) - low.base
  BY TwinParts
<1>3. m.frames \in Seq(Frame) /\ k.frames \in Seq(Frame)
  BY TwinParts
<1>4. DOMAIN m.frames = 1..Len(m.frames) /\ DOMAIN k.frames = 1..Len(k.frames)
  BY <1>3, LenNat
<1> PICK L : L = Len(m.stack)
  OBVIOUS
<1> PICK w : w = L - Top(m).base
  OBVIOUS
<1>5. w \in Nat /\ L \in Nat /\ Len(k.stack) - Top(k).base = w
  BY <1>1, <1>2
<1> PICK f : f = Saved(Top(m), L)
  OBVIOUS
<1> PICK g : g = [Top(k) EXCEPT !.own = w]
  OBVIOUS
<1>6. f = [Top(m) EXCEPT !.depth = L, !.own = w]
  BY DEF Saved
<1>7. /\ f \in Frame /\ f.ret = Top(m).ret /\ f.base = Top(m).base /\ f.slot = Top(m).slot
      /\ f.depth = L /\ f.own = w
  BY <1>1, <1>5, <1>6 DEF Frame
<1>8. g = OwnFrame(f, low.base)
  <2> PICK lb : lb = low.base
    OBVIOUS
  <2>1. lb \in Int
    BY <1>2
  <2>2. OwnFrame(f, lb) = [ret |-> f.ret, base |-> f.base - lb, slot |-> f.slot, depth |-> 0, own |-> f.own]
    BY <1>7, <2>1, OwnFrameType
  <2>3. Top(k) = [ ret |-> Top(m).ret, base |-> Top(m).base - lb, slot |-> Top(m).slot, depth |-> 0,
                   own |-> Top(m).own ]
    BY <1>1, <2>1, OwnFrameType
  <2>4. g = [ret |-> Top(m).ret, base |-> Top(m).base - lb, slot |-> Top(m).slot, depth |-> 0, own |-> w]
    BY <2>3
  <2>5. QED
    BY <1>7, <2>2, <2>4
<1>9. [m EXCEPT !.frames[Len(m.frames)] = Saved(@, Len(m.stack))] = [m EXCEPT !.frames = WithLast(m.frames, f)]
  BY <1>1, <1>2, <1>4 DEF WithLast, Top, Parts
<1>10. [k EXCEPT !.frames[Len(k.frames)].own = Len(k.stack) - Top(k).base] =
         [k EXCEPT !.frames = WithLast(k.frames, g)]
  BY <1>1, <1>2, <1>4, <1>5 DEF WithLast, Top, Parts
<1>11. QED
  BY <1>7, <1>8, <1>9, <1>10, TwinFrame

LEMMA TwinCut ==
  ASSUME NEW m, NEW k, NEW low, Twin(m, k, low), low.frame < Len(m.frames),
         low.base <= Top(m).base, Top(m).depth = Top(m).base + Top(m).own
  PROVE  Twin([m EXCEPT !.stack = Truncate(@, Top(m).depth)],
              [k EXCEPT !.stack = Truncate(@, Top(k).base + Top(k).own)], low)
<1>1. /\ m \in Parts /\ k \in Parts /\ low \in Lows /\ low.base \in Nat /\ m.ip \in Nat /\ k.ip = m.ip
      /\ m.frames \in Seq(Frame) /\ low.frame \in Nat /\ Len(m.frames) \in Nat /\ low.frame <= Len(m.frames)
      /\ k.frames = OwnFrames(m.frames, low.frame, low.base)
      /\ m.stack \in Seq(Val) /\ m.runs \in Seq(Run) /\ low.place <= Len(m.runs) /\ low.base <= Len(m.stack)
      /\ Len(m.stack) \in Nat /\ k.stack \in Seq(Val)
      /\ k.stack = Drop(m.stack, low.base) /\ k.runs = OwnRuns(m.runs, low)
  BY TwinParts
<1>2. /\ Top(m).base \in Int /\ Top(m).depth \in Nat /\ Top(m).own \in Nat
      /\ Top(k).own = Top(m).own /\ Top(k).base = Top(m).base - low.base
  BY TwinTop
<1> PICK d : d = Top(m).depth
  OBVIOUS
<1> PICK b : b = low.base
  OBVIOUS
<1>3. d \in Nat /\ b \in Nat /\ b <= d /\ Top(k).base + Top(k).own = d - b /\ d - b \in Nat
  <2> PICK x, y : x = Top(m).base /\ y = Top(m).own
    OBVIOUS
  <2>1. x \in Int /\ y \in Nat /\ b \in Nat /\ b <= x /\ d = x + y
    BY <1>1, <1>2
  <2>2. b <= x + y /\ (x - b) + y = (x + y) - b /\ (x + y) - b \in Nat
    BY <2>1
  <2>3. QED
    BY <1>2, <2>1, <2>2
<1> PICK st : st = Truncate(m.stack, d)
  OBVIOUS
<1> PICK ops : ops = Truncate(k.stack, d - b)
  OBVIOUS
<1>4. Drop(st, b) = ops
  BY <1>1, <1>3, DropTruncate
<1>5. st \in Seq(Val) /\ b <= Len(st) /\ ops \in Seq(Val)
  <2>1. /\ st \in Seq(Val) /\ (d <= Len(m.stack) => Len(st) = d)
        /\ (d > Len(m.stack) => Len(st) = Len(m.stack))
    BY <1>1, <1>3, TruncateSeq
  <2>2. ops \in Seq(Val)
    BY <1>1, <1>3, TruncateSeq
  <2>3. QED
    BY <1>1, <1>3, <2>1, <2>2
<1>6. [m EXCEPT !.stack = Truncate(@, Top(m).depth)] = [ip |-> m.ip, frames |-> m.frames, stack |-> st, runs |-> m.runs]
  BY <1>1, <1>5, OtherOperands
<1>7. [k EXCEPT !.stack = Truncate(@, Top(k).base + Top(k).own)] =
        [ip |-> m.ip, frames |-> k.frames, stack |-> ops, runs |-> k.runs]
  <2>1. [k EXCEPT !.stack = Truncate(@, Top(k).base + Top(k).own)] = [k EXCEPT !.stack = ops]
    BY <1>3
  <2>2. QED
    BY <1>1, <1>5, <2>1, OtherOperands
<1>8. Like(m.ip, m.frames, st, m.runs, k.frames, ops, k.runs, low)
  BY <1>1, <1>4, <1>5 DEF Like
<1>9. QED
  BY <1>6, <1>7, <1>8, TwinMade

LEMMA TwinRuns ==
  ASSUME NEW m, NEW k, NEW low, Twin(m, k, low), NEW rs \in Seq(Run), low.place <= Len(rs),
         NEW qs, OwnRuns(rs, low) = qs
  PROVE  Twin([m EXCEPT !.runs = rs], [k EXCEPT !.runs = qs], low)
<1>1. /\ m \in Parts /\ k \in Parts /\ low \in Lows /\ low.base \in Nat /\ m.ip \in Nat /\ k.ip = m.ip
      /\ m.frames \in Seq(Frame) /\ low.frame \in Nat /\ low.frame <= Len(m.frames)
      /\ k.frames = OwnFrames(m.frames, low.frame, low.base)
      /\ m.stack \in Seq(Val) /\ low.base <= Len(m.stack) /\ k.stack = Drop(m.stack, low.base)
  BY TwinParts
<1>2. qs \in Seq(Run)
  BY <1>1, RunsView
<1>3. [m EXCEPT !.runs = rs] = [ip |-> m.ip, frames |-> m.frames, stack |-> m.stack, runs |-> rs]
  BY <1>1, OtherRuns
<1>4. [k EXCEPT !.runs = qs] = [ip |-> m.ip, frames |-> k.frames, stack |-> k.stack, runs |-> qs]
  BY <1>1, <1>2, OtherRuns
<1>5. Like(m.ip, m.frames, m.stack, rs, k.frames, k.stack, qs, low)
  BY <1>1 DEF Like
<1>6. QED
  BY <1>3, <1>4, <1>5, TwinMade

LEMMA TwinRefused ==
  ASSUME NEW m, NEW k, NEW low, Twin(m, k, low), NEW c
  PROVE  Twin(Refused(c, m), Refused(c, k), low)
<1>1. 1 \in Val /\ Undef \in Val
  BY ValuesAssumption
<1>2. Twin(Push(m, 1), Push(k, 1), low)
  BY <1>1, TwinPush
<1>3. Twin(Push(Push(m, 1), Undef), Push(Push(k, 1), Undef), low)
  BY <1>1, <1>2, TwinPush
<1>4. QED
  BY <1>3, TwinAdvance DEF Refused

\* The run a forEach of n elements starts.
EachRun(m, n) ==
  [ kind |-> "each", it |-> None, left |-> n, base |-> Len(m.stack), frame |-> Len(m.frames), ip |-> m.ip + 1 ]

LEMMA TwinEach ==
  ASSUME NEW m, NEW k, NEW low, Twin(m, k, low), NEW n \in Nat
  PROVE  Twin(Each(m, n), Each(k, n), low)
<1>1. /\ m \in Parts /\ k \in Parts /\ low \in Lows /\ m.ip \in Nat /\ k.ip = m.ip
      /\ low.base \in Nat /\ low.frame \in Nat
      /\ Len(m.stack) \in Nat /\ Len(m.frames) \in Nat
      /\ m.runs \in Seq(Run) /\ low.place <= Len(m.runs) /\ k.runs = OwnRuns(m.runs, low)
      /\ low.place \in Nat /\ Len(m.runs) \in Nat
      /\ Len(k.frames) = Len(m.frames) - low.frame
      /\ Len(k.stack) = Len(m.stack) - low.base
  BY TwinParts
<1> PICK r : r = EachRun(m, n)
  OBVIOUS
<1> PICK q : q = EachRun(k, n)
  OBVIOUS
<1>2. r \in Run
  <2>1. m.ip + 1 \in Nat /\ Len(m.stack) \in Int /\ Len(m.frames) \in Int
    BY <1>1
  <2>2. QED
    BY <2>1 DEF EachRun, Run
<1>3. OwnRun(r, low) = q
  <2>1. OwnRun(r, low) = [ kind |-> r.kind, it |-> r.it, left |-> r.left,
                           base |-> r.base - low.base, frame |-> r.frame - low.frame, ip |-> r.ip ]
    BY <1>1, <1>2, OwnRunType
  <2>2. /\ r.kind = "each" /\ r.it = None /\ r.left = n /\ r.base = Len(m.stack)
        /\ r.frame = Len(m.frames) /\ r.ip = m.ip + 1
    BY DEF EachRun
  <2>3. q = [ kind |-> "each", it |-> None, left |-> n, base |-> Len(k.stack),
              frame |-> Len(k.frames), ip |-> k.ip + 1 ]
    BY DEF EachRun
  <2>4. QED
    BY <1>1, <2>1, <2>2, <2>3
<1>4. OwnRuns(Append(m.runs, r), low) = Append(k.runs, q)
  BY <1>1, <1>2, <1>3, RunsAppend
<1>5. Append(m.runs, r) \in Seq(Run) /\ low.place <= Len(Append(m.runs, r))
  <2>1. Append(m.runs, r) \in Seq(Run) /\ Len(Append(m.runs, r)) = Len(m.runs) + 1
    BY <1>1, <1>2, AppendSeq
  <2>2. QED
    BY <1>1, <2>1
<1>6. Twin([m EXCEPT !.runs = Append(m.runs, r)], [k EXCEPT !.runs = Append(k.runs, q)], low)
  BY <1>4, <1>5, TwinRuns
<1>7. Each(m, n) = [m EXCEPT !.runs = Append(m.runs, r)] /\ Each(k, n) = [k EXCEPT !.runs = Append(k.runs, q)]
  BY DEF Each, EachRun
<1>8. QED
  BY <1>6, <1>7

\* The run that goes on is the last one on both sides.
LEMMA TwinLast ==
  ASSUME NEW m, NEW k, NEW low, Twin(m, k, low), low.place < Len(m.runs)
  PROVE  /\ m.runs # <<>> /\ k.runs # <<>>
         /\ m.runs[Len(m.runs)] \in Run /\ k.runs[Len(k.runs)] = OwnRun(m.runs[Len(m.runs)], low)
         /\ k.runs[Len(k.runs)] \in Run
         /\ k.runs[Len(k.runs)].left = m.runs[Len(m.runs)].left
         /\ k.runs[Len(k.runs)].ip = m.runs[Len(m.runs)].ip
         /\ k.runs[Len(k.runs)].kind = m.runs[Len(m.runs)].kind
         /\ k.runs[Len(k.runs)].it = m.runs[Len(m.runs)].it
         /\ m.runs[Len(m.runs)].left \in Nat /\ m.runs[Len(m.runs)].ip \in Nat
         /\ Len(m.runs) \in 1..Len(m.runs) /\ Len(k.runs) \in 1..Len(k.runs)
<1>1. /\ m.runs \in Seq(Run) /\ low \in Lows /\ k.runs = OwnRuns(m.runs, low) /\ k.runs \in Seq(Run)
      /\ low.place \in Nat /\ Len(m.runs) \in Nat /\ Len(k.runs) = Len(m.runs) - low.place
  BY TwinParts
<1>2. Len(m.runs) \in 1..Len(m.runs) /\ Len(k.runs) \in 1..Len(k.runs)
  BY <1>1
<1>3. m.runs # <<>> /\ m.runs[Len(m.runs)] \in Run
  BY <1>1, <1>2, LenNat
<1>4. k.runs # <<>> /\ k.runs[Len(k.runs)] = OwnRun(m.runs[Len(m.runs)], low)
  BY <1>1, RunsFront
<1>a. PICK r : r = m.runs[Len(m.runs)]
  OBVIOUS
<1>b. PICK q : q = k.runs[Len(k.runs)]
  OBVIOUS
<1>5. r \in Run /\ q = OwnRun(r, low)
  BY <1>a, <1>b, <1>3, <1>4
<1>6. /\ OwnRun(r, low) \in Run
      /\ OwnRun(r, low) = [ kind |-> r.kind, it |-> r.it, left |-> r.left,
                            base |-> r.base - low.base, frame |-> r.frame - low.frame, ip |-> r.ip ]
  BY <1>1, <1>5, OwnRunType
<1>7. q \in Run /\ q.left = r.left /\ q.ip = r.ip /\ q.kind = r.kind /\ q.it = r.it
  BY <1>5, <1>6
<1>8. r.left \in Nat /\ r.ip \in Nat
  BY <1>5 DEF Run
<1>9. QED
  BY <1>a, <1>b, <1>2, <1>3, <1>4, <1>7, <1>8

\* m whose last run is r now.
Rerun(m, r) == [m EXCEPT !.runs = WithLast(m.runs, r)]

LEMMA TwinRerun ==
  ASSUME NEW m, NEW k, NEW low, Twin(m, k, low), low.place < Len(m.runs), NEW r \in Run
  PROVE  Twin(Rerun(m, r), Rerun(k, OwnRun(r, low)), low)
<1>1. /\ m.runs \in Seq(Run) /\ low \in Lows /\ k.runs = OwnRuns(m.runs, low) /\ low.place <= Len(m.runs)
  BY TwinParts
<1>2. m.runs # <<>>
  BY TwinLast
<1>3. WithLast(m.runs, r) \in Seq(Run) /\ Len(WithLast(m.runs, r)) = Len(m.runs)
  <2>1. IsWithLast(WithLast(m.runs, r), m.runs, r, Run)
    BY <1>1, <1>2, WithLastSeq
  <2>2. QED
    BY <2>1 DEF IsWithLast
<1>4. OwnRuns(WithLast(m.runs, r), low) = WithLast(k.runs, OwnRun(r, low))
  BY <1>1, RunsLast
<1>5. QED
  BY <1>1, <1>3, <1>4, TwinRuns DEF Rerun

\* One element of the run r fewer to go.
Less(r) == [r EXCEPT !.left = @ - 1]

LEMMA LessRun ==
  ASSUME NEW r \in Run, r.left # 0, NEW low \in Lows
  PROVE  Less(r) \in Run /\ Less(OwnRun(r, low)) = OwnRun(Less(r), low)
<1>1. r.left \in Nat
  BY DEF Run
<1>p. PICK p : p = Less(r)
  OBVIOUS
<1>x. PICK x : x = r.left - 1
  OBVIOUS
<1>2. x \in Nat
  BY <1>x, <1>1
<1>3. /\ p \in Run /\ p.kind = r.kind /\ p.it = r.it /\ p.left = x /\ p.base = r.base
      /\ p.frame = r.frame /\ p.ip = r.ip
  BY <1>p, <1>x, <1>2 DEF Less, Run
<1>4. OwnRun(p, low) = [ kind |-> p.kind, it |-> p.it, left |-> p.left, base |-> p.base - low.base,
                         frame |-> p.frame - low.frame, ip |-> p.ip ]
  BY <1>3, OwnRunType
<1>5. OwnRun(r, low) = [ kind |-> r.kind, it |-> r.it, left |-> r.left, base |-> r.base - low.base,
                         frame |-> r.frame - low.frame, ip |-> r.ip ]
  BY OwnRunType
<1>6. Less(OwnRun(r, low)) = [ kind |-> r.kind, it |-> r.it, left |-> x, base |-> r.base - low.base,
                               frame |-> r.frame - low.frame, ip |-> r.ip ]
  BY <1>x, <1>5 DEF Less
<1>7. QED
  BY <1>p, <1>3, <1>4, <1>6

\* forEach's builtin, element by element.
Onto(c, m, r) ==
  Enter(Push(Rerun(m, Less(r)), c.ops[r.ip - 1].n - r.left + 1), c.ops[r.ip - 1].to, End(c), Len(m.stack))
Off(m, r) == Push([[m EXCEPT !.runs = Front(@)] EXCEPT !.ip = r.ip], Undef)

LEMMA ElementParts ==
  ASSUME NEW c, NEW m \in Parts, m.runs # <<>>, NEW quiet, NEW r, r = m.runs[Len(m.runs)]
  PROVE  Element(c, m, quiet) = IF r.left = 0 \/ quiet THEN Off(m, r) ELSE Onto(c, m, r)
<1>1. m.runs \in Seq(Run)
  BY DEF Parts
<1>2. Len(m.runs) \in DOMAIN m.runs
  BY <1>1, LenNat
<1>3. Off(m, r) = [m EXCEPT !.runs = Front(@), !.ip = r.ip, !.stack = Append(@, Undef)]
  BY DEF Off, Push, Parts
<1>v. PICK v : v = c.ops[r.ip - 1].n - r.left + 1
  OBVIOUS
<1>4. Push(Rerun(m, Less(r)), v) = [m EXCEPT !.runs[Len(m.runs)].left = @ - 1, !.stack = Append(@, v)]
  BY <1>2 DEF Push, Rerun, Less, WithLast, Parts
<1>5. QED
  BY <1>v, <1>3, <1>4 DEF Element, Onto

LEMMA TwinElement ==
  ASSUME NEW m, NEW k, NEW low, Twin(m, k, low), low.place < Len(m.runs), NEW c \in Chunks,
         NEW quiet, NEW r, r = m.runs[Len(m.runs)],
         r.left # 0 => c.ops[r.ip - 1].n - r.left + 1 \in Val /\ c.ops[r.ip - 1].to \in Nat
  PROVE  Twin(Element(c, m, quiet), Element(c, k, quiet), low)
<1>1. /\ m \in Parts /\ k \in Parts /\ low \in Lows /\ low.base \in Nat /\ Len(m.stack) \in Nat
      /\ low.base <= Len(m.stack) /\ Len(k.stack) = Len(m.stack) - low.base
      /\ m.runs \in Seq(Run) /\ low.place \in Nat /\ Len(m.runs) \in Nat /\ k.runs = OwnRuns(m.runs, low)
  BY TwinParts
<1>q. PICK q : q = k.runs[Len(k.runs)]
  OBVIOUS
<1>2. /\ m.runs # <<>> /\ k.runs # <<>> /\ r \in Run /\ q = OwnRun(r, low)
      /\ q.left = r.left /\ q.ip = r.ip /\ r.ip \in Nat
  BY <1>q, TwinLast
<1>3. Undef \in Val
  BY ValuesAssumption
<1>4. Element(c, m, quiet) = IF r.left = 0 \/ quiet THEN Off(m, r) ELSE Onto(c, m, r)
  BY <1>1, <1>2, ElementParts
<1>5. Element(c, k, quiet) = IF q.left = 0 \/ quiet THEN Off(k, q) ELSE Onto(c, k, q)
  BY <1>q, <1>1, <1>2, ElementParts
<1>6. CASE r.left = 0 \/ quiet
  <2>1. OwnRuns(Front(m.runs), low) = Front(k.runs)
    BY <1>1, RunsFront
  <2>2. Front(m.runs) \in Seq(Run) /\ low.place <= Len(Front(m.runs))
    <3>1. Front(m.runs) \in Seq(Run) /\ Len(Front(m.runs)) = Len(m.runs) - 1
      BY <1>1, <1>2, FrontSeq
    <3>2. QED
      BY <1>1, <3>1
  <2>n. PICK n : n = [m EXCEPT !.runs = Front(m.runs)]
    OBVIOUS
  <2>h. PICK h : h = [k EXCEPT !.runs = Front(k.runs)]
    OBVIOUS
  <2>3. Twin(n, h, low)
    BY <2>n, <2>h, <2>1, <2>2, TwinRuns
  <2>4. Twin([n EXCEPT !.ip = r.ip], [h EXCEPT !.ip = r.ip], low)
    BY <1>2, <2>3, TwinJump
  <2>5. Twin(Push([n EXCEPT !.ip = r.ip], Undef), Push([h EXCEPT !.ip = r.ip], Undef), low)
    BY <1>3, <2>4, TwinPush
  <2>6. Off(m, r) = Push([n EXCEPT !.ip = r.ip], Undef) /\ Off(k, q) = Push([h EXCEPT !.ip = r.ip], Undef)
    BY <2>n, <2>h, <1>2 DEF Off
  <2>7. QED
    BY <1>2, <1>4, <1>5, <1>6, <2>5, <2>6
<1>7. CASE ~(r.left = 0 \/ quiet)
  <2>1. Less(r) \in Run /\ Less(q) = OwnRun(Less(r), low)
    BY <1>1, <1>2, <1>7, LessRun
  <2>v. PICK v : v = c.ops[r.ip - 1].n - r.left + 1
    OBVIOUS
  <2>t. PICK t : t = c.ops[r.ip - 1].to
    OBVIOUS
  <2>2. v \in Val /\ t \in Nat
    BY <2>v, <2>t, <1>7
  <2>n. PICK n : n = Push(Rerun(m, Less(r)), v)
    OBVIOUS
  <2>h. PICK h : h = Push(Rerun(k, Less(q)), v)
    OBVIOUS
  <2>3. Twin(Rerun(m, Less(r)), Rerun(k, Less(q)), low)
    BY <2>1, TwinRerun
  <2>4. Twin(n, h, low)
    BY <2>n, <2>h, <2>2, <2>3, TwinPush
  <2>b. PICK b : b = Len(m.stack)
    OBVIOUS
  <2>5. b \in Nat /\ low.base <= b /\ End(c) \in Nat
    BY <2>b, <1>1, ChunkTypes
  <2>6. Twin(Enter(n, t, End(c), b), Enter(h, t, End(c), b - low.base), low)
    BY <2>2, <2>4, <2>5, TwinEnter
  <2>7. Onto(c, m, r) = Enter(n, t, End(c), b)
    BY <2>n, <2>v, <2>t, <2>b DEF Onto
  <2>8. Onto(c, k, q) = Enter(h, t, End(c), b - low.base)
    <3>1. Len(k.stack) = b - low.base
      BY <2>b, <1>1
    <3>2. c.ops[q.ip - 1].n - q.left + 1 = v /\ c.ops[q.ip - 1].to = t
      BY <1>2, <2>v, <2>t
    <3>3. QED
      BY <2>h, <3>1, <3>2 DEF Onto
  <2>9. QED
    BY <1>2, <1>4, <1>5, <1>7, <2>6, <2>7, <2>8
<1>8. QED
  BY <1>6, <1>7

\* The local operations that pop an operand.
PopsOne == {"pop", "set", "inc", "jumpIfEnd", "return"}

LEMMA TwinAfter ==
  ASSUME NEW m, NEW k, NEW low, Twin(m, k, low), NEW c \in Chunks, m.ip \in Positions(c),
         OpAt(c, m).op \in LocalOps, low.frame < Len(m.frames), low.base <= Top(m).base,
         OpAt(c, m).op \in PopsOne => Top(m).base < Len(m.stack)
  PROVE  Twin(After(c, m), After(c, k), low)
<1>1. /\ m \in Parts /\ k \in Parts /\ low.base \in Nat /\ m.ip \in Nat /\ k.ip = m.ip
      /\ Len(m.stack) \in Nat /\ low.base <= Len(m.stack) /\ Len(k.stack) = Len(m.stack) - low.base
  BY TwinParts
<1>2. Top(m).base \in Int /\ Top(k).slot = Top(m).slot /\ Top(m).slot \in Val
  BY TwinTop
<1>o. PICK o : o = OpAt(c, m)
  OBVIOUS
<1>3. o \in Op /\ OpAt(c, k) = o /\ OpAt(c, m) = o
  <2>1. o = c.ops[m.ip] /\ OpAt(c, k) = c.ops[m.ip]
    BY <1>o, <1>1 DEF OpAt
  <2>2. QED
    BY <1>o, <2>1, ChunkTypes
<1>4. o.arg \in Val /\ o.to \in Nat
  BY <1>3 DEF Op
<1>5. o.op \in LocalOps /\ (o.op \in PopsOne => Top(m).base < Len(m.stack))
  BY <1>o
<1>6. Top(m).base < Len(m.stack) =>
        /\ low.base < Len(m.stack)
        /\ Twin(PopOne(m), PopOne(k), low) /\ Tip(k.stack) = Tip(m.stack) /\ Tip(m.stack) \in Val
  <2> SUFFICES ASSUME Top(m).base < Len(m.stack)
      PROVE /\ low.base < Len(m.stack)
            /\ Twin(PopOne(m), PopOne(k), low) /\ Tip(k.stack) = Tip(m.stack) /\ Tip(m.stack) \in Val
    OBVIOUS
  <2>1. low.base < Len(m.stack)
    BY <1>1, <1>2
  <2>2. QED
    BY <2>1, TwinPop
<1>7. CASE o.op = "load"
  <2>1. Twin(Push(m, o.arg), Push(k, o.arg), low)
    BY <1>4, TwinPush
  <2>2. Twin(Advance(Push(m, o.arg)), Advance(Push(k, o.arg)), low)
    BY <2>1, TwinAdvance
  <2>3. After(c, m) = Advance(Push(m, o.arg)) /\ After(c, k) = Advance(Push(k, o.arg))
    BY <1>3, <1>7 DEF After
  <2>4. QED
    BY <2>2, <2>3
<1>8. CASE o.op = "pop"
  <2>1. Twin(PopOne(m), PopOne(k), low)
    BY <1>5, <1>6, <1>8 DEF PopsOne
  <2>2. Twin(Advance(PopOne(m)), Advance(PopOne(k)), low)
    BY <2>1, TwinAdvance
  <2>3. After(c, m) = Advance(PopOne(m)) /\ After(c, k) = Advance(PopOne(k))
    BY <1>3, <1>8 DEF After
  <2>4. QED
    BY <2>2, <2>3
<1>9. CASE o.op = "set"
  <2>v. PICK v : v = Tip(m.stack)
    OBVIOUS
  <2>1. Tip(k.stack) = v /\ v \in Val /\ low.base < Len(m.stack)
    BY <2>v, <1>5, <1>6, <1>9 DEF PopsOne
  <2>2. Twin(SetSlot(m, v), SetSlot(k, v), low)
    BY <2>1, TwinSet
  <2>3. low.base < Len(SetSlot(m, v).stack)
    BY <1>1, <2>1 DEF SetSlot, Parts
  <2>4. Twin(PopOne(SetSlot(m, v)), PopOne(SetSlot(k, v)), low)
    BY <2>2, <2>3, TwinPop
  <2>5. Twin(Advance(PopOne(SetSlot(m, v))), Advance(PopOne(SetSlot(k, v))), low)
    BY <2>4, TwinAdvance
  <2>6. After(c, m) = Advance(PopOne(SetSlot(m, v))) /\ After(c, k) = Advance(PopOne(SetSlot(k, v)))
    BY <2>v, <2>1, <1>3, <1>9 DEF After
  <2>7. QED
    BY <2>5, <2>6
<1>10. CASE o.op = "get"
  <2>1. Twin(Push(m, Top(m).slot), Push(k, Top(m).slot), low)
    BY <1>2, TwinPush
  <2>2. Twin(Advance(Push(m, Top(m).slot)), Advance(Push(k, Top(m).slot)), low)
    BY <2>1, TwinAdvance
  <2>3. After(c, m) = Advance(Push(m, Top(m).slot)) /\ After(c, k) = Advance(Push(k, Top(m).slot))
    BY <1>2, <1>3, <1>10 DEF After
  <2>4. QED
    BY <2>2, <2>3
<1>11. CASE o.op = "inc"
  <2>v. PICK v : v = Tip(m.stack)
    OBVIOUS
  <2>w. PICK w : w = IF v \in 0..8 THEN v + 1 ELSE v
    OBVIOUS
  <2>1. Tip(k.stack) = v /\ v \in Val /\ Twin(PopOne(m), PopOne(k), low)
    BY <2>v, <1>5, <1>6, <1>11 DEF PopsOne
  <2>2. w \in Val
    <3>1. v \in 0..8 => v + 1 \in 0..9
      OBVIOUS
    <3>2. QED
      BY <2>w, <2>1, <3>1, ValuesAssumption
  <2>3. Twin(Push(PopOne(m), w), Push(PopOne(k), w), low)
    BY <2>1, <2>2, TwinPush
  <2>4. Twin(Advance(Push(PopOne(m), w)), Advance(Push(PopOne(k), w)), low)
    BY <2>3, TwinAdvance
  <2>5. After(c, m) = Advance(Push(PopOne(m), w)) /\ After(c, k) = Advance(Push(PopOne(k), w))
    BY <2>v, <2>w, <2>1, <1>3, <1>11 DEF After
  <2>6. QED
    BY <2>4, <2>5
<1>12. CASE o.op = "jump"
  <2>1. Twin([m EXCEPT !.ip = o.to], [k EXCEPT !.ip = o.to], low)
    BY <1>4, TwinJump
  <2>2. After(c, m) = [m EXCEPT !.ip = o.to] /\ After(c, k) = [k EXCEPT !.ip = o.to]
    BY <1>3, <1>12 DEF After
  <2>3. QED
    BY <2>1, <2>2
<1>13. CASE o.op = "jumpIfEnd"
  <2>v. PICK v : v = Tip(m.stack)
    OBVIOUS
  <2>p. PICK p : p = IF v = EndMark THEN o.to ELSE m.ip + 1
    OBVIOUS
  <2>1. Tip(k.stack) = v /\ Twin(PopOne(m), PopOne(k), low)
    BY <2>v, <1>5, <1>6, <1>13 DEF PopsOne
  <2>2. p \in Nat
    BY <2>p, <1>1, <1>4
  <2>3. Twin([PopOne(m) EXCEPT !.ip = p], [PopOne(k) EXCEPT !.ip = p], low)
    BY <2>1, <2>2, TwinJump
  <2>4. PopOne(m).ip = m.ip /\ PopOne(k).ip = m.ip
    BY <1>1 DEF PopOne, Parts
  <2>5. After(c, m) = [PopOne(m) EXCEPT !.ip = p]
    BY <2>v, <2>p, <2>4, <1>3, <1>13 DEF After
  <2>6. After(c, k) = [PopOne(k) EXCEPT !.ip = p]
    BY <2>v, <2>p, <2>1, <2>4, <1>3, <1>13 DEF After
  <2>7. QED
    BY <2>3, <2>5, <2>6
<1>14. CASE o.op = "call"
  <2>b. PICK b : b = Len(m.stack)
    OBVIOUS
  <2>p. PICK p : p = m.ip + 1
    OBVIOUS
  <2>1. b \in Nat /\ low.base <= b /\ p \in Nat
    BY <2>b, <2>p, <1>1
  <2>2. Twin(Enter(m, o.to, p, b), Enter(k, o.to, p, b - low.base), low)
    BY <1>4, <2>1, TwinEnter
  <2>3. After(c, m) = Enter(m, o.to, p, b)
    BY <2>b, <2>p, <1>3, <1>14 DEF After
  <2>4. After(c, k) = Enter(k, o.to, p, b - low.base)
    <3>1. Len(k.stack) = b - low.base /\ k.ip + 1 = p
      BY <2>b, <2>p, <1>1
    <3>2. QED
      BY <3>1, <1>3, <1>14 DEF After
  <2>5. QED
    BY <2>2, <2>3, <2>4
<1>15. CASE o.op = "return"
  <2>1. Top(m).base < Len(m.stack)
    BY <1>5, <1>15 DEF PopsOne
  <2>2. Twin(Leave(m), Leave(k), low)
    BY <2>1, TwinLeave
  <2>3. After(c, m) = Leave(m) /\ After(c, k) = Leave(k)
    BY <1>3, <1>15 DEF After
  <2>4. QED
    BY <2>2, <2>3
<1>16. QED
  BY <1>5, <1>7, <1>8, <1>9, <1>10, <1>11, <1>12, <1>13, <1>14, <1>15 DEF LocalOps

(* ---- the pulls in progress --------------------------------------------------- *)

LEMMA RunParts ==
  ASSUME NEW c \in Chunks, NEW a \in Maps(c), NEW m \in MachineType(c), Shape(c, a, m),
         NEW i \in 1..Len(m.runs)
  PROVE  /\ m.runs[i] \in Run /\ m.runs[i].base \in Nat /\ m.runs[i].frame \in 1..Len(m.frames)
         /\ m.runs[i].ip \in Positions(c) /\ m.frames[m.runs[i].frame].base \in Nat
         /\ m.frames[m.runs[i].frame].base <= m.runs[i].base
         /\ m.runs[i].frame < Len(m.frames) => m.frames[m.runs[i].frame + 1].base >= m.runs[i].base
         /\ m.runs[i].kind # "each" => m.runs[i].it \in Iter /\ m.runs[i].kind \in Asks
<1>1. /\ m.runs[i] \in Run /\ DOMAIN m.runs = 1..Len(m.runs) /\ DOMAIN m.frames = 1..Len(m.frames)
      /\ m.runs[i].base \in Int
      /\ \A j \in 1..Len(m.frames) : m.frames[j].base \in Int
  BY MachineTypes
<1>2. RunLinked(c, a, m, m.runs[i])
  BY <1>1 DEF Shape, RunsLinked
<1>r. PICK r : r = m.runs[i]
  OBVIOUS
<1>3. /\ r.frame \in 1..Len(m.frames) /\ r.ip \in Positions(c) /\ m.frames[r.frame].base <= r.base
      /\ r.frame < Len(m.frames) => m.frames[r.frame + 1].base >= r.base
      /\ r.kind # "each" => r.it \in Iter
  BY <1>r, <1>1, <1>2 DEF RunLinked, Rests
<1>4. m.frames[r.frame].base \in Int /\ m.frames[r.frame].base >= 0
  BY <1>1, <1>3 DEF Shape, Based
<1>5. r.base \in Nat
  BY <1>r, <1>1, <1>3, <1>4
<1>6. r.kind # "each" => r.kind \in Asks
  BY <1>r, <1>1 DEF Run
<1>7. QED
  BY <1>r, <1>1, <1>3, <1>4, <1>5, <1>6

LEMMA RunsNested ==
  ASSUME NEW c \in Chunks, NEW a \in Maps(c), NEW m \in MachineType(c), Shape(c, a, m),
         NEW i \in 1..Len(m.runs), NEW j \in 1..Len(m.runs), i < j
  PROVE  m.runs[i].frame < m.runs[j].frame /\ m.runs[i].base <= m.runs[j].base
<1>p. PICK p : p = m.runs[i]
  OBVIOUS
<1>q. PICK q : q = m.runs[j]
  OBVIOUS
<1>1. /\ DOMAIN m.runs = 1..Len(m.runs) /\ DOMAIN m.frames = 1..Len(m.frames) /\ Len(m.frames) \in Nat
      /\ \A l \in 1..Len(m.frames) : m.frames[l].base \in Int
  BY MachineTypes
<1>2. p.frame < q.frame
  BY <1>p, <1>q, <1>1 DEF Shape, RunsLinked
<1>3. /\ p.frame \in 1..Len(m.frames) /\ p.base \in Nat
      /\ p.frame < Len(m.frames) => m.frames[p.frame + 1].base >= p.base
  BY <1>p, RunParts
<1>4. q.frame \in 1..Len(m.frames) /\ q.base \in Nat /\ m.frames[q.frame].base <= q.base
  BY <1>q, RunParts
<1>x. PICK x : x = p.frame + 1
  OBVIOUS
<1>y. PICK y : y = q.frame
  OBVIOUS
<1>5. x \in 1..Len(m.frames) /\ y \in 1..Len(m.frames) /\ x <= y /\ p.frame < Len(m.frames)
  BY <1>x, <1>y, <1>1, <1>2, <1>3, <1>4
<1>6. m.frames[x].base <= m.frames[y].base /\ m.frames[x].base \in Int /\ m.frames[y].base \in Int
  <2>1. CASE x = y
    BY <1>1, <1>5, <2>1
  <2>2. CASE x < y
    BY <1>1, <1>5, <2>2 DEF Shape, Based
  <2>3. QED
    BY <1>5, <2>1, <2>2
<1>7. m.frames[x].base >= p.base /\ m.frames[y].base <= q.base
  BY <1>x, <1>y, <1>3, <1>4, <1>5
<1>8. p.base <= q.base
  BY <1>3, <1>4, <1>6, <1>7
<1>9. QED
  BY <1>p, <1>q, <1>2, <1>8

LEMMA BaseOverRun ==
  ASSUME NEW c \in Chunks, NEW a \in Maps(c), NEW m \in MachineType(c), Shape(c, a, m),
         NEW i \in 1..Len(m.runs), m.runs[i].frame < Len(m.frames)
  PROVE  m.runs[i].base <= Top(m).base /\ Top(m).base \in Int
<1>p. PICK p : p = m.runs[i]
  OBVIOUS
<1>1. Len(m.frames) \in Nat /\ (m.frames # <<>> <=> Len(m.frames) > 0)
  BY MachineTypes
<1>2. /\ p.frame \in 1..Len(m.frames) /\ p.base \in Nat /\ p.frame < Len(m.frames)
      /\ m.frames[p.frame + 1].base >= p.base
  BY <1>p, RunParts
<1>x. PICK x : x = p.frame + 1
  OBVIOUS
<1>3. x \in 1..Len(m.frames) /\ m.frames # <<>>
  BY <1>x, <1>1, <1>2
<1>4. m.frames[x].base <= Top(m).base /\ m.frames[x].base \in Int /\ Top(m).base \in Int
  BY <1>3, BaseBelow DEF Shape
<1>5. m.frames[x].base >= p.base
  BY <1>x, <1>2
<1>6. p.base <= Top(m).base
  BY <1>2, <1>4, <1>5
<1>7. QED
  BY <1>p, <1>4, <1>6

LEMMA MachineIsParts ==
  ASSUME NEW c \in Chunks, NEW m \in MachineType(c)
  PROVE  m \in Parts
<1>1. m.ip \in Nat
  BY MachineTypes
<1>2. QED
  BY <1>1 DEF MachineType, Parts

\* The rank of a block, and of the i-th context in line; its machine, and how many
\* finalizers it has open.
BlockRank(d, k) == d.rank[chunk.block[k].entry]
Rank(d, i) == IF i = 0 THEN d.rank[chunk.main] ELSE BlockRank(d, Pull(i).it)
Mine(i) == Own(Whole(i), Level(i))
Open(i) == (IF i < Waiting THEN line[i + 1].parked ELSE Len(stash)) - Level(i).parked

\* The pulls in progress are in line, each over the part of the stash that was
\* parked when it was asked for.
Lined ==
  /\ line \in Seq([place : Nat, parked : Nat])
  /\ \A i \in DOMAIN line : /\ line[i].place \in DOMAIN vm.runs /\ Pull(i).kind # "each"
                            /\ line[i].parked <= Len(stash)
  /\ \A i, j \in DOMAIN line : i < j => line[i].place < line[j].place /\ line[i].parked <= line[j].parked
  /\ \A p \in DOMAIN vm.runs : vm.runs[p].kind # "each" => \E i \in DOMAIN line : line[i].place = p

\* What the contexts do is accounted for: each one in line, and each parked.
Orderly(a, d) ==
  /\ \A i, j \in 0..Waiting : i < j => Rank(d, j) < Rank(d, i)
  /\ \A i \in 0..Waiting : Tidy(chunk, a, d, Mine(i), Open(i), Rank(d, i))
  /\ \A i \in DOMAIN line : Pull(i).ip \notin d.calm
  /\ \A k \in Iter : coros[k].state = "Suspended" =>
       Tidy(chunk, a, d, Parked(coros[k]), 0, BlockRank(d, k))
  /\ IF halted THEN Open(Waiting) = 0 ELSE vm.ip \in d.calm => pending = None

\* What is known of the i-th pull.
Known(i) ==
  /\ line[i].place \in 1..Len(vm.runs) /\ line[i].parked \in Nat /\ line[i].parked <= Len(stash)
  /\ Pull(i) = vm.runs[line[i].place] /\ Pull(i) \in Run
  /\ Pull(i).base \in Nat /\ Pull(i).frame \in 1..Len(vm.frames) /\ Pull(i).ip \in Positions(chunk)
  /\ Pull(i).it \in Iter /\ Pull(i).kind \in Asks /\ Pull(i).kind # "each"
  /\ Pull(i).base <= Len(vm.stack)

LEMMA KnownPulls ==
  ASSUME NEW a, Sane(a), Lined
  PROVE  /\ Waiting \in Nat /\ DOMAIN line = 1..Waiting
         /\ \A i \in 1..Waiting : Known(i)
         /\ Len(stash) \in Nat /\ Len(vm.runs) \in Nat /\ Len(vm.frames) \in Nat /\ Len(vm.stack) \in Nat
<1>1. /\ chunk \in Chunks /\ a \in Maps(chunk) /\ vm \in MachineType(chunk) /\ Shape(chunk, a, vm)
      /\ StashType(stash)
  BY SaneTypes
<1>2. line \in Seq([place : Nat, parked : Nat])
  BY DEF Lined
<1>3. /\ Waiting \in Nat /\ DOMAIN line = 1..Waiting
      /\ \A i \in 1..Waiting : line[i] \in [place : Nat, parked : Nat]
  BY <1>2, LenNat DEF Waiting
<1>4. /\ Len(vm.runs) \in Nat /\ Len(vm.frames) \in Nat /\ Len(vm.stack) \in Nat
      /\ DOMAIN vm.runs = 1..Len(vm.runs)
  BY <1>1, MachineTypes
<1>5. Len(stash) \in Nat
  BY <1>1, LenNat DEF StashType
<1>6. MachineOK(chunk, a, vm, halted)
  BY DEF Sane, Sound
<1>7. \A i \in DOMAIN vm.runs : vm.runs[i].base <= Len(vm.stack)
  BY <1>1, <1>6, NestedBases
<1>8. ASSUME NEW i \in 1..Waiting PROVE Known(i)
  <2>1. line[i].place \in 1..Len(vm.runs) /\ line[i].parked <= Len(stash) /\ Pull(i).kind # "each"
    BY <1>3, <1>4 DEF Lined
  <2>2. line[i].parked \in Nat
    BY <1>3
  <2>p. PICK p \in 1..Len(vm.runs) : p = line[i].place
    BY <2>1
  <2>3. Pull(i) = vm.runs[p]
    BY <2>p DEF Pull
  <2>4. /\ vm.runs[p] \in Run /\ vm.runs[p].base \in Nat /\ vm.runs[p].frame \in 1..Len(vm.frames)
        /\ vm.runs[p].ip \in Positions(chunk)
        /\ vm.runs[p].kind # "each" => vm.runs[p].it \in Iter /\ vm.runs[p].kind \in Asks
    BY <1>1, RunParts
  <2>5. vm.runs[p].base <= Len(vm.stack)
    BY <1>4, <1>7
  <2>6. QED
    BY <2>1, <2>2, <2>p, <2>3, <2>4, <2>5 DEF Known
<1>9. QED
  BY <1>3, <1>4, <1>5, <1>8

LEMMA LevelTypes ==
  ASSUME NEW a, Sane(a), Lined, NEW i \in 0..Waiting
  PROVE  /\ Level(i) \in Lows
         /\ i = 0 => Level(i).base = 0 /\ Level(i).frame = 0 /\ Level(i).place = 0 /\ Level(i).parked = 0
         /\ i # 0 => /\ i \in 1..Waiting /\ Level(i).base = Pull(i).base /\ Level(i).frame = Pull(i).frame
                     /\ Level(i).place = line[i].place /\ Level(i).parked = line[i].parked
         /\ Level(i).base <= Len(vm.stack) /\ Level(i).frame <= Len(vm.frames)
         /\ Level(i).place <= Len(vm.runs) /\ Level(i).parked <= Len(stash)
<1>1. /\ Waiting \in Nat /\ DOMAIN line = 1..Waiting
      /\ \A j \in 1..Waiting : Known(j)
      /\ Len(stash) \in Nat /\ Len(vm.runs) \in Nat /\ Len(vm.frames) \in Nat /\ Len(vm.stack) \in Nat
  BY KnownPulls
<1>2. CASE i = 0
  <2>1. Level(i) = [base |-> 0, frame |-> 0, place |-> 0, parked |-> 0]
    BY <1>2 DEF Level
  <2>2. QED
    BY <1>1, <1>2, <2>1 DEF Lows
<1>3. CASE i # 0
  <2>1. i \in 1..Waiting
    BY <1>1, <1>3
  <2>2. Known(i)
    BY <1>1, <2>1
  <2>3. Level(i) = [ base |-> Pull(i).base, frame |-> Pull(i).frame,
                     place |-> line[i].place, parked |-> line[i].parked ]
    BY <1>3 DEF Level
  <2>4. /\ Pull(i).base \in Nat /\ Pull(i).frame \in Nat /\ line[i].place \in Nat /\ line[i].parked \in Nat
        /\ Pull(i).frame <= Len(vm.frames) /\ line[i].place <= Len(vm.runs)
    BY <2>2 DEF Known
  <2>5. QED
    BY <1>3, <2>1, <2>2, <2>3, <2>4 DEF Lows, Known
<1>4. QED
  BY <1>2, <1>3

\* One level lies below the next.
LEMMA LevelsNested ==
  ASSUME NEW a, Sane(a), Lined, NEW i \in 0..Waiting, i < Waiting
  PROVE  /\ i + 1 \in 1..Waiting /\ i + 1 \in 0..Waiting
         /\ Level(i).base <= Pull(i + 1).base /\ Level(i).frame < Pull(i + 1).frame
         /\ Level(i).place < line[i + 1].place /\ Level(i).parked <= line[i + 1].parked
<1>1. /\ Waiting \in Nat /\ DOMAIN line = 1..Waiting
      /\ \A j \in 1..Waiting : Known(j)
  BY KnownPulls
<1>n. PICK n : n = i + 1
  OBVIOUS
<1>2. n \in 1..Waiting /\ n \in 0..Waiting
  BY <1>n, <1>1
<1>3. Known(n)
  BY <1>1, <1>2
<1>4. /\ Pull(n).base \in Nat /\ Pull(n).frame \in 1..Len(vm.frames) /\ line[n].place \in 1..Len(vm.runs)
      /\ line[n].parked \in Nat /\ Pull(n) = vm.runs[line[n].place]
  BY <1>3 DEF Known
<1>5. CASE i = 0
  BY <1>n, <1>2, <1>4, <1>5, LevelTypes
<1>6. CASE i # 0
  <2>1. /\ i \in 1..Waiting /\ Level(i).base = Pull(i).base /\ Level(i).frame = Pull(i).frame
        /\ Level(i).place = line[i].place /\ Level(i).parked = line[i].parked
    BY <1>6, LevelTypes
  <2>2. Known(i)
    BY <1>1, <2>1
  <2>3. line[i].place \in 1..Len(vm.runs) /\ Pull(i) = vm.runs[line[i].place]
    BY <2>2 DEF Known
  <2>4. line[i].place < line[n].place /\ line[i].parked <= line[n].parked
    <3>1. i < n
      BY <1>n, <1>1
    <3>2. QED
      BY <1>1, <1>2, <2>1, <3>1 DEF Lined
  <2>5. Pull(i).frame < Pull(n).frame /\ Pull(i).base <= Pull(n).base
    <3>1. chunk \in Chunks /\ a \in Maps(chunk) /\ vm \in MachineType(chunk) /\ Shape(chunk, a, vm)
      BY SaneTypes
    <3>p. PICK p \in 1..Len(vm.runs) : p = line[i].place
      BY <2>3
    <3>q. PICK q \in 1..Len(vm.runs) : q = line[n].place
      BY <1>4
    <3>2. p < q
      BY <3>p, <3>q, <2>4
    <3>3. vm.runs[p].frame < vm.runs[q].frame /\ vm.runs[p].base <= vm.runs[q].base
      BY <3>1, <3>2, RunsNested
    <3>4. QED
      BY <3>p, <3>q, <3>3, <2>3, <1>4
  <2>6. QED
    BY <1>n, <1>2, <2>1, <2>4, <2>5
<1>7. QED
  BY <1>5, <1>6

\* Every context in line has its part of the machine.
LEMMA PausedTwin ==
  ASSUME NEW a, Sane(a), Lined, NEW i \in 0..Waiting, i < Waiting
  PROVE  /\ Twin(Paused(i + 1), Mine(i), Level(i)) /\ Whole(i) = Paused(i + 1)
         /\ Paused(i + 1).ip = Pull(i + 1).ip
         /\ Len(Paused(i + 1).stack) = Pull(i + 1).base
         /\ Len(Paused(i + 1).frames) = Pull(i + 1).frame
         /\ Len(Paused(i + 1).runs) = line[i + 1].place - 1
<1>1. vm \in MachineType(chunk) /\ chunk \in Chunks
  BY SaneTypes
<1>2. /\ vm.frames \in Seq(Frame) /\ vm.stack \in Seq(Val) /\ vm.runs \in Seq(Run)
      /\ Len(vm.frames) \in Nat /\ Len(vm.stack) \in Nat /\ Len(vm.runs) \in Nat
  BY <1>1, MachineTypes
<1>n. PICK n : n = i + 1
  OBVIOUS
<1>3. /\ n \in 1..Waiting /\ Level(i).base <= Pull(n).base /\ Level(i).frame < Pull(n).frame
      /\ Level(i).place < line[n].place
  BY <1>n, LevelsNested
<1>4. Known(n)
  BY <1>3, KnownPulls
<1>p. PICK p : p = Pull(n).ip
  OBVIOUS
<1>g. PICK g : g = Pull(n).frame
  OBVIOUS
<1>b. PICK b : b = Pull(n).base
  OBVIOUS
<1>q. PICK q : q = line[n].place - 1
  OBVIOUS
<1>5. /\ p \in Nat /\ g \in Nat /\ b \in Nat /\ q \in Nat
      /\ g <= Len(vm.frames) /\ b <= Len(vm.stack) /\ q <= Len(vm.runs)
  <2>1. /\ line[n].place \in 1..Len(vm.runs) /\ Pull(n).base \in Nat /\ Pull(n).base <= Len(vm.stack)
        /\ Pull(n).frame \in 1..Len(vm.frames) /\ Pull(n).ip \in Positions(chunk)
    BY <1>4 DEF Known
  <2>2. p \in Nat
    BY <1>p, <2>1 DEF Positions
  <2>3. g \in Nat /\ g <= Len(vm.frames) /\ b \in Nat /\ b <= Len(vm.stack)
    BY <1>g, <1>b, <1>2, <2>1
  <2>z. PICK z : z = line[n].place
    OBVIOUS
  <2>4. z \in 1..Len(vm.runs) /\ q = z - 1
    BY <1>q, <2>z, <2>1
  <2>5. q \in Nat /\ q <= Len(vm.runs)
    BY <1>2, <2>4
  <2>6. QED
    BY <2>2, <2>3, <2>5
<1>6. Level(i) \in Lows
  BY LevelTypes
<1>7. Level(i).base <= b /\ Level(i).frame <= g /\ Level(i).place <= q
  <2>1. Level(i).frame \in Nat /\ Level(i).place \in Nat
    BY <1>6 DEF Lows
  <2>2. line[n].place \in Nat
    BY <1>4 DEF Known
  <2>3. QED
    BY <1>g, <1>b, <1>q, <1>3, <1>5, <2>1, <2>2
<1>fs. PICK fs : fs = Truncate(vm.frames, g)
  OBVIOUS
<1>st. PICK st : st = Truncate(vm.stack, b)
  OBVIOUS
<1>rs. PICK rs : rs = Truncate(vm.runs, q)
  OBVIOUS
<1>8. fs \in Seq(Frame) /\ Len(fs) = g
  BY <1>fs, <1>2, <1>5, TruncateSeq
<1>9. st \in Seq(Val) /\ Len(st) = b
  BY <1>st, <1>2, <1>5, TruncateSeq
<1>10. rs \in Seq(Run) /\ Len(rs) = q
  BY <1>rs, <1>2, <1>5, TruncateSeq
<1>11. Paused(n) = [ip |-> p, frames |-> fs, stack |-> st, runs |-> rs]
  BY <1>p, <1>g, <1>b, <1>q, <1>fs, <1>st, <1>rs DEF Paused
<1>12. Paused(n) \in Parts
  <2>1. [ip |-> p, frames |-> fs, stack |-> st, runs |-> rs] \in Parts
    BY <1>5, <1>8, <1>9, <1>10, Made
  <2>2. QED
    BY <1>11, <2>1
<1>13. Above(Paused(n), Level(i))
  BY <1>7, <1>8, <1>9, <1>10, <1>11 DEF Above
<1>14. Whole(i) = Paused(n)
  BY <1>n DEF Whole
<1>15. Twin(Paused(n), Mine(i), Level(i))
  BY <1>6, <1>12, <1>13, <1>14 DEF Twin, Mine
<1>16. QED
  BY <1>n, <1>p, <1>g, <1>b, <1>q, <1>8, <1>9, <1>10, <1>11, <1>14, <1>15

LEMMA TopLevel ==
  ASSUME NEW a, Sane(a), Lined
  PROVE  Waiting \in 0..Waiting /\ Twin(vm, Own(vm, Level(Waiting)), Level(Waiting))
<1>1. vm \in MachineType(chunk) /\ chunk \in Chunks
  BY SaneTypes
<1>2. vm \in Parts
  BY <1>1, MachineIsParts
<1>3. Waiting \in 0..Waiting
  BY KnownPulls
<1>4. /\ Level(Waiting) \in Lows
      /\ Level(Waiting).base <= Len(vm.stack) /\ Level(Waiting).frame <= Len(vm.frames)
      /\ Level(Waiting).place <= Len(vm.runs)
  BY <1>3, LevelTypes
<1>5. QED
  BY <1>2, <1>3, <1>4 DEF Twin, Above

\* While its top frame runs, or was halted by a yield, that frame is above.
LEMMA TopAbove ==
  ASSUME NEW a, Sane(a), Lined, Going(chunk, a, vm) \/ Halting(chunk, a, vm)
  PROVE  /\ Level(Waiting).frame < Len(vm.frames) /\ Level(Waiting).base <= Top(vm).base
         /\ vm.frames # <<>> /\ Top(vm).base \in Nat
<1>1. vm \in MachineType(chunk) /\ chunk \in Chunks /\ a \in Maps(chunk) /\ Shape(chunk, a, vm)
  BY SaneTypes
<1>2. /\ vm.frames # <<>>
      /\ vm.runs # <<>> => vm.runs[Len(vm.runs)].frame < Len(vm.frames)
  BY DEF Going, Halting
<1>3. Len(vm.frames) \in Nat /\ Len(vm.frames) > 0 /\ Len(vm.frames) \in 1..Len(vm.frames)
  BY <1>1, <1>2, MachineTypes
<1>4. Top(vm).base \in Nat
  BY <1>1, <1>2, <1>3, BaseBelow DEF Shape, Top
<1>5. Waiting \in 0..Waiting /\ Waiting \in Nat
  BY KnownPulls
<1>6. CASE Waiting = 0
  BY <1>2, <1>3, <1>4, <1>5, <1>6, LevelTypes
<1>7. CASE Waiting # 0
  <2>1. /\ Waiting \in 1..Waiting /\ Level(Waiting).base = Pull(Waiting).base
        /\ Level(Waiting).frame = Pull(Waiting).frame
    BY <1>5, <1>7, LevelTypes
  <2>2. Known(Waiting)
    BY <2>1, KnownPulls
  <2>p. PICK p \in 1..Len(vm.runs) : p = line[Waiting].place
    BY <2>2 DEF Known
  <2>3. Pull(Waiting) = vm.runs[p]
    BY <2>2, <2>p DEF Known
  <2>4. p \in DOMAIN vm.runs
    BY <1>1, MachineTypes
  <2>5. vm.runs[p].frame < Len(vm.frames)
    BY <1>1, <1>2, <2>4, BelowTop
  <2>6. vm.runs[p].base <= Top(vm).base
    BY <1>1, <2>5, BaseOverRun
  <2>7. QED
    BY <1>2, <1>4, <2>1, <2>3, <2>5, <2>6
<1>8. QED
  BY <1>6, <1>7

LEMMA WholeTwin ==
  ASSUME NEW a, Sane(a), Lined, NEW i \in 0..Waiting
  PROVE  Twin(Whole(i), Mine(i), Level(i))
<1>1. Waiting \in Nat
  BY KnownPulls
<1>2. CASE i < Waiting
  BY <1>2, PausedTwin
<1>3. CASE i = Waiting /\ ~halted
  <2>1. Whole(i) = vm
    BY <1>1, <1>3 DEF Whole
  <2>2. QED
    BY <1>3, <2>1, TopLevel DEF Mine
<1>4. CASE i = Waiting /\ halted
  <2>1. Whole(i) = PopOne(vm)
    BY <1>1, <1>4 DEF Whole
  <2>2. Halting(chunk, a, vm)
    BY <1>4 DEF Sane, Sound, MachineOK
  <2>3. /\ Level(Waiting).base <= Top(vm).base /\ Top(vm).base \in Nat
    BY <2>2, TopAbove
  <2>4. chunk \in Chunks /\ a \in Maps(chunk) /\ vm \in MachineType(chunk)
    BY SaneTypes
  <2>5. Len(vm.stack) \in Nat
    BY <2>4, MachineTypes
  <2>6. Top(vm).base < Len(vm.stack)
    <3>1. vm.ip \in Positions(chunk) /\ Len(vm.stack) - 1 >= Top(vm).base + a.height[vm.ip]
      BY <2>2 DEF Halting, Rests
    <3>2. a.height[vm.ip] \in Nat
      BY <2>4, <3>1, MapTypes
    <3>3. QED
      BY <2>3, <2>5, <3>1, <3>2
  <2>7. Level(Waiting).base < Len(vm.stack)
    <3>1. Level(Waiting).base \in Nat
      BY TopLevel, TwinParts
    <3>2. QED
      BY <2>3, <2>5, <2>6, <3>1
  <2>8. Twin(vm, Own(vm, Level(Waiting)), Level(Waiting))
    BY TopLevel
  <2>9. Twin(PopOne(vm), PopOne(Own(vm, Level(Waiting))), Level(Waiting))
    BY <2>7, <2>8, TwinPop
  <2>10. QED
    BY <1>4, <2>1, <2>9 DEF Twin, Mine
<1>5. QED
  BY <1>1, <1>2, <1>3, <1>4

\* Whoever runs, does so on its own part.
LEMMA Running ==
  ASSUME NEW a, Sane(a), Lined, ~halted
  PROVE  Mine(Waiting) = Own(vm, Level(Waiting)) /\ Twin(vm, Mine(Waiting), Level(Waiting))
         /\ Mine(Waiting).ip = vm.ip
<1>1. Whole(Waiting) = vm
  BY KnownPulls DEF Whole
<1>2. Mine(Waiting) = Own(vm, Level(Waiting))
  BY <1>1 DEF Mine
<1>3. Twin(vm, Mine(Waiting), Level(Waiting))
  BY <1>2, TopLevel
<1>4. QED
  BY <1>2, <1>3, TwinParts

(* ---- who is in line ----------------------------------------------------------- *)

LEMMA OneEach ==
  ASSUME NEW a, Sane(a), Lined, NEW d, Orderly(a, d), d \in Accounts(chunk),
         NEW i \in 0..Waiting, NEW j \in 0..Waiting, Context(i) = Context(j)
  PROVE  i = j
<1>1. Waiting \in Nat
  BY KnownPulls
<1>2. \A n \in 1..Waiting : Context(n) = Pull(n).it /\ Pull(n).it \in Iter /\ Rank(d, n) = BlockRank(d, Pull(n).it)
  <2>1. \A n \in 1..Waiting : Known(n) /\ n # 0
    BY KnownPulls
  <2>2. QED
    BY <2>1 DEF Known, Context, Rank
<1>3. Context(0) = "main" /\ "main" \notin Iter
  BY ChunksAssumption DEF Context
<1>4. CASE i = 0 \/ j = 0
  <2>1. i # 0 => Context(i) \in Iter
    BY <1>1, <1>2
  <2>2. j # 0 => Context(j) \in Iter
    BY <1>1, <1>2
  <2>3. QED
    BY <1>3, <1>4, <2>1, <2>2
<1>5. CASE i # 0 /\ j # 0
  <2>1. i \in 1..Waiting /\ j \in 1..Waiting
    BY <1>1, <1>5
  <2>2. Rank(d, i) = Rank(d, j)
    BY <1>2, <2>1
  <2>3. \A n \in 1..Waiting : Rank(d, n) \in Nat
    <3>1. SUFFICES ASSUME NEW n \in 1..Waiting PROVE Rank(d, n) \in Nat
      OBVIOUS
    <3>2. Pull(n).it \in Iter /\ Rank(d, n) = d.rank[chunk.block[Pull(n).it].entry]
      BY <1>2 DEF BlockRank
    <3>3. chunk.block[Pull(n).it].entry \in Positions(chunk)
      BY <3>2 DEF Sane, Verified, Entered
    <3>4. QED
      BY <3>2, <3>3 DEF Accounts
  <2>4. ~(i < j) /\ ~(j < i)
    <3>1. Rank(d, i) \in Nat
      BY <2>1, <2>3
    <3>2. i < j => Rank(d, j) < Rank(d, i)
      BY DEF Orderly
    <3>3. j < i => Rank(d, i) < Rank(d, j)
      BY DEF Orderly
    <3>4. QED
      BY <2>2, <3>1, <3>2, <3>3
  <2>5. QED
    BY <2>1, <2>4
<1>6. QED
  BY <1>4, <1>5

\* What the machines of the promise are here.
Seat(i) == /\ Context(i) \in Contexts /\ Context(i) \in InLine
           /\ Place(Context(i)) = i
           /\ machine[Context(i)] = Mine(i) /\ finals[Context(i)] = Finals(i)

LEMMA Seated ==
  ASSUME NEW a, Sane(a), Lined, NEW d, d \in Accounts(chunk), Orderly(a, d), NEW i \in 0..Waiting
  PROVE  Seat(i)
<1>1. Waiting \in Nat
  BY KnownPulls
<1>2. Context(i) \in Contexts
  <2>1. i = 0 => Context(i) = "main"
    BY DEF Context
  <2>2. i # 0 => Context(i) \in Iter
    <3>1. i # 0 => Known(i)
      BY <1>1, KnownPulls
    <3>2. QED
      BY <3>1 DEF Context, Known
  <2>3. QED
    BY <2>1, <2>2 DEF Contexts
<1>3. Context(i) \in InLine
  BY DEF InLine
<1>4. Place(Context(i)) = i
  <2>1. \E j \in 0..Waiting : Context(j) = Context(i)
    OBVIOUS
  <2>2. Place(Context(i)) \in 0..Waiting /\ Context(Place(Context(i))) = Context(i)
    BY <2>1 DEF Place
  <2>3. QED
    BY <2>2, OneEach
<1>5. machine[Context(i)] = Mine(i)
  BY <1>2, <1>3, <1>4 DEF machine, Mine
<1>6. finals[Context(i)] = Finals(i)
  BY <1>2, <1>3, <1>4 DEF finals
<1>7. QED
  BY <1>2, <1>3, <1>4, <1>5, <1>6 DEF Seat

LEMMA Unseated ==
  ASSUME NEW c \in Contexts, c \notin InLine
  PROVE  machine[c] = Parked(coros[c]) /\ finals[c] = <<>>
  BY DEF machine, finals

LEMMA ChainHere ==
  ASSUME NEW a, Sane(a), Lined
  PROVE  /\ chain # <<>> /\ Len(chain) = Waiting + 1 /\ DOMAIN chain = 1..Waiting + 1
         /\ \A i \in 0..Waiting : chain[i + 1].ctx = Context(i)
         /\ \A i \in 1..Waiting : chain[i + 1].kind = Pull(i).kind
         /\ chain[Len(chain)].ctx = Context(Waiting)
<1>1. Waiting \in Nat
  BY KnownPulls
<1>n. PICK n : n = Waiting + 1
  OBVIOUS
<1>2. n \in Nat /\ n > 0
  BY <1>n, <1>1
<1>3. chain = [i \in 1..n |-> [ctx |-> Context(i - 1), kind |-> IF i = 1 THEN "next" ELSE Pull(i - 1).kind]]
  BY <1>n DEF chain
<1>S. PICK S : S = {[ctx |-> Context(i - 1), kind |-> IF i = 1 THEN "next" ELSE Pull(i - 1).kind] : i \in 1..n}
  OBVIOUS
<1>4. chain \in [1..n -> S]
  BY <1>3, <1>S
<1>5. chain \in Seq(S) /\ Len(chain) = n
  BY <1>2, <1>4, ViewSeq
<1>6. DOMAIN chain = 1..n
  BY <1>4
<1>7. chain # <<>>
  BY <1>2, <1>5, LenNat
<1>8. ASSUME NEW i \in 0..Waiting PROVE chain[i + 1].ctx = Context(i)
  <2>1. i + 1 \in 1..n /\ (i + 1) - 1 = i
    BY <1>n, <1>1
  <2>2. QED
    BY <1>3, <2>1
<1>9. ASSUME NEW i \in 1..Waiting PROVE chain[i + 1].kind = Pull(i).kind
  <2>1. i + 1 \in 1..n /\ (i + 1) - 1 = i /\ i + 1 # 1
    BY <1>n, <1>1
  <2>2. QED
    BY <1>3, <2>1
<1>10. chain[Len(chain)].ctx = Context(Waiting)
  BY <1>n, <1>1, <1>5, <1>8
<1>11. QED
  BY <1>n, <1>5, <1>6, <1>7, <1>8, <1>9, <1>10

(* ---- the promise's own names for the machine's operations ---------------------- *)

LEMMA SameOperations ==
  /\ \A c, m : Promise!After(c, m) = After(c, m)
  /\ \A c, m, q : Promise!Element(c, m, q) = Element(c, m, q)
  /\ \A m, n : Promise!Each(m, n) = Each(m, n)
  /\ \A c, m : Promise!Refused(c, m) = Refused(c, m)
  /\ \A m : Promise!Advance(m) = Advance(m) /\ Promise!PopOne(m) = PopOne(m) /\ Promise!Top(m) = Top(m)
  /\ \A m, v : Promise!Push(m, v) = Push(m, v)
  /\ \A m, e, p, b : Promise!Enter(m, e, p, b) = Enter(m, e, p, b)
  /\ \A c, m : Promise!OpAt(c, m) = OpAt(c, m)
  /\ \A c : Promise!End(c) = End(c)
  /\ \A s : Promise!Tip(s) = Tip(s) /\ Promise!Front(s) = Front(s)
  /\ \A s, n : Promise!Truncate(s, n) = Truncate(s, n)
  /\ Promise!NoMachine = NoMachine
  /\ Promise!LocalOps = LocalOps /\ Promise!Asks = Asks
  /\ \A m, kind, v : Promise!Answer(m, kind, v) = AnswerTo(m, kind, v)
  /\ \A kind, v : Promise!Held(kind, v) = Park(kind, v)
  /\ \A kind, v, e : Promise!Missing(kind, v, e) = Missing(kind, v, e)
<1>1. \A c, m : Promise!After(c, m) = After(c, m)
  BY DEF Promise!After, Promise!OpAt, Promise!Tip, Promise!Advance, Promise!Push, Promise!PopOne,
     Promise!SetSlot, Promise!Enter, Promise!Leave, Promise!Top, Promise!Truncate, Promise!Front,
     After, OpAt, Tip, Advance, Push, PopOne, SetSlot, Enter, Leave, Top, Truncate, Front
<1>2. \A c, m, q : Promise!Element(c, m, q) = Element(c, m, q)
  BY DEF Promise!Element, Promise!Front, Promise!Enter, Promise!End, Element, Front, Enter, End
<1>3. \A m, n : Promise!Each(m, n) = Each(m, n)
  BY DEF Promise!Each, Each
<1>4. \A c, m : Promise!Refused(c, m) = Refused(c, m)
  BY DEF Promise!Refused, Promise!Advance, Promise!Push, Refused, Advance, Push
<1>5. \A m : Promise!Advance(m) = Advance(m) /\ Promise!PopOne(m) = PopOne(m) /\ Promise!Top(m) = Top(m)
  BY DEF Promise!Advance, Promise!PopOne, Promise!Top, Promise!Front, Advance, PopOne, Top, Front
<1>6. \A m, v : Promise!Push(m, v) = Push(m, v)
  BY DEF Promise!Push, Push
<1>7. \A m, e, p, b : Promise!Enter(m, e, p, b) = Enter(m, e, p, b)
  BY DEF Promise!Enter, Enter
<1>8. \A c, m : Promise!OpAt(c, m) = OpAt(c, m)
  BY DEF Promise!OpAt, OpAt
<1>9. \A c : Promise!End(c) = End(c)
  BY DEF Promise!End, End
<1>10. \A s : Promise!Tip(s) = Tip(s) /\ Promise!Front(s) = Front(s)
  BY DEF Promise!Tip, Promise!Front, Tip, Front
<1>11. \A s, n : Promise!Truncate(s, n) = Truncate(s, n)
  BY DEF Promise!Truncate, Truncate
<1>12. Promise!NoMachine = NoMachine /\ Promise!LocalOps = LocalOps /\ Promise!Asks = Asks
  BY DEF Promise!NoMachine, Promise!LocalOps, Promise!Asks, NoMachine, LocalOps, Asks
<1>13. \A m, kind, v : Promise!Answer(m, kind, v) = AnswerTo(m, kind, v)
  BY DEF Promise!Answer, Promise!Push, AnswerTo, Push
<1>14. \A kind, v : Promise!Held(kind, v) = Park(kind, v)
  BY DEF Promise!Held, Park
<1>15. \A kind, v, e : Promise!Missing(kind, v, e) = Missing(kind, v, e)
  BY DEF Promise!Missing, Missing
<1>16. QED
  BY <1>1, <1>2, <1>3, <1>4, <1>5, <1>6, <1>7, <1>8, <1>9, <1>10, <1>11, <1>12, <1>13, <1>14, <1>15

(* ---- a step of the context that runs -------------------------------------------- *)

\* Every pull in line is known.
AllKnown == Waiting \in Nat /\ DOMAIN line = 1..Waiting /\ \A i \in 1..Waiting : Known(i)

LEMMA KnownHere ==
  IInv /\ Lined => AllKnown
<1>1. ASSUME IInv, Lined PROVE AllKnown
  <2>1. PICK a : Sane(a)
    BY <1>1 DEF IInv, Sane
  <2>2. QED
    BY <1>1, <2>1, KnownPulls DEF AllKnown
<1>2. QED
  BY <1>1

LEMMA KnownAfter == IInv' /\ Lined' => AllKnown'
  BY KnownHere, PTL

LEMMA KnownNext ==
  ASSUME NEW a, Sane(a)', Lined'
  PROVE  AllKnown'
<1>1. IInv'
  BY DEF IInv, Sane
<1>2. QED
  BY <1>1, KnownAfter

LEMMA SaneNext ==
  ASSUME NEW a, Sane(a), Safe(a)
  PROVE  Sane(a)'
  BY DEF Sane, Safe

\* What a step that starts or ends no pull leaves alone.
Holds ==
  /\ line' = line /\ coros' = coros
  /\ Level(Waiting).place <= Len(vm'.runs)
  /\ \A p \in 1..Level(Waiting).place : vm'.runs[p] = vm.runs[p]
  /\ \A p \in DOMAIN vm'.runs : p > Level(Waiting).place => vm'.runs[p].kind = "each"
  /\ Level(Waiting).parked <= Len(stash')
  /\ \A p \in 1..Level(Waiting).parked : stash'[p] = stash[p]

\* The line below the top, before and after.
LEMMA SamePulls ==
  ASSUME NEW a, Sane(a), Lined, Safe(a), Holds
  PROVE  /\ Waiting' = Waiting
         /\ \A i \in 1..Waiting : Pull(i)' = Pull(i) /\ line[i].place <= Level(Waiting).place
                                  /\ line[i].parked <= Level(Waiting).parked
         /\ \A i \in 0..Waiting : Context(i)' = Context(i) /\ Level(i)' = Level(i)
<1>1. Waiting' = Waiting /\ Waiting \in Nat /\ DOMAIN line = 1..Waiting
  BY KnownPulls DEF Holds, Waiting
<1>2. ASSUME NEW i \in 1..Waiting
      PROVE  Pull(i)' = Pull(i) /\ line[i].place <= Level(Waiting).place
             /\ line[i].parked <= Level(Waiting).parked
  <2>1. Waiting \in 1..Waiting /\ Waiting \in 0..Waiting /\ Waiting # 0
    BY <1>1
  <2>2. Level(Waiting).place = line[Waiting].place /\ Level(Waiting).parked = line[Waiting].parked
    BY <2>1, LevelTypes
  <2>3. Known(i) /\ Known(Waiting)
    BY <2>1, KnownPulls
  <2>4. line[i].place <= line[Waiting].place /\ line[i].parked <= line[Waiting].parked
    <3>1. CASE i = Waiting
      BY <2>3, <3>1 DEF Known
    <3>2. CASE i < Waiting
      <4>1. line[i].place < line[Waiting].place /\ line[i].parked <= line[Waiting].parked
        BY <1>1, <2>1, <3>2 DEF Lined
      <4>2. QED
        BY <2>3, <4>1 DEF Known
    <3>3. QED
      BY <1>1, <3>1, <3>2
  <2>5. line[i].place \in 1..Level(Waiting).place
    BY <2>2, <2>3, <2>4 DEF Known
  <2>6. Pull(i) = vm.runs[line[i].place] /\ Pull(i)' = vm'.runs[line[i].place]
    BY DEF Pull, Holds
  <2>7. vm'.runs[line[i].place] = vm.runs[line[i].place]
    BY <2>5 DEF Holds
  <2>8. QED
    BY <2>2, <2>4, <2>6, <2>7
<1>3. ASSUME NEW i \in 0..Waiting PROVE Context(i)' = Context(i) /\ Level(i)' = Level(i)
  <2>1. CASE i = 0
    BY <2>1 DEF Context, Level
  <2>2. CASE i # 0
    <3>1. Pull(i)' = Pull(i)
      BY <1>1, <1>2, <2>2
    <3>2. line' = line
      BY DEF Holds
    <3>3. QED
      BY <3>1, <3>2 DEF Context, Level
  <2>3. QED
    BY <2>1, <2>2
<1>4. QED
  BY <1>1, <1>2, <1>3

LEMMA StillLined ==
  ASSUME NEW a, Sane(a), Lined, Safe(a), Holds
  PROVE  Lined'
<1>1. /\ Waiting' = Waiting
      /\ \A i \in 1..Waiting : Pull(i)' = Pull(i) /\ line[i].place <= Level(Waiting).place
                               /\ line[i].parked <= Level(Waiting).parked
  BY SamePulls
<1>2. Waiting \in Nat /\ DOMAIN line = 1..Waiting /\ \A i \in 1..Waiting : Known(i)
  BY KnownPulls
<1>3. vm' \in MachineType(chunk) /\ chunk \in Chunks /\ chunk' = chunk
  BY SaneTypes DEF Safe, Typed
<1>4. DOMAIN vm'.runs = 1..Len(vm'.runs) /\ Len(vm'.runs) \in Nat
  BY <1>3, MachineTypes
<1>5. Len(stash') \in Nat
  <2>1. StashType(stash')
    BY DEF Safe, Typed
  <2>2. QED
    BY <2>1, LenNat DEF StashType
<1>6. line' = line /\ line \in Seq([place : Nat, parked : Nat])
  BY DEF Holds, Lined
<1>l. PICK low : low = Level(Waiting)
  OBVIOUS
<1>7. low \in Lows /\ low.place \in Nat /\ low.parked \in Nat
  BY <1>l, <1>2, LevelTypes DEF Lows
<1>8. low.place <= Len(vm'.runs) /\ low.parked <= Len(stash')
  BY <1>l DEF Holds
<1>9. ASSUME NEW i \in 1..Waiting
      PROVE  line[i].place \in DOMAIN vm'.runs /\ Pull(i)'.kind # "each" /\ line[i].parked <= Len(stash')
  <2>1. Known(i)
    BY <1>2
  <2>2. line[i].place \in Nat /\ line[i].place >= 1 /\ line[i].parked \in Nat /\ Pull(i).kind # "each"
    BY <2>1 DEF Known
  <2>3. line[i].place <= low.place /\ line[i].parked <= low.parked
    BY <1>1, <1>l
  <2>4. line[i].place <= Len(vm'.runs) /\ line[i].parked <= Len(stash')
    BY <1>4, <1>5, <1>7, <1>8, <2>2, <2>3
  <2>5. QED
    BY <1>1, <1>4, <2>2, <2>4
<1>10. ASSUME NEW p \in DOMAIN vm'.runs, vm'.runs[p].kind # "each"
       PROVE  \E i \in DOMAIN line : line[i].place = p
  <2>1. p \in Nat /\ p >= 1 /\ ~(p > low.place)
    BY <1>4, <1>10, <1>l DEF Holds
  <2>2. p \in 1..low.place
    BY <1>7, <2>1
  <2>3. vm'.runs[p] = vm.runs[p]
    BY <1>l, <2>2 DEF Holds
  <2>4. p \in DOMAIN vm.runs
    <3>1. low.place <= Len(vm.runs) /\ Len(vm.runs) \in Nat /\ DOMAIN vm.runs = 1..Len(vm.runs)
      <4>1. vm \in MachineType(chunk)
        BY SaneTypes
      <4>2. QED
        BY <1>l, <1>2, <1>3, <4>1, LevelTypes, MachineTypes
    <3>2. QED
      BY <1>7, <2>2, <3>1
  <2>5. vm.runs[p].kind # "each"
    BY <1>10, <2>3
  <2>6. QED
    BY <2>4, <2>5 DEF Lined
<1>11. \A i, j \in DOMAIN line : i < j => line[i].place < line[j].place /\ line[i].parked <= line[j].parked
  BY DEF Lined
<1>12. QED
  BY <1>2, <1>6, <1>9, <1>10, <1>11 DEF Lined

LEMMA SameTruncated ==
  ASSUME NEW S, NEW s \in Seq(S), NEW t \in Seq(S), NEW n \in Nat, n <= Len(s), n <= Len(t),
         SubSeq(s, 1, n) = SubSeq(t, 1, n)
  PROVE  Truncate(s, n) = Truncate(t, n)
  BY DEF Truncate

\* The consumers that wait are left alone.
LEMMA SamePaused ==
  ASSUME NEW a, Sane(a), Lined, Safe(a), Holds, NEW i \in 1..Waiting
  PROVE  Paused(i)' = Paused(i)
<1>1. Pull(i)' = Pull(i) /\ line[i].place <= Level(Waiting).place /\ line' = line /\ Waiting' = Waiting
  BY SamePulls DEF Holds
<1>2. Known(i)
  BY KnownPulls
<1>3. Known(i)'
  <2>1. Sane(a)' /\ Lined'
    BY SaneNext, StillLined
  <2>2. AllKnown'
    BY <2>1, KnownNext
  <2>3. QED
    BY <1>1, <2>2 DEF AllKnown
<1>p. PICK p : p = line[i].place
  OBVIOUS
<1>r. PICK r : r = Pull(i)
  OBVIOUS
<1>4. /\ vm.frames \in Seq(Frame) /\ vm.stack \in Seq(Val) /\ vm.runs \in Seq(Run)
      /\ vm'.frames \in Seq(Frame) /\ vm'.stack \in Seq(Val) /\ vm'.runs \in Seq(Run)
      /\ Len(vm.runs) \in Nat /\ Len(vm'.runs) \in Nat /\ DOMAIN vm.runs = 1..Len(vm.runs)
  <2>1. vm \in MachineType(chunk) /\ vm' \in MachineType(chunk) /\ chunk \in Chunks
    BY SaneTypes DEF Safe, Typed
  <2>2. QED
    BY <2>1, MachineTypes
<1>5. /\ p \in 1..Len(vm.runs) /\ r = vm.runs[p] /\ r.base \in Nat /\ r.frame \in 1..Len(vm.frames)
      /\ r.base <= Len(vm.stack)
  BY <1>p, <1>r, <1>2 DEF Known
<1>6. p \in 1..Len(vm'.runs) /\ r.frame \in 1..Len(vm'.frames) /\ r.base <= Len(vm'.stack)
  BY <1>p, <1>r, <1>1, <1>3 DEF Known
<1>7. /\ SubSeq(vm'.stack, 1, r.base) = SubSeq(vm.stack, 1, r.base)
      /\ SubSeq(vm'.frames, 1, r.frame) = SubSeq(vm.frames, 1, r.frame)
  <2>1. Kept(vm, vm')
    BY DEF Safe
  <2>2. p \in DOMAIN vm.runs
    BY <1>4, <1>5
  <2>3. QED
    BY <1>5, <2>1, <2>2 DEF Kept
<1>8. Truncate(vm'.stack, r.base) = Truncate(vm.stack, r.base)
  BY <1>4, <1>5, <1>6, <1>7, SameTruncated
<1>9. Truncate(vm'.frames, r.frame) = Truncate(vm.frames, r.frame)
  <2>1. r.frame \in Nat /\ r.frame <= Len(vm.frames) /\ r.frame <= Len(vm'.frames)
    BY <1>5, <1>6
  <2>2. QED
    BY <1>4, <1>7, <2>1, SameTruncated
<1>10. Truncate(vm'.runs, p - 1) = Truncate(vm.runs, p - 1)
  <2>q. PICK q : q = p - 1
    OBVIOUS
  <2>1. q \in Nat /\ q <= Len(vm.runs) /\ q <= Len(vm'.runs)
    BY <2>q, <1>4, <1>5, <1>6
  <2>2. \A j \in 1..q : vm'.runs[j] = vm.runs[j]
    <3>1. Level(Waiting).place \in Nat /\ p <= Level(Waiting).place
      BY <1>p, <1>1, TopLevel, TwinParts
    <3>2. \A j \in 1..q : j \in 1..Level(Waiting).place
      BY <2>q, <3>1, <1>5
    <3>3. QED
      BY <3>2 DEF Holds
  <2>3. SubSeq(vm'.runs, 1, q) = SubSeq(vm.runs, 1, q)
    BY <1>4, <2>1, <2>2, SameStart
  <2>4. Truncate(vm'.runs, q) = Truncate(vm.runs, q)
    BY <1>4, <2>1, <2>3, SameTruncated
  <2>5. QED
    BY <2>q, <2>4
<1>11. Paused(i) = [ ip |-> r.ip, frames |-> Truncate(vm.frames, r.frame),
                     stack |-> Truncate(vm.stack, r.base), runs |-> Truncate(vm.runs, p - 1) ]
  BY <1>p, <1>r DEF Paused
<1>12. Paused(i)' = [ ip |-> r.ip, frames |-> Truncate(vm'.frames, r.frame),
                      stack |-> Truncate(vm'.stack, r.base), runs |-> Truncate(vm'.runs, p - 1) ]
  BY <1>p, <1>r, <1>1 DEF Paused
<1>13. QED
  BY <1>8, <1>9, <1>10, <1>11, <1>12

LEMMA SameMine ==
  ASSUME NEW a, Sane(a), Lined, Safe(a), Holds, NEW i \in 0..Waiting, i < Waiting
  PROVE  Mine(i)' = Mine(i) /\ Open(i)' = Open(i)
<1>1. /\ Waiting' = Waiting /\ Level(i)' = Level(i) /\ line' = line
  BY SamePulls DEF Holds
<1>2. i + 1 \in 1..Waiting
  BY LevelsNested
<1>3. Paused(i + 1)' = Paused(i + 1)
  BY <1>2, SamePaused
<1>4. Whole(i) = Paused(i + 1) /\ Whole(i)' = Paused(i + 1)'
  BY <1>1 DEF Whole
<1>5. Mine(i)' = Mine(i)
  BY <1>1, <1>3, <1>4 DEF Mine
<1>6. Open(i)' = Open(i)
  BY <1>1 DEF Open
<1>7. QED
  BY <1>5, <1>6

\* Where the top context is now, and what its finalizers parked.
Left == Len(stash') - Level(Waiting).parked
CalmNow(a, d) == IF halted' THEN Left = 0 ELSE vm'.ip \in d.calm => pending' = None

LEMMA StillOrderly ==
  ASSUME NEW a, Sane(a), Lined, Safe(a), Holds, NEW d, Orderly(a, d),
         Tidy(chunk, a, d, Mine(Waiting)', Left, Rank(d, Waiting)), CalmNow(a, d)
  PROVE  Orderly(a, d)'
<1>1. /\ Waiting' = Waiting
      /\ \A i \in 1..Waiting : Pull(i)' = Pull(i)
      /\ \A i \in 0..Waiting : Level(i)' = Level(i)
  BY SamePulls
<1>2. chunk' = chunk /\ line' = line /\ coros' = coros /\ Waiting \in Nat /\ DOMAIN line = 1..Waiting
  BY KnownPulls DEF Safe, Holds
<1>3. ASSUME NEW i \in 0..Waiting PROVE Rank(d, i)' = Rank(d, i)
  <2>1. CASE i = 0
    BY <2>1, <1>2 DEF Rank
  <2>2. CASE i # 0
    <3>1. Pull(i)' = Pull(i)
      BY <1>1, <1>2, <2>2
    <3>2. QED
      BY <1>2, <2>2, <3>1 DEF Rank, BlockRank
  <2>3. QED
    BY <2>1, <2>2
<1>4. \A i, j \in 0..Waiting : i < j => Rank(d, j)' < Rank(d, i)'
  BY <1>3 DEF Orderly
<1>5. Open(Waiting)' = Left
  <2>1. ~(Waiting < Waiting) /\ Waiting \in 0..Waiting
    BY <1>2
  <2>2. Level(Waiting)' = Level(Waiting)
    BY <1>1, <2>1
  <2>3. QED
    BY <1>1, <2>1, <2>2 DEF Open, Left
<1>6. ASSUME NEW i \in 0..Waiting
      PROVE  Tidy(chunk, a, d, Mine(i)', Open(i)', Rank(d, i)')
  <2>1. CASE i < Waiting
    <3>1. Mine(i)' = Mine(i) /\ Open(i)' = Open(i)
      BY <2>1, SameMine
    <3>2. QED
      BY <1>3, <3>1 DEF Orderly
  <2>2. CASE i = Waiting
    BY <1>1, <1>3, <1>5, <2>2
  <2>3. QED
    BY <1>2, <2>1, <2>2
<1>7. \A i \in DOMAIN line : Pull(i)'.ip \notin d.calm
  BY <1>1, <1>2 DEF Orderly
<1>8. \A k \in Iter : coros[k].state = "Suspended" =>
        Tidy(chunk, a, d, Parked(coros[k]), 0, BlockRank(d, k))
  BY DEF Orderly
<1>9. \A k \in Iter : BlockRank(d, k)' = BlockRank(d, k)
  BY <1>2 DEF BlockRank
<1>10. IF halted' THEN Open(Waiting)' = 0 ELSE vm'.ip \in d.calm => pending' = None
  BY <1>5 DEF CalmNow
<1>11. /\ \A i, j \in 0..Waiting' : i < j => Rank(d, j)' < Rank(d, i)'
       /\ \A i \in 0..Waiting' : Tidy(chunk', a, d, Mine(i)', Open(i)', Rank(d, i)')
       /\ \A i \in DOMAIN line' : Pull(i)'.ip \notin d.calm
       /\ \A k \in Iter : coros'[k].state = "Suspended" =>
            Tidy(chunk', a, d, Parked(coros'[k]), 0, BlockRank(d, k)')
  BY <1>1, <1>2, <1>4, <1>6, <1>7, <1>8, <1>9
<1>12. QED
  BY <1>10, <1>11 DEF Orderly

LEMMA PartSeq ==
  ASSUME NEW S, NEW s \in Seq(S), NEW x \in Nat, NEW y \in Nat, x <= y, y <= Len(s)
  PROVE  /\ SubSeq(s, x + 1, y) \in Seq(S) /\ Len(SubSeq(s, x + 1, y)) = y - x
         /\ \A i \in 1..y - x : SubSeq(s, x + 1, y)[i] = s[x + i]
<1>1. Len(s) \in Nat /\ \A i \in 1..Len(s) : s[i] \in S
  BY LenNat
<1>z. PICK z : z = x + 1
  OBVIOUS
<1>2. z \in Int /\ y \in Int /\ \A i \in z..y : s[i] \in S
  BY <1>z, <1>1
<1>3. /\ SubSeq(s, z, y) \in Seq(S) /\ Len(SubSeq(s, z, y)) = IF z <= y THEN y - z + 1 ELSE 0
      /\ \A i \in 1..y - z + 1 : SubSeq(s, z, y)[i] = s[z + i - 1]
  BY <1>2, SubSeqProperties
<1>4. y - z + 1 = y - x /\ (z > y => y - x = 0)
  BY <1>z
<1>5. \A i \in 1..y - x : z + i - 1 = x + i
  BY <1>z
<1>6. QED
  BY <1>z, <1>3, <1>4, <1>5

LEMMA SamePart ==
  ASSUME NEW S, NEW s \in Seq(S), NEW t \in Seq(S), NEW x \in Nat, NEW y \in Nat, x <= y, y <= Len(s), y <= Len(t),
         \A i \in 1..y : s[i] = t[i]
  PROVE  SubSeq(s, x + 1, y) = SubSeq(t, x + 1, y)
<1>1. /\ SubSeq(s, x + 1, y) \in Seq(S) /\ Len(SubSeq(s, x + 1, y)) = y - x
      /\ \A i \in 1..y - x : SubSeq(s, x + 1, y)[i] = s[x + i]
  BY PartSeq
<1>2. /\ SubSeq(t, x + 1, y) \in Seq(S) /\ Len(SubSeq(t, x + 1, y)) = y - x
      /\ \A i \in 1..y - x : SubSeq(t, x + 1, y)[i] = t[x + i]
  BY PartSeq
<1>3. \A i \in 1..y - x : x + i \in 1..y
  OBVIOUS
<1>p. PICK p : p = SubSeq(s, x + 1, y)
  OBVIOUS
<1>q. PICK q : q = SubSeq(t, x + 1, y)
  OBVIOUS
<1>4. p \in Seq(S) /\ q \in Seq(S) /\ Len(p) = Len(q) /\ Len(p) = y - x
  BY <1>p, <1>q, <1>1, <1>2
<1>5. \A i \in 1..Len(p) : p[i] = q[i]
  BY <1>p, <1>q, <1>1, <1>2, <1>3, <1>4
<1>6. p = q
  BY <1>4, <1>5, SeqEqual
<1>7. QED
  BY <1>p, <1>q, <1>6

\* The inductive invariant of the refinement.
InOrder(a, d) ==
  Sane(a) /\ Apart(chunk, a, d) /\ d \in Accounts(chunk) /\ Lined /\ Orderly(a, d)
JInv == \E a, d : InOrder(a, d)

\* Every context in line has its seat.
AllSeated == \A i \in 0..Waiting : Seat(i)

LEMMA SeatedHere == JInv => AllSeated
<1>1. ASSUME JInv PROVE AllSeated
  <2>1. PICK a, d : InOrder(a, d)
    BY <1>1 DEF JInv
  <2>2. \A i \in 0..Waiting : Seat(i)
    BY <2>1, Seated DEF InOrder
  <2>3. QED
    BY <2>2 DEF AllSeated
<1>2. QED
  BY <1>1

LEMMA SeatedAfter == JInv' => AllSeated'
  BY SeatedHere, PTL

LEMMA SeatedNext ==
  ASSUME NEW a, NEW d, InOrder(a, d)', NEW i \in 0..Waiting'
  PROVE  Seat(i)'
<1>1. JInv'
  BY DEF JInv
<1>2. AllSeated'
  BY <1>1, SeatedAfter
<1>3. QED
  BY <1>2 DEF AllSeated

LEMMA UnseatedNext ==
  ASSUME NEW c \in Contexts, c \notin InLine'
  PROVE  machine'[c] = Parked(coros'[c]) /\ finals'[c] = <<>>
  BY DEF machine, finals

LEMMA SameFinals ==
  ASSUME NEW a, Sane(a), Lined, Safe(a), Holds, NEW i \in 0..Waiting, i < Waiting
  PROVE  Finals(i)' = Finals(i)
<1>1. /\ Waiting' = Waiting /\ Level(i)' = Level(i) /\ line' = line
  BY SamePulls DEF Holds
<1>2. i + 1 \in 1..Waiting /\ Level(i).parked <= line[i + 1].parked
  BY LevelsNested
<1>x. PICK x : x = Level(i).parked
  OBVIOUS
<1>y. PICK y : y = line[i + 1].parked
  OBVIOUS
<1>z. PICK z : z = Level(Waiting).parked
  OBVIOUS
<1>3. Known(i + 1) /\ Waiting \in Nat
  BY <1>2, KnownPulls
<1>4. y \in Nat /\ y <= Len(stash) /\ x \in Nat /\ x <= y
  <2>1. Level(i) \in Lows
    BY LevelTypes
  <2>2. QED
    BY <1>x, <1>y, <1>2, <1>3, <2>1 DEF Known, Lows
<1>5. y <= z /\ z \in Nat /\ z <= Len(stash')
  <2>1. y <= z
    BY <1>2, <1>y, <1>z, SamePulls
  <2>2. Level(Waiting) \in Lows
    BY <1>3, LevelTypes
  <2>3. QED
    BY <1>z, <2>1, <2>2 DEF Holds, Lows
<1>6. stash \in Seq(Exc \cup {None}) /\ stash' \in Seq(Exc \cup {None})
  BY SaneTypes DEF Safe, Typed, StashType
<1>7. \A j \in 1..y : stash'[j] = stash[j]
  <2>1. \A j \in 1..y : j \in 1..z
    BY <1>4, <1>5
  <2>2. QED
    BY <1>z, <2>1 DEF Holds
<1>8. y <= Len(stash')
  <2>1. Len(stash') \in Nat
    BY <1>6, LenNat
  <2>2. QED
    BY <1>4, <1>5, <2>1
<1>9. SubSeq(stash', x + 1, y) = SubSeq(stash, x + 1, y)
  BY <1>4, <1>6, <1>7, <1>8, SamePart
<1>10. Finals(i) = SubSeq(stash, x + 1, y)
  BY <1>x, <1>y DEF Finals
<1>11. Finals(i)' = SubSeq(stash', x + 1, y)
  BY <1>x, <1>y, <1>1 DEF Finals
<1>12. QED
  BY <1>9, <1>10, <1>11

LEMMA SameSeats ==
  ASSUME NEW a, NEW d, InOrder(a, d), Safe(a), Holds, InOrder(a, d)'
  PROVE  /\ machine' = [machine EXCEPT ![Context(Waiting)] = Mine(Waiting)']
         /\ finals' = [finals EXCEPT ![Context(Waiting)] = Finals(Waiting)']
         /\ life' = life /\ chain' = chain
<1>1. Sane(a) /\ Lined /\ Orderly(a, d) /\ d \in Accounts(chunk)
  BY DEF InOrder
<1>2. /\ Waiting' = Waiting
      /\ \A i \in 1..Waiting : Pull(i)' = Pull(i)
      /\ \A i \in 0..Waiting : Context(i)' = Context(i)
  BY <1>1, SamePulls
<1>3. Waiting \in Nat /\ Waiting \in 0..Waiting
  BY <1>1, KnownPulls
<1>4. coros' = coros
  BY DEF Holds
<1>w. PICK w : w = Waiting
  OBVIOUS
<1>me. PICK me : me = Context(w)
  OBVIOUS
<1>5. InLine' = InLine
  BY <1>2 DEF InLine
<1>6. ASSUME NEW i \in 0..w
      PROVE  /\ machine'[Context(i)] = IF i = w THEN Mine(w)' ELSE machine[Context(i)]
             /\ finals'[Context(i)] = IF i = w THEN Finals(w)' ELSE finals[Context(i)]
             /\ i # w => Context(i) # me
  <2>1. Seat(i)
    BY <1>1, <1>w, Seated
  <2>2. Seat(i)'
    <3>1. i \in 0..Waiting'
      BY <1>2, <1>w
    <3>2. QED
      BY <3>1, SeatedNext
  <2>3. Context(i)' = Context(i)
    BY <1>2, <1>w
  <2>4. machine'[Context(i)] = Mine(i)' /\ finals'[Context(i)] = Finals(i)'
    BY <2>2, <2>3 DEF Seat
  <2>5. CASE i = w
    BY <2>4, <2>5
  <2>6. CASE i # w
    <3>1. i < Waiting /\ i \in 0..Waiting
      BY <1>3, <1>w, <2>6
    <3>2. Mine(i)' = Mine(i) /\ Finals(i)' = Finals(i)
      BY <1>1, <3>1, SameMine, SameFinals
    <3>3. Context(i) # me
      BY <1>1, <1>3, <1>w, <1>me, <2>6, <3>1, OneEach
    <3>4. QED
      BY <2>1, <2>4, <2>6, <3>2, <3>3 DEF Seat
  <2>7. QED
    BY <2>5, <2>6
<1>7. ASSUME NEW c \in Contexts
      PROVE  /\ machine'[c] = IF c = me THEN Mine(w)' ELSE machine[c]
             /\ finals'[c] = IF c = me THEN Finals(w)' ELSE finals[c]
  <2>1. CASE c \in InLine
    <3>1. PICK i \in 0..w : c = Context(i)
      BY <1>w, <2>1 DEF InLine
    <3>2. /\ machine'[c] = IF i = w THEN Mine(w)' ELSE machine[c]
          /\ finals'[c] = IF i = w THEN Finals(w)' ELSE finals[c]
          /\ i # w => c # me
      BY <1>6, <3>1
    <3>3. i = w => c = me
      BY <1>me, <3>1
    <3>4. QED
      BY <3>2, <3>3
  <2>2. CASE c \notin InLine
    <3>1. c # me
      <4>1. me \in InLine
        BY <1>3, <1>w, <1>me DEF InLine
      <4>2. QED
        BY <2>2, <4>1
    <3>2. machine[c] = Parked(coros[c]) /\ finals[c] = <<>>
      BY <2>2, Unseated
    <3>3. machine'[c] = Parked(coros[c]) /\ finals'[c] = <<>>
      BY <1>4, <1>5, <2>2, UnseatedNext
    <3>4. QED
      BY <3>1, <3>2, <3>3
  <2>3. QED
    BY <2>1, <2>2
<1>8. me \in Contexts
  <2>1. Seat(w)
    BY <1>1, <1>3, <1>w, Seated
  <2>2. QED
    BY <1>me, <2>1 DEF Seat
<1>9. machine' = [machine EXCEPT ![me] = Mine(w)']
  BY <1>7, <1>8 DEF machine
<1>10. finals' = [finals EXCEPT ![me] = Finals(w)']
  BY <1>7, <1>8 DEF finals
<1>11. life' = life
  BY <1>4, <1>5 DEF life, Life
<1>12. chain' = chain
  <2>1. \A i \in 1..Waiting + 1 : i - 1 \in 0..Waiting /\ (i # 1 => i - 1 \in 1..Waiting)
    BY <1>3
  <2>2. \A i \in 1..Waiting + 1 : /\ Context(i - 1)' = Context(i - 1)
                                  /\ i # 1 => Pull(i - 1)' = Pull(i - 1)
    BY <1>2, <2>1
  <2>3. QED
    BY <1>2, <2>2 DEF chain
<1>13. QED
  BY <1>w, <1>2, <1>me, <1>9, <1>10, <1>11, <1>12

(* ---- what the promise sees of the context that runs ----------------------------- *)

LEMMA RankTypes ==
  ASSUME NEW a, Sane(a), NEW d \in Accounts(chunk), Lined
  PROVE  /\ \A k \in Iter : BlockRank(d, k) \in Nat /\ chunk.block[k].entry \in Positions(chunk)
         /\ \A i \in 0..Waiting : Rank(d, i) \in Nat
<1>1. chunk \in Chunks /\ Verified(chunk, a)
  BY SaneTypes
<1>2. /\ chunk.main \in Positions(chunk)
      /\ \A k \in Iter : chunk.block[k].entry \in Positions(chunk)
  BY <1>1 DEF Verified, Entered
<1>3. \A k \in Iter : BlockRank(d, k) \in Nat
  BY <1>1, <1>2, AccountTypes DEF BlockRank
<1>4. ASSUME NEW i \in 0..Waiting PROVE Rank(d, i) \in Nat
  <2>1. CASE i = 0
    BY <1>1, <1>2, <2>1, AccountTypes DEF Rank
  <2>2. CASE i # 0
    <3>1. i \in 1..Waiting
      BY <2>2, KnownPulls
    <3>2. Pull(i).it \in Iter
      BY <3>1, KnownPulls DEF Known
    <3>3. QED
      BY <1>3, <2>2, <3>2 DEF Rank
  <2>3. QED
    BY <2>1, <2>2
<1>5. QED
  BY <1>2, <1>3, <1>4

LEMMA OrderHere ==
  ASSUME NEW a, NEW d, InOrder(a, d)
  PROVE  /\ Sane(a) /\ Lined /\ Orderly(a, d) /\ Apart(chunk, a, d) /\ d \in Accounts(chunk)
         /\ Waiting \in Nat /\ Waiting \in 0..Waiting /\ Rank(d, Waiting) \in Nat
         /\ Level(Waiting) \in Lows /\ Level(Waiting).parked \in Nat
         /\ Len(stash) \in Nat /\ Level(Waiting).parked <= Len(stash)
         /\ Open(Waiting) = Len(stash) - Level(Waiting).parked /\ Open(Waiting) \in Nat
         /\ Tidy(chunk, a, d, Mine(Waiting), Open(Waiting), Rank(d, Waiting))
         /\ Seat(Waiting)
<1>1. Sane(a) /\ Lined /\ Orderly(a, d) /\ Apart(chunk, a, d) /\ d \in Accounts(chunk)
  BY DEF InOrder
<1>2. Waiting \in Nat /\ Waiting \in 0..Waiting /\ Len(stash) \in Nat
  BY <1>1, KnownPulls
<1>3. Rank(d, Waiting) \in Nat
  BY <1>1, <1>2, RankTypes
<1>4. Level(Waiting) \in Lows /\ Level(Waiting).parked <= Len(stash)
  BY <1>1, <1>2, LevelTypes
<1>5. Level(Waiting).parked \in Nat
  BY <1>4 DEF Lows
<1>6. Open(Waiting) = Len(stash) - Level(Waiting).parked
  BY <1>2 DEF Open
<1>7. Open(Waiting) \in Nat
  BY <1>2, <1>4, <1>5, <1>6
<1>8. Tidy(chunk, a, d, Mine(Waiting), Open(Waiting), Rank(d, Waiting))
  BY <1>1, <1>2 DEF Orderly
<1>9. Seat(Waiting)
  BY <1>1, <1>2, Seated
<1>10. QED
  BY <1>1, <1>2, <1>3, <1>4, <1>5, <1>6, <1>7, <1>8, <1>9

LEMMA PromiseHere ==
  ASSUME NEW a, NEW d, InOrder(a, d), ~halted
  PROVE  /\ Promise!me = Context(Waiting) /\ Promise!my = Mine(Waiting) /\ Promise!running
         /\ Promise!my.ip = vm.ip /\ Promise!OpAt(chunk, Promise!my) = Cur
         /\ Promise!quiet = unwinding
         /\ \A e : Promise!Fault(e) = Fault(e)
         /\ Context(Waiting) \in Contexts
         /\ machine[Context(Waiting)] = Mine(Waiting)
         /\ finals[Context(Waiting)] = Finals(Waiting)
         /\ Twin(vm, Mine(Waiting), Level(Waiting)) /\ Mine(Waiting).ip = vm.ip
<1>1. Sane(a) /\ Lined /\ Seat(Waiting)
  BY OrderHere
<1>2. chain # <<>> /\ chain[Len(chain)].ctx = Context(Waiting)
  BY <1>1, ChainHere
<1>3. Promise!me = Context(Waiting)
  BY <1>2 DEF Promise!me
<1>4. /\ Context(Waiting) \in Contexts
      /\ machine[Context(Waiting)] = Mine(Waiting) /\ finals[Context(Waiting)] = Finals(Waiting)
  BY <1>1 DEF Seat
<1>5. Promise!my = Mine(Waiting)
  BY <1>3, <1>4 DEF Promise!my
<1>6. Twin(vm, Mine(Waiting), Level(Waiting)) /\ Mine(Waiting).ip = vm.ip
  BY <1>1, Running
<1>7. yielded = None
  BY <1>1, SaneTypes
<1>8. Promise!running
  BY <1>2, <1>7 DEF Promise!running
<1>9. Promise!OpAt(chunk, Promise!my) = Cur
  BY <1>5, <1>6 DEF Promise!OpAt, Cur, OpAt
<1>10. Promise!quiet = unwinding
  BY DEF Promise!quiet, unwinding
<1>11. \A e : Promise!Fault(e) = Fault(e)
  BY DEF Promise!Fault, Promise!quiet, Fault, unwinding
<1>12. QED
  BY <1>3, <1>4, <1>5, <1>6, <1>8, <1>9, <1>10, <1>11

LEMMA PromiseAt ==
  ASSUME NEW a, NEW d, InOrder(a, d), NEW names, At(names)
  PROVE  Promise!At(names)
<1>1. ~halted /\ vm.ip \in DOMAIN chunk.ops /\ Cur.op \in names
  BY DEF At
<1>2. Promise!running /\ Promise!my.ip = vm.ip /\ Promise!OpAt(chunk, Promise!my) = Cur
  BY <1>1, PromiseHere
<1>3. QED
  BY <1>1, <1>2 DEF Promise!At

\* A step of the context that runs is a step of its machine, and leaves the
\* others as they are.
LEMMA MineNext ==
  ASSUME NEW a, Sane(a), Lined, Safe(a), Holds,
         NEW p, p = IF halted' THEN PopOne(vm') ELSE vm', NEW k, Twin(p, k, Level(Waiting))
  PROVE  Mine(Waiting)' = k
<1>1. Waiting' = Waiting /\ Level(Waiting)' = Level(Waiting) /\ Waiting \in Nat
  <2>1. Waiting \in 0..Waiting /\ Waiting \in Nat
    BY KnownPulls
  <2>2. QED
    BY <2>1, SamePulls
<1>2. ~(Waiting < Waiting)
  BY <1>1
<1>3. Whole(Waiting)' = p
  BY <1>1, <1>2 DEF Whole
<1>4. Mine(Waiting)' = Own(p, Level(Waiting))
  BY <1>1, <1>3 DEF Mine
<1>5. QED
  BY <1>4 DEF Twin

LEMMA SameLine ==
  ASSUME NEW a, NEW d, InOrder(a, d), ~halted, Safe(a), Holds,
         NEW p, p = IF halted' THEN PopOne(vm') ELSE vm', NEW k, Twin(p, k, Level(Waiting)),
         Tidy(chunk, a, d, k, Left, Rank(d, Waiting)), CalmNow(a, d)
  PROVE  /\ InOrder(a, d)' /\ Promise!Mine(k)
         /\ finals' = [finals EXCEPT ![Context(Waiting)] = Finals(Waiting)']
         /\ life' = life /\ chain' = chain
<1>1. Sane(a) /\ Lined /\ Orderly(a, d) /\ Apart(chunk, a, d) /\ d \in Accounts(chunk)
  BY OrderHere
<1>2. Mine(Waiting)' = k
  BY <1>1, MineNext
<1>3. Sane(a)' /\ Lined' /\ Orderly(a, d)'
  BY <1>1, <1>2, SaneNext, StillLined, StillOrderly
<1>4. chunk' = chunk
  BY DEF Safe
<1>5. InOrder(a, d)'
  BY <1>1, <1>3, <1>4 DEF InOrder
<1>6. /\ machine' = [machine EXCEPT ![Context(Waiting)] = k]
      /\ finals' = [finals EXCEPT ![Context(Waiting)] = Finals(Waiting)']
      /\ life' = life /\ chain' = chain
  BY <1>2, <1>5, SameSeats
<1>7. depth' = depth + Len(k.runs) - Len(Mine(Waiting).runs)
  <2>1. Len(k.runs) = Len(p.runs) - Level(Waiting).place /\ Level(Waiting).place \in Nat /\ Len(p.runs) \in Nat
    BY TwinParts
  <2>2. Twin(vm, Mine(Waiting), Level(Waiting))
    BY PromiseHere
  <2>3. Len(Mine(Waiting).runs) = Len(vm.runs) - Level(Waiting).place /\ Len(vm.runs) \in Nat
    BY <2>2, TwinParts
  <2>4. p.runs = vm'.runs
    <3>1. vm' \in Parts
      BY <1>4, MachineIsParts DEF Safe, Typed
    <3>2. PopOne(vm').runs = vm'.runs
      BY <3>1 DEF PopOne, Parts
    <3>3. QED
      BY <3>2
  <2>5. depth' = Len(p.runs) /\ depth = Len(vm.runs)
    BY <2>4 DEF depth
  <2>x. PICK x : x = Len(p.runs)
    OBVIOUS
  <2>y. PICK y : y = Len(vm.runs)
    OBVIOUS
  <2>z. PICK z : z = Level(Waiting).place
    OBVIOUS
  <2>6. x \in Nat /\ y \in Nat /\ z \in Nat
    BY <2>x, <2>y, <2>z, <2>1, <2>3
  <2>7. x = y + (x - z) - (y - z)
    BY <2>6
  <2>8. QED
    BY <2>x, <2>y, <2>z, <2>1, <2>3, <2>5, <2>7
<1>8. Promise!me = Context(Waiting) /\ Promise!my = Mine(Waiting)
  BY PromiseHere
<1>9. Promise!Mine(k)
  BY <1>6, <1>7, <1>8 DEF Promise!Mine
<1>10. QED
  BY <1>5, <1>6, <1>9

LEMMA SameStash ==
  ASSUME NEW a, NEW d, InOrder(a, d), Safe(a), Holds, stash' = stash,
         finals' = [finals EXCEPT ![Context(Waiting)] = Finals(Waiting)']
  PROVE  finals' = finals /\ Left = Open(Waiting)
<1>1. Sane(a) /\ Lined /\ Waiting \in Nat /\ Waiting \in 0..Waiting /\ Seat(Waiting)
      /\ Open(Waiting) = Len(stash) - Level(Waiting).parked
  BY OrderHere
<1>2. Waiting' = Waiting /\ Level(Waiting)' = Level(Waiting)
  BY <1>1, SamePulls
<1>3. ~(Waiting < Waiting)
  BY <1>1
<1>4. Finals(Waiting)' = Finals(Waiting)
  BY <1>2, <1>3 DEF Finals
<1>5. finals[Context(Waiting)] = Finals(Waiting) /\ Context(Waiting) \in Contexts
  BY <1>1 DEF Seat
<1>6. finals' = finals
  <2>1. finals' = [finals EXCEPT ![Context(Waiting)] = finals[Context(Waiting)]]
    BY <1>4, <1>5
  <2>2. finals = [c \in Contexts |-> finals[c]]
    BY DEF finals
  <2>3. QED
    BY <2>1, <2>2
<1>7. QED
  BY <1>1, <1>6 DEF Left

LEMMA RunsAbove ==
  ASSUME NEW a, Sane(a), Lined, NEW p \in 1..Len(vm.runs), p > Level(Waiting).place
  PROVE  vm.runs[p].kind = "each"
<1>1. Waiting \in Nat /\ DOMAIN line = 1..Waiting /\ Len(vm.runs) \in Nat
  BY KnownPulls
<1>2. DOMAIN vm.runs = 1..Len(vm.runs)
  BY SaneTypes, MachineTypes
<1>3. SUFFICES ASSUME vm.runs[p].kind # "each" PROVE FALSE
  OBVIOUS
<1>4. PICK i \in 1..Waiting : line[i].place = p
  BY <1>1, <1>2, <1>3 DEF Lined
<1>5. line[i].place <= Level(Waiting).place
  <2>1. Waiting \in 1..Waiting /\ Waiting \in 0..Waiting /\ Waiting # 0
    BY <1>1
  <2>2. Level(Waiting).place = line[Waiting].place
    BY <2>1, LevelTypes
  <2>3. Known(Waiting) /\ Known(i)
    BY <2>1, KnownPulls
  <2>4. CASE i = Waiting
    BY <2>2, <2>3, <2>4 DEF Known
  <2>5. CASE i < Waiting
    <3>1. line[i].place < line[Waiting].place
      BY <1>1, <2>1, <2>5 DEF Lined
    <3>2. QED
      BY <2>2, <2>3, <3>1 DEF Known
  <2>6. QED
    BY <1>1, <2>4, <2>5
<1>6. Level(Waiting).place \in Nat
  BY TopLevel, TwinParts
<1>7. QED
  BY <1>4, <1>5, <1>6

\* What was parked before the running context was asked stays parked.
StashHolds ==
  /\ Level(Waiting).parked <= Len(stash')
  /\ \A p \in 1..Level(Waiting).parked : stash'[p] = stash[p]

LEMMA HoldsRuns ==
  ASSUME NEW a, Sane(a), Lined, line' = line, coros' = coros, StashHolds,
         vm' \in Parts, NEW n \in Nat, Level(Waiting).place <= n, n <= Len(vm.runs), n <= Len(vm'.runs),
         \A p \in 1..n : vm'.runs[p] = vm.runs[p],
         \A p \in 1..Len(vm'.runs) : p > n => vm'.runs[p].kind = "each"
  PROVE  Holds
<1>1. /\ Len(vm'.runs) \in Nat /\ DOMAIN vm'.runs = 1..Len(vm'.runs)
  BY PartTypes
<1>l. PICK l : l = Level(Waiting).place
  OBVIOUS
<1>2. l \in Nat /\ l <= n /\ Len(vm.runs) \in Nat
  BY <1>l, TopLevel, TwinParts
<1>3. l <= Len(vm'.runs)
  BY <1>1, <1>2
<1>4. \A p \in 1..l : vm'.runs[p] = vm.runs[p]
  <2>1. \A p \in 1..l : p \in 1..n
    BY <1>2
  <2>2. QED
    BY <2>1
<1>5. ASSUME NEW p \in DOMAIN vm'.runs, p > l PROVE vm'.runs[p].kind = "each"
  <2>1. p \in 1..Len(vm'.runs) /\ p \in Nat
    BY <1>1
  <2>2. CASE p > n
    BY <2>1, <2>2
  <2>3. CASE p <= n
    <3>1. p \in 1..n /\ p \in 1..Len(vm.runs)
      BY <1>2, <2>1, <2>3
    <3>2. vm.runs[p].kind = "each"
      BY <1>l, <1>5, <3>1, RunsAbove
    <3>3. QED
      BY <3>1, <3>2
  <2>4. QED
    BY <2>1, <2>2, <2>3
<1>6. QED
  BY <1>l, <1>3, <1>4, <1>5 DEF Holds, StashHolds

LEMMA HoldsSame ==
  ASSUME NEW a, Sane(a), Lined, line' = line, coros' = coros, StashHolds,
         vm' \in Parts, vm'.runs = vm.runs
  PROVE  Holds
<1>1. Len(vm.runs) \in Nat /\ Level(Waiting).place <= Len(vm.runs)
  BY TopLevel, TwinParts
<1>2. \A p \in 1..Len(vm'.runs) : ~(p > Len(vm.runs))
  BY <1>1
<1>n. PICK n : n = Len(vm.runs)
  OBVIOUS
<1>3. n \in Nat /\ Level(Waiting).place <= n /\ n <= Len(vm.runs) /\ n <= Len(vm'.runs)
  BY <1>n, <1>1
<1>4. QED
  BY <1>n, <1>2, <1>3, HoldsRuns

LEMMA StashSame ==
  ASSUME NEW a, NEW d, InOrder(a, d), stash' = stash
  PROVE  StashHolds
  BY OrderHere DEF StashHolds

LEMMA VmParts ==
  ASSUME NEW a, Sane(a), Safe(a)
  PROVE  vm \in Parts /\ vm' \in Parts /\ chunk \in Chunks /\ chunk' = chunk
<1>1. chunk \in Chunks /\ vm \in MachineType(chunk)
  BY SaneTypes
<1>2. chunk' = chunk /\ vm' \in MachineType(chunk)
  BY DEF Safe, Typed
<1>3. QED
  BY <1>1, <1>2, MachineIsParts

(* ---- local operations ------------------------------------------------------------ *)

LEMMA TidyOn ==
  ASSUME NEW c \in Chunks, NEW a, NEW d \in Accounts(c), NEW m \in Parts, NEW n \in Parts,
         NEW x \in Nat, NEW R \in Nat, Tidy(c, a, d, m, x, R), Skeleton(m, n), m.ip \in Positions(c),
         NEW h, NEW s, Goes(c, a, m.ip, n.ip, h, s), Follows(d, m.ip, n.ip, d.parks[m.ip])
  PROVE  Tidy(c, a, d, n, x, R)
<1>1. n.ip \in Positions(c) /\ (n.ip \in a.yields => m.ip \in a.yields)
  BY DEF Goes
<1>2. d.rank[n.ip] <= d.rank[m.ip] /\ d.parks[n.ip] = d.parks[m.ip]
  BY DEF Follows
<1>3. x + d.parks[m.ip] = x + d.parks[n.ip]
  BY <1>2
<1>4. QED
  BY <1>1, <1>2, <1>3, TidyMove

LEMMA SkeletonSame ==
  ASSUME NEW m, NEW n, n.frames = m.frames, n.runs = m.runs
  PROVE  Skeleton(m, n)
  BY DEF Skeleton

\* n is accounted for, and calm only where m was.
Tidies(c, a, d, m, n, x, R) ==
  Tidy(c, a, d, n, x, R) /\ (n.ip \in d.calm => m.ip \in d.calm)

LEMMA TidyStraight ==
  ASSUME NEW c \in Chunks, NEW a, NEW d \in Accounts(c), NEW m \in Parts, NEW n \in Parts,
         NEW x \in Nat, NEW R \in Nat, Tidy(c, a, d, m, x, R), Skeleton(m, n), m.ip \in Positions(c),
         OpVerified(c, a, m.ip), OpApart(c, a, d, m.ip),
         OpAt(c, m).op \in {"load", "pop", "set", "get", "inc", "println", "depth", "cut"},
         n.ip = m.ip + 1
  PROVE  Tidies(c, a, d, m, n, x, R)
<1>i. PICK i : i = m.ip
  OBVIOUS
<1>o. PICK o : o = c.ops[i].op
  OBVIOUS
<1>1. o \in {"load", "pop", "set", "get", "inc", "println", "depth", "cut"}
  BY <1>i, <1>o DEF OpAt
<1>2. OpVerified(c, a, i) /\ OpApart(c, a, d, i)
  BY <1>i
<1>3. \E h, s : Goes(c, a, i, i + 1, h, s)
  BY <1>o, <1>1, <1>2 DEF OpVerified
<1>4. Follows(d, i, i + 1, d.parks[i]) /\ StaysCalm(d, i, i + 1)
  <2>1. o \notin {"jump", "return", "stash", "unstash"}
    BY <1>1
  <2>2. Follows(d, i, i + 1, d.parks[i])
    BY <1>o, <1>2, <2>1 DEF OpApart
  <2>3. StaysCalm(d, i, i + 1)
    BY <1>o, <1>1, <1>2 DEF OpApart
  <2>4. QED
    BY <2>2, <2>3
<1>5. Tidy(c, a, d, n, x, R)
  BY <1>i, <1>3, <1>4, TidyOn
<1>6. n.ip \in d.calm => m.ip \in d.calm
  BY <1>i, <1>4 DEF StaysCalm
<1>7. QED
  BY <1>5, <1>6 DEF Tidies

LEMMA TidyAfter ==
  ASSUME NEW c \in Chunks, NEW a \in Maps(c), NEW d \in Accounts(c), NEW m \in Parts, NEW n \in Parts,
         NEW x \in Nat, NEW R \in Nat, Tidy(c, a, d, m, x, R), m.ip \in Positions(c), m.frames # <<>>,
         OpVerified(c, a, m.ip), OpApart(c, a, d, m.ip), OpAt(c, m).op \in LocalOps, n = After(c, m)
  PROVE  Tidies(c, a, d, m, n, x, R)
<1>i. PICK i : i = m.ip
  OBVIOUS
<1>w. PICK w : w = c.ops[i]
  OBVIOUS
<1>1. w = OpAt(c, m) /\ w.op \in LocalOps
  BY <1>i, <1>w DEF OpAt
<1>2. OpVerified(c, a, i) /\ OpApart(c, a, d, i)
  BY <1>i
<1>3. m.ip \in Nat /\ m.frames \in Seq(Frame) /\ Len(m.frames) \in Nat
  BY PartTypes
<1>v. PICK v : v = Tip(m.stack)
  OBVIOUS
<1>4. m = [ip |-> m.ip, frames |-> m.frames, stack |-> m.stack, runs |-> m.runs]
  BY DEF Parts
<1>5. CASE w.op = "load"
  <2>1. n = Advance(Push(m, w.arg))
    BY <1>1, <1>5 DEF After
  <2>2. n.frames = m.frames /\ n.runs = m.runs /\ n.ip = m.ip + 1
    BY <1>4, <2>1 DEF Advance, Push
  <2>3. QED
    BY <1>1, <1>5, <2>2, SkeletonSame, TidyStraight
<1>6. CASE w.op = "pop"
  <2>1. n = Advance(PopOne(m))
    BY <1>1, <1>6 DEF After
  <2>2. n.frames = m.frames /\ n.runs = m.runs /\ n.ip = m.ip + 1
    BY <1>4, <2>1 DEF Advance, PopOne
  <2>3. QED
    BY <1>1, <1>6, <2>2, SkeletonSame, TidyStraight
<1>7. CASE w.op = "get"
  <2>1. n = Advance(Push(m, Top(m).slot))
    BY <1>1, <1>7 DEF After
  <2>2. n.frames = m.frames /\ n.runs = m.runs /\ n.ip = m.ip + 1
    BY <1>4, <2>1 DEF Advance, Push
  <2>3. QED
    BY <1>1, <1>7, <2>2, SkeletonSame, TidyStraight
<1>8. CASE w.op = "inc"
  <2>1. PICK u : n = Advance(Push(PopOne(m), u))
    BY <1>1, <1>8 DEF After
  <2>2. n.frames = m.frames /\ n.runs = m.runs /\ n.ip = m.ip + 1
    BY <1>4, <2>1 DEF Advance, PopOne, Push
  <2>3. QED
    BY <1>1, <1>8, <2>2, SkeletonSame, TidyStraight
<1>9. CASE w.op = "set"
  <2>1. n = Advance(PopOne(SetSlot(m, v)))
    BY <1>1, <1>9, <1>v DEF After
  <2>2. n.frames = [m.frames EXCEPT ![Len(m.frames)].slot = v] /\ n.runs = m.runs /\ n.ip = m.ip + 1
    BY <1>4, <2>1 DEF Advance, PopOne, SetSlot
  <2>3. Skeleton(m, n)
    <3>1. \A j \in DOMAIN m.frames : m.frames[j] \in Frame
      BY <1>3
    <3>2. DOMAIN n.frames = DOMAIN m.frames /\ Len(n.frames) = Len(m.frames)
      BY <1>3, <2>2
    <3>3. \A j \in DOMAIN m.frames : n.frames[j].ret = m.frames[j].ret
      BY <2>2, <3>1 DEF Frame
    <3>4. QED
      BY <2>2, <3>2, <3>3 DEF Skeleton
  <2>4. QED
    BY <1>1, <1>9, <2>2, <2>3, TidyStraight
<1>10. CASE w.op = "jump"
  <2>1. n = [m EXCEPT !.ip = w.to]
    BY <1>1, <1>10 DEF After
  <2>2. n.frames = m.frames /\ n.runs = m.runs /\ n.ip = w.to
    BY <1>4, <2>1
  <2>3. Goes(c, a, i, w.to, a.height[i], a.saved[i])
    BY <1>w, <1>2, <1>10 DEF OpVerified
  <2>4. Follows(d, i, w.to, d.parks[i]) /\ StaysCalm(d, i, w.to)
    BY <1>w, <1>2, <1>10 DEF OpApart
  <2>5. Tidy(c, a, d, n, x, R)
    BY <1>i, <2>2, <2>3, <2>4, SkeletonSame, TidyOn
  <2>6. QED
    BY <1>i, <2>2, <2>4, <2>5 DEF Tidies, StaysCalm
<1>11. CASE w.op = "jumpIfEnd"
  <2>1. n = [PopOne(m) EXCEPT !.ip = IF v = EndMark THEN w.to ELSE @ + 1]
    BY <1>1, <1>11, <1>v DEF After
  <2>2. n.frames = m.frames /\ n.runs = m.runs /\ (n.ip = w.to \/ n.ip = i + 1)
    BY <1>4, <1>i, <2>1 DEF PopOne
  <2>3. /\ Goes(c, a, i, w.to, a.height[i] - 1, a.saved[i])
        /\ Goes(c, a, i, i + 1, a.height[i] - 1, a.saved[i])
    BY <1>w, <1>2, <1>11 DEF OpVerified
  <2>4. /\ Follows(d, i, w.to, d.parks[i]) /\ Follows(d, i, i + 1, d.parks[i])
        /\ StaysCalm(d, i, w.to) /\ StaysCalm(d, i, i + 1)
    BY <1>w, <1>2, <1>11 DEF OpApart
  <2>5. Goes(c, a, i, n.ip, a.height[i] - 1, a.saved[i]) /\ Follows(d, i, n.ip, d.parks[i])
        /\ StaysCalm(d, i, n.ip)
    BY <2>2, <2>3, <2>4
  <2>6. Tidy(c, a, d, n, x, R)
    BY <1>i, <2>2, <2>5, SkeletonSame, TidyOn
  <2>7. QED
    BY <1>i, <2>5, <2>6 DEF Tidies, StaysCalm
<1>12. CASE w.op = "call"
  <2>1. n = Enter(m, w.to, i + 1, Len(m.stack))
    BY <1>1, <1>i, <1>12 DEF After
  <2>2. /\ Goes(c, a, i, i + 1, a.height[i] + 1, a.saved[i]) /\ Entered(c, a, w.to, 0)
        /\ w.to \in a.yields => i \in a.yields
    BY <1>w, <1>2, <1>12 DEF OpVerified
  <2>3. /\ Follows(d, i, i + 1, d.parks[i]) /\ Follows(d, i, w.to, 0) /\ StaysCalm(d, i, w.to)
        /\ i + 1 \notin d.calm /\ (w.to \in a.yields => d.parks[i] = 0)
    BY <1>w, <1>2, <1>12 DEF OpApart
  <2>4. i \in Positions(c) /\ i + 1 \in Positions(c) /\ w.to \in Positions(c) /\ i \in Nat
    BY <1>i, <1>3, <2>2 DEF Goes, Entered
  <2>5. i + 1 \in Nat /\ w.to \in Nat /\ Len(m.stack) \in Nat
    <3>1. w.to \in Nat
      BY <2>4 DEF Positions
    <3>2. QED
      BY <2>4, <3>1, PartTypes
  <2>f. PICK f : f = NewFrame(i + 1, Len(m.stack))
    OBVIOUS
  <2>6. f \in Frame /\ f.ret = i + 1
    BY <2>f, <2>5, NewFrameType DEF NewFrame
  <2>g. PICK fs : fs = Append(m.frames, f)
    OBVIOUS
  <2>7. n = [ip |-> w.to, frames |-> fs, stack |-> m.stack, runs |-> m.runs]
    BY <2>1, <2>5, <2>f, <2>g, EnterParts, SMTT(30)
  <2>8. n.frames = Append(m.frames, f) /\ n.runs = m.runs /\ n.ip = w.to
    BY <2>7, <2>g
  <2>9. i + 1 \in a.yields => i \in a.yields
    BY <2>2 DEF Goes
  <2>10. /\ d.rank[i + 1] <= d.rank[i] /\ d.parks[i + 1] = d.parks[i]
         /\ d.rank[n.ip] <= d.rank[i] /\ d.parks[n.ip] = 0
    BY <2>3, <2>8 DEF Follows
  <2>11. Tidy(c, a, d, n, x, R)
    BY <1>i, <2>2, <2>3, <2>4, <2>6, <2>8, <2>9, <2>10, TidyCall
  <2>12. QED
    BY <1>i, <2>3, <2>8, <2>11 DEF Tidies, StaysCalm
<1>13. CASE w.op = "return"
  <2>1. n = Leave(m)
    BY <1>1, <1>13 DEF After
  <2>2. n.frames = Front(m.frames) /\ n.runs = m.runs /\ n.ip = Top(m).ret
    BY <1>4, <2>1 DEF Leave
  <2>3. d.parks[i] = 0
    BY <1>w, <1>2, <1>13 DEF OpApart
  <2>4. Tidy(c, a, d, n, x, R) /\ n.ip \notin d.calm
    BY <1>i, <2>2, <2>3, TidyReturn
  <2>5. QED
    BY <2>4 DEF Tidies
<1>14. QED
  BY <1>1, <1>5, <1>6, <1>7, <1>8, <1>9, <1>10, <1>11, <1>12, <1>13 DEF LocalOps

LEMMA OpHere ==
  ASSUME NEW a, NEW d, InOrder(a, d), ~halted, vm.ip \in DOMAIN chunk.ops
  PROVE  /\ Ready(chunk, a, vm) /\ OpVerified(chunk, a, vm.ip) /\ OpApart(chunk, a, d, vm.ip)
         /\ Cur = chunk.ops[vm.ip] /\ Cur = OpAt(chunk, vm) /\ Cur = OpAt(chunk, Mine(Waiting)) /\ Cur \in Op
         /\ vm.ip \in Positions(chunk) /\ Mine(Waiting) \in Parts /\ Mine(Waiting).ip = vm.ip
         /\ Mine(Waiting).frames # <<>>
         /\ Level(Waiting).frame < Len(vm.frames) /\ Level(Waiting).base <= Top(vm).base
         /\ Twin(vm, Mine(Waiting), Level(Waiting))
         /\ vm.ip \in d.calm => pending = None
         /\ chunk \in Chunks /\ a \in Maps(chunk) /\ halted = FALSE /\ yielded = None
<1>1. Sane(a) /\ Lined /\ Orderly(a, d) /\ Apart(chunk, a, d)
  BY OrderHere
<1>2. /\ Ready(chunk, a, vm) /\ OpVerified(chunk, a, vm.ip) /\ Cur = chunk.ops[vm.ip] /\ Cur \in Op
      /\ halted = FALSE /\ yielded = None
  BY <1>1, AtReady
<1>3. chunk \in Chunks /\ a \in Maps(chunk)
  BY <1>1, SaneTypes
<1>4. vm.ip \in Positions(chunk)
  BY <1>2, <1>3, ReadyHere
<1>5. OpApart(chunk, a, d, vm.ip)
  BY <1>1, <1>4 DEF Apart
<1>6. Twin(vm, Mine(Waiting), Level(Waiting)) /\ Mine(Waiting).ip = vm.ip
  BY PromiseHere
<1>7. Level(Waiting).frame < Len(vm.frames) /\ Level(Waiting).base <= Top(vm).base
  BY <1>1, <1>2, TopAbove DEF Ready
<1>8. Mine(Waiting) \in Parts /\ Mine(Waiting).frames # <<>>
  BY <1>6, <1>7, TwinParts, TwinTop
<1>9. Cur = OpAt(chunk, vm) /\ Cur = OpAt(chunk, Mine(Waiting))
  BY <1>6 DEF Cur, OpAt
<1>10. vm.ip \in d.calm => pending = None
  BY <1>1 DEF Orderly
<1>11. QED
  BY <1>2, <1>3, <1>4, <1>5, <1>6, <1>7, <1>8, <1>9, <1>10

\* The operation finds what it pops.
LEMMA FindsOperand ==
  ASSUME NEW a, NEW d, InOrder(a, d), ~halted, vm.ip \in DOMAIN chunk.ops,
         Cur.op \in PopsOne \cup {"println", "yield"}
  PROVE  Top(vm).base < Len(vm.stack) /\ Level(Waiting).base < Len(vm.stack)
<1>1. /\ Ready(chunk, a, vm) /\ OpVerified(chunk, a, vm.ip) /\ Cur = chunk.ops[vm.ip]
      /\ chunk \in Chunks /\ a \in Maps(chunk) /\ Level(Waiting).base <= Top(vm).base
      /\ Level(Waiting).base \in Nat
  BY OpHere, TwinParts
<1>2. a.height[vm.ip] >= 1
  BY <1>1 DEF OpVerified, PopsOne
<1>3. /\ a.height[vm.ip] \in Nat /\ Top(vm).base \in Nat /\ Len(vm.stack) \in Nat
      /\ Len(vm.stack) >= Top(vm).base + a.height[vm.ip]
  BY <1>1, ReadyHere
<1>4. Top(vm).base < Len(vm.stack)
  BY <1>2, <1>3
<1>5. QED
  BY <1>1, <1>3, <1>4

\* A step that parks no throwable and starts no run.
LEMMA Keeping ==
  ASSUME NEW a, NEW d, InOrder(a, d), ~halted, vm.ip \in DOMAIN chunk.ops, Safe(a),
         line' = line, coros' = coros, halted' = halted, stash' = stash, vm'.runs = vm.runs,
         NEW n, Twin(vm', n, Level(Waiting)),
         Tidy(chunk, a, d, n, Open(Waiting), Rank(d, Waiting)), vm'.ip \in d.calm => pending' = None
  PROVE  InOrder(a, d)' /\ Promise!Mine(n) /\ finals' = finals /\ life' = life /\ chain' = chain
<1>1. Sane(a) /\ Lined
  BY OrderHere
<1>2. Holds
  <2>1. vm' \in Parts /\ StashHolds
    BY <1>1, VmParts, StashSame
  <2>2. QED
    BY <1>1, <2>1, HoldsSame
<1>3. Left = Open(Waiting)
  BY OrderHere DEF Left
<1>4. CalmNow(a, d)
  BY DEF CalmNow
<1>5. /\ InOrder(a, d)' /\ Promise!Mine(n)
      /\ finals' = [finals EXCEPT ![Context(Waiting)] = Finals(Waiting)'] /\ life' = life /\ chain' = chain
  <2>1. vm' = IF halted' THEN PopOne(vm') ELSE vm'
    OBVIOUS
  <2>2. Tidy(chunk, a, d, n, Left, Rank(d, Waiting))
    BY <1>3
  <2>3. QED
    BY <1>2, <1>4, <2>1, <2>2, SameLine
<1>6. finals' = finals
  BY <1>2, <1>5, SameStash
<1>7. QED
  BY <1>5, <1>6

LEMMA LocalKeeps ==
  ASSUME NEW a, NEW d, InOrder(a, d), Local
  PROVE  InOrder(a, d)' /\ Promise!Local
<1>1. /\ At(LocalOps) /\ vm' = After(chunk, vm)
      /\ UNCHANGED <<chunk, switch_vars, pending, stash, out>>
  BY DEF Local
<1>2. ~halted /\ vm.ip \in DOMAIN chunk.ops /\ Cur.op \in LocalOps
  BY <1>1 DEF At
<1>3. /\ chunk' = chunk /\ line' = line /\ coros' = coros /\ halted' = halted
      /\ pending' = pending /\ stash' = stash /\ ahead' = ahead /\ yielded' = yielded /\ out' = out
  BY <1>1 DEF switch_vars
<1>4. Sane(a) /\ Lined /\ Safe(a)
  BY OrderHere, LocalSafe
<1>k. PICK k : k = Mine(Waiting)
  OBVIOUS
<1>n. PICK n : n = After(chunk, k)
  OBVIOUS
<1>5. Twin(vm', n, Level(Waiting))
  <2>1. Twin(vm, k, Level(Waiting)) /\ vm.ip \in Positions(chunk) /\ OpAt(chunk, vm).op \in LocalOps
        /\ Level(Waiting).frame < Len(vm.frames) /\ Level(Waiting).base <= Top(vm).base /\ chunk \in Chunks
    BY <1>k, <1>2, OpHere
  <2>2. OpAt(chunk, vm).op \in PopsOne => Top(vm).base < Len(vm.stack)
    BY <1>2, FindsOperand, OpHere
  <2>3. QED
    BY <1>n, <1>1, <2>1, <2>2, TwinAfter
<1>6. vm'.runs = vm.runs
  <2>1. Ready(chunk, a, vm) /\ OpAt(chunk, vm).op \in LocalOps /\ chunk \in Chunks /\ a \in Maps(chunk)
    BY <1>2, OpHere
  <2>2. Steps(chunk, a, vm, vm')
    BY <1>1, <2>1, LocalStep
  <2>3. QED
    BY <2>2 DEF Steps
<1>7. Tidies(chunk, a, d, k, n, Open(Waiting), Rank(d, Waiting)) /\ k.ip = vm.ip /\ n.ip = vm'.ip
  <2>1. /\ chunk \in Chunks /\ a \in Maps(chunk) /\ d \in Accounts(chunk) /\ k \in Parts /\ n \in Parts
        /\ Open(Waiting) \in Nat /\ Rank(d, Waiting) \in Nat
        /\ Tidy(chunk, a, d, k, Open(Waiting), Rank(d, Waiting))
        /\ k.ip = vm.ip /\ vm.ip \in Positions(chunk) /\ k.frames # <<>>
        /\ OpVerified(chunk, a, vm.ip) /\ OpApart(chunk, a, d, vm.ip) /\ OpAt(chunk, k).op \in LocalOps
    BY <1>k, <1>2, <1>5, OpHere, OrderHere, TwinParts
  <2>2. n.ip = vm'.ip
    BY <1>5, TwinParts
  <2>3. QED
    BY <1>n, <2>1, <2>2, TidyAfter
<1>8. InOrder(a, d)' /\ Promise!Mine(n) /\ finals' = finals /\ life' = life /\ chain' = chain
  <2>1. Tidy(chunk, a, d, n, Open(Waiting), Rank(d, Waiting)) /\ (vm'.ip \in d.calm => pending' = None)
    BY <1>2, <1>3, <1>7, OpHere DEF Tidies
  <2>2. QED
    BY <1>2, <1>3, <1>4, <1>5, <1>6, <2>1, Keeping
<1>9. Promise!At(Promise!LocalOps)
  BY <1>1, PromiseAt, SameOperations
<1>10. n = Promise!After(chunk, Promise!my)
  BY <1>2, <1>k, <1>n, PromiseHere, SameOperations
<1>11. QED
  BY <1>3, <1>8, <1>9, <1>10 DEF Promise!Local

(* ---- operations that print, fault or save ------------------------------------------ *)

\* What every one of them goes on from.
GoesOn(a, d, k) ==
  /\ chunk \in Chunks /\ a \in Maps(chunk) /\ d \in Accounts(chunk) /\ k \in Parts
  /\ Open(Waiting) \in Nat /\ Rank(d, Waiting) \in Nat
  /\ Tidy(chunk, a, d, k, Open(Waiting), Rank(d, Waiting))
  /\ k = Mine(Waiting) /\ k.ip = vm.ip /\ vm.ip \in Positions(chunk) /\ k.frames # <<>>
  /\ OpVerified(chunk, a, vm.ip) /\ OpApart(chunk, a, d, vm.ip)
  /\ OpAt(chunk, k) = Cur /\ OpAt(chunk, vm) = Cur /\ Cur = chunk.ops[vm.ip] /\ Cur \in Op
  /\ Twin(vm, k, Level(Waiting)) /\ vm \in Parts
  /\ Level(Waiting).frame < Len(vm.frames) /\ Level(Waiting).base <= Top(vm).base
  /\ Ready(chunk, a, vm) /\ (vm.ip \in d.calm => pending = None)
  /\ Promise!my = k /\ Promise!OpAt(chunk, k) = Cur
  /\ Promise!quiet = unwinding /\ \A e : Promise!Fault(e) = Fault(e)

LEMMA ReadyToGo ==
  ASSUME NEW a, NEW d, InOrder(a, d), ~halted, vm.ip \in DOMAIN chunk.ops, NEW k, k = Mine(Waiting)
  PROVE  GoesOn(a, d, k)
<1>1. vm \in Parts
  BY OpHere, TwinParts
<1>2. Promise!my = k /\ Promise!OpAt(chunk, k) = Cur /\ Promise!quiet = unwinding
      /\ \A e : Promise!Fault(e) = Fault(e)
  BY PromiseHere
<1>3. QED
  BY <1>1, <1>2, OpHere, OrderHere DEF GoesOn

LEMMA PrintlnKeeps ==
  ASSUME NEW a, NEW d, InOrder(a, d), Println
  PROVE  InOrder(a, d)' /\ Promise!Println
<1>1. /\ At({"println"}) /\ vm' = Advance(Push(PopOne(vm), Undef))
      /\ UNCHANGED <<chunk, switch_vars, pending, stash>>
      /\ out' = IF unwinding THEN out ELSE Append(out, Tip(vm.stack))
  BY DEF Println
<1>2. ~halted /\ vm.ip \in DOMAIN chunk.ops /\ Cur.op = "println"
  BY <1>1 DEF At
<1>3. /\ chunk' = chunk /\ line' = line /\ coros' = coros /\ halted' = halted
      /\ pending' = pending /\ stash' = stash /\ ahead' = ahead /\ yielded' = yielded
  BY <1>1 DEF switch_vars
<1>4. Safe(a)
  BY OrderHere, PrintlnSafe
<1>k. PICK k : k = Mine(Waiting)
  OBVIOUS
<1>n. PICK n : n = Advance(Push(PopOne(k), Undef))
  OBVIOUS
<1>5. GoesOn(a, d, k)
  BY <1>2, <1>k, ReadyToGo
<1>6. Twin(vm', n, Level(Waiting)) /\ Tip(k.stack) = Tip(vm.stack)
  <2>1. Level(Waiting).base < Len(vm.stack)
    BY <1>2, FindsOperand
  <2>2. Twin(PopOne(vm), PopOne(k), Level(Waiting)) /\ Tip(k.stack) = Tip(vm.stack)
    BY <1>5, <2>1, TwinPop DEF GoesOn
  <2>3. Undef \in Val
    BY ValuesAssumption
  <2>4. Twin(Push(PopOne(vm), Undef), Push(PopOne(k), Undef), Level(Waiting))
    BY <2>2, <2>3, TwinPush
  <2>5. QED
    BY <1>1, <1>n, <2>2, <2>4, TwinAdvance
<1>7. vm'.runs = vm.runs
  BY <1>1, <1>5 DEF GoesOn, Parts, Advance, Push, PopOne
<1>8. n.frames = k.frames /\ n.runs = k.runs /\ n.ip = k.ip + 1 /\ n \in Parts /\ vm'.ip = n.ip
  <2>1. k \in Parts /\ n \in Parts /\ vm'.ip = n.ip
    BY <1>5, <1>6, TwinParts DEF GoesOn
  <2>2. QED
    BY <1>n, <2>1 DEF Parts, Advance, Push, PopOne
<1>9. Tidies(chunk, a, d, k, n, Open(Waiting), Rank(d, Waiting))
  BY <1>2, <1>5, <1>8, SkeletonSame, TidyStraight DEF GoesOn
<1>10. InOrder(a, d)' /\ Promise!Mine(n) /\ finals' = finals /\ life' = life /\ chain' = chain
  <2>1. Tidy(chunk, a, d, n, Open(Waiting), Rank(d, Waiting)) /\ (vm'.ip \in d.calm => pending' = None)
    BY <1>3, <1>5, <1>8, <1>9 DEF Tidies, GoesOn
  <2>2. QED
    BY <1>2, <1>3, <1>4, <1>6, <1>7, <2>1, Keeping
<1>11. Promise!At({"println"})
  BY <1>1, PromiseAt
<1>12. /\ n = Promise!Advance(Promise!Push(Promise!PopOne(Promise!my), Undef))
       /\ out' = IF Promise!quiet THEN out ELSE Append(out, Promise!Tip(Promise!my.stack))
  BY <1>1, <1>5, <1>6, <1>n, SameOperations DEF GoesOn
<1>13. QED
  BY <1>3, <1>10, <1>11, <1>12 DEF Promise!Println

LEMMA RaiseKeeps ==
  ASSUME NEW a, NEW d, InOrder(a, d), Raise
  PROVE  InOrder(a, d)' /\ Promise!Raise
<1>1. /\ At({"raise"}) /\ vm' = Advance(Push(vm, Undef))
      /\ UNCHANGED <<chunk, switch_vars, stash, out>>
      /\ pending' = Fault(Cur.exc)
  BY DEF Raise
<1>2. ~halted /\ vm.ip \in DOMAIN chunk.ops /\ Cur.op = "raise"
  BY <1>1 DEF At
<1>3. /\ chunk' = chunk /\ line' = line /\ coros' = coros /\ halted' = halted
      /\ out' = out /\ stash' = stash /\ ahead' = ahead /\ yielded' = yielded
  BY <1>1 DEF switch_vars
<1>4. Safe(a)
  BY OrderHere, RaiseSafe
<1>k. PICK k : k = Mine(Waiting)
  OBVIOUS
<1>n. PICK n : n = Advance(Push(k, Undef))
  OBVIOUS
<1>5. GoesOn(a, d, k)
  BY <1>2, <1>k, ReadyToGo
<1>6. Twin(vm', n, Level(Waiting))
  <2>1. Undef \in Val /\ Twin(vm, k, Level(Waiting))
    BY <1>5, ValuesAssumption DEF GoesOn
  <2>2. Twin(Push(vm, Undef), Push(k, Undef), Level(Waiting))
    BY <2>1, TwinPush
  <2>3. QED
    BY <1>1, <1>n, <2>2, TwinAdvance
<1>7. vm'.runs = vm.runs
  BY <1>1, <1>5 DEF GoesOn, Parts, Advance, Push
<1>8. n.frames = k.frames /\ n.runs = k.runs /\ n.ip = k.ip + 1 /\ n \in Parts /\ vm'.ip = n.ip
  BY <1>5, <1>6, <1>n, TwinParts DEF GoesOn, Parts, Advance, Push
<1>9. Tidy(chunk, a, d, n, Open(Waiting), Rank(d, Waiting)) /\ n.ip \notin d.calm
  <2>i. PICK i : i = vm.ip
    OBVIOUS
  <2>1. OpVerified(chunk, a, i) /\ OpApart(chunk, a, d, i) /\ chunk.ops[i].op = "raise"
    BY <2>i, <1>2, <1>5 DEF GoesOn
  <2>2. Goes(chunk, a, i, i + 1, a.height[i] + 1, a.saved[i])
    BY <2>1 DEF OpVerified
  <2>3. Follows(d, i, i + 1, d.parks[i]) /\ i + 1 \notin d.calm
    BY <2>1 DEF OpApart
  <2>4. QED
    BY <2>i, <1>5, <1>8, <2>2, <2>3, SkeletonSame, TidyOn DEF GoesOn
<1>10. InOrder(a, d)' /\ Promise!Mine(n) /\ finals' = finals /\ life' = life /\ chain' = chain
  BY <1>2, <1>3, <1>4, <1>6, <1>7, <1>8, <1>9, Keeping
<1>11. Promise!At({"raise"})
  BY <1>1, PromiseAt
<1>12. /\ n = Promise!Advance(Promise!Push(Promise!my, Undef))
       /\ pending' = Promise!Fault(Promise!OpAt(chunk, Promise!my).exc)
  BY <1>1, <1>5, <1>n, SameOperations DEF GoesOn
<1>13. QED
  BY <1>3, <1>10, <1>11, <1>12 DEF Promise!Raise

LEMMA CheckKeeps ==
  ASSUME NEW a, NEW d, InOrder(a, d), Check
  PROVE  InOrder(a, d)' /\ Promise!Check
<1>1. /\ At({"check"}) /\ vm' = [vm EXCEPT !.ip = IF unwinding THEN Cur.to ELSE @ + 1]
      /\ UNCHANGED <<chunk, switch_vars, pending, stash, out>>
  BY DEF Check
<1>2. ~halted /\ vm.ip \in DOMAIN chunk.ops /\ Cur.op = "check"
  BY <1>1 DEF At
<1>3. /\ chunk' = chunk /\ line' = line /\ coros' = coros /\ halted' = halted
      /\ pending' = pending /\ out' = out /\ stash' = stash /\ ahead' = ahead /\ yielded' = yielded
  BY <1>1 DEF switch_vars
<1>4. Safe(a)
  BY OrderHere, CheckSafe
<1>k. PICK k : k = Mine(Waiting)
  OBVIOUS
<1>p. PICK p : p = IF unwinding THEN Cur.to ELSE vm.ip + 1
  OBVIOUS
<1>n. PICK n : n = [k EXCEPT !.ip = p]
  OBVIOUS
<1>5. GoesOn(a, d, k)
  BY <1>2, <1>k, ReadyToGo
<1>6. p \in Positions(chunk) /\ p \in Nat /\ Follows(d, vm.ip, p, d.parks[vm.ip])
      /\ Goes(chunk, a, vm.ip, p, a.height[vm.ip], a.saved[vm.ip])
      /\ (p \in d.calm => pending = None)
  <2>i. PICK i : i = vm.ip
    OBVIOUS
  <2>1. OpVerified(chunk, a, i) /\ OpApart(chunk, a, d, i) /\ chunk.ops[i].op = "check" /\ Cur = chunk.ops[i]
    BY <2>i, <1>2, <1>5 DEF GoesOn
  <2>2. /\ Goes(chunk, a, i, i + 1, a.height[i], a.saved[i])
        /\ Goes(chunk, a, i, Cur.to, a.height[i], a.saved[i])
    BY <2>1 DEF OpVerified
  <2>3. /\ Follows(d, i, i + 1, d.parks[i]) /\ Follows(d, i, Cur.to, d.parks[i]) /\ Cur.to \notin d.calm
    BY <2>1 DEF OpApart
  <2>4. Goes(chunk, a, i, p, a.height[i], a.saved[i]) /\ Follows(d, i, p, d.parks[i])
    BY <2>i, <1>p, <2>2, <2>3
  <2>5. p \in Positions(chunk)
    BY <2>4 DEF Goes
  <2>6. p \in Nat
    BY <2>5 DEF Positions
  <2>7. p \in d.calm => pending = None
    BY <1>p, <2>3 DEF unwinding
  <2>8. QED
    BY <2>i, <2>4, <2>5, <2>6, <2>7
<1>7. vm' = [vm EXCEPT !.ip = p]
  BY <1>1, <1>p
<1>8. Twin(vm', n, Level(Waiting))
  BY <1>5, <1>6, <1>7, <1>n, TwinJump DEF GoesOn
<1>9. vm'.runs = vm.runs /\ vm'.ip = p
  BY <1>5, <1>7 DEF GoesOn, Parts
<1>10. n.frames = k.frames /\ n.runs = k.runs /\ n.ip = p /\ n \in Parts
  BY <1>5, <1>8, <1>n, TwinParts DEF GoesOn, Parts
<1>11. Tidy(chunk, a, d, n, Open(Waiting), Rank(d, Waiting))
  BY <1>5, <1>6, <1>10, SkeletonSame, TidyOn DEF GoesOn
<1>12. InOrder(a, d)' /\ Promise!Mine(n) /\ finals' = finals /\ life' = life /\ chain' = chain
  <2>1. vm'.ip \in d.calm => pending' = None
    BY <1>3, <1>6, <1>9
  <2>2. QED
    BY <1>2, <1>3, <1>4, <1>8, <1>9, <1>11, <2>1, Keeping
<1>13. Promise!At({"check"})
  BY <1>1, PromiseAt
<1>14. n = [Promise!my EXCEPT !.ip = IF Promise!quiet THEN Promise!OpAt(chunk, Promise!my).to ELSE @ + 1]
  BY <1>5, <1>n, <1>p DEF GoesOn
<1>15. QED
  BY <1>3, <1>12, <1>13, <1>14 DEF Promise!Check

LEMMA TakeKeeps ==
  ASSUME NEW a, NEW d, InOrder(a, d), Take
  PROVE  InOrder(a, d)' /\ Promise!Take
<1>1. /\ At({"take"}) /\ vm' = Advance(vm) /\ pending' = None
      /\ UNCHANGED <<chunk, switch_vars, stash, out>>
  BY DEF Take
<1>2. ~halted /\ vm.ip \in DOMAIN chunk.ops /\ Cur.op = "take"
  BY <1>1 DEF At
<1>3. /\ chunk' = chunk /\ line' = line /\ coros' = coros /\ halted' = halted
      /\ out' = out /\ stash' = stash /\ ahead' = ahead /\ yielded' = yielded
  BY <1>1 DEF switch_vars
<1>4. Safe(a)
  BY OrderHere, TakeSafe
<1>k. PICK k : k = Mine(Waiting)
  OBVIOUS
<1>n. PICK n : n = Advance(k)
  OBVIOUS
<1>5. GoesOn(a, d, k)
  BY <1>2, <1>k, ReadyToGo
<1>6. Twin(vm', n, Level(Waiting))
  BY <1>1, <1>5, <1>n, TwinAdvance DEF GoesOn
<1>7. vm'.runs = vm.runs
  BY <1>1, <1>5 DEF GoesOn, Parts, Advance
<1>8. n.frames = k.frames /\ n.runs = k.runs /\ n.ip = k.ip + 1 /\ n \in Parts
  BY <1>5, <1>6, <1>n, TwinParts DEF GoesOn, Parts, Advance
<1>9. Tidy(chunk, a, d, n, Open(Waiting), Rank(d, Waiting))
  <2>i. PICK i : i = vm.ip
    OBVIOUS
  <2>1. OpVerified(chunk, a, i) /\ OpApart(chunk, a, d, i) /\ chunk.ops[i].op = "take"
    BY <2>i, <1>2, <1>5 DEF GoesOn
  <2>2. Goes(chunk, a, i, i + 1, a.height[i], a.saved[i])
    BY <2>1 DEF OpVerified
  <2>3. Follows(d, i, i + 1, d.parks[i])
    BY <2>1 DEF OpApart
  <2>4. QED
    BY <2>i, <1>5, <1>8, <2>2, <2>3, SkeletonSame, TidyOn DEF GoesOn
<1>10. InOrder(a, d)' /\ Promise!Mine(n) /\ finals' = finals /\ life' = life /\ chain' = chain
  BY <1>1, <1>2, <1>3, <1>4, <1>6, <1>7, <1>9, Keeping
<1>11. Promise!At({"take"})
  BY <1>1, PromiseAt
<1>12. n = Promise!Advance(Promise!my)
  BY <1>5, <1>n, SameOperations DEF GoesOn
<1>13. QED
  BY <1>1, <1>3, <1>10, <1>11, <1>12 DEF Promise!Take

LEMMA DepthKeeps ==
  ASSUME NEW a, NEW d, InOrder(a, d), Depth
  PROVE  InOrder(a, d)' /\ Promise!Depth
<1>v. PICK v : v = [vm EXCEPT !.frames[Len(vm.frames)] = Saved(@, Len(vm.stack))]
  OBVIOUS
<1>1. /\ At({"depth"}) /\ vm' = Advance(v)
      /\ UNCHANGED <<chunk, switch_vars, pending, stash, out>>
  BY <1>v DEF Depth
<1>2. ~halted /\ vm.ip \in DOMAIN chunk.ops /\ Cur.op = "depth"
  BY <1>1 DEF At
<1>3. /\ chunk' = chunk /\ line' = line /\ coros' = coros /\ halted' = halted
      /\ pending' = pending /\ out' = out /\ stash' = stash /\ ahead' = ahead /\ yielded' = yielded
  BY <1>1 DEF switch_vars
<1>4. Safe(a)
  BY OrderHere, DepthSafe
<1>k. PICK k : k = Mine(Waiting)
  OBVIOUS
<1>w. PICK w : w = [k EXCEPT !.frames[Len(k.frames)].own = Len(k.stack) - Top(k).base]
  OBVIOUS
<1>n. PICK n : n = Advance(w)
  OBVIOUS
<1>5. GoesOn(a, d, k)
  BY <1>2, <1>k, ReadyToGo
<1>6. Twin(v, w, Level(Waiting)) /\ Twin(vm', n, Level(Waiting))
  <2>1. Len(vm.stack) - Top(vm).base \in Nat
    <3>1. Ready(chunk, a, vm) /\ chunk \in Chunks /\ a \in Maps(chunk)
      BY <1>5 DEF GoesOn
    <3>2. /\ a.height[vm.ip] \in Nat /\ Top(vm).base \in Nat /\ Len(vm.stack) \in Nat
          /\ Len(vm.stack) >= Top(vm).base + a.height[vm.ip]
      BY <3>1, ReadyHere
    <3>3. QED
      BY <3>2
  <2>2. Twin(v, w, Level(Waiting))
    BY <1>5, <1>v, <1>w, <2>1, TwinDepth DEF GoesOn
  <2>3. QED
    BY <1>1, <1>n, <2>2, TwinAdvance
<1>7. vm'.runs = vm.runs
  BY <1>1, <1>5, <1>v DEF GoesOn, Parts, Advance
<1>8. Skeleton(k, n) /\ n.ip = k.ip + 1 /\ n \in Parts /\ n.ip = vm'.ip
  <2>1. k \in Parts /\ n \in Parts /\ n.ip = vm'.ip
    BY <1>5, <1>6, TwinParts DEF GoesOn
  <2>2. n.frames = [k.frames EXCEPT ![Len(k.frames)].own = Len(k.stack) - Top(k).base]
        /\ n.runs = k.runs /\ n.ip = k.ip + 1
    BY <1>n, <1>w, <2>1 DEF Parts, Advance
  <2>3. k.frames \in Seq(Frame)
    BY <2>1, PartTypes
  <2>4. \A j \in DOMAIN k.frames : k.frames[j] \in Frame
    BY <2>3
  <2>5. DOMAIN n.frames = DOMAIN k.frames /\ Len(n.frames) = Len(k.frames)
    BY <2>2, <2>3
  <2>6. \A j \in DOMAIN k.frames : n.frames[j].ret = k.frames[j].ret
    BY <2>2, <2>4 DEF Frame
  <2>7. QED
    BY <2>1, <2>2, <2>5, <2>6 DEF Skeleton
<1>9. Tidies(chunk, a, d, k, n, Open(Waiting), Rank(d, Waiting))
  BY <1>2, <1>5, <1>8, TidyStraight DEF GoesOn
<1>10. InOrder(a, d)' /\ Promise!Mine(n) /\ finals' = finals /\ life' = life /\ chain' = chain
  <2>1. Tidy(chunk, a, d, n, Open(Waiting), Rank(d, Waiting)) /\ (vm'.ip \in d.calm => pending' = None)
    BY <1>3, <1>5, <1>8, <1>9 DEF Tidies, GoesOn
  <2>2. QED
    BY <1>2, <1>3, <1>4, <1>6, <1>7, <2>1, Keeping
<1>11. Promise!At({"depth"})
  BY <1>1, PromiseAt
<1>12. n = Promise!Advance([Promise!my EXCEPT !.frames[Len(Promise!my.frames)].own =
                              Len(Promise!my.stack) - Promise!Top(Promise!my).base])
  BY <1>5, <1>n, <1>w, SameOperations DEF GoesOn
<1>13. QED
  BY <1>3, <1>10, <1>11, <1>12 DEF Promise!Depth

LEMMA CutKeeps ==
  ASSUME NEW a, NEW d, InOrder(a, d), Cut
  PROVE  InOrder(a, d)' /\ Promise!Cut
<1>v. PICK v : v = [vm EXCEPT !.stack = Truncate(@, Top(vm).depth)]
  OBVIOUS
<1>1. /\ At({"cut"}) /\ vm' = Advance(v)
      /\ UNCHANGED <<chunk, switch_vars, pending, stash, out>>
  BY <1>v DEF Cut
<1>2. ~halted /\ vm.ip \in DOMAIN chunk.ops /\ Cur.op = "cut"
  BY <1>1 DEF At
<1>3. /\ chunk' = chunk /\ line' = line /\ coros' = coros /\ halted' = halted
      /\ pending' = pending /\ out' = out /\ stash' = stash /\ ahead' = ahead /\ yielded' = yielded
  BY <1>1 DEF switch_vars
<1>4. Safe(a)
  BY OrderHere, CutSafe
<1>k. PICK k : k = Mine(Waiting)
  OBVIOUS
<1>w. PICK w : w = [k EXCEPT !.stack = Truncate(@, Top(k).base + Top(k).own)]
  OBVIOUS
<1>n. PICK n : n = Advance(w)
  OBVIOUS
<1>5. GoesOn(a, d, k)
  BY <1>2, <1>k, ReadyToGo
<1>6. Twin(vm', n, Level(Waiting))
  <2>1. Top(vm).depth = Top(vm).base + Top(vm).own
    <3>1. Ready(chunk, a, vm) /\ chunk \in Chunks /\ a \in Maps(chunk) /\ OpVerified(chunk, a, vm.ip)
          /\ chunk.ops[vm.ip].op = "cut"
      BY <1>2, <1>5 DEF GoesOn
    <3>2. a.saved[vm.ip] # Lost
      BY <3>1 DEF OpVerified
    <3>3. QED
      BY <3>1, <3>2, ReadyHere
  <2>2. Twin(v, w, Level(Waiting))
    BY <1>5, <1>v, <1>w, <2>1, TwinCut DEF GoesOn
  <2>3. QED
    BY <1>1, <1>n, <2>2, TwinAdvance
<1>7. vm'.runs = vm.runs
  BY <1>1, <1>5, <1>v DEF GoesOn, Parts, Advance
<1>8. n.frames = k.frames /\ n.runs = k.runs /\ n.ip = k.ip + 1 /\ n \in Parts /\ n.ip = vm'.ip
  <2>1. k \in Parts /\ n \in Parts /\ vm'.ip = n.ip
    BY <1>5, <1>6, TwinParts DEF GoesOn
  <2>2. QED
    BY <1>n, <1>w, <2>1 DEF Parts, Advance
<1>9. Tidies(chunk, a, d, k, n, Open(Waiting), Rank(d, Waiting))
  BY <1>2, <1>5, <1>8, SkeletonSame, TidyStraight DEF GoesOn
<1>10. InOrder(a, d)' /\ Promise!Mine(n) /\ finals' = finals /\ life' = life /\ chain' = chain
  <2>1. Tidy(chunk, a, d, n, Open(Waiting), Rank(d, Waiting)) /\ (vm'.ip \in d.calm => pending' = None)
    BY <1>3, <1>5, <1>8, <1>9 DEF Tidies, GoesOn
  <2>2. QED
    BY <1>2, <1>3, <1>4, <1>6, <1>7, <2>1, Keeping
<1>11. Promise!At({"cut"})
  BY <1>1, PromiseAt
<1>12. n = Promise!Advance([Promise!my EXCEPT !.stack =
              Promise!Truncate(@, Promise!Top(Promise!my).base + Promise!Top(Promise!my).own)])
  BY <1>5, <1>n, <1>w, SameOperations DEF GoesOn
<1>13. QED
  BY <1>3, <1>10, <1>11, <1>12 DEF Promise!Cut

(* ---- forEach ------------------------------------------------------------------------ *)

\* forEach is over, or starts its closure once more.
Stays(m, n, r) == n.frames = m.frames /\ n.runs = Front(m.runs) /\ n.ip = r.ip
Starts(c, m, n, r, f) ==
  /\ f = NewFrame(End(c), Len(m.stack)) /\ n.frames = Append(m.frames, f)
  /\ n.runs = WithLast(m.runs, Less(r)) /\ n.ip = c.ops[r.ip - 1].to

LEMMA ElementShape ==
  ASSUME NEW c, NEW m \in Parts, m.runs # <<>>, NEW quiet, NEW r, r = m.runs[Len(m.runs)],
         NEW n, n = Element(c, m, quiet), NEW f, f = NewFrame(End(c), Len(m.stack))
  PROVE  IF r.left = 0 \/ quiet THEN Stays(m, n, r) ELSE Starts(c, m, n, r, f)
<1>1. n = IF r.left = 0 \/ quiet THEN Off(m, r) ELSE Onto(c, m, r)
  BY ElementParts
<1>2. m = [ip |-> m.ip, frames |-> m.frames, stack |-> m.stack, runs |-> m.runs]
  BY DEF Parts
<1>3. Stays(m, Off(m, r), r)
  BY <1>2 DEF Stays, Off, Push
<1>4. Starts(c, m, Onto(c, m, r), r, f)
  <2>p. PICK p : p = Push(Rerun(m, Less(r)), c.ops[r.ip - 1].n - r.left + 1)
    OBVIOUS
  <2>1. p = [ip |-> m.ip, frames |-> m.frames, stack |-> p.stack, runs |-> WithLast(m.runs, Less(r))]
    BY <1>2, <2>p DEF Push, Rerun
  <2>2. Onto(c, m, r) = Enter(p, c.ops[r.ip - 1].to, End(c), Len(m.stack))
    BY <2>p DEF Onto
  <2>3. Onto(c, m, r).ip = c.ops[r.ip - 1].to /\ Onto(c, m, r).runs = p.runs
        /\ Onto(c, m, r).frames = Append(p.frames, f)
    BY <2>1, <2>2 DEF Enter, NewFrame
  <2>4. QED
    BY <2>1, <2>3 DEF Starts
<1>5. QED
  BY <1>1, <1>3, <1>4

LEMMA LessParts ==
  ASSUME NEW r \in Run
  PROVE  Less(r).frame = r.frame /\ Less(r).ip = r.ip /\ Less(r).kind = r.kind
  BY DEF Less, Run

\* The first l runs are as they were, and those above are of one kind.
KeepsRuns(m, n, l, kind) ==
  /\ l \in Nat /\ l <= Len(m.runs) /\ l <= Len(n.runs)
  /\ \A p \in 1..l : n.runs[p] = m.runs[p]
  /\ \A p \in 1..Len(n.runs) : p > l => n.runs[p].kind = kind

LEMMA ElementRuns ==
  ASSUME NEW c, NEW m \in Parts, m.runs # <<>>, NEW quiet, NEW r, r = m.runs[Len(m.runs)],
         NEW n \in Parts, n = Element(c, m, quiet), NEW l, l = Len(m.runs) - 1
  PROVE  KeepsRuns(m, n, l, r.kind)
<1>1. m.runs \in Seq(Run) /\ Len(m.runs) \in Nat /\ Len(m.runs) > 0
  BY PartTypes
<1>2. l \in Nat /\ l <= Len(m.runs) /\ Len(m.runs) = l + 1 /\ Len(m.runs) \in 1..Len(m.runs)
  BY <1>1
<1>3. r \in Run
  BY <1>1, <1>2, PartTypes
<1>f. PICK f : f = NewFrame(End(c), Len(m.stack))
  OBVIOUS
<1>4. Stays(m, n, r) \/ Starts(c, m, n, r, f)
  BY <1>f, ElementShape
<1>5. CASE Stays(m, n, r)
  <2>1. n.runs = Front(m.runs)
    BY <1>5 DEF Stays
  <2>2. Len(n.runs) = l /\ \A p \in 1..l : n.runs[p] = m.runs[p]
    BY <1>1, <2>1, FrontSeq
  <2>3. \A p \in 1..Len(n.runs) : ~(p > l)
    BY <1>2, <2>2
  <2>4. QED
    BY <1>2, <2>2, <2>3 DEF KeepsRuns
<1>6. CASE Starts(c, m, n, r, f)
  <2>u. PICK u : u = Less(r)
    OBVIOUS
  <2>1. n.runs = WithLast(m.runs, u)
    BY <1>6, <2>u DEF Starts
  <2>2. u.kind = r.kind
    BY <1>3, <2>u, LessParts
  <2>3. n.runs = [m.runs EXCEPT ![Len(m.runs)] = u]
    BY <2>1 DEF WithLast
  <2>4. DOMAIN m.runs = 1..Len(m.runs)
    BY PartTypes
  <2>5. Len(n.runs) = Len(m.runs) /\ n.runs[Len(m.runs)] = u
        /\ \A p \in 1..Len(m.runs) : p # Len(m.runs) => n.runs[p] = m.runs[p]
    BY <1>1, <1>2, <2>3, <2>4
  <2>6. \A p \in 1..l : p \in 1..Len(m.runs) /\ p # Len(m.runs)
    BY <1>2
  <2>7. \A p \in 1..Len(n.runs) : p > l => p = Len(m.runs)
    BY <1>2, <2>5
  <2>8. l <= Len(n.runs)
    BY <1>2, <2>5
  <2>9. \A p \in 1..l : n.runs[p] = m.runs[p]
    BY <2>5, <2>6
  <2>10. \A p \in 1..Len(n.runs) : p > l => n.runs[p].kind = r.kind
    BY <2>2, <2>5, <2>7
  <2>11. QED
    BY <1>2, <2>8, <2>9, <2>10 DEF KeepsRuns
<1>7. QED
  BY <1>4, <1>5, <1>6

\* A further element is a run of the same closure.
LEMMA TidyFurther ==
  ASSUME NEW c \in Chunks, NEW a \in Maps(c), NEW d \in Accounts(c), NEW m \in Parts, NEW n \in Parts,
         NEW x \in Nat, NEW R \in Nat, Tidy(c, a, d, m, x, R), m.ip = End(c), m.runs # <<>>,
         NEW r, r = m.runs[Len(m.runs)], NEW u, u.frames = m.frames, u.runs = m.runs,
         NEW f, Starts(c, u, n, r, f), f.ret = End(c), f \in Frame,
         OpVerified(c, a, r.ip - 1), OpApart(c, a, d, r.ip - 1), c.ops[r.ip - 1].op = "each"
  PROVE  Tidy(c, a, d, n, x, R)
<1>1. m.runs \in Seq(Run) /\ Len(m.runs) \in Nat /\ Len(m.runs) > 0 /\ DOMAIN m.runs = 1..Len(m.runs)
  BY PartTypes
<1>2. Len(m.runs) \in 1..Len(m.runs) /\ r \in Run
  BY <1>1, PartTypes
<1>e. PICK e : e = Less(r)
  OBVIOUS
<1>i. PICK i : i = r.ip - 1
  OBVIOUS
<1>3. e.frame = r.frame /\ e.ip = r.ip
  BY <1>2, <1>e, LessParts
<1>4. n.runs = [m.runs EXCEPT ![Len(m.runs)] = e] /\ n.frames = Append(m.frames, f) /\ n.ip = c.ops[i].to
  BY <1>e, <1>i DEF Starts, WithLast
<1>5. Len(n.runs) = Len(m.runs) /\ \A j \in DOMAIN m.runs : n.runs[j].frame = m.runs[j].frame /\ n.runs[j].ip = m.runs[j].ip
  BY <1>1, <1>2, <1>3, <1>4
<1>6. OpVerified(c, a, i) /\ OpApart(c, a, d, i) /\ c.ops[i].op = "each"
  BY <1>i
<1>7. Entered(c, a, n.ip, 1) /\ n.ip \notin a.yields
  BY <1>4, <1>6 DEF OpVerified
<1>8. d.parks[n.ip] = 0 /\ d.rank[n.ip] <= d.rank[i]
  BY <1>4, <1>6 DEF OpApart, Follows
<1>9. n.ip \in Positions(c)
  BY <1>7 DEF Entered
<1>10. QED
  BY <1>i, <1>4, <1>5, <1>7, <1>8, <1>9, TidyElement

LEMMA TidyEach ==
  ASSUME NEW c \in Chunks, NEW a \in Maps(c), NEW d \in Accounts(c), NEW m \in Parts, NEW n \in Parts,
         NEW x \in Nat, NEW R \in Nat, Tidy(c, a, d, m, x, R), m.ip \in Positions(c),
         OpVerified(c, a, m.ip), OpApart(c, a, d, m.ip), c.ops[m.ip].op = "each",
         NEW quiet, NEW s \in Nat, n = Element(c, Each(m, s), quiet)
  PROVE  Tidy(c, a, d, n, x, R) /\ (n.ip \in d.calm => ~quiet)
<1>i. PICK i : i = m.ip
  OBVIOUS
<1>1. i \in Nat /\ m.runs \in Seq(Run) /\ Len(m.frames) \in Nat /\ Len(m.stack) \in Nat
      /\ m.frames \in Seq(Frame) /\ m.stack \in Seq(Val)
  BY <1>i, PartTypes
<1>r. PICK r : r = EachRun(m, s)
  OBVIOUS
<1>2. r \in Run /\ r.frame = Len(m.frames) /\ r.ip = i + 1 /\ r.ip - 1 = i
  <2>y. PICK y : y = i + 1
    OBVIOUS
  <2>1. y \in Nat /\ y - 1 = i
    BY <1>1, <2>y
  <2>2. r = [kind |-> "each", it |-> None, left |-> s, base |-> Len(m.stack), frame |-> Len(m.frames), ip |-> y]
    BY <1>i, <1>r, <2>y DEF EachRun
  <2>3. QED
    BY <1>1, <2>y, <2>1, <2>2 DEF Run
<1>p. PICK p : p = Each(m, s)
  OBVIOUS
<1>rs. PICK rs : rs = Append(m.runs, r)
  OBVIOUS
<1>3. p = [ip |-> i, frames |-> m.frames, stack |-> m.stack, runs |-> rs]
  <2>1. m = [ip |-> m.ip, frames |-> m.frames, stack |-> m.stack, runs |-> m.runs]
    BY DEF Parts
  <2>2. QED
    BY <1>p, <1>r, <1>rs, <1>i, <2>1 DEF Each, EachRun
<1>4. rs \in Seq(Run) /\ rs[Len(rs)] = r /\ rs # <<>> /\ Front(rs) = m.runs
  <2>1. rs \in Seq(Run) /\ Len(rs) = Len(m.runs) + 1 /\ Len(m.runs) \in Nat
    BY <1>1, <1>2, <1>rs, AppendSeq, LenNat
  <2>2. rs # <<>>
    BY <2>1, LenNat
  <2>3. rs[Len(rs)] = r
    BY <1>1, <1>rs, LastAppended
  <2>4. Front(rs) = m.runs
    <3>1. Front(rs) \in Seq(Run) /\ Len(Front(rs)) = Len(m.runs)
          /\ \A j \in 1..Len(m.runs) : Front(rs)[j] = rs[j]
      BY <2>1, <2>2, FrontSeq
    <3>2. \A j \in 1..Len(m.runs) : rs[j] = m.runs[j]
      BY <1>1, <1>2, <1>rs, AppendSeq
    <3>3. QED
      BY <1>1, <3>1, <3>2, SeqEqual
  <2>5. QED
    BY <2>1, <2>2, <2>3, <2>4
<1>5. p \in Parts /\ p.runs = rs /\ p.frames = m.frames /\ p.stack = m.stack
  BY <1>1, <1>3, <1>4, Made
<1>f. PICK f : f = NewFrame(End(c), Len(p.stack))
  OBVIOUS
<1>6. IF r.left = 0 \/ quiet THEN Stays(p, n, r) ELSE Starts(c, p, n, r, f)
  BY <1>p, <1>f, <1>4, <1>5, ElementShape
<1>7. OpVerified(c, a, i) /\ OpApart(c, a, d, i) /\ c.ops[i].op = "each"
  BY <1>i
<1>8. Goes(c, a, i, i + 1, a.height[i] + 1, a.saved[i])
  BY <1>7 DEF OpVerified
<1>9. Follows(d, i, i + 1, d.parks[i]) /\ i + 1 \notin d.calm
  BY <1>7 DEF OpApart
<1>10. CASE r.left = 0 \/ quiet
  <2>1. n.frames = m.frames /\ n.runs = m.runs /\ n.ip = i + 1
    BY <1>2, <1>4, <1>5, <1>6, <1>10 DEF Stays
  <2>2. Tidy(c, a, d, n, x, R)
    BY <1>i, <1>8, <1>9, <2>1, SkeletonSame, TidyOn
  <2>3. QED
    BY <1>9, <2>1, <2>2
<1>11. CASE ~(r.left = 0 \/ quiet)
  <2>q. PICK q : q = [ip |-> End(c), frames |-> m.frames, stack |-> m.stack, runs |-> rs]
    OBVIOUS
  <2>1. End(c) \in Nat
    BY ChunkTypes
  <2>2. q \in Parts
    BY <1>1, <1>4, <2>1, <2>q, Made
  <2>3. i + 1 \in Positions(c) /\ (i + 1 \in a.yields => i \in a.yields)
    BY <1>8 DEF Goes
  <2>4. d.rank[i + 1] <= d.rank[i] /\ d.parks[i + 1] = d.parks[i]
    BY <1>9 DEF Follows
  <2>5. Tidy(c, a, d, q, x, R)
    <3>1. q.frames = m.frames /\ q.runs = Append(m.runs, r) /\ q.ip = End(c)
      BY <1>rs, <2>q
    <3>2. m.ip + 1 \in Positions(c) /\ (m.ip + 1 \in a.yields => m.ip \in a.yields)
          /\ d.rank[m.ip + 1] <= d.rank[m.ip] /\ d.parks[m.ip + 1] = d.parks[m.ip]
          /\ m.ip + 1 \notin d.calm /\ r.ip = m.ip + 1
      BY <1>i, <1>2, <1>9, <2>3, <2>4
    <3>3. QED
      BY <1>2, <2>2, <3>1, <3>2, TidyRun
  <2>6. f.ret = End(c) /\ f \in Frame
    BY <1>1, <1>5, <1>f, <2>1, NewFrameType DEF NewFrame
  <2>7. Starts(c, p, n, r, f)
    BY <1>6, <1>11
  <2>8. q.ip = End(c) /\ q.runs = rs /\ q.frames = m.frames
    BY <2>q
  <2>9. OpVerified(c, a, r.ip - 1) /\ OpApart(c, a, d, r.ip - 1) /\ c.ops[r.ip - 1].op = "each"
    BY <1>2, <1>7
  <2>10. Tidy(c, a, d, n, x, R)
    BY <1>4, <1>5, <2>2, <2>5, <2>6, <2>7, <2>8, <2>9, TidyFurther
  <2>11. QED
    BY <1>11, <2>10
<1>12. QED
  BY <1>10, <1>11

LEMMA TidyNext ==
  ASSUME NEW c \in Chunks, NEW a \in Maps(c), NEW d \in Accounts(c), NEW m \in Parts, NEW n \in Parts,
         NEW x \in Nat, NEW R \in Nat, Tidy(c, a, d, m, x, R), m.ip = End(c), m.runs # <<>>,
         NEW r, r = m.runs[Len(m.runs)],
         OpVerified(c, a, r.ip - 1), OpApart(c, a, d, r.ip - 1), c.ops[r.ip - 1].op = "each",
         NEW quiet, NEW p \in Parts, p.frames = m.frames, p.runs = m.runs, n = Element(c, p, quiet)
  PROVE  Tidy(c, a, d, n, x, R) /\ (n.ip \in d.calm => ~quiet)
<1>f. PICK f : f = NewFrame(End(c), Len(p.stack))
  OBVIOUS
<1>1. IF r.left = 0 \/ quiet THEN Stays(p, n, r) ELSE Starts(c, p, n, r, f)
  BY <1>f, ElementShape
<1>2. CASE r.left = 0 \/ quiet
  <2>1. n.frames = m.frames /\ n.runs = Front(m.runs) /\ n.ip = r.ip
    BY <1>1, <1>2 DEF Stays
  <2>2. Tidy(c, a, d, n, x, R) /\ n.ip \notin d.calm
    BY <2>1, TidyEnd, ZenonT(60)
  <2>3. QED
    BY <2>2
<1>3. CASE ~(r.left = 0 \/ quiet)
  <2>1. Starts(c, p, n, r, f)
    BY <1>1, <1>3
  <2>2. f.ret = End(c) /\ f \in Frame
    <3>1. End(c) \in Nat /\ Len(p.stack) \in Nat
      BY ChunkTypes, PartTypes
    <3>2. QED
      BY <1>f, <3>1, NewFrameType DEF NewFrame
  <2>3. Tidy(c, a, d, n, x, R)
    BY <2>1, <2>2, TidyFurther
  <2>4. QED
    BY <1>3, <2>3
<1>4. QED
  BY <1>2, <1>3

LEMMA KeepingOver ==
  ASSUME NEW a, NEW d, InOrder(a, d), ~halted, Safe(a), Holds, halted' = halted, stash' = stash,
         NEW n, Twin(vm', n, Level(Waiting)),
         Tidy(chunk, a, d, n, Open(Waiting), Rank(d, Waiting)), vm'.ip \in d.calm => pending' = None
  PROVE  InOrder(a, d)' /\ Promise!Mine(n) /\ finals' = finals /\ life' = life /\ chain' = chain
<1>1. Left = Open(Waiting)
  BY OrderHere DEF Left
<1>2. CalmNow(a, d)
  BY DEF CalmNow
<1>3. /\ InOrder(a, d)' /\ Promise!Mine(n)
      /\ finals' = [finals EXCEPT ![Context(Waiting)] = Finals(Waiting)'] /\ life' = life /\ chain' = chain
  <2>1. vm' = IF halted' THEN PopOne(vm') ELSE vm'
    OBVIOUS
  <2>2. Tidy(chunk, a, d, n, Left, Rank(d, Waiting))
    BY <1>1
  <2>3. QED
    BY <1>2, <2>1, <2>2, SameLine
<1>4. finals' = finals
  BY <1>3, SameStash
<1>5. QED
  BY <1>3, <1>4

LEMMA ElementValue ==
  ASSUME NEW o \in Op, NEW l \in Nat, l <= o.n, o.n <= 9, l # 0
  PROVE  o.n - l + 1 \in Val /\ o.to \in Nat
<1>1. o.n \in Nat /\ o.to \in Nat
  BY DEF Op
<1>2. o.n - l + 1 \in 0..9
  BY <1>1
<1>3. QED
  BY <1>1, <1>2, ValuesAssumption

LEMMA ForEachKeeps ==
  ASSUME NEW a, NEW d, InOrder(a, d), ForEach
  PROVE  InOrder(a, d)' /\ Promise!ForEach
<1>1. /\ At({"each"}) /\ UNCHANGED <<chunk, switch_vars, stash, out>>
      /\ IF Full THEN pending' = Fault("StackOverflowError") /\ vm' = Refused(chunk, vm)
         ELSE pending' = pending /\ vm' = Element(chunk, Each(vm, Cur.n), unwinding)
  BY DEF ForEach
<1>2. ~halted /\ vm.ip \in DOMAIN chunk.ops /\ Cur.op = "each"
  BY <1>1 DEF At
<1>3. /\ chunk' = chunk /\ line' = line /\ coros' = coros /\ halted' = halted
      /\ out' = out /\ stash' = stash /\ ahead' = ahead /\ yielded' = yielded
  BY <1>1 DEF switch_vars
<1>4. Safe(a) /\ Sane(a) /\ Lined
  BY OrderHere, ForEachSafe
<1>k. PICK k : k = Mine(Waiting)
  OBVIOUS
<1>5. GoesOn(a, d, k)
  BY <1>2, <1>k, ReadyToGo
<1>6. Promise!At({"each"}) /\ (depth >= Limit <=> Full)
  BY <1>1, PromiseAt DEF Full
<1>7. vm' \in Parts /\ StashHolds
  BY <1>3, <1>4, VmParts, StashSame
<1>i. PICK i : i = vm.ip
  OBVIOUS
<1>8. OpVerified(chunk, a, i) /\ OpApart(chunk, a, d, i) /\ chunk.ops[i].op = "each" /\ chunk.ops[i] = Cur
      /\ Cur \in Op
  BY <1>i, <1>2, <1>5 DEF GoesOn
<1>9. CASE Full
  <2>n. PICK n : n = Refused(chunk, k)
    OBVIOUS
  <2>1. vm' = Refused(chunk, vm) /\ pending' = Fault("StackOverflowError")
    BY <1>1, <1>9
  <2>2. Twin(vm', n, Level(Waiting))
    BY <1>5, <2>1, <2>n, TwinRefused DEF GoesOn
  <2>3. vm'.runs = vm.runs
    BY <1>5, <2>1 DEF GoesOn, Parts, Refused, Advance, Push
  <2>4. n.frames = k.frames /\ n.runs = k.runs /\ n.ip = k.ip + 1 /\ n \in Parts /\ vm'.ip = n.ip
    <3>1. k \in Parts /\ n \in Parts /\ vm'.ip = n.ip
      BY <1>5, <2>2, TwinParts DEF GoesOn
    <3>2. QED
      BY <2>n, <3>1 DEF Parts, Refused, Advance, Push
  <2>5. Goes(chunk, a, i, i + 1, a.height[i] + 1, a.saved[i])
    BY <1>8 DEF OpVerified
  <2>6. Follows(d, i, i + 1, d.parks[i]) /\ i + 1 \notin d.calm
    BY <1>8 DEF OpApart
  <2>7. Tidy(chunk, a, d, n, Open(Waiting), Rank(d, Waiting)) /\ n.ip \notin d.calm
    BY <1>i, <1>5, <2>4, <2>5, <2>6, SkeletonSame, TidyOn DEF GoesOn
  <2>8. InOrder(a, d)' /\ Promise!Mine(n) /\ finals' = finals /\ life' = life /\ chain' = chain
    BY <1>2, <1>3, <1>4, <2>2, <2>3, <2>4, <2>7, Keeping
  <2>9. n = Promise!Refused(chunk, Promise!my) /\ pending' = Promise!Fault("StackOverflowError")
    BY <1>5, <2>1, <2>n, SameOperations DEF GoesOn
  <2>10. QED
    BY <1>3, <1>6, <1>9, <2>8, <2>9 DEF Promise!ForEach
<1>10. CASE ~Full
  <2>p. PICK p : p = Each(vm, Cur.n)
    OBVIOUS
  <2>q. PICK q : q = Each(k, Cur.n)
    OBVIOUS
  <2>n. PICK n : n = Element(chunk, q, unwinding)
    OBVIOUS
  <2>1. vm' = Element(chunk, p, unwinding) /\ pending' = pending
    BY <1>1, <1>10, <2>p
  <2>2. Cur.n \in Nat /\ Cur.to \in Nat
    BY <1>8 DEF Op
  <2>3. Twin(p, q, Level(Waiting))
    BY <1>5, <2>2, <2>p, <2>q, TwinEach DEF GoesOn
  <2>r. PICK r : r = EachRun(vm, Cur.n)
    OBVIOUS
  <2>4. vm.runs \in Seq(Run) /\ vm.ip \in Nat /\ Len(vm.runs) \in Nat
    BY <1>5, PartTypes DEF GoesOn
  <2>5. p.runs = Append(vm.runs, r)
    BY <1>5, <2>p, <2>r DEF GoesOn, Parts, Each, EachRun
  <2>6. p \in Parts /\ p.runs \in Seq(Run)
    BY <2>3, TwinParts
  <2>7. r = p.runs[Len(p.runs)] /\ Len(p.runs) = Len(vm.runs) + 1
        /\ \A j \in 1..Len(vm.runs) : p.runs[j] = vm.runs[j]
    <3>1. r \in Run
      <4>1. Len(p.runs) \in Nat /\ Len(vm.stack) \in Nat /\ Len(vm.frames) \in Nat
        BY <1>5, <2>6, PartTypes DEF GoesOn
      <4>2. vm.ip + 1 \in Nat
        BY <2>4
      <4>3. QED
        BY <2>2, <2>r, <4>1, <4>2 DEF EachRun, Run
    <3>2. QED
      BY <2>4, <2>5, <3>1, AppendSeq, LastAppended
  <2>8. r.left = Cur.n /\ r.ip - 1 = i /\ r.kind = "each"
    BY <1>i, <2>4, <2>r DEF EachRun
  <2>9. Level(Waiting).place < Len(p.runs) /\ Level(Waiting).place <= Len(vm.runs)
    <3>1. Level(Waiting).place \in Nat /\ Level(Waiting).place <= Len(vm.runs)
      BY <1>4, TopLevel, TwinParts
    <3>2. QED
      BY <2>4, <2>7, <3>1
  <2>10. Twin(vm', n, Level(Waiting))
    <3>1. r.left # 0 => chunk.ops[r.ip - 1].n - r.left + 1 \in Val /\ chunk.ops[r.ip - 1].to \in Nat
      <4>1. Cur.n <= 9
        BY <1>8 DEF OpVerified
      <4>2. Cur.n <= Cur.n
        BY <2>2
      <4>3. Cur.n # 0 => Cur.n - Cur.n + 1 \in Val /\ Cur.to \in Nat
        BY <1>8, <2>2, <4>1, <4>2, ElementValue
      <4>4. QED
        BY <1>8, <2>8, <4>3
    <3>2. chunk \in Chunks
      BY <1>5 DEF GoesOn
    <3>3. QED
      BY <2>1, <2>3, <2>7, <2>9, <2>n, <3>1, <3>2, TwinElement
  <2>11. Holds
    <3>l. PICK l : l = Len(p.runs) - 1
      OBVIOUS
    <3>1. p.runs # <<>>
      BY <2>4, <2>6, <2>7, LenNat
    <3>7. KeepsRuns(p, vm', l, r.kind)
      BY <1>7, <2>1, <2>6, <2>7, <3>l, <3>1, ElementRuns
    <3>2. /\ l \in Nat /\ l <= Len(vm'.runs)
          /\ \A j \in 1..l : vm'.runs[j] = p.runs[j]
          /\ \A j \in 1..Len(vm'.runs) : j > l => vm'.runs[j].kind = "each"
      BY <2>8, <3>7 DEF KeepsRuns
    <3>3. l = Len(vm.runs)
      BY <2>4, <2>7, <3>l
    <3>4. l <= Len(vm.runs) /\ Level(Waiting).place <= l
      BY <2>4, <2>9, <3>3
    <3>5. \A j \in 1..l : vm'.runs[j] = vm.runs[j]
      BY <2>7, <3>2, <3>3
    <3>6. QED
      BY <1>3, <1>4, <1>7, <3>2, <3>4, <3>5, HoldsRuns
  <2>12. Tidy(chunk, a, d, n, Open(Waiting), Rank(d, Waiting)) /\ (n.ip \in d.calm => ~unwinding)
    <3>1. n \in Parts
      BY <2>10, TwinParts
    <3>2. QED
      BY <1>i, <1>5, <1>8, <2>2, <2>n, <2>q, <3>1, TidyEach DEF GoesOn
  <2>13. vm'.ip \in d.calm => pending' = None
    <3>1. n.ip = vm'.ip
      BY <2>10, TwinParts
    <3>2. QED
      BY <2>1, <2>12, <3>1 DEF unwinding
  <2>14. InOrder(a, d)' /\ Promise!Mine(n) /\ finals' = finals /\ life' = life /\ chain' = chain
    BY <1>2, <1>3, <1>4, <2>10, <2>11, <2>12, <2>13, KeepingOver
  <2>15. n = Promise!Element(chunk, Promise!Each(Promise!my, Promise!OpAt(chunk, Promise!my).n), Promise!quiet)
    BY <1>5, <2>n, <2>q, SameOperations DEF GoesOn
  <2>16. QED
    BY <1>3, <1>6, <1>10, <2>1, <2>14, <2>15 DEF Promise!ForEach
<1>11. QED
  BY <1>9, <1>10

LEMMA NextElementKeeps ==
  ASSUME NEW a, NEW d, InOrder(a, d), NextElement
  PROVE  InOrder(a, d)' /\ Promise!NextElement
<1>1. /\ vm.runs # <<>> /\ vm.runs[Len(vm.runs)].kind = "each" /\ (halted \/ vm.ip = End(chunk))
      /\ vm' = Element(chunk, PopOne(vm), unwinding)
      /\ UNCHANGED <<chunk, switch_vars, pending, stash, out>>
  BY DEF NextElement, depth
<1>2. /\ chunk' = chunk /\ line' = line /\ coros' = coros /\ halted' = halted /\ pending' = pending
      /\ out' = out /\ stash' = stash /\ ahead' = ahead /\ yielded' = yielded
  BY <1>1 DEF switch_vars
<1>3. Safe(a) /\ Sane(a) /\ Lined
  BY OrderHere, NextElementSafe
<1>4. /\ chunk \in Chunks /\ a \in Maps(chunk) /\ Verified(chunk, a)
      /\ vm \in MachineType(chunk) /\ Shape(chunk, a, vm)
  BY <1>3, SaneTypes
<1>r. PICK r : r = vm.runs[Len(vm.runs)]
  OBVIOUS
<1>5. Over(chunk, vm) \/ Halting(chunk, a, vm)
  BY <1>1, <1>3, Ending
<1>6. /\ r \in Run /\ r.base \in Nat /\ r.base <= Len(vm.stack) - 1 /\ ~Halting(chunk, a, vm)
      /\ r.ip - 1 \in Positions(chunk) /\ chunk.ops[r.ip - 1].op = "each"
      /\ r.left <= chunk.ops[r.ip - 1].n /\ r.kind = "each"
  BY <1>1, <1>4, <1>5, <1>r, EndsOver
<1>7. ~halted /\ vm.ip = End(chunk)
  BY <1>1, <1>3, <1>6, Ending
<1>8. vm.runs \in Seq(Run) /\ Len(vm.runs) \in Nat /\ Len(vm.stack) \in Nat /\ Len(vm.runs) > 0
      /\ Len(vm.runs) \in 1..Len(vm.runs) /\ vm \in Parts
  BY <1>1, <1>4, MachineTypes, MachineIsParts, LastRun
<1>9. Waiting \in Nat /\ \A j \in 1..Waiting : Known(j)
  BY <1>3, KnownPulls
<1>10. Level(Waiting).place \in Nat /\ Level(Waiting).base \in Nat
       /\ Level(Waiting).place < Len(vm.runs) /\ Level(Waiting).base < Len(vm.stack)
  <2>1. CASE Waiting = 0
    <3>1. Level(Waiting).place = 0 /\ Level(Waiting).base = 0
      BY <1>3, <2>1, LevelTypes
    <3>2. QED
      BY <1>6, <1>8, <3>1
  <2>2. CASE Waiting # 0
    <3>1. Waiting \in 1..Waiting /\ Waiting \in 0..Waiting
      BY <1>9, <2>2
    <3>2. Known(Waiting) /\ Level(Waiting).place = line[Waiting].place /\ Level(Waiting).base = Pull(Waiting).base
      BY <1>3, <1>9, <2>2, <3>1, LevelTypes
    <3>p. PICK p \in 1..Len(vm.runs) : p = line[Waiting].place
      BY <3>2 DEF Known
    <3>3. Pull(Waiting) = vm.runs[p] /\ vm.runs[p].kind # "each" /\ vm.runs[p].base \in Nat
      BY <3>2, <3>p DEF Known
    <3>4. p # Len(vm.runs)
      BY <1>1, <3>3
    <3>5. p < Len(vm.runs)
      BY <1>8, <3>4
    <3>6. vm.runs[p].base <= r.base
      BY <1>4, <1>8, <1>r, <3>5, RunsNested
    <3>7. vm.runs[p].base < Len(vm.stack)
      BY <1>6, <1>8, <3>3, <3>6
    <3>8. QED
      BY <3>2, <3>p, <3>3, <3>5, <3>7
  <2>3. QED
    BY <2>1, <2>2
<1>k. PICK k : k = Mine(Waiting)
  OBVIOUS
<1>11. /\ Twin(vm, k, Level(Waiting)) /\ k.ip = vm.ip /\ Promise!my = k /\ Promise!running
       /\ Promise!quiet = unwinding
  BY <1>7, <1>k, PromiseHere
<1>p. PICK p : p = PopOne(vm)
  OBVIOUS
<1>q. PICK q : q = PopOne(k)
  OBVIOUS
<1>n. PICK n : n = Element(chunk, q, unwinding)
  OBVIOUS
<1>12. Twin(p, q, Level(Waiting))
  BY <1>10, <1>11, <1>p, <1>q, TwinPop
<1>13. p \in Parts /\ q \in Parts /\ k \in Parts /\ p.runs = vm.runs /\ p.frames = vm.frames
       /\ q.runs = k.runs /\ q.frames = k.frames
  <2>1. p \in Parts /\ q \in Parts /\ k \in Parts
    BY <1>11, <1>12, TwinParts
  <2>2. QED
    BY <1>8, <1>p, <1>q, <2>1 DEF PopOne, Parts
<1>14. Twin(vm', n, Level(Waiting))
  <2>1. r.left # 0 => chunk.ops[r.ip - 1].n - r.left + 1 \in Val /\ chunk.ops[r.ip - 1].to \in Nat
    <3>1. OpVerified(chunk, a, r.ip - 1)
      BY <1>4, <1>6 DEF Verified
    <3>o. PICK o : o = chunk.ops[r.ip - 1]
      OBVIOUS
    <3>2. o.n <= 9
      BY <1>6, <3>1, <3>o DEF OpVerified
    <3>3. o \in Op /\ r.left \in Nat
      <4>1. o \in Op
        BY <1>4, <1>6, <3>o, ChunkTypes
      <4>2. QED
        BY <1>6, <4>1 DEF Run
    <3>4. r.left <= o.n
      BY <1>6, <3>o
    <3>5. r.left # 0 => o.n - r.left + 1 \in Val /\ o.to \in Nat
      BY <3>2, <3>3, <3>4, ElementValue
    <3>6. QED
      BY <3>o, <3>5
  <2>2. Level(Waiting).place < Len(p.runs) /\ r = p.runs[Len(p.runs)]
    BY <1>10, <1>13, <1>r
  <2>3. vm' = Element(chunk, p, unwinding)
    BY <1>1, <1>p
  <2>4. QED
    BY <1>4, <1>12, <1>n, <2>1, <2>2, <2>3, TwinElement
<1>15. Holds
  <2>l. PICK l : l = Len(vm.runs) - 1
    OBVIOUS
  <2>1. vm' \in Parts /\ StashHolds
    BY <1>2, <1>3, VmParts, StashSame
  <2>2. p.runs # <<>> /\ r = p.runs[Len(p.runs)] /\ l = Len(p.runs) - 1
    BY <1>1, <1>13, <1>r, <2>l
  <2>3. vm' = Element(chunk, p, unwinding)
    BY <1>1, <1>p
  <2>9. KeepsRuns(p, vm', l, r.kind)
    BY <1>13, <2>1, <2>2, <2>3, ElementRuns
  <2>4. /\ l \in Nat /\ l <= Len(p.runs) /\ l <= Len(vm'.runs)
        /\ \A j \in 1..l : vm'.runs[j] = p.runs[j]
        /\ \A j \in 1..Len(vm'.runs) : j > l => vm'.runs[j].kind = r.kind
    BY <2>9 DEF KeepsRuns
  <2>5. Level(Waiting).place <= l
    BY <1>8, <1>10, <2>l
  <2>6. l <= Len(vm.runs) /\ \A j \in 1..l : vm'.runs[j] = vm.runs[j]
    BY <1>13, <2>4
  <2>7. \A j \in 1..Len(vm'.runs) : j > l => vm'.runs[j].kind = "each"
    BY <1>6, <2>4
  <2>8. QED
    BY <1>2, <1>3, <2>1, <2>4, <2>5, <2>6, <2>7, HoldsRuns
<1>16. Tidy(chunk, a, d, n, Open(Waiting), Rank(d, Waiting)) /\ (n.ip \in d.calm => ~unwinding)
  <2>e. PICK e : e = k.runs[Len(k.runs)]
    OBVIOUS
  <2>1. k.runs # <<>> /\ e = OwnRun(r, Level(Waiting)) /\ e.ip = r.ip
    BY <1>10, <1>11, <1>r, <2>e, TwinLast
  <2>2. OpVerified(chunk, a, e.ip - 1) /\ OpApart(chunk, a, d, e.ip - 1) /\ chunk.ops[e.ip - 1].op = "each"
    <3>1. OpVerified(chunk, a, r.ip - 1)
      BY <1>4, <1>6 DEF Verified
    <3>2. OpApart(chunk, a, d, r.ip - 1)
      BY <1>6, OrderHere DEF Apart
    <3>3. QED
      BY <1>6, <2>1, <3>1, <3>2
  <2>3. n \in Parts
    BY <1>14, TwinParts
  <2>4. /\ d \in Accounts(chunk) /\ Open(Waiting) \in Nat /\ Rank(d, Waiting) \in Nat
        /\ Tidy(chunk, a, d, k, Open(Waiting), Rank(d, Waiting))
    BY <1>k, OrderHere
  <2>5. k.ip = End(chunk)
    BY <1>7, <1>11
  <2>6. QED
    BY <1>4, <1>13, <1>n, <2>e, <2>1, <2>2, <2>3, <2>4, <2>5, TidyNext
<1>17. vm'.ip \in d.calm => pending' = None
  <2>1. n.ip = vm'.ip
    BY <1>14, TwinParts
  <2>2. QED
    BY <1>2, <1>16, <2>1 DEF unwinding
<1>18. InOrder(a, d)' /\ Promise!Mine(n) /\ finals' = finals /\ life' = life /\ chain' = chain
  BY <1>2, <1>3, <1>7, <1>14, <1>15, <1>16, <1>17, KeepingOver
<1>19. n = Promise!Element(chunk, Promise!PopOne(Promise!my), Promise!quiet)
  BY <1>11, <1>n, <1>q, SameOperations
<1>20. Promise!my.ip = Promise!End(chunk) /\ Promise!my.runs # <<>>
  <2>1. k.runs # <<>>
    BY <1>10, <1>11, TwinLast
  <2>2. QED
    BY <1>7, <1>11, <2>1, SameOperations
<1>21. QED
  BY <1>2, <1>11, <1>18, <1>19, <1>20 DEF Promise!NextElement

(* ---- finalizers --------------------------------------------------------------------- *)

LEMMA FinalsTop ==
  ASSUME NEW a, NEW d, InOrder(a, d), Safe(a), Holds
  PROVE  /\ Finals(Waiting) = Drop(stash, Level(Waiting).parked)
         /\ Finals(Waiting)' = Drop(stash', Level(Waiting).parked)
<1>1. Sane(a) /\ Lined /\ Waiting \in Nat /\ Waiting \in 0..Waiting
  BY OrderHere
<1>2. Waiting' = Waiting /\ Level(Waiting)' = Level(Waiting) /\ ~(Waiting < Waiting)
  BY <1>1, SamePulls
<1>3. QED
  BY <1>2 DEF Finals, Drop

LEMMA StashKeeps ==
  ASSUME NEW a, NEW d, InOrder(a, d), Stash
  PROVE  InOrder(a, d)' /\ Promise!Stash
<1>1. /\ At({"stash"}) /\ stash' = Append(stash, pending) /\ pending' = None /\ vm' = Advance(vm)
      /\ UNCHANGED <<chunk, switch_vars, out>>
  BY DEF Stash
<1>2. ~halted /\ vm.ip \in DOMAIN chunk.ops /\ Cur.op = "stash"
  BY <1>1 DEF At
<1>3. /\ chunk' = chunk /\ line' = line /\ coros' = coros /\ halted' = halted
      /\ out' = out /\ ahead' = ahead /\ yielded' = yielded
  BY <1>1 DEF switch_vars
<1>4. Safe(a) /\ Sane(a) /\ Lined
  BY OrderHere, StashSafe
<1>k. PICK k : k = Mine(Waiting)
  OBVIOUS
<1>n. PICK n : n = Advance(k)
  OBVIOUS
<1>x. PICK x : x = Level(Waiting).parked
  OBVIOUS
<1>5. GoesOn(a, d, k)
  BY <1>2, <1>k, ReadyToGo
<1>6. Twin(vm', n, Level(Waiting)) /\ vm'.runs = vm.runs
  BY <1>1, <1>5, <1>n, TwinAdvance DEF GoesOn, Parts, Advance
<1>7. n.frames = k.frames /\ n.runs = k.runs /\ n.ip = k.ip + 1 /\ n \in Parts
  BY <1>5, <1>6, <1>n, TwinParts DEF GoesOn, Parts, Advance
<1>8. /\ stash \in Seq(Exc \cup {None}) /\ pending \in Exc \cup {None}
      /\ x \in Nat /\ Len(stash) \in Nat /\ x <= Len(stash) /\ Open(Waiting) = Len(stash) - x
  BY <1>4, <1>x, OrderHere, SaneTypes DEF StashType
<1>9. Len(stash') = Len(stash) + 1 /\ \A j \in 1..Len(stash) : stash'[j] = stash[j]
  BY <1>1, <1>8, AppendSeq
<1>10. StashHolds
  <2>1. x <= Len(stash')
    BY <1>8, <1>9
  <2>2. \A j \in 1..x : j \in 1..Len(stash)
    BY <1>8
  <2>3. QED
    BY <1>9, <1>x, <2>1, <2>2 DEF StashHolds
<1>11. Holds
  <2>1. vm' \in Parts
    BY <1>4, VmParts
  <2>2. QED
    BY <1>3, <1>4, <1>6, <1>10, <2>1, HoldsSame
<1>12. Left = Open(Waiting) + 1 /\ Left \in Nat
  <2>1. Left = Len(stash') - x
    BY <1>x DEF Left
  <2>y. PICK y : y = Len(stash)
    OBVIOUS
  <2>2. Left = y + 1 - x /\ y \in Nat /\ x <= y /\ Open(Waiting) = y - x
    BY <1>8, <1>9, <2>1, <2>y
  <2>3. QED
    BY <1>8, <2>2
<1>13. Tidy(chunk, a, d, n, Left, Rank(d, Waiting))
  <2>i. PICK i : i = vm.ip
    OBVIOUS
  <2>1. OpVerified(chunk, a, i) /\ OpApart(chunk, a, d, i) /\ chunk.ops[i].op = "stash"
    BY <2>i, <1>2, <1>5 DEF GoesOn
  <2>2. Goes(chunk, a, i, i + 1, a.height[i], a.saved[i])
    BY <2>1 DEF OpVerified
  <2>3. Follows(d, i, i + 1, d.parks[i] + 1)
    BY <2>1 DEF OpApart
  <2>4. k.ip = i /\ n.ip = i + 1 /\ i \in Positions(chunk) /\ n.ip \in Positions(chunk)
        /\ (n.ip \in a.yields => k.ip \in a.yields)
        /\ d.rank[n.ip] <= d.rank[k.ip] /\ d.parks[n.ip] = d.parks[i] + 1
    BY <2>i, <1>5, <1>7, <2>2, <2>3 DEF GoesOn, Goes, Follows
  <2>5. d.parks[i] \in Nat /\ chunk \in Chunks /\ d \in Accounts(chunk)
    BY <1>5, <2>4, AccountTypes DEF GoesOn
  <2>6. Left + d.parks[k.ip] = Open(Waiting) + d.parks[n.ip]
    <3>o. PICK o : o = Open(Waiting)
      OBVIOUS
    <3>p. PICK p : p = d.parks[i]
      OBVIOUS
    <3>1. o \in Nat /\ p \in Nat /\ Left = o + 1
      BY <1>5, <1>12, <2>5, <3>o, <3>p DEF GoesOn
    <3>2. (o + 1) + p = o + (p + 1)
      BY <3>1
    <3>3. QED
      BY <2>4, <3>o, <3>p, <3>1, <3>2
  <2>7. Skeleton(k, n)
    BY <1>7, SkeletonSame
  <2>8. QED
    BY <1>5, <1>7, <1>12, <2>4, <2>5, <2>6, <2>7, TidyMove DEF GoesOn
<1>14. CalmNow(a, d)
  BY <1>1, <1>2, <1>3 DEF CalmNow
<1>15. /\ InOrder(a, d)' /\ Promise!Mine(n)
       /\ finals' = [finals EXCEPT ![Context(Waiting)] = Finals(Waiting)'] /\ life' = life /\ chain' = chain
  <2>1. vm' = IF halted' THEN PopOne(vm') ELSE vm'
    BY <1>2, <1>3
  <2>2. QED
    BY <1>2, <1>4, <1>6, <1>11, <1>13, <1>14, <2>1, SameLine
<1>16. finals' = [finals EXCEPT ![Promise!me] = Append(@, pending)]
  <2>1. Finals(Waiting) = Drop(stash, x) /\ Finals(Waiting)' = Drop(stash', x)
    BY <1>4, <1>11, <1>x, FinalsTop
  <2>2. Drop(stash', x) = Append(Drop(stash, x), pending)
    BY <1>1, <1>8, DropAppend
  <2>3. Promise!me = Context(Waiting) /\ finals[Context(Waiting)] = Finals(Waiting)
    BY <1>2, PromiseHere
  <2>4. QED
    BY <1>15, <2>1, <2>2, <2>3
<1>17. Promise!At({"stash"}) /\ n = Promise!Advance(Promise!my)
  BY <1>1, <1>5, <1>n, PromiseAt, SameOperations DEF GoesOn
<1>18. QED
  BY <1>1, <1>3, <1>15, <1>16, <1>17 DEF Promise!Stash

LEMMA UnstashKeeps ==
  ASSUME NEW a, NEW d, InOrder(a, d), Unstash
  PROVE  InOrder(a, d)' /\ Promise!Unstash
<1>1. /\ At({"unstash"}) /\ vm' = Advance(vm)
      /\ pending' = Fault(IF stash = <<>> THEN None ELSE stash[Len(stash)])
      /\ stash' = IF stash = <<>> THEN stash ELSE Front(stash)
      /\ UNCHANGED <<chunk, switch_vars, out>>
  BY DEF Unstash
<1>2. ~halted /\ vm.ip \in DOMAIN chunk.ops /\ Cur.op = "unstash"
  BY <1>1 DEF At
<1>3. /\ chunk' = chunk /\ line' = line /\ coros' = coros /\ halted' = halted
      /\ out' = out /\ ahead' = ahead /\ yielded' = yielded
  BY <1>1 DEF switch_vars
<1>4. Safe(a) /\ Sane(a) /\ Lined
  BY OrderHere, UnstashSafe
<1>k. PICK k : k = Mine(Waiting)
  OBVIOUS
<1>n. PICK n : n = Advance(k)
  OBVIOUS
<1>x. PICK x : x = Level(Waiting).parked
  OBVIOUS
<1>y. PICK y : y = Len(stash)
  OBVIOUS
<1>o. PICK o : o = Open(Waiting)
  OBVIOUS
<1>i. PICK i : i = vm.ip
  OBVIOUS
<1>p. PICK p : p = d.parks[i]
  OBVIOUS
<1>5. GoesOn(a, d, k)
  BY <1>2, <1>k, ReadyToGo
<1>6. Twin(vm', n, Level(Waiting)) /\ vm'.runs = vm.runs
  BY <1>1, <1>5, <1>n, TwinAdvance DEF GoesOn, Parts, Advance
<1>7. n.frames = k.frames /\ n.runs = k.runs /\ n.ip = k.ip + 1 /\ n \in Parts /\ n.ip = vm'.ip
  BY <1>5, <1>6, <1>n, TwinParts DEF GoesOn, Parts, Advance
<1>8. /\ stash \in Seq(Exc \cup {None}) /\ x \in Nat /\ y \in Nat /\ x <= y /\ o = y - x /\ o \in Nat
  BY <1>4, <1>x, <1>y, <1>o, OrderHere, SaneTypes DEF StashType
<1>9. OpVerified(chunk, a, i) /\ OpApart(chunk, a, d, i) /\ chunk.ops[i].op = "unstash"
  BY <1>i, <1>2, <1>5 DEF GoesOn
<1>10. p > 0 /\ Follows(d, i, i + 1, p - 1) /\ i + 1 \notin d.calm
  BY <1>9, <1>p DEF OpApart
<1>11. p <= o /\ p \in Nat
  BY <1>5, <1>i, <1>p, <1>o, TidyHere DEF GoesOn
<1>12. x < y /\ o > 0
  BY <1>8, <1>10, <1>11
<1>13. /\ stash # <<>> /\ stash' = Front(stash) /\ Len(stash') = y - 1
       /\ \A j \in 1..y - 1 : stash'[j] = stash[j]
  <2>1. stash # <<>>
    BY <1>8, <1>12, <1>y, LenNat
  <2>2. QED
    BY <1>1, <1>8, <1>y, <2>1, FrontSeq
<1>14. StashHolds
  <2>1. x <= Len(stash')
    BY <1>8, <1>12, <1>13
  <2>2. \A j \in 1..x : j \in 1..y - 1
    BY <1>8, <1>12
  <2>3. QED
    BY <1>13, <1>x, <2>1, <2>2 DEF StashHolds
<1>15. Holds
  <2>1. vm' \in Parts
    BY <1>4, VmParts
  <2>2. QED
    BY <1>3, <1>4, <1>6, <1>14, <2>1, HoldsSame
<1>16. Left = o - 1 /\ Left \in Nat
  <2>1. Left = (y - 1) - x
    BY <1>x, <1>13 DEF Left
  <2>2. QED
    BY <1>8, <1>12, <2>1
<1>17. Tidy(chunk, a, d, n, Left, Rank(d, Waiting)) /\ n.ip \notin d.calm
  <2>2. Goes(chunk, a, i, i + 1, a.height[i], a.saved[i])
    BY <1>9 DEF OpVerified
  <2>4. k.ip = i /\ n.ip = i + 1 /\ i \in Positions(chunk) /\ n.ip \in Positions(chunk)
        /\ (n.ip \in a.yields => k.ip \in a.yields)
        /\ d.rank[n.ip] <= d.rank[k.ip] /\ d.parks[n.ip] = p - 1
    BY <1>i, <1>5, <1>7, <1>10, <2>2 DEF GoesOn, Goes, Follows
  <2>6. Left + d.parks[k.ip] = Open(Waiting) + d.parks[n.ip]
    <3>1. (o - 1) + p = o + (p - 1)
      BY <1>8, <1>11
    <3>2. QED
      BY <1>o, <1>p, <1>16, <2>4, <3>1
  <2>7. Skeleton(k, n)
    BY <1>7, SkeletonSame
  <2>8. Tidy(chunk, a, d, n, Left, Rank(d, Waiting))
    BY <1>5, <1>7, <1>16, <2>4, <2>6, <2>7, TidyMove DEF GoesOn
  <2>9. QED
    BY <1>10, <2>4, <2>8
<1>18. CalmNow(a, d)
  BY <1>2, <1>3, <1>7, <1>17 DEF CalmNow
<1>19. /\ InOrder(a, d)' /\ Promise!Mine(n)
       /\ finals' = [finals EXCEPT ![Context(Waiting)] = Finals(Waiting)'] /\ life' = life /\ chain' = chain
  <2>1. vm' = IF halted' THEN PopOne(vm') ELSE vm'
    BY <1>2, <1>3
  <2>2. QED
    BY <1>2, <1>4, <1>6, <1>15, <1>17, <1>18, <2>1, SameLine
<1>f. PICK f : f = Finals(Waiting)
  OBVIOUS
<1>20. Promise!me = Context(Waiting) /\ finals[Context(Waiting)] = f
  BY <1>2, <1>f, PromiseHere
<1>21. Finals(Waiting)' = Front(f) /\ f[Len(f)] = stash[Len(stash)]
  <2>1. f = Drop(stash, x) /\ Finals(Waiting)' = Drop(stash', x)
    BY <1>4, <1>15, <1>x, <1>f, FinalsTop
  <2>2. Drop(Front(stash), x) = Front(f) /\ f # <<>> /\ Tip(f) = Tip(stash)
    BY <1>8, <1>12, <1>y, <2>1, DropFront
  <2>3. Tip(f) = f[Len(f)] /\ Tip(stash) = stash[Len(stash)]
    BY <1>13, <2>2 DEF Tip
  <2>4. QED
    BY <1>13, <2>1, <2>2, <2>3
<1>22. finals' = [finals EXCEPT ![Promise!me] = Promise!Front(@)]
  BY <1>19, <1>20, <1>21, SameOperations
<1>23. pending' = Promise!Fault(finals[Promise!me][Len(finals[Promise!me])])
  BY <1>1, <1>5, <1>13, <1>20, <1>21 DEF GoesOn
<1>24. Promise!At({"unstash"}) /\ n = Promise!Advance(Promise!my)
  BY <1>1, <1>5, <1>n, PromiseAt, SameOperations DEF GoesOn
<1>25. QED
  BY <1>3, <1>19, <1>22, <1>23, <1>24 DEF Promise!Unstash

(* ---- yield ---------------------------------------------------------------------------- *)

LEMMA PopPushed ==
  ASSUME NEW w \in Parts, NEW v \in Val
  PROVE  PopOne(Advance(Push(w, v))) = Advance(w)
<1>s. PICK s : s = Append(w.stack, v)
  OBVIOUS
<1>1. w.stack \in Seq(Val) /\ Len(w.stack) \in Nat
  BY PartTypes
<1>2. s \in Seq(Val) /\ Len(s) = Len(w.stack) + 1 /\ \A j \in 1..Len(w.stack) : s[j] = w.stack[j]
  BY <1>s, <1>1, AppendSeq
<1>3. s # <<>>
  BY <1>1, <1>2, LenNat
<1>4. Front(s) \in Seq(Val) /\ Len(Front(s)) = Len(w.stack) /\ \A j \in 1..Len(w.stack) : Front(s)[j] = s[j]
  BY <1>1, <1>2, <1>3, FrontSeq
<1>5. Front(s) = w.stack
  BY <1>1, <1>2, <1>4, SeqEqual
<1>6. w = [ip |-> w.ip, frames |-> w.frames, stack |-> w.stack, runs |-> w.runs]
  BY DEF Parts
<1>7. Advance(Push(w, v)) = [ip |-> w.ip + 1, frames |-> w.frames, stack |-> s, runs |-> w.runs]
  <2>p. PICK z : z = Push(w, v)
    OBVIOUS
  <2>1. z = [ip |-> w.ip, frames |-> w.frames, stack |-> s, runs |-> w.runs]
    BY <2>p, <1>s, <1>6 DEF Push
  <2>2. Advance(z) = [z EXCEPT !.ip = @ + 1]
    BY DEF Advance
  <2>3. [z EXCEPT !.ip = @ + 1] = [ip |-> w.ip + 1, frames |-> w.frames, stack |-> s, runs |-> w.runs]
    BY <2>1
  <2>4. QED
    BY <2>p, <2>2, <2>3
<1>8. PopOne(Advance(Push(w, v))) = [ip |-> w.ip + 1, frames |-> w.frames, stack |-> Front(s), runs |-> w.runs]
  BY <1>7 DEF PopOne
<1>9. Advance(w) = [ip |-> w.ip + 1, frames |-> w.frames, stack |-> w.stack, runs |-> w.runs]
  BY <1>6 DEF Advance
<1>10. QED
  BY <1>5, <1>8, <1>9

LEMMA YieldKeeps ==
  ASSUME NEW a, NEW d, InOrder(a, d), Yield
  PROVE  InOrder(a, d)' /\ Promise!Yield
<1>1. /\ At({"yield"}) /\ yielded' = Tip(vm.stack) /\ halted' = TRUE
      /\ vm' = Advance(Push(Push(PopOne(vm), Undef), Undef))
      /\ chunk' = chunk /\ line' = line /\ coros' = coros /\ pending' = pending
      /\ stash' = stash /\ out' = out /\ ahead' = ahead
  BY DEF Yield
<1>2. ~halted /\ vm.ip \in DOMAIN chunk.ops /\ Cur.op = "yield"
  BY <1>1 DEF At
<1>3. Safe(a) /\ Sane(a) /\ Lined
  BY OrderHere, YieldSafe
<1>k. PICK k : k = Mine(Waiting)
  OBVIOUS
<1>w. PICK w : w = Push(PopOne(vm), Undef)
  OBVIOUS
<1>n. PICK n : n = Advance(Push(PopOne(k), Undef))
  OBVIOUS
<1>p. PICK p : p = PopOne(vm')
  OBVIOUS
<1>4. GoesOn(a, d, k)
  BY <1>2, <1>k, ReadyToGo
<1>5. Twin(w, Push(PopOne(k), Undef), Level(Waiting)) /\ Tip(k.stack) = Tip(vm.stack) /\ w \in Parts
  <2>1. Level(Waiting).base < Len(vm.stack)
    BY <1>2, FindsOperand
  <2>2. Twin(PopOne(vm), PopOne(k), Level(Waiting)) /\ Tip(k.stack) = Tip(vm.stack)
    BY <1>4, <2>1, TwinPop DEF GoesOn
  <2>3. Undef \in Val
    BY ValuesAssumption
  <2>4. Twin(w, Push(PopOne(k), Undef), Level(Waiting))
    BY <1>w, <2>2, <2>3, TwinPush
  <2>5. QED
    BY <2>2, <2>4, TwinParts
<1>6. p = Advance(w)
  <2>1. Undef \in Val
    BY ValuesAssumption
  <2>2. vm' = Advance(Push(w, Undef))
    BY <1>1, <1>w
  <2>3. QED
    BY <1>5, <1>p, <2>1, <2>2, PopPushed
<1>7. Twin(p, n, Level(Waiting))
  BY <1>5, <1>6, <1>n, TwinAdvance
<1>8. vm'.runs = vm.runs
  BY <1>1, <1>4 DEF GoesOn, Parts, Advance, Push, PopOne
<1>9. n.frames = k.frames /\ n.runs = k.runs /\ n.ip = k.ip + 1 /\ n \in Parts
  BY <1>4, <1>7, <1>n, TwinParts DEF GoesOn, Parts, Advance, Push, PopOne
<1>10. Holds
  <2>1. vm' \in Parts /\ StashHolds
    BY <1>1, <1>3, VmParts, StashSame
  <2>2. QED
    BY <1>1, <1>3, <1>8, <2>1, HoldsSame
<1>i. PICK i : i = vm.ip
  OBVIOUS
<1>11. OpVerified(chunk, a, i) /\ OpApart(chunk, a, d, i) /\ chunk.ops[i].op = "yield"
  BY <1>i, <1>2, <1>4 DEF GoesOn
<1>12. Left = Open(Waiting) /\ Open(Waiting) = 0
  <2>1. Left = Open(Waiting)
    BY <1>1, OrderHere DEF Left
  <2>2. i \in a.yields
    BY <1>11 DEF OpVerified
  <2>3. d.parks[i] = 0
    BY <1>11 DEF OpApart
  <2>4. d.parks[i] = Open(Waiting)
    BY <1>4, <1>i, <2>2, TidyHere DEF GoesOn
  <2>5. QED
    BY <2>1, <2>3, <2>4
<1>13. Tidy(chunk, a, d, n, Left, Rank(d, Waiting))
  <2>1. Goes(chunk, a, i, i + 1, a.height[i], Lost)
    BY <1>11 DEF OpVerified
  <2>2. Follows(d, i, i + 1, d.parks[i])
    BY <1>11 DEF OpApart
  <2>3. QED
    BY <1>i, <1>4, <1>9, <1>12, <2>1, <2>2, SkeletonSame, TidyOn DEF GoesOn
<1>14. CalmNow(a, d)
  BY <1>1, <1>12 DEF CalmNow
<1>15. /\ InOrder(a, d)' /\ Promise!Mine(n)
       /\ finals' = [finals EXCEPT ![Context(Waiting)] = Finals(Waiting)'] /\ life' = life /\ chain' = chain
  <2>1. p = IF halted' THEN PopOne(vm') ELSE vm'
    BY <1>1, <1>p
  <2>2. QED
    BY <1>2, <1>3, <1>7, <1>10, <1>13, <1>14, <2>1, SameLine
<1>16. finals' = finals
  BY <1>1, <1>3, <1>10, <1>15, SameStash
<1>17. Promise!At({"yield"})
  BY <1>1, PromiseAt
<1>18. /\ n = Promise!Advance(Promise!Push(Promise!PopOne(Promise!my), Undef))
       /\ yielded' = Promise!Tip(Promise!my.stack)
  BY <1>1, <1>4, <1>5, <1>n, SameOperations DEF GoesOn
<1>19. QED
  BY <1>1, <1>15, <1>16, <1>17, <1>18 DEF Promise!Yield

(* ---- asking for an element ------------------------------------------------------------- *)

\* Whoever asks has nothing in flight, and asks a block that is not in line.
AsksDown(a, d, i) ==
  /\ Cur.it \in Iter /\ Cur.it # "main" /\ Cur.it \in Contexts /\ Cur.it \notin InLine
  /\ BlockRank(d, Cur.it) < Rank(d, Waiting) /\ BlockRank(d, Cur.it) \in Nat
  /\ i = vm.ip /\ i + 1 \in Positions(chunk) /\ i + 1 \notin d.calm /\ pending = None /\ ~unwinding
  /\ Goes(chunk, a, i, i + 1, a.height[i] + 1, a.saved[i]) /\ Follows(d, i, i + 1, d.parks[i])

LEMMA AsksOutOfLine ==
  ASSUME NEW a, NEW d, InOrder(a, d), ~halted, vm.ip \in DOMAIN chunk.ops, Cur.op \in Asks,
         NEW i, i = vm.ip
  PROVE  AsksDown(a, d, i)
<1>k. PICK k : k = Mine(Waiting)
  OBVIOUS
<1>w. PICK w : w = Cur.it
  OBVIOUS
<1>1. GoesOn(a, d, k)
  BY <1>k, ReadyToGo
<1>2. Sane(a) /\ Lined /\ Orderly(a, d) /\ d \in Accounts(chunk) /\ Waiting \in Nat
      /\ Rank(d, Waiting) \in Nat
  BY OrderHere
<1>3. OpVerified(chunk, a, i) /\ OpApart(chunk, a, d, i) /\ chunk.ops[i].op \in Asks /\ chunk.ops[i].it = w
  BY <1>1, <1>w DEF GoesOn
<1>4. w \in Iter /\ w # "main"
  BY <1>1, <1>w, ChunksAssumption DEF GoesOn, Op
<1>5. chunk.ops[i].op \notin {"jump", "return", "stash", "unstash"}
  BY <1>3 DEF Asks
<1>6. Goes(chunk, a, i, i + 1, a.height[i] + 1, a.saved[i])
  BY <1>3 DEF OpVerified
<1>7. Follows(d, i, i + 1, d.parks[i])
  BY <1>3, <1>5 DEF OpApart
<1>8. i + 1 \notin d.calm /\ i \in d.calm /\ d.rank[chunk.block[w].entry] < d.rank[i]
  BY <1>3 DEF OpApart
<1>9. pending = None /\ ~unwinding
  BY <1>1, <1>8 DEF GoesOn, unwinding
<1>10. d.rank[i] <= Rank(d, Waiting) /\ d.rank[i] \in Nat
  BY <1>1, TidyHere DEF GoesOn
<1>11. BlockRank(d, w) \in Nat /\ BlockRank(d, w) < d.rank[i]
  BY <1>2, <1>4, <1>8, RankTypes DEF BlockRank
<1>12. BlockRank(d, w) < Rank(d, Waiting)
  BY <1>2, <1>10, <1>11
<1>13. w \notin InLine
  <2>1. SUFFICES ASSUME NEW j \in 0..Waiting, Context(j) = w PROVE FALSE
    BY DEF InLine
  <2>2. j # 0
    BY <1>4, <2>1 DEF Context
  <2>3. Pull(j).it = w
    BY <2>1, <2>2 DEF Context
  <2>4. Rank(d, j) = BlockRank(d, w)
    BY <2>2, <2>3 DEF Rank
  <2>5. CASE j = Waiting
    BY <1>2, <1>11, <1>12, <2>4, <2>5
  <2>6. CASE j < Waiting
    <3>1. Rank(d, Waiting) < Rank(d, j)
      BY <1>2, <2>6 DEF Orderly
    <3>2. QED
      BY <1>2, <1>11, <1>12, <2>4, <3>1
  <2>7. QED
    BY <1>2, <2>5, <2>6
<1>14. QED
  BY <1>w, <1>4, <1>6, <1>7, <1>8, <1>9, <1>11, <1>12, <1>13 DEF AsksDown, Contexts, Goes

LEMMA LifeOut ==
  ASSUME NEW w \in Iter, w \notin InLine, coros[w] \in Coro
  PROVE  /\ (life[w] = "done") <=> (coros[w].state = "Done")
         /\ (life[w] = "fresh") <=> (coros[w].state = "Fresh")
         /\ (life[w] = "parked") <=> (coros[w].state = "Suspended")
<1>1. coros[w].state \in {"Fresh", "Suspended", "Done"}
  BY DEF Coro
<1>2. life[w] = CASE coros[w].state = "Fresh" -> "fresh"
                  [] coros[w].state = "Suspended" -> "parked"
                  [] coros[w].state = "Done" -> "done"
  BY DEF life, Life
<1>3. QED
  BY <1>1, <1>2

LEMMA AskKnownKeeps ==
  ASSUME NEW a, NEW d, InOrder(a, d), AskKnown
  PROVE  InOrder(a, d)' /\ Promise!AskKnown
<1>w. PICK w : w = Cur.it
  OBVIOUS
<1>v. PICK v : v = ahead[w]
  OBVIOUS
<1>z. PICK z : z = (v = None /\ coros[w].state # "Done")
  OBVIOUS
<1>1. /\ At(Asks) /\ (v # None \/ coros[w].state = "Done" \/ Full)
      /\ pending' = Missing(Cur.op, v, IF z THEN Fault("StackOverflowError") ELSE pending)
      /\ ahead' = [ahead EXCEPT ![w] = Park(Cur.op, v)]
      /\ vm' = AnswerTo(Advance(vm), Cur.op, v)
      /\ UNCHANGED <<chunk, halted, coros, yielded, stash, line, out>>
  BY <1>w, <1>v, <1>z DEF AskKnown
<1>2. ~halted /\ vm.ip \in DOMAIN chunk.ops /\ Cur.op \in Asks
  BY <1>1 DEF At
<1>3. /\ chunk' = chunk /\ line' = line /\ coros' = coros /\ halted' = halted
      /\ out' = out /\ stash' = stash /\ yielded' = yielded
  BY <1>1
<1>4. Safe(a) /\ Sane(a)
  BY OrderHere, AskKnownSafe
<1>k. PICK k : k = Mine(Waiting)
  OBVIOUS
<1>i. PICK i : i = vm.ip
  OBVIOUS
<1>5. GoesOn(a, d, k)
  BY <1>2, <1>k, ReadyToGo
<1>6. AsksDown(a, d, i)
  BY <1>2, <1>i, AsksOutOfLine
<1>7. v \in Val \cup {None} /\ coros[w] \in Coro
  BY <1>4, <1>6, <1>w, <1>v, SaneTypes DEF AsksDown
<1>8. PICK u \in Val : \A m : AnswerTo(m, Cur.op, v) = Push(m, u)
  BY <1>2, <1>7, AnswerIn
<1>n. PICK n : n = Push(Advance(k), u)
  OBVIOUS
<1>9. vm' = Push(Advance(vm), u) /\ n = AnswerTo(Advance(k), Cur.op, v)
  BY <1>1, <1>8, <1>n
<1>10. Twin(vm', n, Level(Waiting))
  <2>1. Twin(Advance(vm), Advance(k), Level(Waiting))
    BY <1>5, TwinAdvance DEF GoesOn
  <2>2. QED
    BY <1>9, <1>n, <2>1, TwinPush
<1>11. vm'.runs = vm.runs
  BY <1>5, <1>9 DEF GoesOn, Parts, Advance, Push
<1>12. n.frames = k.frames /\ n.runs = k.runs /\ n.ip = k.ip + 1 /\ n \in Parts /\ vm'.ip = n.ip
  <2>1. k \in Parts /\ n \in Parts /\ vm'.ip = n.ip
    BY <1>5, <1>10, TwinParts DEF GoesOn
  <2>2. QED
    BY <1>n, <2>1 DEF Parts, Advance, Push
<1>13. Tidy(chunk, a, d, n, Open(Waiting), Rank(d, Waiting)) /\ n.ip \notin d.calm
  BY <1>i, <1>5, <1>6, <1>12, SkeletonSame, TidyOn DEF GoesOn, AsksDown
<1>14. InOrder(a, d)' /\ Promise!Mine(n) /\ finals' = finals /\ life' = life /\ chain' = chain
  BY <1>2, <1>3, <1>4, <1>10, <1>11, <1>12, <1>13, Keeping
<1>15. Promise!At(Promise!Asks)
  BY <1>1, PromiseAt, SameOperations
<1>o. PICK o : o = Promise!OpAt(chunk, Promise!my)
  OBVIOUS
<1>16. o = Cur /\ o.it = w
  BY <1>5, <1>o, <1>w DEF GoesOn
<1>17. (life[w] = "done") <=> (coros[w].state = "Done")
  BY <1>6, <1>7, <1>w, LifeOut DEF AsksDown
<1>18. ahead[o.it] # None \/ life[o.it] = "done" \/ depth >= Limit
  BY <1>1, <1>v, <1>16, <1>17 DEF Full
<1>y. PICK y : y = (ahead[o.it] = None /\ life[o.it] # "done")
  OBVIOUS
<1>19. y <=> z
  BY <1>y, <1>z, <1>v, <1>16, <1>17
<1>20. pending' = Promise!Missing(o.op, ahead[o.it], IF y THEN Promise!Fault("StackOverflowError") ELSE pending)
  BY <1>1, <1>5, <1>v, <1>16, <1>19, SameOperations DEF GoesOn
<1>21. ahead' = [ahead EXCEPT ![o.it] = Promise!Held(o.op, ahead[o.it])]
  BY <1>1, <1>v, <1>16, SameOperations
<1>22. n = Promise!Answer(Promise!Advance(Promise!my), o.op, ahead[o.it])
  BY <1>5, <1>9, <1>v, <1>16, SameOperations DEF GoesOn
<1>23. QED
  BY <1>3, <1>14, <1>15, <1>18, <1>20, <1>21, <1>22, <1>o, <1>y DEF Promise!AskKnown

(* ---- what a pull that starts or ends leaves alone ---------------------------------------- *)

\* The first j pulls are there before and after.
Stay(j) ==
  /\ j \in Nat /\ j <= Waiting /\ Waiting' \in Nat /\ j <= Waiting' /\ stash' = stash
  /\ \A i \in 1..j : line'[i] = line[i]
  /\ \A i \in 1..j : \A p \in 1..line[i].place : vm'.runs[p] = vm.runs[p]

LEMMA StayPulls ==
  ASSUME NEW a, Sane(a), Lined, NEW j, Stay(j)
  PROVE  /\ \A i \in 1..j : Pull(i)' = Pull(i) /\ Known(i)
         /\ \A i \in 0..j : Context(i)' = Context(i) /\ Level(i)' = Level(i)
<1>1. Waiting \in Nat /\ \A i \in 1..Waiting : Known(i)
  BY KnownPulls
<1>2. ASSUME NEW i \in 1..j PROVE Pull(i)' = Pull(i) /\ Known(i)
  <2>1. i \in 1..Waiting
    BY <1>1 DEF Stay
  <2>2. Known(i)
    BY <1>1, <2>1
  <2>3. line[i].place \in 1..line[i].place
    BY <2>2 DEF Known
  <2>4. line'[i] = line[i] /\ vm'.runs[line[i].place] = vm.runs[line[i].place]
    BY <2>3 DEF Stay
  <2>5. Pull(i)' = vm'.runs[line'[i].place]
    BY DEF Pull
  <2>6. QED
    BY <2>2, <2>4, <2>5 DEF Pull
<1>3. ASSUME NEW i \in 0..j PROVE Context(i)' = Context(i) /\ Level(i)' = Level(i)
  <2>1. CASE i = 0
    BY <2>1 DEF Context, Level
  <2>2. CASE i # 0
    <3>1. i \in 1..j
      BY <2>2 DEF Stay
    <3>2. Pull(i)' = Pull(i) /\ line'[i] = line[i]
      BY <1>2, <3>1 DEF Stay
    <3>3. QED
      BY <2>2, <3>2 DEF Context, Level
  <2>3. QED
    BY <2>1, <2>2
<1>4. QED
  BY <1>2, <1>3

LEMMA StayPaused ==
  ASSUME NEW a, Sane(a), Lined, Safe(a), Lined', NEW j, Stay(j), NEW i \in 1..j
  PROVE  Paused(i)' = Paused(i)
<1>1. Pull(i)' = Pull(i) /\ Known(i) /\ line'[i] = line[i]
  BY StayPulls DEF Stay
<1>2. i \in 1..Waiting'
  BY DEF Stay
<1>3. Known(i)'
  <2>1. Sane(a)'
    BY SaneNext
  <2>2. AllKnown'
    BY <2>1, KnownNext
  <2>3. QED
    BY <1>2, <2>2 DEF AllKnown
<1>p. PICK p : p = line[i].place
  OBVIOUS
<1>r. PICK r : r = Pull(i)
  OBVIOUS
<1>4. /\ vm.frames \in Seq(Frame) /\ vm.stack \in Seq(Val) /\ vm.runs \in Seq(Run)
      /\ vm'.frames \in Seq(Frame) /\ vm'.stack \in Seq(Val) /\ vm'.runs \in Seq(Run)
      /\ Len(vm.runs) \in Nat /\ Len(vm'.runs) \in Nat /\ DOMAIN vm.runs = 1..Len(vm.runs)
  <2>1. vm \in MachineType(chunk) /\ vm' \in MachineType(chunk) /\ chunk \in Chunks
    BY SaneTypes DEF Safe, Typed
  <2>2. QED
    BY <2>1, MachineTypes
<1>5. /\ p \in 1..Len(vm.runs) /\ r = vm.runs[p] /\ r.base \in Nat /\ r.frame \in 1..Len(vm.frames)
      /\ r.base <= Len(vm.stack)
  BY <1>p, <1>r, <1>1 DEF Known
<1>6. p \in 1..Len(vm'.runs) /\ r.frame \in 1..Len(vm'.frames) /\ r.base <= Len(vm'.stack)
  BY <1>p, <1>r, <1>1, <1>3 DEF Known
<1>7. /\ SubSeq(vm'.stack, 1, r.base) = SubSeq(vm.stack, 1, r.base)
      /\ SubSeq(vm'.frames, 1, r.frame) = SubSeq(vm.frames, 1, r.frame)
  <2>1. Kept(vm, vm')
    BY DEF Safe
  <2>2. p \in DOMAIN vm.runs
    BY <1>4, <1>5
  <2>3. QED
    BY <1>5, <2>1, <2>2 DEF Kept
<1>8. Truncate(vm'.stack, r.base) = Truncate(vm.stack, r.base)
  BY <1>4, <1>5, <1>6, <1>7, SameTruncated
<1>9. Truncate(vm'.frames, r.frame) = Truncate(vm.frames, r.frame)
  <2>1. r.frame \in Nat /\ r.frame <= Len(vm.frames) /\ r.frame <= Len(vm'.frames)
    BY <1>5, <1>6
  <2>2. QED
    BY <1>4, <1>7, <2>1, SameTruncated
<1>10. Truncate(vm'.runs, p - 1) = Truncate(vm.runs, p - 1)
  <2>q. PICK q : q = p - 1
    OBVIOUS
  <2>1. q \in Nat /\ q <= Len(vm.runs) /\ q <= Len(vm'.runs)
    BY <2>q, <1>4, <1>5, <1>6
  <2>2. \A l \in 1..q : vm'.runs[l] = vm.runs[l]
    <3>1. \A l \in 1..q : l \in 1..p
      BY <2>q, <1>5
    <3>2. QED
      BY <1>p, <3>1 DEF Stay
  <2>3. SubSeq(vm'.runs, 1, q) = SubSeq(vm.runs, 1, q)
    BY <1>4, <2>1, <2>2, SameStart
  <2>4. Truncate(vm'.runs, q) = Truncate(vm.runs, q)
    BY <1>4, <2>1, <2>3, SameTruncated
  <2>5. QED
    BY <2>q, <2>4
<1>11. Paused(i) = [ ip |-> r.ip, frames |-> Truncate(vm.frames, r.frame),
                     stack |-> Truncate(vm.stack, r.base), runs |-> Truncate(vm.runs, p - 1) ]
  BY <1>p, <1>r DEF Paused
<1>12. Paused(i)' = [ ip |-> r.ip, frames |-> Truncate(vm'.frames, r.frame),
                      stack |-> Truncate(vm'.stack, r.base), runs |-> Truncate(vm'.runs, p - 1) ]
  BY <1>p, <1>r, <1>1 DEF Paused
<1>13. QED
  BY <1>8, <1>9, <1>10, <1>11, <1>12

LEMMA StayMine ==
  ASSUME NEW a, Sane(a), Lined, Safe(a), Lined', NEW j, Stay(j), NEW i \in 0..j, i < j
  PROVE  Mine(i)' = Mine(i) /\ Open(i)' = Open(i) /\ Finals(i)' = Finals(i)
<1>1. Waiting \in Nat /\ Waiting' \in Nat /\ j \in Nat /\ j <= Waiting /\ j <= Waiting' /\ stash' = stash
  BY KnownPulls DEF Stay
<1>2. i < Waiting /\ i < Waiting' /\ i + 1 \in 1..j
  BY <1>1
<1>3. Level(i)' = Level(i) /\ line'[i + 1] = line[i + 1]
  BY <1>2, StayPulls DEF Stay
<1>4. Paused(i + 1)' = Paused(i + 1)
  BY <1>2, StayPaused
<1>5. Whole(i) = Paused(i + 1) /\ Whole(i)' = Paused(i + 1)'
  BY <1>2 DEF Whole
<1>6. Mine(i)' = Mine(i)
  BY <1>3, <1>4, <1>5 DEF Mine
<1>7. Open(i)' = Open(i)
  BY <1>2, <1>3 DEF Open
<1>8. Finals(i)' = Finals(i)
  BY <1>1, <1>2, <1>3 DEF Finals
<1>9. QED
  BY <1>6, <1>7, <1>8

LEMMA StayRank ==
  ASSUME NEW a, Sane(a), Lined, chunk' = chunk, NEW j, Stay(j), NEW d
  PROVE  /\ \A i \in 0..j : Rank(d, i)' = Rank(d, i)
         /\ \A k \in Iter : BlockRank(d, k)' = BlockRank(d, k)
<1>1. \A k \in Iter : BlockRank(d, k)' = BlockRank(d, k)
  BY DEF BlockRank
<1>2. ASSUME NEW i \in 0..j PROVE Rank(d, i)' = Rank(d, i)
  <2>1. CASE i = 0
    BY <2>1 DEF Rank
  <2>2. CASE i # 0
    <3>1. i \in 1..j
      BY <2>2 DEF Stay
    <3>2. Pull(i)' = Pull(i)
      BY <3>1, StayPulls
    <3>3. QED
      BY <2>2, <3>2 DEF Rank, BlockRank
  <2>3. QED
    BY <2>1, <2>2
<1>3. QED
  BY <1>1, <1>2

(* ---- a block's machine, put back and lifted off -------------------------------------------- *)

LEMMA DropConcat ==
  ASSUME NEW S, NEW s \in Seq(S), NEW t \in Seq(S)
  PROVE  Drop(s \o t, Len(s)) = t
<1>u. PICK u : u = s \o t
  OBVIOUS
<1>n. PICK n : n = Len(s)
  OBVIOUS
<1>l. PICK l : l = Len(t)
  OBVIOUS
<1>1. n \in Nat /\ l \in Nat
  BY <1>n, <1>l, LenNat
<1>2. u \in Seq(S) /\ Len(u) = n + l /\ \A i \in 1..l : u[n + i] = t[i]
  <2>1. /\ s \o t \in Seq(S) /\ Len(s \o t) = Len(s) + Len(t)
        /\ \A i \in 1..Len(t) : (s \o t)[Len(s) + i] = t[i]
    BY ConcatSeq
  <2>2. QED
    BY <2>1, <1>u, <1>n, <1>l
<1>3. n <= Len(u)
  BY <1>1, <1>2
<1>4. Drop(u, n) \in Seq(S) /\ Len(Drop(u, n)) = Len(u) - n /\ \A i \in 1..Len(u) - n : Drop(u, n)[i] = u[n + i]
  <2>1. u \in Seq(S) /\ n \in Nat /\ n <= Len(u)
    BY <1>1, <1>2, <1>3
  <2>2. QED
    BY <2>1, DropSeq
<1>5. Len(u) - n = l
  BY <1>1, <1>2
<1>p. PICK p : p = Drop(u, n)
  OBVIOUS
<1>6. p \in Seq(S) /\ Len(p) = l /\ \A i \in 1..l : p[i] = t[i]
  BY <1>p, <1>2, <1>4, <1>5
<1>7. p = t
  BY <1>l, <1>6, SeqEqual
<1>8. QED
  BY <1>u, <1>n, <1>p, <1>7

LEMMA RebasedFrame ==
  ASSUME NEW fs \in Seq(Frame), NEW by \in Int, NEW j \in 1..Len(fs)
  PROVE  OwnFrame(Rebase(fs, by)[j], by) = OwnFrame(fs[j], 0)
<1>f. PICK f : f = fs[j]
  OBVIOUS
<1>1. f \in Frame /\ j \in DOMAIN fs
  BY <1>f, LenNat
<1>2. Rebase(fs, by)[j] = [f EXCEPT !.base = @ + by]
  BY <1>f, <1>1 DEF Rebase
<1>3. f = [ret |-> f.ret, base |-> f.base, slot |-> f.slot, depth |-> f.depth, own |-> f.own] /\ f.base \in Int
  BY <1>1 DEF Frame
<1>4. [f EXCEPT !.base = @ + by] = [ret |-> f.ret, base |-> f.base + by, slot |-> f.slot, depth |-> f.depth, own |-> f.own]
  BY <1>3
<1>g. PICK g : g = [f EXCEPT !.base = @ + by]
  OBVIOUS
<1>5. g = [ret |-> f.ret, base |-> f.base + by, slot |-> f.slot, depth |-> f.depth, own |-> f.own]
  BY <1>4, <1>g
<1>6. OwnFrame(g, by) = [ret |-> f.ret, base |-> f.base + by - by, slot |-> f.slot, depth |-> 0, own |-> f.own]
  <2>1. g \in Frame
    BY <1>1, <1>2, <1>g, LenNat, RebaseSeq
  <2>2. OwnFrame(g, by) = [ret |-> g.ret, base |-> g.base - by, slot |-> g.slot, depth |-> 0, own |-> g.own]
    BY <2>1, OwnFrameType
  <2>3. g.ret = f.ret /\ g.base = f.base + by /\ g.slot = f.slot /\ g.own = f.own
    BY <1>5
  <2>z. PICK z : z = g.base - by
    OBVIOUS
  <2>4. z = f.base + by - by
    <3>y. PICK y : y = f.base
      OBVIOUS
    <3>1. g.base = y + by /\ y \in Int
      BY <3>y, <2>3, <1>3
    <3>x. PICK x : x = g.base
      OBVIOUS
    <3>2. x = y + by /\ z = x - by
      BY <3>x, <3>1, <2>z
    <3>3. z = y + by - by
      BY <3>1, <3>2
    <3>4. QED
      BY <3>3, <3>y
  <2>5. OwnFrame(g, by) = [ret |-> f.ret, base |-> z, slot |-> f.slot, depth |-> 0, own |-> f.own]
    BY <2>z, <2>2, <2>3
  <2>6. QED
    BY <2>4, <2>5
<1>7. OwnFrame(f, 0) = [ret |-> f.ret, base |-> f.base - 0, slot |-> f.slot, depth |-> 0, own |-> f.own]
  BY <1>1, OwnFrameType
<1>8. f.base + by - by = f.base - 0
  BY <1>3
<1>9. QED
  BY <1>f, <1>2, <1>6, <1>7, <1>8, <1>g

LEMMA FramesBack ==
  ASSUME NEW gs \in Seq(Frame), NEW fs \in Seq(Frame), NEW by \in Int
  PROVE  OwnFrames(gs \o Rebase(fs, by), Len(gs), by) = OwnFrames(fs, 0, 0)
<1>t. PICK t : t = Rebase(fs, by)
  OBVIOUS
<1>u. PICK u : u = gs \o t
  OBVIOUS
<1>n. PICK n : n = Len(gs)
  OBVIOUS
<1>l. PICK l : l = Len(fs)
  OBVIOUS
<1>1. n \in Nat /\ l \in Nat
  BY <1>n, <1>l, LenNat
<1>2. t \in Seq(Frame) /\ Len(t) = l
  BY <1>t, <1>l, RebaseSeq
<1>3. u \in Seq(Frame) /\ Len(u) = n + l /\ \A i \in 1..l : u[n + i] = t[i]
  <2>1. /\ gs \o t \in Seq(Frame) /\ Len(gs \o t) = Len(gs) + Len(t)
        /\ \A i \in 1..Len(t) : (gs \o t)[Len(gs) + i] = t[i]
    BY <1>2, ConcatSeq
  <2>2. QED
    BY <2>1, <1>u, <1>n, <1>2
<1>4. n <= Len(u) /\ Len(u) - n = l /\ 0 \in Nat /\ 0 <= l /\ l - 0 = l
  BY <1>1, <1>3
<1>5. /\ OwnFrames(u, n, by) \in Seq(Frame) /\ Len(OwnFrames(u, n, by)) = Len(u) - n
      /\ \A j \in 1..Len(u) - n : OwnFrames(u, n, by)[j] = OwnFrame(u[n + j], by)
  BY <1>1, <1>3, <1>4, FramesView
<1>6. /\ OwnFrames(fs, 0, 0) \in Seq(Frame) /\ Len(OwnFrames(fs, 0, 0)) = Len(fs) - 0
      /\ \A j \in 1..Len(fs) - 0 : OwnFrames(fs, 0, 0)[j] = OwnFrame(fs[0 + j], 0)
  <2>1. 0 \in Nat /\ 0 \in Int /\ 0 <= Len(fs)
    BY <1>4, <1>l
  <2>2. QED
    BY <2>1, FramesView
<1>7. ASSUME NEW j \in 1..l PROVE OwnFrames(u, n, by)[j] = OwnFrames(fs, 0, 0)[j]
  <2>1. OwnFrame(t[j], by) = OwnFrame(fs[j], 0)
    BY <1>t, <1>l, RebasedFrame
  <2>2. 0 + j = j /\ j \in 1..Len(fs) - 0
    BY <1>1, <1>l, <1>4
  <2>3. QED
    BY <1>3, <1>4, <1>5, <1>6, <2>1, <2>2
<1>p. PICK p : p = OwnFrames(u, n, by)
  OBVIOUS
<1>q. PICK q : q = OwnFrames(fs, 0, 0)
  OBVIOUS
<1>8. p \in Seq(Frame) /\ q \in Seq(Frame) /\ Len(p) = l /\ Len(q) = l
  BY <1>p, <1>q, <1>l, <1>4, <1>5, <1>6
<1>9. \A j \in 1..l : p[j] = q[j]
  BY <1>p, <1>q, <1>7
<1>10. p = q
  BY <1>8, <1>9, SeqEqual
<1>11. QED
  BY <1>p, <1>q, <1>t, <1>u, <1>n, <1>10

LEMMA FramesOff ==
  ASSUME NEW fs \in Seq(Frame), NEW n \in Nat, n <= Len(fs), NEW b \in Int
  PROVE  OwnFrames(Rebase(Drop(fs, n), -b), 0, 0) = OwnFrames(fs, n, b)
<1>t. PICK t : t = Drop(fs, n)
  OBVIOUS
<1>l. PICK l : l = Len(fs) - n
  OBVIOUS
<1>x. PICK x : x = -b
  OBVIOUS
<1>u. PICK u : u = Rebase(t, x)
  OBVIOUS
<1>1. l \in Nat /\ x \in Int /\ 0 <= l /\ l - 0 = l /\ 0 \in Nat /\ 0 \in Int
  BY <1>l, <1>x, LenNat
<1>2. t \in Seq(Frame) /\ Len(t) = l /\ \A j \in 1..l : t[j] = fs[n + j]
  BY <1>t, <1>l, DropSeq
<1>3. u \in Seq(Frame) /\ Len(u) = l
  BY <1>u, <1>1, <1>2, RebaseSeq
<1>4. /\ OwnFrames(u, 0, 0) \in Seq(Frame) /\ Len(OwnFrames(u, 0, 0)) = Len(u) - 0
      /\ \A j \in 1..Len(u) - 0 : OwnFrames(u, 0, 0)[j] = OwnFrame(u[0 + j], 0)
  BY <1>1, <1>3, FramesView
<1>5. /\ OwnFrames(fs, n, b) \in Seq(Frame) /\ Len(OwnFrames(fs, n, b)) = Len(fs) - n
      /\ \A j \in 1..Len(fs) - n : OwnFrames(fs, n, b)[j] = OwnFrame(fs[n + j], b)
  BY FramesView
<1>6. ASSUME NEW j \in 1..l PROVE OwnFrame(u[j], 0) = OwnFrame(t[j], b)
  <2>f. PICK f : f = t[j]
    OBVIOUS
  <2>1. f \in Frame /\ j \in DOMAIN t
    BY <2>f, <1>2, LenNat
  <2>2. u[j] = [f EXCEPT !.base = @ + x]
    BY <2>f, <2>1, <1>u DEF Rebase
  <2>3. f = [ret |-> f.ret, base |-> f.base, slot |-> f.slot, depth |-> f.depth, own |-> f.own] /\ f.base \in Int
    BY <2>1 DEF Frame
  <2>4. [f EXCEPT !.base = @ + x] = [ret |-> f.ret, base |-> f.base + x, slot |-> f.slot, depth |-> f.depth, own |-> f.own]
    BY <2>3
  <2>5. u[j] = [ret |-> f.ret, base |-> f.base + x, slot |-> f.slot, depth |-> f.depth, own |-> f.own]
    BY <2>2, <2>4
  <2>6. OwnFrame(u[j], 0) = [ret |-> f.ret, base |-> f.base + x - 0, slot |-> f.slot, depth |-> 0, own |-> f.own]
    <3>g. PICK g : g = u[j]
      OBVIOUS
    <3>1. g \in Frame
      BY <1>3, <3>g, LenNat
    <3>2. OwnFrame(g, 0) = [ret |-> g.ret, base |-> g.base - 0, slot |-> g.slot, depth |-> 0, own |-> g.own]
      BY <3>1, OwnFrameType
    <3>3. g.ret = f.ret /\ g.base = f.base + x /\ g.slot = f.slot /\ g.own = f.own
      BY <2>5, <3>g
    <3>z. PICK z : z = g.base - 0
      OBVIOUS
    <3>4. z = f.base + x - 0
      <4>y. PICK y : y = f.base
        OBVIOUS
      <4>1. g.base = y + x /\ y \in Int /\ x \in Int
        BY <4>y, <3>3, <2>3, <1>1
      <4>w. PICK w : w = g.base
        OBVIOUS
      <4>2. w = y + x /\ z = w - 0
        BY <4>w, <4>1, <3>z
      <4>3. z = y + x - 0
        BY <4>1, <4>2
      <4>4. QED
        BY <4>3, <4>y
    <3>5. OwnFrame(g, 0) = [ret |-> f.ret, base |-> z, slot |-> f.slot, depth |-> 0, own |-> f.own]
      BY <3>z, <3>2, <3>3
    <3>6. QED
      BY <3>g, <3>4, <3>5
  <2>7. OwnFrame(f, b) = [ret |-> f.ret, base |-> f.base - b, slot |-> f.slot, depth |-> 0, own |-> f.own]
    BY <2>1, OwnFrameType
  <2>8. f.base + x - 0 = f.base - b
    BY <2>3, <1>x
  <2>9. QED
    BY <2>f, <2>6, <2>7, <2>8
<1>p. PICK p : p = OwnFrames(u, 0, 0)
  OBVIOUS
<1>q. PICK q : q = OwnFrames(fs, n, b)
  OBVIOUS
<1>8. p \in Seq(Frame) /\ q \in Seq(Frame) /\ Len(p) = l /\ Len(q) = l
  BY <1>p, <1>q, <1>l, <1>1, <1>3, <1>4, <1>5
<1>9. ASSUME NEW j \in 1..l PROVE p[j] = q[j]
  <2>1. 0 + j = j /\ j \in 1..Len(u) - 0
    BY <1>1, <1>3
  <2>2. p[j] = OwnFrame(u[j], 0)
    BY <1>p, <1>4, <2>1
  <2>3. q[j] = OwnFrame(fs[n + j], b)
    BY <1>q, <1>l, <1>5
  <2>4. QED
    BY <1>2, <1>6, <2>2, <2>3
<1>10. p = q
  BY <1>8, <1>9, SeqEqual
<1>11. QED
  BY <1>p, <1>q, <1>t, <1>x, <1>u, <1>10

LEMMA NoRuns ==
  ASSUME NEW rs \in Seq(Run), NEW low \in Lows, low.place = Len(rs)
  PROVE  OwnRuns(rs, low) = <<>>
<1>1. Len(rs) \in Nat /\ low.place <= Len(rs)
  BY LenNat
<1>2. OwnRuns(rs, low) \in Seq(Run) /\ Len(OwnRuns(rs, low)) = Len(rs) - low.place
  BY <1>1, RunsView
<1>3. ~(Len(OwnRuns(rs, low)) > 0)
  BY <1>1, <1>2
<1>4. QED
  BY <1>2, <1>3, LenNat

LEMMA NoFrames ==
  ASSUME NEW fs \in Seq(Frame), NEW b \in Int
  PROVE  OwnFrames(fs, Len(fs), b) = <<>>
<1>1. Len(fs) \in Nat /\ Len(fs) <= Len(fs)
  BY LenNat
<1>2. OwnFrames(fs, Len(fs), b) \in Seq(Frame) /\ Len(OwnFrames(fs, Len(fs), b)) = Len(fs) - Len(fs)
  BY <1>1, FramesView
<1>3. ~(Len(OwnFrames(fs, Len(fs), b)) > 0)
  BY <1>1, <1>2
<1>4. QED
  BY <1>2, <1>3, LenNat

(* ---- a block that starts or goes on ------------------------------------------------------- *)

LEMMA TruncateConcat ==
  ASSUME NEW S, NEW s \in Seq(S), NEW t \in Seq(S)
  PROVE  Truncate(s \o t, Len(s)) = s /\ Len(s) <= Len(s \o t) /\ s \o t \in Seq(S)
<1>u. PICK u : u = s \o t
  OBVIOUS
<1>n. PICK n : n = Len(s)
  OBVIOUS
<1>1. n \in Nat /\ Len(t) \in Nat
  BY <1>n, LenNat
<1>2. u \in Seq(S) /\ Len(u) = n + Len(t) /\ \A i \in 1..n : u[i] = s[i]
  <2>1. s \o t \in Seq(S) /\ Len(s \o t) = Len(s) + Len(t) /\ \A i \in 1..Len(s) : (s \o t)[i] = s[i]
    BY ConcatSeq
  <2>2. QED
    BY <2>1, <1>u, <1>n
<1>3. n <= Len(u)
  BY <1>1, <1>2
<1>p. PICK p : p = Truncate(u, n)
  OBVIOUS
<1>4. p \in Seq(S) /\ Len(p) = n /\ \A i \in 1..n : p[i] = u[i]
  <2>1. /\ Truncate(u, n) \in Seq(S) /\ Len(Truncate(u, n)) = n
        /\ \A i \in 1..Len(Truncate(u, n)) : Truncate(u, n)[i] = u[i]
    BY <1>1, <1>2, <1>3, TruncateSeq
  <2>2. QED
    BY <2>1, <1>p
<1>5. \A i \in 1..n : p[i] = s[i]
  BY <1>2, <1>4
<1>6. p = s
  BY <1>n, <1>4, <1>5, SeqEqual
<1>7. QED
  BY <1>u, <1>n, <1>p, <1>2, <1>3, <1>6

LEMMA TruncateAppend ==
  ASSUME NEW S, NEW s \in Seq(S), NEW e \in S
  PROVE  Truncate(Append(s, e), Len(s)) = s /\ Len(s) <= Len(Append(s, e)) /\ Append(s, e) \in Seq(S)
<1>u. PICK u : u = Append(s, e)
  OBVIOUS
<1>n. PICK n : n = Len(s)
  OBVIOUS
<1>1. n \in Nat
  BY <1>n, LenNat
<1>2. u \in Seq(S) /\ Len(u) = n + 1 /\ \A i \in 1..n : u[i] = s[i]
  <2>1. Append(s, e) \in Seq(S) /\ Len(Append(s, e)) = Len(s) + 1 /\ \A i \in 1..Len(s) : Append(s, e)[i] = s[i]
    BY AppendSeq
  <2>2. QED
    BY <2>1, <1>u, <1>n
<1>3. n <= Len(u)
  BY <1>1, <1>2
<1>p. PICK p : p = Truncate(u, n)
  OBVIOUS
<1>4. p \in Seq(S) /\ Len(p) = n /\ \A i \in 1..n : p[i] = u[i]
  <2>1. /\ Truncate(u, n) \in Seq(S) /\ Len(Truncate(u, n)) = n
        /\ \A i \in 1..Len(Truncate(u, n)) : Truncate(u, n)[i] = u[i]
    BY <1>1, <1>2, <1>3, TruncateSeq
  <2>2. QED
    BY <2>1, <1>p
<1>5. \A i \in 1..n : p[i] = s[i]
  BY <1>2, <1>4
<1>6. p = s
  BY <1>n, <1>4, <1>5, SeqEqual
<1>7. QED
  BY <1>u, <1>n, <1>p, <1>2, <1>3, <1>6

\* The machine that coro_next runs: the consumer's, with the run r of the pull
\* and the block's part b of the machine on top.
OnTop(r, b) ==
  /\ b \in Parts /\ b.runs = <<>> /\ vm' \in Parts /\ vm'.ip = b.ip
  /\ vm'.runs = Append(vm.runs, r)
  /\ Len(vm.frames) <= Len(vm'.frames) /\ Len(vm.stack) <= Len(vm'.stack)
  /\ Truncate(vm'.frames, Len(vm.frames)) = vm.frames
  /\ Truncate(vm'.stack, Len(vm.stack)) = vm.stack
  /\ Drop(vm'.stack, Len(vm.stack)) = b.stack
  /\ OwnFrames(vm'.frames, Len(vm.frames), Len(vm.stack)) = b.frames

LEMMA PulledRuns ==
  ASSUME NEW a, NEW d, InOrder(a, d), ~halted, vm.ip \in DOMAIN chunk.ops, Cur.op \in Asks,
         NEW r, r = PullOf(Cur.op, Cur.it, vm), NEW rs, rs = Append(vm.runs, r)
  PROVE  /\ PullRun(chunk, a, vm, r, rs) /\ rs \in Seq(Run) /\ r \in Run
         /\ Pulled(vm, Cur.it) = [vm EXCEPT !.runs = rs]
<1>1. /\ Ready(chunk, a, vm) /\ OpVerified(chunk, a, vm.ip) /\ Cur = chunk.ops[vm.ip] /\ Cur \in Op
      /\ chunk \in Chunks /\ a \in Maps(chunk)
  BY OpHere
<1>2. Goes(chunk, a, vm.ip, vm.ip + 1, a.height[vm.ip] + 1, a.saved[vm.ip])
  BY <1>1 DEF OpVerified
<1>3. Cur.it \in Iter
  BY <1>1 DEF Op
<1>4. PullRun(chunk, a, vm, r, rs)
  BY <1>1, <1>2, <1>3, PullStarts
<1>5. Pulled(vm, Cur.it) = [vm EXCEPT !.runs = rs]
  BY <1>1 DEF Pulled, PullOf, Ready, MachineType
<1>6. QED
  BY <1>4, <1>5 DEF PullRun

\* A fresh block has its captures and one frame of its own.
FreshMachine(k) ==
  Enter([NoMachine EXCEPT !.stack = chunk.block[k].captures], chunk.block[k].entry, End(chunk), 0)

LEMMA FreshParts ==
  ASSUME NEW c \in Chunks, NEW k \in Iter, chunk = c
  PROVE  /\ FreshMachine(k) \in Parts
         /\ FreshMachine(k) = [ ip |-> c.block[k].entry, frames |-> <<NewFrame(End(c), 0)>>,
                                stack |-> c.block[k].captures, runs |-> <<>> ]
<1>e. PICK e : e = c.block[k].entry
  OBVIOUS
<1>o. PICK o : o = c.block[k].captures
  OBVIOUS
<1>f. PICK f : f = NewFrame(End(c), 0)
  OBVIOUS
<1>1. e \in Nat /\ o \in Seq(Val) /\ End(c) \in Nat /\ 0 \in Nat
  BY <1>e, <1>o, ChunkTypes
<1>m. PICK m : m = [NoMachine EXCEPT !.stack = o]
  OBVIOUS
<1>2. m = [ip |-> 0, frames |-> <<>>, stack |-> o, runs |-> <<>>]
  BY <1>m DEF NoMachine
<1>3. m \in Parts
  <2>1. <<>> \in Seq(Frame) /\ <<>> \in Seq(Run)
    BY EmptySeq
  <2>2. QED
    BY <1>1, <1>2, <2>1 DEF Parts
<1>g. PICK fs : fs = Append(m.frames, f)
  OBVIOUS
<1>4. f = NewFrame(End(c), 0) /\ fs = Append(m.frames, f)
  BY <1>f, <1>g
<1>5. /\ Enter(m, e, End(c), 0) = [ip |-> e, frames |-> fs, stack |-> m.stack, runs |-> m.runs]
      /\ Enter(m, e, End(c), 0) \in Parts
  BY <1>1, <1>3, <1>4, EnterParts
<1>6. fs = <<f>>
  BY <1>2, <1>g
<1>7. FreshMachine(k) = Enter(m, e, End(c), 0)
  BY <1>e, <1>o, <1>m DEF FreshMachine
<1>8. QED
  BY <1>2, <1>5, <1>6, <1>7, <1>e, <1>o, <1>f

LEMMA FreshOnTop ==
  ASSUME NEW a, NEW d, InOrder(a, d), ~halted, vm.ip \in DOMAIN chunk.ops, Cur.op \in Asks,
         NEW r, r = PullOf(Cur.op, Cur.it, vm), vm' = EnterBlock(vm, Cur.it)
  PROVE  OnTop(r, FreshMachine(Cur.it))
<1>k. PICK k : k = Cur.it
  OBVIOUS
<1>c. PICK c : c = chunk
  OBVIOUS
<1>1. Sane(a) /\ c \in Chunks /\ k \in Iter
  BY <1>k, <1>c, OrderHere, OpHere DEF Op
<1>rs. PICK rs : rs = Append(vm.runs, r)
  OBVIOUS
<1>2. rs \in Seq(Run) /\ Pulled(vm, k) = [vm EXCEPT !.runs = rs]
  BY <1>k, <1>rs, PulledRuns
<1>f. PICK f : f = NewFrame(End(chunk), Len(vm.stack))
  OBVIOUS
<1>fs. PICK fs : fs = Append(vm.frames, f)
  OBVIOUS
<1>o. PICK o : o = c.block[k].captures
  OBVIOUS
<1>st. PICK st : st = vm.stack \o o
  OBVIOUS
<1>e. PICK e : e = c.block[k].entry
  OBVIOUS
<1>3. CaptureParts(k, rs, f, fs, o, st)
  BY <1>2, <1>c, <1>f, <1>fs, <1>o, <1>st DEF CaptureParts
<1>4. vm' = [ip |-> e, frames |-> fs, stack |-> st, runs |-> rs]
  BY <1>1, <1>3, <1>k, <1>c, <1>e, EntersFresh
<1>b. PICK b : b = FreshMachine(k)
  OBVIOUS
<1>5. b \in Parts /\ b = [ip |-> e, frames |-> <<NewFrame(End(c), 0)>>, stack |-> o, runs |-> <<>>]
  BY <1>1, <1>b, <1>c, <1>e, <1>o, FreshParts
<1>6. /\ vm.stack \in Seq(Val) /\ vm.frames \in Seq(Frame) /\ Len(vm.stack) \in Nat /\ Len(vm.frames) \in Nat
      /\ o \in Seq(Val) /\ e \in Nat /\ End(c) \in Nat
  BY <1>1, <1>o, <1>e, SaneTypes, MachineTypes, ChunkTypes
<1>7. f \in Frame
  BY <1>6, <1>f, <1>c, NewFrameType
<1>8. /\ st \in Seq(Val) /\ Len(vm.stack) <= Len(st) /\ Truncate(st, Len(vm.stack)) = vm.stack
      /\ Drop(st, Len(vm.stack)) = o
  BY <1>6, <1>st, TruncateConcat, DropConcat
<1>9. /\ fs \in Seq(Frame) /\ Len(vm.frames) <= Len(fs) /\ Truncate(fs, Len(vm.frames)) = vm.frames
  BY <1>6, <1>7, <1>fs, TruncateAppend
<1>10. OwnFrames(fs, Len(vm.frames), Len(vm.stack)) = <<NewFrame(End(c), 0)>>
  <2>n. PICK n : n = Len(vm.frames)
    OBVIOUS
  <2>x. PICK x : x = Len(vm.stack)
    OBVIOUS
  <2>1. n \in Nat /\ x \in Int /\ n <= Len(vm.frames) /\ x \in Nat
    BY <1>6, <2>n, <2>x
  <2>2. OwnFrames(fs, n, x) = Append(OwnFrames(vm.frames, n, x), OwnFrame(f, x))
    BY <1>6, <1>7, <1>fs, <2>1, FramesAppend
  <2>3. OwnFrames(vm.frames, n, x) = <<>>
    BY <1>6, <2>n, <2>1, NoFrames
  <2>4. OwnFrame(f, x) = NewFrame(End(c), 0)
    <3>1. f = [ret |-> End(c), base |-> x, slot |-> Undef, depth |-> 0, own |-> 0]
      BY <1>f, <1>c, <2>x DEF NewFrame
    <3>2. OwnFrame(f, x) = [ret |-> f.ret, base |-> f.base - x, slot |-> f.slot, depth |-> 0, own |-> f.own]
      BY <1>7, <2>1, OwnFrameType
    <3>3. f.base - x = 0
      BY <2>1, <3>1
    <3>4. QED
      BY <3>1, <3>2, <3>3 DEF NewFrame
  <2>5. QED
    BY <2>n, <2>x, <2>2, <2>3, <2>4
<1>11. vm' \in Parts
  BY <1>2, <1>4, <1>6, <1>8, <1>9, Made
<1>12. OnTop(r, b)
  <2>1. vm'.ip = e /\ vm'.frames = fs /\ vm'.stack = st /\ vm'.runs = Append(vm.runs, r)
    BY <1>4, <1>rs
  <2>2. b.ip = e /\ b.frames = <<NewFrame(End(c), 0)>> /\ b.stack = o /\ b.runs = <<>>
    BY <1>5
  <2>3. QED
    BY <1>5, <1>8, <1>9, <1>10, <1>11, <2>1, <2>2 DEF OnTop
<1>13. QED
  BY <1>12, <1>b, <1>k

LEMMA ParkedOnTop ==
  ASSUME NEW a, NEW d, InOrder(a, d), ~halted, vm.ip \in DOMAIN chunk.ops, Cur.op \in Asks,
         NEW r, r = PullOf(Cur.op, Cur.it, vm), vm' = Restore(vm, Cur.it),
         coros[Cur.it].state = "Suspended"
  PROVE  OnTop(r, Parked(coros[Cur.it]))
<1>k. PICK k : k = Cur.it
  OBVIOUS
<1>co. PICK co : co = coros[k]
  OBVIOUS
<1>1. Sane(a) /\ k \in Iter /\ chunk \in Chunks
  BY <1>k, OrderHere, OpHere DEF Op
<1>2. co \in Coro /\ co.state = "Suspended"
  BY <1>1, <1>k, <1>co, SaneTypes
<1>3. co.ip \in Nat /\ co.frames \in Seq(Frame) /\ co.stack \in Seq(Val)
  BY <1>2 DEF Coro
<1>rs. PICK rs : rs = Append(vm.runs, r)
  OBVIOUS
<1>4. rs \in Seq(Run) /\ Pulled(vm, k) = [vm EXCEPT !.runs = rs]
  BY <1>k, <1>rs, PulledRuns
<1>gs. PICK gs : gs = Rebase(co.frames, Len(vm.stack))
  OBVIOUS
<1>fs. PICK fs : fs = vm.frames \o gs
  OBVIOUS
<1>st. PICK st : st = vm.stack \o co.stack
  OBVIOUS
<1>5. ParkedParts(k, rs, co, gs, fs, st)
  BY <1>4, <1>co, <1>gs, <1>fs, <1>st DEF ParkedParts
<1>6. vm' = [ip |-> co.ip, frames |-> fs, stack |-> st, runs |-> rs]
  BY <1>1, <1>5, <1>k, PutsBack
<1>7. /\ vm.stack \in Seq(Val) /\ vm.frames \in Seq(Frame) /\ Len(vm.stack) \in Nat /\ Len(vm.frames) \in Nat
      /\ Len(vm.stack) \in Int
  BY <1>1, SaneTypes, MachineTypes
<1>8. gs \in Seq(Frame)
  BY <1>3, <1>7, <1>gs, RebaseSeq
<1>9. /\ st \in Seq(Val) /\ Len(vm.stack) <= Len(st) /\ Truncate(st, Len(vm.stack)) = vm.stack
      /\ Drop(st, Len(vm.stack)) = co.stack
  BY <1>3, <1>7, <1>st, TruncateConcat, DropConcat
<1>10. /\ fs \in Seq(Frame) /\ Len(vm.frames) <= Len(fs) /\ Truncate(fs, Len(vm.frames)) = vm.frames
  BY <1>7, <1>8, <1>fs, TruncateConcat
<1>11. OwnFrames(fs, Len(vm.frames), Len(vm.stack)) = OwnFrames(co.frames, 0, 0)
  <2>1. OwnFrames(vm.frames \o Rebase(co.frames, Len(vm.stack)), Len(vm.frames), Len(vm.stack))
          = OwnFrames(co.frames, 0, 0)
    BY <1>3, <1>7, FramesBack
  <2>2. QED
    BY <2>1, <1>gs, <1>fs
<1>b. PICK b : b = Parked(co)
  OBVIOUS
<1>12. b = [ip |-> co.ip, frames |-> OwnFrames(co.frames, 0, 0), stack |-> co.stack, runs |-> <<>>]
  BY <1>b, <1>2 DEF Parked
<1>13. b \in Parts
  <2>1. 0 \in Nat /\ 0 \in Int /\ 0 <= Len(co.frames)
    BY <1>3, LenNat
  <2>2. OwnFrames(co.frames, 0, 0) \in Seq(Frame)
    BY <1>3, <2>1, FramesView
  <2>3. <<>> \in Seq(Run)
    BY EmptySeq
  <2>4. QED
    BY <1>3, <1>12, <2>2, <2>3, Made
<1>14. vm' \in Parts
  BY <1>3, <1>4, <1>6, <1>9, <1>10, Made
<1>15. OnTop(r, b)
  <2>1. vm'.ip = co.ip /\ vm'.frames = fs /\ vm'.stack = st /\ vm'.runs = Append(vm.runs, r)
    BY <1>6, <1>rs
  <2>2. b.ip = co.ip /\ b.frames = OwnFrames(co.frames, 0, 0) /\ b.stack = co.stack /\ b.runs = <<>>
    BY <1>12
  <2>3. QED
    BY <1>9, <1>10, <1>11, <1>13, <1>14, <2>1, <2>2 DEF OnTop
<1>16. QED
  BY <1>15, <1>b, <1>co, <1>k

\* What a pull that runs a block leaves: the pull r, the n-th in line, on top.
Asked(n, r, q, x) ==
  /\ n = Waiting + 1 /\ Waiting' = n /\ DOMAIN line' = 1..n /\ line' \in Seq([place : Nat, parked : Nat])
  /\ q = Len(vm.runs) + 1 /\ q \in Nat /\ x = Len(stash) /\ x \in Nat
  /\ r = PullOf(Cur.op, Cur.it, vm) /\ r \in Run /\ r.kind # "each" /\ r.it \in Iter
  /\ r.kind = Cur.op /\ r.it = Cur.it /\ r.ip = vm.ip + 1
  /\ r.base = Len(vm.stack) /\ r.frame = Len(vm.frames) /\ r.base \in Nat /\ r.frame \in Nat
  /\ line'[n] = [place |-> q, parked |-> x] /\ \A i \in 1..Waiting : line'[i] = line[i]
  /\ vm'.runs = Append(vm.runs, r) /\ Len(vm'.runs) = q /\ DOMAIN vm'.runs = 1..q
  /\ vm'.runs[q] = r /\ \A p \in 1..Len(vm.runs) : vm'.runs[p] = vm.runs[p]
  /\ stash' = stash /\ coros' = coros /\ chunk' = chunk /\ halted' = FALSE

LEMMA AskShape ==
  ASSUME NEW a, NEW d, InOrder(a, d), AskBlock, NEW n, n = Waiting + 1,
         NEW r, r = PullOf(Cur.op, Cur.it, vm), NEW b, OnTop(r, b),
         NEW q, q = Len(vm.runs) + 1, NEW x, x = Len(stash)
  PROVE  Asked(n, r, q, x) /\ Stay(Waiting)
<1>1. /\ ~halted /\ vm.ip \in DOMAIN chunk.ops /\ Cur.op \in Asks
      /\ line' = Append(line, [place |-> depth + 1, parked |-> Len(stash)])
      /\ chunk' = chunk /\ halted' = halted /\ coros' = coros /\ stash' = stash
  BY DEF AskBlock, At
<1>2. Sane(a) /\ Lined
  BY OrderHere
<1>3. /\ Waiting \in Nat /\ DOMAIN line = 1..Waiting /\ \A i \in 1..Waiting : Known(i)
      /\ Len(stash) \in Nat /\ Len(vm.runs) \in Nat
  BY <1>2, KnownPulls
<1>rs. PICK rs : rs = Append(vm.runs, r)
  OBVIOUS
<1>4. PullRun(chunk, a, vm, r, rs) /\ r \in Run /\ rs \in Seq(Run)
  BY <1>1, <1>rs, PulledRuns
<1>5. /\ r.kind # "each" /\ r.it \in Iter /\ r.base = Len(vm.stack) /\ r.base \in Nat /\ r.frame = Len(vm.frames)
      /\ Len(rs) = Len(vm.runs) + 1 /\ rs[Len(vm.runs) + 1] = r
      /\ \A p \in 1..Len(vm.runs) : rs[p] = vm.runs[p]
  BY <1>4 DEF PullRun
<1>6. r.kind = Cur.op /\ r.it = Cur.it /\ r.ip = vm.ip + 1
  BY DEF PullOf
<1>7. Len(vm.frames) \in Nat
  BY <1>2, SaneTypes, MachineTypes
<1>8. q \in Nat /\ x \in Nat /\ q = depth + 1
  BY <1>3 DEF depth
<1>e. PICK e : e = [place |-> q, parked |-> x]
  OBVIOUS
<1>9. e \in [place : Nat, parked : Nat] /\ line \in Seq([place : Nat, parked : Nat]) /\ line' = Append(line, e)
  BY <1>1, <1>2, <1>8, <1>e DEF Lined
<1>10. /\ line' \in Seq([place : Nat, parked : Nat]) /\ Len(line') = Len(line) + 1
       /\ line'[Len(line) + 1] = e /\ \A i \in 1..Len(line) : line'[i] = line[i]
  BY <1>9, AppendSeq
<1>11. Waiting' = n /\ line'[n] = e /\ \A i \in 1..Waiting : line'[i] = line[i]
  BY <1>10 DEF Waiting
<1>12. DOMAIN line' = 1..n
  BY <1>10, <1>11, LenNat DEF Waiting
<1>13. vm'.runs = rs
  BY <1>rs DEF OnTop
<1>14. DOMAIN rs = 1..Len(rs)
  BY <1>4, LenNat
<1>15. halted' = FALSE
  BY <1>1, <1>2, SaneTypes
<1>16. Asked(n, r, q, x)
  BY <1>1, <1>4, <1>5, <1>6, <1>7, <1>8, <1>10, <1>11, <1>12, <1>13, <1>14, <1>15, <1>e, <1>rs DEF Asked
<1>17. \A i \in 1..Waiting : \A p \in 1..line[i].place : vm'.runs[p] = vm.runs[p]
  <2>1. SUFFICES ASSUME NEW i \in 1..Waiting, NEW p \in 1..line[i].place PROVE vm'.runs[p] = vm.runs[p]
    OBVIOUS
  <2>2. line[i].place \in 1..Len(vm.runs)
    BY <1>3 DEF Known
  <2>3. p \in 1..Len(vm.runs)
    BY <1>3, <2>2
  <2>4. QED
    BY <1>5, <1>13, <2>3
<1>18. n \in Nat /\ Waiting <= n
  BY <1>3
<1>19. Stay(Waiting)
  BY <1>1, <1>3, <1>11, <1>17, <1>18 DEF Stay
<1>20. QED
  BY <1>16, <1>19

LEMMA AskLevel ==
  ASSUME NEW n, NEW r, NEW q, NEW x, Asked(n, r, q, x), Waiting \in Nat
  PROVE  /\ Pull(n)' = r /\ Context(n)' = r.it /\ n \in Nat /\ n # 0
         /\ Level(n)' = [base |-> r.base, frame |-> r.frame, place |-> q, parked |-> x]
<1>1. line'[n] = [place |-> q, parked |-> x] /\ vm'.runs[q] = r /\ n = Waiting + 1
  BY DEF Asked
<1>2. n \in Nat /\ n # 0
  BY <1>1
<1>3. Pull(n)' = r
  BY <1>1 DEF Pull
<1>4. Context(n)' = r.it
  BY <1>2, <1>3 DEF Context
<1>5. Level(n)' = [base |-> r.base, frame |-> r.frame, place |-> q, parked |-> x]
  BY <1>1, <1>2, <1>3 DEF Level
<1>6. QED
  BY <1>2, <1>3, <1>4, <1>5

LEMMA AskLined ==
  ASSUME NEW a, Sane(a), Lined, Stay(Waiting), NEW n, NEW r, NEW q, NEW x, Asked(n, r, q, x)
  PROVE  Lined'
<1>1. /\ Waiting \in Nat /\ DOMAIN line = 1..Waiting /\ \A i \in 1..Waiting : Known(i)
      /\ Len(stash) \in Nat /\ Len(vm.runs) \in Nat
  BY KnownPulls
<1>2. \A i \in 1..Waiting : Pull(i)' = Pull(i)
  BY StayPulls
<1>3. Pull(n)' = r /\ n \in Nat
  BY <1>1, AskLevel
<1>4. /\ n = Waiting + 1 /\ DOMAIN line' = 1..n /\ line' \in Seq([place : Nat, parked : Nat])
      /\ q = Len(vm.runs) + 1 /\ q \in Nat /\ x = Len(stash) /\ x \in Nat /\ r.kind # "each"
      /\ line'[n] = [place |-> q, parked |-> x] /\ \A i \in 1..Waiting : line'[i] = line[i]
      /\ DOMAIN vm'.runs = 1..q /\ vm'.runs[q] = r /\ \A p \in 1..Len(vm.runs) : vm'.runs[p] = vm.runs[p]
      /\ stash' = stash
  BY DEF Asked
<1>5. DOMAIN vm.runs = 1..Len(vm.runs)
  BY SaneTypes, MachineTypes
<1>6. \A i \in 1..n : i \in 1..Waiting \/ i = n
  BY <1>1, <1>4
<1>7. ASSUME NEW i \in 1..Waiting
      PROVE  /\ line[i].place \in 1..Len(vm.runs) /\ line[i].parked \in Nat /\ line[i].parked <= x
             /\ Pull(i).kind # "each"
  BY <1>1, <1>4 DEF Known
<1>8. ASSUME NEW i \in 1..n
      PROVE  line'[i].place \in 1..q /\ Pull(i)'.kind # "each" /\ line'[i].parked <= Len(stash')
  <2>1. CASE i = n
    BY <1>3, <1>4, <2>1
  <2>2. CASE i \in 1..Waiting
    <3>p. PICK p : p = line[i].place
      OBVIOUS
    <3>l. PICK l : l = Len(vm.runs)
      OBVIOUS
    <3>0. p \in 1..l /\ l \in Nat /\ q = l + 1
      <4>1. line[i].place \in 1..Len(vm.runs)
        BY <1>7, <2>2
      <4>2. QED
        BY <4>1, <1>1, <1>4, <3>p, <3>l
    <3>1. line[i].place \in 1..q
      <4>1. p \in 1..q
        BY <3>0
      <4>2. QED
        BY <4>1, <3>p
    <3>2. QED
      BY <1>2, <1>4, <1>7, <2>2, <3>1
  <2>3. QED
    BY <1>6, <2>1, <2>2
<1>9. ASSUME NEW i \in 1..n, NEW j \in 1..n, i < j
      PROVE  line'[i].place < line'[j].place /\ line'[i].parked <= line'[j].parked
  <2>1. i \in 1..Waiting
    BY <1>1, <1>4, <1>9
  <2>2. CASE j = n
    <3>1. line[i].place < q /\ line[i].parked <= x
      BY <1>1, <1>4, <1>7, <2>1, SMTT(30)
    <3>2. QED
      BY <1>4, <2>1, <2>2, <3>1
  <2>3. CASE j \in 1..Waiting
    <3>1. line[i].place < line[j].place /\ line[i].parked <= line[j].parked
      BY <1>1, <1>9, <2>1, <2>3 DEF Lined
    <3>2. QED
      BY <1>4, <2>1, <2>3, <3>1
  <2>4. QED
    BY <1>6, <2>2, <2>3
<1>10. ASSUME NEW p \in 1..q, vm'.runs[p].kind # "each"
       PROVE  \E i \in 1..n : line'[i].place = p
  <2>1. CASE p = q
    <3>1. n \in 1..n
      BY <1>1, <1>4
    <3>2. QED
      BY <1>4, <2>1, <3>1
  <2>2. CASE p # q
    <3>1. p \in 1..Len(vm.runs)
      BY <1>1, <1>4, <2>2
    <3>2. vm.runs[p].kind # "each"
      BY <1>4, <1>10, <3>1
    <3>3. PICK i \in 1..Waiting : line[i].place = p
      BY <1>1, <1>5, <3>1, <3>2 DEF Lined
    <3>4. i \in 1..n
      BY <1>1, <1>4, <3>3
    <3>5. QED
      BY <1>4, <3>3, <3>4
  <2>3. QED
    BY <2>1, <2>2
<1>11. QED
  BY <1>4, <1>8, <1>9, <1>10 DEF Lined

\* The consumer waits where its answer will go, and the block runs on its part.
LEMMA AskParts ==
  ASSUME NEW a, Sane(a), Lined, ~halted, NEW b, NEW n, NEW r, NEW q, NEW x, Asked(n, r, q, x), OnTop(r, b),
         Stay(Waiting), NEW w, w = Waiting
  PROVE  /\ Mine(w)' = Advance(Mine(w)) /\ Mine(n)' = b
         /\ Open(w)' = Open(w) /\ Finals(w)' = Finals(w)
         /\ Open(n)' = 0 /\ Finals(n)' = <<>>
<1>1. /\ Waiting \in Nat /\ w \in 0..Waiting /\ Len(stash) \in Nat /\ Len(vm.runs) \in Nat
  BY KnownPulls
<1>2. /\ n = w + 1 /\ Waiting' = n /\ q = Len(vm.runs) + 1 /\ x = Len(stash) /\ x \in Nat /\ r \in Run
      /\ r.ip = vm.ip + 1 /\ r.base = Len(vm.stack) /\ r.frame = Len(vm.frames) /\ r.base \in Nat /\ r.frame \in Nat
      /\ line'[n] = [place |-> q, parked |-> x] /\ vm'.runs = Append(vm.runs, r) /\ Len(vm'.runs) = q
      /\ stash' = stash /\ halted' = FALSE
  BY DEF Asked
<1>3. w < n /\ ~(w < Waiting) /\ ~(n < n) /\ n \in Nat /\ q - 1 = Len(vm.runs)
  BY <1>1, <1>2
<1>4. Pull(n)' = r /\ Level(n)' = [base |-> r.base, frame |-> r.frame, place |-> q, parked |-> x]
  BY <1>1, AskLevel
<1>5. Level(w)' = Level(w)
  BY <1>1, StayPulls
<1>6. /\ vm \in Parts /\ vm.runs \in Seq(Run) /\ vm.ip \in Nat
  BY SaneTypes, MachineIsParts, MachineTypes
<1>7. Paused(n)' = Advance(vm)
  <2>1. Truncate(vm'.runs, Len(vm.runs)) = vm.runs
    BY <1>2, <1>6, TruncateAppend
  <2>2. Paused(n)' = [ ip |-> r.ip, frames |-> Truncate(vm'.frames, r.frame),
                       stack |-> Truncate(vm'.stack, r.base), runs |-> Truncate(vm'.runs, q - 1) ]
    BY <1>2, <1>4 DEF Paused
  <2>3. Paused(n)' = [ip |-> vm.ip + 1, frames |-> vm.frames, stack |-> vm.stack, runs |-> vm.runs]
    BY <1>2, <1>3, <2>1, <2>2 DEF OnTop
  <2>4. QED
    BY <1>6, <2>3 DEF Advance, Parts
<1>8. Whole(w)' = Advance(vm)
  BY <1>2, <1>3, <1>7 DEF Whole
<1>9. Twin(Advance(vm), Advance(Mine(w)), Level(w))
  BY Running, TwinAdvance
<1>10. Mine(w)' = Advance(Mine(w))
  <2>1. Mine(w)' = Own(Advance(vm), Level(w))
    BY <1>5, <1>8 DEF Mine
  <2>2. QED
    BY <1>9, <2>1 DEF Twin
<1>11. Whole(n)' = vm'
  BY <1>2, <1>3 DEF Whole
<1>low. PICK low : low = [base |-> r.base, frame |-> r.frame, place |-> q, parked |-> x]
  OBVIOUS
<1>12. low \in Lows /\ low.place = q /\ low.base = r.base /\ low.frame = r.frame
  BY <1>low, <1>1, <1>2 DEF Lows
<1>13. OwnRuns(vm'.runs, low) = <<>>
  <2>1. vm'.runs \in Seq(Run)
    BY PartTypes DEF OnTop
  <2>2. QED
    BY <1>2, <1>12, <2>1, NoRuns
<1>14. Mine(n)' = b
  <2>1. Mine(n)' = Own(vm', low)
    BY <1>4, <1>11, <1>low DEF Mine
  <2>2. Own(vm', low) = [ ip |-> b.ip, frames |-> b.frames, stack |-> b.stack, runs |-> b.runs ]
    BY <1>2, <1>12, <1>13 DEF Own, OnTop
  <2>3. QED
    BY <2>1, <2>2 DEF OnTop, Parts
<1>15. Open(w)' = Open(w)
  BY <1>2, <1>3, <1>5 DEF Open
<1>16. Open(n)' = 0
  BY <1>2, <1>3, <1>4 DEF Open
<1>17. Finals(w)' = Finals(w)
  <2>l. PICK l : l = Level(w).parked + 1
    OBVIOUS
  <2>1. Finals(w) = SubSeq(stash, l, x)
    BY <1>2, <1>3, <2>l DEF Finals
  <2>2. line'[w + 1].parked = x /\ w < Waiting'
    BY <1>2, <1>3
  <2>3. Finals(w)' = SubSeq(stash', Level(w)'.parked + 1, line'[w + 1].parked)
    BY <2>2 DEF Finals
  <2>4. QED
    BY <1>2, <1>5, <2>l, <2>1, <2>2, <2>3
<1>18. Finals(n)' = <<>>
  <2>1. StashType(stash)
    BY SaneTypes
  <2>2. Finals(n)' = Drop(stash, x)
    BY <1>2, <1>3, <1>4 DEF Finals, Drop
  <2>3. QED
    BY <1>2, <2>1, <2>2, DropAll DEF StashType
<1>19. QED
  BY <1>10, <1>14, <1>15, <1>16, <1>17, <1>18

(* ---- the chain of contexts -------------------------------------------------------------- *)

\* The chain of the promise, link by link.
Links == [ctx : Contexts, kind : Asks \cup {"next"}]
Link(i) == [ctx |-> Context(i), kind |-> IF i = 0 THEN "next" ELSE Pull(i).kind]
Linked == chain \in Seq(Links) /\ Len(chain) = Waiting + 1 /\ \A i \in 0..Waiting : chain[i + 1] = Link(i)

LEMMA LinkedHere == JInv => Linked
<1>1. SUFFICES ASSUME JInv PROVE Linked
  OBVIOUS
<1>2. PICK a, d : InOrder(a, d)
  BY <1>1 DEF JInv
<1>3. Sane(a) /\ Lined /\ Orderly(a, d) /\ d \in Accounts(chunk)
  BY <1>2 DEF InOrder
<1>4. Waiting \in Nat /\ \A i \in 1..Waiting : Known(i)
  BY <1>3, KnownPulls
<1>n. PICK n : n = Waiting + 1
  OBVIOUS
<1>5. n \in Nat
  BY <1>n, <1>4
<1>6. ASSUME NEW i \in 0..Waiting PROVE Link(i) \in Links
  <2>1. Context(i) \in Contexts
    BY <1>3, Seated DEF Seat
  <2>2. CASE i = 0
    BY <2>1, <2>2 DEF Link, Links
  <2>3. CASE i # 0
    <3>1. i \in 1..Waiting
      BY <1>4, <2>3
    <3>2. Pull(i).kind \in Asks
      BY <1>4, <3>1 DEF Known
    <3>3. QED
      BY <2>1, <2>3, <3>2 DEF Link, Links
  <2>4. QED
    BY <2>2, <2>3
<1>7. \A i \in 1..n : i - 1 \in 0..Waiting /\ (i = 1 <=> i - 1 = 0)
  BY <1>n, <1>4
<1>8. chain = [i \in 1..n |-> [ctx |-> Context(i - 1), kind |-> IF i = 1 THEN "next" ELSE Pull(i - 1).kind]]
  BY <1>n DEF chain
<1>9. \A i \in 1..n : chain[i] = Link(i - 1)
  BY <1>7, <1>8 DEF Link
<1>10. chain \in [1..n -> Links]
  BY <1>6, <1>7, <1>8, <1>9
<1>11. chain \in Seq(Links) /\ Len(chain) = n
  BY <1>5, <1>10, ViewSeq
<1>12. ASSUME NEW i \in 0..Waiting PROVE chain[i + 1] = Link(i)
  <2>1. i + 1 \in 1..n /\ (i + 1) - 1 = i
    BY <1>n, <1>4
  <2>2. QED
    BY <1>9, <2>1
<1>13. QED
  BY <1>n, <1>11, <1>12 DEF Linked

LEMMA LinkedAfter == JInv' => Linked'
  BY LinkedHere, PTL

(* ---- asking a block --------------------------------------------------------------------- *)

\* The machine a block that is asked goes on with.
Asking(w) == IF coros[w].state = "Fresh" THEN FreshMachine(w) ELSE Parked(coros[w])

LEMMA AskedOnTop ==
  ASSUME NEW a, NEW d, InOrder(a, d), AskBlock, NEW r, r = PullOf(Cur.op, Cur.it, vm)
  PROVE  OnTop(r, Asking(Cur.it))
<1>1. /\ ~halted /\ vm.ip \in DOMAIN chunk.ops /\ Cur.op \in Asks /\ coros[Cur.it].state # "Done"
      /\ vm' = IF coros[Cur.it].state = "Fresh" THEN EnterBlock(vm, Cur.it) ELSE Restore(vm, Cur.it)
  BY DEF AskBlock, At
<1>2. coros[Cur.it] \in Coro
  BY <1>1, OrderHere, OpHere, SaneTypes DEF Op
<1>3. CASE coros[Cur.it].state = "Fresh"
  BY <1>1, <1>3, FreshOnTop DEF Asking
<1>4. CASE coros[Cur.it].state # "Fresh"
  <2>1. coros[Cur.it].state = "Suspended"
    BY <1>1, <1>2, <1>4 DEF Coro
  <2>2. QED
    BY <1>1, <1>4, <2>1, ParkedOnTop DEF Asking
<1>5. QED
  BY <1>3, <1>4

LEMMA AskedTidy ==
  ASSUME NEW a, NEW d, InOrder(a, d), NEW w \in Iter, coros[w].state # "Done"
  PROVE  Tidy(chunk, a, d, Asking(w), 0, BlockRank(d, w))
<1>1. Sane(a) /\ Lined /\ Orderly(a, d) /\ Apart(chunk, a, d) /\ d \in Accounts(chunk)
  BY OrderHere
<1>c. PICK c : c = chunk
  OBVIOUS
<1>2. c \in Chunks /\ coros[w] \in Coro
  BY <1>1, <1>c, SaneTypes
<1>3. CASE coros[w].state = "Fresh"
  <2>b. PICK b : b = FreshMachine(w)
    OBVIOUS
  <2>1. /\ b \in Parts
        /\ b = [ip |-> c.block[w].entry, frames |-> <<NewFrame(End(c), 0)>>, stack |-> c.block[w].captures, runs |-> <<>>]
    BY <1>2, <1>c, <2>b, FreshParts
  <2>2. b.ip = c.block[w].entry /\ b.frames = <<NewFrame(End(c), 0)>> /\ b.runs = <<>>
    BY <2>1
  <2>3. Len(b.frames) = 1 /\ b.frames[1].ret = End(c)
    BY <2>2 DEF NewFrame
  <2>4. b.ip \in Positions(c) /\ BlockRank(d, w) \in Nat /\ d.rank[b.ip] = BlockRank(d, w)
    BY <1>1, <1>c, <2>2, RankTypes DEF BlockRank
  <2>5. d.parks[b.ip] = 0
    BY <1>1, <1>c, <2>2 DEF Apart
  <2>6. d.rank[b.ip] <= BlockRank(d, w)
    BY <2>4
  <2>7. Tidy(c, a, d, b, 0, BlockRank(d, w))
    BY <1>1, <1>2, <1>c, <2>1, <2>2, <2>3, <2>4, <2>5, <2>6, TidyFresh
  <2>8. QED
    BY <1>3, <1>c, <2>b, <2>7 DEF Asking
<1>4. CASE coros[w].state # "Fresh"
  <2>1. coros[w].state = "Suspended"
    BY <1>2, <1>4 DEF Coro
  <2>2. QED
    BY <1>1, <1>4, <2>1 DEF Asking, Orderly
<1>5. QED
  BY <1>3, <1>4

LEMMA AskOrdered ==
  ASSUME NEW a, NEW d, InOrder(a, d), AskBlock
  PROVE  InOrder(a, d)'
<1>r. PICK r : r = PullOf(Cur.op, Cur.it, vm)
  OBVIOUS
<1>w. PICK w : w = Waiting
  OBVIOUS
<1>n. PICK n : n = w + 1
  OBVIOUS
<1>k. PICK k : k = Cur.it
  OBVIOUS
<1>b. PICK b : b = Asking(k)
  OBVIOUS
<1>q. PICK q : q = Len(vm.runs) + 1
  OBVIOUS
<1>x. PICK x : x = Len(stash)
  OBVIOUS
<1>1. /\ ~halted /\ vm.ip \in DOMAIN chunk.ops /\ Cur.op \in Asks /\ coros[k].state # "Done"
      /\ pending' = pending /\ coros' = coros /\ chunk' = chunk
  BY <1>k DEF AskBlock, At
<1>2. /\ Sane(a) /\ Lined /\ Orderly(a, d) /\ Apart(chunk, a, d) /\ d \in Accounts(chunk) /\ chunk \in Chunks
      /\ w \in Nat /\ w \in 0..w /\ Rank(d, w) \in Nat /\ Open(w) \in Nat /\ Safe(a)
      /\ Tidy(chunk, a, d, Mine(w), Open(w), Rank(d, w))
  BY <1>w, OrderHere, SaneTypes, AskBlockSafe
<1>3. OnTop(r, b)
  BY <1>r, <1>b, <1>k, AskedOnTop
<1>4. Asked(n, r, q, x) /\ Stay(w)
  BY <1>3, <1>r, <1>w, <1>n, <1>q, <1>x, AskShape
<1>5. Lined'
  BY <1>2, <1>4, <1>w, AskLined
<1>6. Sane(a)' /\ Apart(chunk, a, d)' /\ (d \in Accounts(chunk))'
  BY <1>1, <1>2, SaneNext
<1>7. /\ Mine(w)' = Advance(Mine(w)) /\ Mine(n)' = b
      /\ Open(w)' = Open(w) /\ Open(n)' = 0
  BY <1>1, <1>2, <1>3, <1>4, <1>w, AskParts
<1>i. PICK i : i = vm.ip
  OBVIOUS
<1>8. AsksDown(a, d, i)
  BY <1>1, <1>i, AsksOutOfLine
<1>9. Pull(n)' = r /\ n # 0 /\ n \in Nat /\ r.it = k /\ r.ip = i + 1 /\ halted' = FALSE /\ Waiting' = n
  <2>1. r.it = k /\ r.ip = i + 1 /\ halted' = FALSE /\ Waiting' = n
    BY <1>4, <1>k, <1>i DEF Asked
  <2>2. Pull(n)' = r /\ n # 0 /\ n \in Nat
    BY <1>2, <1>4, <1>w, AskLevel
  <2>3. QED
    BY <2>1, <2>2
<1>10. /\ \A j \in 0..w : Rank(d, j)' = Rank(d, j)
       /\ \A l \in Iter : BlockRank(d, l)' = BlockRank(d, l)
  BY <1>1, <1>2, <1>4, StayRank
<1>11. Rank(d, n)' = BlockRank(d, k) /\ BlockRank(d, k) \in Nat /\ BlockRank(d, k) < Rank(d, w) /\ k \in Iter
  <2>1. BlockRank(d, k) \in Nat /\ BlockRank(d, k) < Rank(d, w) /\ k \in Iter
    BY <1>8, <1>k, <1>w DEF AsksDown
  <2>2. Rank(d, n)' = BlockRank(d, k)'
    BY <1>9 DEF Rank, BlockRank
  <2>3. QED
    BY <1>10, <2>1, <2>2
<1>12. \A j \in 0..n : j \in 0..w \/ j = n
  BY <1>2, <1>n
<1>13. ASSUME NEW j \in 0..n, NEW l \in 0..n, j < l PROVE Rank(d, l)' < Rank(d, j)'
  <2>1. j \in 0..w
    BY <1>2, <1>n, <1>13
  <2>2. CASE l \in 0..w
    BY <1>2, <1>10, <1>13, <1>w, <2>1, <2>2 DEF Orderly
  <2>3. CASE l = n
    <3>1. j = w \/ j < w
      BY <1>2, <2>1
    <3>2. Rank(d, j) \in Nat /\ (j < w => Rank(d, w) < Rank(d, j))
      BY <1>2, <1>w, <2>1, RankTypes DEF Orderly
    <3>3. BlockRank(d, k) < Rank(d, j)
      BY <1>2, <1>11, <3>1, <3>2
    <3>4. QED
      BY <1>10, <1>11, <2>1, <2>3, <3>3
  <2>4. QED
    BY <1>12, <2>2, <2>3
<1>14. Tidy(chunk, a, d, Advance(Mine(w)), Open(w), Rank(d, w))
  <2>m. PICK m : m = Mine(w)
    OBVIOUS
  <2>1. m \in Parts /\ m.ip = i /\ i \in Positions(chunk) /\ i \in Nat
    BY <1>1, <1>w, <1>i, <2>m, OpHere DEF Parts
  <2>s. PICK s : s = Advance(m)
    OBVIOUS
  <2>2. m = [ip |-> m.ip, frames |-> m.frames, stack |-> m.stack, runs |-> m.runs]
    BY <2>1 DEF Parts
  <2>3. s = [ip |-> i + 1, frames |-> m.frames, stack |-> m.stack, runs |-> m.runs]
    BY <2>1, <2>2, <2>s DEF Advance
  <2>4. s \in Parts
    BY <2>1, <2>3 DEF Parts
  <2>5. s.frames = m.frames /\ s.runs = m.runs /\ s.ip = m.ip + 1
    BY <2>1, <2>3
  <2>6. /\ Goes(chunk, a, m.ip, s.ip, a.height[i] + 1, a.saved[i])
        /\ Follows(d, m.ip, s.ip, d.parks[m.ip])
    BY <1>8, <2>1, <2>5 DEF AsksDown
  <2>7. Skeleton(m, s)
    BY <2>5, SkeletonSame
  <2>8. Tidy(chunk, a, d, s, Open(w), Rank(d, w))
    BY <1>2, <2>m, <2>1, <2>4, <2>6, <2>7, TidyOn
  <2>9. QED
    BY <2>8, <2>m, <2>s
<1>15. Tidy(chunk, a, d, b, 0, BlockRank(d, k))
  BY <1>1, <1>11, <1>b, AskedTidy
<1>16. ASSUME NEW j \in 0..n PROVE Tidy(chunk, a, d, Mine(j)', Open(j)', Rank(d, j)')
  <2>1. CASE j = n
    BY <1>7, <1>11, <1>15, <2>1
  <2>2. CASE j = w
    BY <1>2, <1>7, <1>10, <1>14, <2>2
  <2>3. CASE j \in 0..w /\ j < w
    <3>1. Mine(j)' = Mine(j) /\ Open(j)' = Open(j)
      BY <1>2, <1>4, <1>5, <2>3, StayMine
    <3>2. Tidy(chunk, a, d, Mine(j), Open(j), Rank(d, j))
      BY <1>2, <1>w, <2>3 DEF Orderly
    <3>3. QED
      BY <1>10, <2>3, <3>1, <3>2
  <2>4. j = n \/ j = w \/ (j \in 0..w /\ j < w)
    BY <1>2, <1>12
  <2>5. QED
    BY <2>1, <2>2, <2>3, <2>4
<1>17. ASSUME NEW j \in 1..n PROVE Pull(j)'.ip \notin d.calm
  <2>1. CASE j = n
    BY <1>8, <1>9, <2>1 DEF AsksDown
  <2>2. CASE j # n
    <3>1. j \in 1..w
      BY <1>2, <1>n, <2>2
    <3>2. Pull(j)' = Pull(j)
      BY <1>2, <1>4, <3>1, StayPulls
    <3>3. j \in DOMAIN line
      BY <1>2, <1>w, <3>1, KnownPulls
    <3>4. QED
      BY <1>2, <3>2, <3>3 DEF Orderly
  <2>3. QED
    BY <2>1, <2>2
<1>18. DOMAIN line' = 1..n
  BY <1>4 DEF Asked
<1>19. \A l \in Iter : coros'[l].state = "Suspended" =>
         Tidy(chunk', a, d, Parked(coros'[l]), 0, BlockRank(d, l)')
  BY <1>1, <1>2, <1>10 DEF Orderly
<1>20. pending' = None
  BY <1>1, <1>8 DEF AsksDown
<1>21. Orderly(a, d)'
  <2>1. \A j, l \in 0..Waiting' : j < l => Rank(d, l)' < Rank(d, j)'
    BY <1>9, <1>13
  <2>2. \A j \in 0..Waiting' : Tidy(chunk', a, d, Mine(j)', Open(j)', Rank(d, j)')
    BY <1>1, <1>9, <1>16
  <2>3. \A j \in DOMAIN line' : Pull(j)'.ip \notin d.calm
    BY <1>17, <1>18
  <2>4. ~halted'
    BY <1>9
  <2>5. QED
    BY <1>19, <1>20, <2>1, <2>2, <2>3, <2>4 DEF Orderly
<1>22. QED
  BY <1>5, <1>6, <1>21 DEF InOrder

\* Who is in line once a block was asked: it too.
LEMMA AskedLine ==
  ASSUME NEW a, NEW d, InOrder(a, d), AskBlock, NEW w, w = Waiting, NEW n, n = w + 1, NEW k, k = Cur.it
  PROVE  /\ Waiting' = n /\ w \in Nat /\ n \in Nat
         /\ \A i \in 0..w : Context(i)' = Context(i) /\ Link(i)' = Link(i)
         /\ Context(n)' = k /\ Link(n)' = [ctx |-> k, kind |-> Cur.op]
         /\ InLine' = InLine \cup {k}
<1>r. PICK r : r = PullOf(Cur.op, Cur.it, vm)
  OBVIOUS
<1>q. PICK q : q = Len(vm.runs) + 1
  OBVIOUS
<1>x. PICK x : x = Len(stash)
  OBVIOUS
<1>1. Sane(a) /\ Lined /\ w \in Nat
  BY OrderHere
<1>2. Asked(n, r, q, x) /\ Stay(w)
  <2>1. OnTop(r, Asking(Cur.it))
    BY <1>r, AskedOnTop
  <2>2. QED
    BY <2>1, <1>r, <1>q, <1>x, AskShape
<1>3. Pull(n)' = r /\ Context(n)' = r.it /\ n \in Nat /\ n # 0
  BY <1>1, <1>2, AskLevel
<1>4. Waiting' = n /\ r.it = k /\ r.kind = Cur.op
  BY <1>2 DEF Asked
<1>5. /\ \A i \in 1..w : Pull(i)' = Pull(i)
      /\ \A i \in 0..w : Context(i)' = Context(i)
  BY <1>1, <1>2, StayPulls
<1>6. ASSUME NEW i \in 0..w PROVE Link(i)' = Link(i)
  <2>1. CASE i = 0
    BY <1>5, <2>1 DEF Link
  <2>2. CASE i # 0
    <3>1. i \in 1..w
      BY <1>1, <2>2
    <3>2. QED
      BY <1>5, <2>2, <3>1 DEF Link
  <2>3. QED
    BY <2>1, <2>2
<1>7. Context(n)' = k /\ Link(n)' = [ctx |-> k, kind |-> Cur.op]
  <2>1. Context(n)' = k
    BY <1>3, <1>4
  <2>2. QED
    BY <1>3, <1>4, <2>1 DEF Link
<1>8. InLine' = InLine \cup {k}
  <2>1. InLine' = {Context(i)' : i \in 0..n}
    BY <1>4 DEF InLine
  <2>2. \A i \in 0..n : i \in 0..w \/ i = n
    BY <1>1
  <2>3. n \in 0..n /\ \A i \in 0..w : i \in 0..n
    BY <1>1
  <2>4. QED
    BY <1>5, <1>7, <2>1, <2>2, <2>3 DEF InLine
<1>9. QED
  BY <1>1, <1>3, <1>4, <1>5, <1>6, <1>7, <1>8

LEMMA AskedSeats ==
  ASSUME NEW a, NEW d, InOrder(a, d), AskBlock, NEW w, w = Waiting, NEW n, n = w + 1, NEW k, k = Cur.it,
         NEW c \in Contexts
  PROVE  /\ machine'[c] = IF c = k THEN Asking(k) ELSE IF c = Context(w) THEN Advance(machine[c]) ELSE machine[c]
         /\ finals'[c] = finals[c]
<1>r. PICK r : r = PullOf(Cur.op, Cur.it, vm)
  OBVIOUS
<1>q. PICK q : q = Len(vm.runs) + 1
  OBVIOUS
<1>x. PICK x : x = Len(stash)
  OBVIOUS
<1>b. PICK b : b = Asking(k)
  OBVIOUS
<1>i. PICK i : i = vm.ip
  OBVIOUS
<1>1. ~halted /\ vm.ip \in DOMAIN chunk.ops /\ Cur.op \in Asks /\ coros' = coros
  BY DEF AskBlock, At
<1>2. /\ Sane(a) /\ Lined /\ Orderly(a, d) /\ d \in Accounts(chunk) /\ w \in Nat /\ Safe(a)
  BY OrderHere, AskBlockSafe
<1>3. OnTop(r, b)
  BY <1>r, <1>b, AskedOnTop
<1>4. Asked(n, r, q, x) /\ Stay(w)
  BY <1>3, <1>r, <1>q, <1>x, AskShape
<1>5. InOrder(a, d)'
  BY AskOrdered
<1>6. /\ Mine(w)' = Advance(Mine(w)) /\ Mine(n)' = b /\ Finals(w)' = Finals(w) /\ Finals(n)' = <<>>
  BY <1>1, <1>2, <1>3, <1>4, AskParts
<1>7. /\ Waiting' = n /\ Context(n)' = k /\ InLine' = InLine \cup {k}
      /\ \A j \in 0..w : Context(j)' = Context(j)
  BY AskedLine
<1>8. k \notin InLine /\ k \in Contexts
  BY <1>1, <1>i, AsksOutOfLine DEF AsksDown
<1>9. \A j \in 0..n : Seat(j)'
  BY <1>5, <1>7, SeatedNext
<1>10. CASE c = k
  <2>1. n \in 0..n
    BY <1>2
  <2>2. machine'[k] = b /\ finals'[k] = <<>>
    BY <1>6, <1>7, <1>9, <2>1 DEF Seat
  <2>3. finals[k] = <<>>
    BY <1>8, Unseated
  <2>4. QED
    BY <1>b, <1>10, <2>2, <2>3
<1>11. CASE c \in InLine
  <2>1. PICK j \in 0..w : c = Context(j)
    BY <1>11 DEF InLine
  <2>2. Seat(j)
    BY <1>2, Seated
  <2>3. machine[c] = Mine(j) /\ finals[c] = Finals(j)
    BY <2>1, <2>2 DEF Seat
  <2>4. j \in 0..n
    BY <1>2, <2>1
  <2>5. machine'[c] = Mine(j)' /\ finals'[c] = Finals(j)'
    BY <1>7, <1>9, <2>1, <2>4 DEF Seat
  <2>6. c # k
    BY <1>8, <1>11
  <2>7. CASE j = w
    BY <1>6, <2>1, <2>3, <2>5, <2>6, <2>7
  <2>8. CASE j # w
    <3>1. j < w /\ w \in 0..w
      BY <1>2, <2>8
    <3>2. Mine(j)' = Mine(j) /\ Finals(j)' = Finals(j)
      BY <1>2, <1>4, <1>5, <3>1, StayMine DEF InOrder
    <3>3. c # Context(w)
      BY <1>2, <2>1, <2>8, <3>1, OneEach
    <3>4. QED
      BY <2>3, <2>5, <2>6, <3>2, <3>3
  <2>9. QED
    BY <2>7, <2>8
<1>12. CASE c # k /\ c \notin InLine
  <2>1. c # Context(w)
    <3>1. Context(w) \in InLine
      BY <1>2 DEF InLine
    <3>2. QED
      BY <1>12, <3>1
  <2>2. machine'[c] = Parked(coros'[c]) /\ finals'[c] = <<>>
    BY <1>7, <1>12, UnseatedNext
  <2>3. machine[c] = Parked(coros[c]) /\ finals[c] = <<>>
    BY <1>12, Unseated
  <2>4. QED
    BY <1>1, <1>12, <2>1, <2>2, <2>3
<1>13. QED
  BY <1>10, <1>11, <1>12

LEMMA AskBlockKeeps ==
  ASSUME NEW a, NEW d, InOrder(a, d), AskBlock
  PROVE  InOrder(a, d)' /\ Promise!AskBlock
<1>w. PICK w : w = Waiting
  OBVIOUS
<1>n. PICK n : n = w + 1
  OBVIOUS
<1>k. PICK k : k = Cur.it
  OBVIOUS
<1>i. PICK i : i = vm.ip
  OBVIOUS
<1>1. /\ At(Asks) /\ ~halted /\ vm.ip \in DOMAIN chunk.ops /\ Cur.op \in Asks
      /\ ahead[k] = None /\ coros[k].state # "Done" /\ ~Full /\ yielded' = None
      /\ UNCHANGED <<chunk, halted, coros, ahead, pending, stash, out>>
  BY <1>k DEF AskBlock, At
<1>2. InOrder(a, d)' /\ Sane(a) /\ Lined /\ w \in Nat
  BY <1>w, AskOrdered, OrderHere
<1>3. AsksDown(a, d, i)
  BY <1>1, <1>i, AsksOutOfLine
<1>4. k \in Iter /\ k \in Contexts /\ k \notin InLine /\ ~unwinding /\ coros[k] \in Coro
  BY <1>2, <1>3, <1>k, SaneTypes DEF AsksDown
<1>me. PICK me : me = Context(w)
  OBVIOUS
<1>5. /\ me \in Contexts /\ me \in InLine /\ me # k
      /\ Promise!me = me /\ Promise!OpAt(chunk, Promise!my) = Cur /\ ~Promise!quiet
  <2>1. Seat(w)
    BY <1>w, OrderHere
  <2>2. QED
    BY <1>1, <1>4, <1>w, <1>me, <2>1, PromiseHere DEF Seat
<1>6. \A c \in Contexts :
        /\ machine'[c] = IF c = k THEN Asking(k) ELSE IF c = me THEN Advance(machine[c]) ELSE machine[c]
        /\ finals'[c] = finals[c]
  BY <1>w, <1>n, <1>k, <1>me, AskedSeats
<1>7. (life[k] = "fresh") <=> (coros[k].state = "Fresh")
  BY <1>4, LifeOut
<1>8. life[k] \in {"fresh", "parked"}
  <2>1. coros[k].state \in {"Fresh", "Suspended"}
    BY <1>1, <1>4 DEF Coro
  <2>2. QED
    BY <1>4, <2>1, LifeOut
<1>9. machine[k] = Parked(coros[k])
  BY <1>4, Unseated
<1>10. machine' = [machine EXCEPT ![me] = Promise!Advance(@),
                                  ![k] = IF life[k] = "fresh" THEN FreshMachine(k) ELSE @]
  <2>f. PICK f : f = Promise!Advance(machine[me])
    OBVIOUS
  <2>g. PICK g : g = IF life[k] = "fresh" THEN FreshMachine(k) ELSE machine[k]
    OBVIOUS
  <2>1. g = Asking(k)
    BY <1>7, <1>9, <2>g DEF Asking
  <2>2. f = Advance(machine[me])
    BY <2>f, SameOperations
  <2>3. \A c \in Contexts : machine'[c] = IF c = k THEN g ELSE IF c = me THEN f ELSE machine[c]
    BY <1>6, <2>1, <2>2
  <2>4. machine \in [Contexts -> {machine[c] : c \in Contexts}] /\ DOMAIN machine = Contexts
        /\ machine' = [c \in Contexts |-> machine'[c]]
    BY DEF machine
  <2>5. machine' = [[machine EXCEPT ![me] = f] EXCEPT ![k] = g]
    BY <1>4, <1>5, <2>3, <2>4
  <2>6. QED
    BY <1>5, <2>5, <2>f, <2>g
<1>11. finals' = finals
  <2>1. \A c \in Contexts : finals'[c] = finals[c]
    BY <1>6
  <2>2. QED
    BY <2>1 DEF finals
<1>12. life' = [life EXCEPT ![k] = "running"]
  <2>1. InLine' = InLine \cup {k} /\ coros' = coros
    BY <1>1, <1>w, <1>n, <1>k, AskedLine
  <2>2. ASSUME NEW j \in Iter PROVE Life(j)' = IF j = k THEN "running" ELSE Life(j)
    <3>1. CASE j = k
      <4>1. j \in InLine'
        BY <2>1, <3>1
      <4>2. QED
        BY <3>1, <4>1 DEF Life
    <3>2. CASE j # k
      <4>1. (j \in InLine') <=> (j \in InLine)
        BY <2>1, <3>2
      <4>2. CASE j \in InLine
        <5>1. Life(j) = "running" /\ Life(j)' = "running"
          BY <4>1, <4>2 DEF Life
        <5>2. QED
          BY <3>2, <5>1
      <4>3. CASE j \notin InLine
        <5>1. Life(j) = CASE coros[j].state = "Fresh" -> "fresh"
                          [] coros[j].state = "Suspended" -> "parked" [] coros[j].state = "Done" -> "done"
          BY <4>3 DEF Life
        <5>2. Life(j)' = CASE coros'[j].state = "Fresh" -> "fresh"
                           [] coros'[j].state = "Suspended" -> "parked" [] coros'[j].state = "Done" -> "done"
          BY <4>1, <4>3 DEF Life
        <5>3. QED
          BY <2>1, <3>2, <5>1, <5>2
      <4>4. QED
        BY <4>2, <4>3
    <3>3. QED
      BY <3>1, <3>2
  <2>3. QED
    BY <1>4, <2>2 DEF life
<1>13. chain' = Append(chain, [ctx |-> k, kind |-> Cur.op])
  <2>e. PICK e : e = [ctx |-> k, kind |-> Cur.op]
    OBVIOUS
  <2>1. /\ chain \in Seq(Links) /\ Len(chain) = n /\ \A j \in 0..w : chain[j + 1] = Link(j)
    BY <1>w, <1>n, LinkedHere DEF JInv, Linked
  <2>2. /\ Waiting' = n /\ n \in Nat /\ \A j \in 0..w : Link(j)' = Link(j)
        /\ Link(n)' = e
    BY <1>w, <1>n, <1>k, <2>e, AskedLine
  <2>3. /\ chain' \in Seq(Links) /\ Len(chain') = n + 1 /\ \A j \in 0..n : chain'[j + 1] = Link(j)'
    <3>1. Linked'
      BY <1>2, LinkedAfter DEF JInv
    <3>2. Links' = Links
      BY DEF Links, Contexts, Asks
    <3>3. QED
      BY <2>2, <3>1, <3>2 DEF Linked
  <2>4. e \in Links
    BY <1>1, <1>4, <2>e DEF Links
  <2>u. PICK u : u = Append(chain, e)
    OBVIOUS
  <2>5. u \in Seq(Links) /\ Len(u) = n + 1 /\ u[n + 1] = e /\ \A j \in 1..n : u[j] = chain[j]
    <3>1. /\ Append(chain, e) \in Seq(Links) /\ Len(Append(chain, e)) = Len(chain) + 1
          /\ Append(chain, e)[Len(chain) + 1] = e /\ \A j \in 1..Len(chain) : Append(chain, e)[j] = chain[j]
      BY <2>1, <2>4, AppendSeq
    <3>2. QED
      BY <2>1, <2>u, <3>1
  <2>6. ASSUME NEW j \in 1..n + 1 PROVE chain'[j] = u[j]
    <3>1. CASE j = n + 1
      <4>1. n \in 0..n
        BY <2>2
      <4>2. QED
        BY <2>2, <2>3, <2>5, <3>1, <4>1
    <3>2. CASE j # n + 1
      <4>l. PICK l : l = j - 1
        OBVIOUS
      <4>1. l \in 0..w /\ l \in 0..n /\ j = l + 1 /\ j \in 1..n
        BY <1>2, <1>n, <2>2, <3>2, <4>l
      <4>2. QED
        BY <2>1, <2>2, <2>3, <2>5, <4>1
    <3>3. QED
      BY <3>1, <3>2
  <2>p. PICK p : p = chain'
    OBVIOUS
  <2>7. p = u
    <3>1. p \in Seq(Links) /\ Len(p) = n + 1 /\ \A j \in 1..n + 1 : p[j] = u[j]
      BY <2>p, <2>3, <2>6
    <3>2. QED
      BY <2>5, <3>1, SeqEqual
  <2>8. QED
    BY <2>p, <2>u, <2>e, <2>7
<1>14. depth' = depth + 1
  <2>1. OnTop(PullOf(Cur.op, Cur.it, vm), Asking(k))
    BY <1>k, AskedOnTop
  <2>2. vm'.runs = Append(vm.runs, PullOf(Cur.op, Cur.it, vm))
    BY <2>1 DEF OnTop
  <2>3. vm.runs \in Seq(Run) /\ PullOf(Cur.op, Cur.it, vm) \in Run
    <3>1. vm.runs \in Seq(Run)
      BY <1>2, SaneTypes, MachineTypes
    <3>2. QED
      BY <1>1, <3>1, PulledRuns
  <2>4. QED
    BY <2>2, <2>3, AppendSeq DEF depth
<1>15. depth < Limit
  <2>1. depth \in Nat /\ Limit \in Nat
    BY <1>2, KnownPulls, ChunksAssumption DEF depth
  <2>2. QED
    BY <1>1, <2>1 DEF Full
<1>16. Promise!At(Promise!Asks)
  BY <1>1, PromiseAt, SameOperations
<1>17. yielded' = yielded
  BY <1>1, OpHere
<1>18. FreshMachine(k) = Promise!Enter([Promise!NoMachine EXCEPT !.stack = chunk.block[k].captures],
                                       chunk.block[k].entry, Promise!End(chunk), 0)
  BY SameOperations DEF FreshMachine
<1>19. QED
  BY <1>1, <1>2, <1>5, <1>8, <1>10, <1>11, <1>12, <1>13, <1>14, <1>15, <1>16, <1>17, <1>18, <1>k
     DEF Promise!AskBlock

(* ---- going back ------------------------------------------------------------------------- *)

LEMMA TruncateFront ==
  ASSUME NEW S, NEW s \in Seq(S), NEW b \in Nat, b < Len(s)
  PROVE  Truncate(Front(s), b) = Truncate(s, b) /\ Front(s) = Truncate(s, Len(s) - 1)
<1>n. PICK n : n = Len(s) - 1
  OBVIOUS
<1>1. Len(s) \in Nat /\ (s # <<>> <=> Len(s) > 0)
  BY LenNat
<1>2. n \in Nat /\ b <= n /\ n <= Len(s) /\ b <= Len(s) /\ s # <<>>
  BY <1>1, <1>n
<1>u. PICK u : u = Front(s)
  OBVIOUS
<1>3. u \in Seq(S) /\ Len(u) = n /\ \A i \in 1..n : u[i] = s[i]
  BY <1>2, <1>n, <1>u, FrontSeq
<1>4. \A i \in 1..b : u[i] = s[i]
  <2>1. \A i \in 1..b : i \in 1..n
    BY <1>2
  <2>2. QED
    BY <1>3, <2>1
<1>5. SubSeq(u, 1, b) = SubSeq(s, 1, b)
  BY <1>2, <1>3, <1>4, SameStart
<1>6. Truncate(u, b) = Truncate(s, b)
  BY <1>2, <1>3, <1>5, SameTruncated
<1>7. u = Truncate(s, n)
  BY <1>2, <1>n, <1>u DEF Front, Truncate
<1>8. QED
  BY <1>u, <1>n, <1>6, <1>7

\* The last run that is a pull is the last pull in line.
LEMMA TopPull ==
  ASSUME NEW a, Sane(a), Lined, vm.runs # <<>>, NEW q, q = Len(vm.runs), vm.runs[q].kind # "each",
         NEW w, w = Waiting
  PROVE  /\ w \in 1..w /\ w \in Nat /\ w # 0 /\ q \in Nat /\ q > 0
         /\ line[w].place = q /\ Pull(w) = vm.runs[q] /\ Known(w)
         /\ Level(w).place = q /\ Level(w).parked = line[w].parked
         /\ Level(w).base = Pull(w).base /\ Level(w).frame = Pull(w).frame
<1>1. /\ w \in Nat /\ DOMAIN line = 1..w /\ \A i \in 1..w : Known(i)
  BY KnownPulls
<1>2. vm.runs \in Seq(Run) /\ DOMAIN vm.runs = 1..q /\ q \in Nat /\ q > 0
  <2>1. vm.runs \in Seq(Run)
    BY SaneTypes, MachineTypes
  <2>2. QED
    BY <2>1, LenNat
<1>3. PICK i \in 1..w : line[i].place = q
  <2>1. q \in DOMAIN vm.runs
    BY <1>2
  <2>2. QED
    BY <1>1, <2>1 DEF Lined
<1>4. w \in 1..w /\ w # 0 /\ w \in 0..w
  BY <1>1, <1>3
<1>5. Known(w)
  BY <1>1, <1>4
<1>6. line[w].place = q
  <2>1. line[w].place \in 1..q
    BY <1>5 DEF Known
  <2>2. i < w => line[i].place < line[w].place
    BY <1>1, <1>4 DEF Lined
  <2>3. i = w \/ i < w
    BY <1>1, <1>3
  <2>4. ~(i < w)
    BY <1>2, <1>3, <2>1, <2>2
  <2>5. QED
    BY <1>3, <2>3, <2>4
<1>7. Pull(w) = vm.runs[q]
  BY <1>6 DEF Pull
<1>8. QED
  BY <1>1, <1>2, <1>4, <1>5, <1>6, <1>7, LevelTypes

\* What a pull that is over leaves: the pull r, the w-th and last, of the
\* consumer that is the l-th in line.
Leaves(r, l, w, q) ==
  /\ w = Waiting /\ l \in Nat /\ w = l + 1 /\ w \in 1..w /\ w # 0 /\ q = Len(vm.runs) /\ q \in Nat /\ q > 0
  /\ line[w].place = q /\ Pull(w) = r /\ Known(w) /\ Level(w).place = q /\ Level(w).parked = line[w].parked
  /\ Level(w).base = r.base /\ Level(w).frame = r.frame
  /\ r.kind # "each" /\ r.kind \in Asks /\ r.it \in Iter /\ r \in Run /\ Context(w) = r.it
  /\ vm' = AnswerTo(Paused(w), r.kind, yielded)
  /\ Waiting' = l /\ DOMAIN line' = 1..l /\ line' \in Seq([place : Nat, parked : Nat])
  /\ \A i \in 1..l : line'[i] = line[i]
  /\ vm'.runs \in Seq(Run) /\ Len(vm'.runs) = q - 1 /\ \A p \in 1..q - 1 : vm'.runs[p] = vm.runs[p]
  /\ vm'.ip = r.ip /\ r.ip \in Positions(chunk)
  /\ stash' = stash /\ chunk' = chunk /\ halted' = FALSE
  /\ (halted => yielded # None) /\ (~halted => yielded = None)

LEMMA BackShape ==
  ASSUME NEW a, NEW d, InOrder(a, d), Back, NEW q, q = Len(vm.runs), NEW r, r = vm.runs[q],
         NEW w, w = Waiting, NEW l, l = w - 1
  PROVE  Leaves(r, l, w, q) /\ Stay(l)
<1>1. /\ vm.runs # <<>> /\ r.kind # "each" /\ (halted \/ vm.ip = End(chunk))
      /\ line' = Front(line) /\ halted' = (halted /\ yielded = None)
      /\ chunk' = chunk /\ stash' = stash
      /\ vm' = AnswerTo([ip |-> r.ip, frames |-> Truncate(vm.frames, r.frame),
                         stack |-> Truncate(Front(vm.stack), r.base), runs |-> Front(vm.runs)],
                        r.kind, yielded)
  BY DEF Back, depth
<1>2. Sane(a) /\ Lined
  BY OrderHere
<1>3. /\ w \in 1..w /\ w \in Nat /\ w # 0 /\ q \in Nat /\ q > 0
      /\ line[w].place = q /\ Pull(w) = r /\ Known(w)
      /\ Level(w).place = q /\ Level(w).parked = line[w].parked
      /\ Level(w).base = r.base /\ Level(w).frame = r.frame
  BY <1>1, <1>2, TopPull
<1>4. r.kind \in Asks /\ r.it \in Iter /\ r \in Run /\ r.base \in Nat /\ r.ip \in Positions(chunk)
  BY <1>3 DEF Known
<1>5. Context(w) = r.it
  BY <1>3 DEF Context
<1>6. l \in Nat /\ w = l + 1
  BY <1>3
<1>7. /\ line \in Seq([place : Nat, parked : Nat]) /\ Len(line) = w /\ line # <<>>
  <2>1. line \in Seq([place : Nat, parked : Nat]) /\ Len(line) = w
    BY <1>2 DEF Lined, Waiting
  <2>2. QED
    BY <1>3, <2>1, LenNat
<1>8. /\ line' \in Seq([place : Nat, parked : Nat]) /\ Len(line') = l /\ \A i \in 1..l : line'[i] = line[i]
  BY <1>1, <1>7, FrontSeq
<1>9. Waiting' = l /\ DOMAIN line' = 1..l
  BY <1>8, LenNat DEF Waiting
<1>10. /\ vm.runs \in Seq(Run) /\ vm.stack \in Seq(Val) /\ chunk \in Chunks
  BY <1>2, SaneTypes, MachineTypes
<1>11. r.base < Len(vm.stack) /\ Len(vm.stack) \in Nat
  <2>1. Over(chunk, vm) \/ Halting(chunk, a, vm)
    BY <1>1, <1>2, Ending
  <2>2. chunk \in Chunks /\ a \in Maps(chunk) /\ vm \in MachineType(chunk) /\ Shape(chunk, a, vm)
    BY <1>2, SaneTypes
  <2>3. r.base <= Len(vm.stack) - 1
    BY <1>1, <2>1, <2>2, EndsOver
  <2>4. Len(vm.stack) \in Nat
    BY <1>10, LenNat
  <2>5. QED
    BY <1>4, <2>3, <2>4
<1>12. Truncate(Front(vm.stack), r.base) = Truncate(vm.stack, r.base)
  BY <1>4, <1>10, <1>11, TruncateFront
<1>13. Front(vm.runs) = Truncate(vm.runs, q - 1)
  <2>1. 0 \in Nat /\ 0 < Len(vm.runs)
    BY <1>3
  <2>2. QED
    BY <1>10, <2>1, TruncateFront
<1>14. vm' = AnswerTo(Paused(w), r.kind, yielded)
  BY <1>1, <1>3, <1>12, <1>13 DEF Paused
<1>15. yielded \in Val \cup {None}
  BY <1>2, SaneTypes
<1>16. PICK v \in Val : \A m : AnswerTo(m, r.kind, yielded) = Push(m, v)
  BY <1>4, <1>15, AnswerIn
<1>17. vm'.runs = Front(vm.runs) /\ vm'.ip = r.ip
  <2>m. PICK m : m = [ip |-> r.ip, frames |-> Truncate(vm.frames, r.frame),
                      stack |-> Truncate(Front(vm.stack), r.base), runs |-> Front(vm.runs)]
    OBVIOUS
  <2>1. vm' = Push(m, v)
    BY <1>1, <1>16, <2>m
  <2>2. QED
    BY <2>1, <2>m DEF Push
<1>18. /\ Front(vm.runs) \in Seq(Run) /\ Len(Front(vm.runs)) = q - 1
       /\ \A p \in 1..q - 1 : Front(vm.runs)[p] = vm.runs[p]
  BY <1>1, <1>10, FrontSeq
<1>19. (halted => yielded # None) /\ (~halted => yielded = None) /\ halted' = FALSE
  <2>1. halted = (yielded # None)
    BY <1>2, SaneTypes
  <2>2. QED
    BY <1>1, <2>1
<1>20. Leaves(r, l, w, q)
  BY <1>1, <1>3, <1>4, <1>5, <1>6, <1>8, <1>9, <1>14, <1>17, <1>18, <1>19 DEF Leaves
<1>21. ASSUME NEW i \in 1..l, NEW p \in 1..line[i].place PROVE vm'.runs[p] = vm.runs[p]
  <2>1. i \in 1..w /\ i < w
    BY <1>6
  <2>2. line[i].place < line[w].place /\ Known(i)
    BY <1>2, <1>3, <2>1, KnownPulls DEF Lined
  <2>3. line[i].place \in Nat
    BY <2>2 DEF Known
  <2>4. p \in 1..q - 1
    BY <1>3, <2>2, <2>3
  <2>5. QED
    BY <1>17, <1>18, <2>4
<1>22. Stay(l)
  <2>1. l <= Waiting /\ Waiting' \in Nat /\ l <= Waiting'
    BY <1>6, <1>9
  <2>2. QED
    BY <1>1, <1>6, <1>8, <1>21, <2>1 DEF Stay
<1>23. QED
  BY <1>20, <1>22

LEMMA LeftLined ==
  ASSUME NEW a, Sane(a), Lined, NEW r, NEW l, NEW w, NEW q, Leaves(r, l, w, q), Stay(l)
  PROVE  Lined'
<1>1. /\ w \in Nat /\ l \in Nat /\ w = l + 1 /\ q \in Nat /\ line[w].place = q /\ w \in 1..w
      /\ DOMAIN line' = 1..l /\ line' \in Seq([place : Nat, parked : Nat])
      /\ \A i \in 1..l : line'[i] = line[i]
      /\ Len(vm'.runs) = q - 1 /\ vm'.runs \in Seq(Run) /\ \A p \in 1..q - 1 : vm'.runs[p] = vm.runs[p]
      /\ stash' = stash /\ q = Len(vm.runs)
  BY DEF Leaves
<1>2. /\ DOMAIN line = 1..w /\ \A i \in 1..w : Known(i)
  BY KnownPulls DEF Leaves
<1>3. DOMAIN vm'.runs = 1..q - 1
  BY <1>1, LenNat
<1>4. DOMAIN vm.runs = 1..q
  BY <1>1, SaneTypes, MachineTypes
<1>5. \A i \in 1..l : Pull(i)' = Pull(i)
  BY StayPulls
<1>6. \A i \in 1..l : i \in 1..w /\ i < w
  BY <1>1
<1>7. ASSUME NEW i \in 1..l
      PROVE  line'[i].place \in DOMAIN vm'.runs /\ Pull(i)'.kind # "each" /\ line'[i].parked <= Len(stash')
  <2>1. Known(i)
    BY <1>2, <1>6
  <2>i. i \in DOMAIN line /\ w \in DOMAIN line /\ i < w
    BY <1>1, <1>2, <1>6
  <2>j. line[i].place < line[w].place
    BY <2>i DEF Lined
  <2>2. line[i].place < q
    BY <1>1, <2>j
  <2>p. PICK p : p = line[i].place
    OBVIOUS
  <2>3. p \in 1..Len(vm.runs) /\ Pull(i).kind # "each" /\ line[i].parked <= Len(stash)
    BY <2>1, <2>p DEF Known
  <2>4. p \in 1..q - 1
    BY <1>1, <2>2, <2>3, <2>p
  <2>5. QED
    BY <1>1, <1>3, <1>5, <2>3, <2>4, <2>p
<1>8. ASSUME NEW i \in 1..l, NEW j \in 1..l, i < j
      PROVE  line'[i].place < line'[j].place /\ line'[i].parked <= line'[j].parked
  <2>1. line[i].place < line[j].place /\ line[i].parked <= line[j].parked
    BY <1>2, <1>6, <1>8 DEF Lined
  <2>2. QED
    BY <1>1, <2>1
<1>9. ASSUME NEW p \in 1..q - 1, vm'.runs[p].kind # "each"
      PROVE  \E i \in 1..l : line'[i].place = p
  <2>1. p \in 1..q /\ p # q
    BY <1>1
  <2>2. vm.runs[p].kind # "each"
    BY <1>1, <1>9
  <2>3. PICK i \in 1..w : line[i].place = p
    BY <1>2, <1>4, <2>1, <2>2 DEF Lined
  <2>4. i # w
    BY <1>1, <2>1, <2>3
  <2>5. i \in 1..l
    BY <1>1, <2>4
  <2>6. QED
    BY <1>1, <2>3, <2>5
<1>10. QED
  BY <1>1, <1>3, <1>7, <1>8, <1>9 DEF Lined

\* A block that parks or ends has no finalizer open.
LEMMA NothingOpen ==
  ASSUME NEW a, NEW d, InOrder(a, d), Back, NEW r, NEW l, NEW w, NEW q, Leaves(r, l, w, q)
  PROVE  Open(w) = 0 /\ line[w].parked = Len(stash) /\ Len(stash) \in Nat
<1>1. /\ Sane(a) /\ Lined /\ Orderly(a, d) /\ Len(stash) \in Nat /\ Level(w).parked \in Nat
      /\ Open(w) = Len(stash) - Level(w).parked
      /\ Tidy(chunk, a, d, Mine(w), Open(w), Rank(d, w))
  BY OrderHere DEF Leaves
<1>2. w = Waiting /\ Level(w).frame = r.frame /\ Level(w).parked = line[w].parked /\ Pull(w) = r
      /\ q = Len(vm.runs) /\ line[w].place = q
  BY DEF Leaves
<1>3. ASSUME halted PROVE Open(w) = 0
  BY <1>1, <1>2, <1>3 DEF Orderly
<1>4. ASSUME ~halted PROVE Open(w) = 0
  <2>1. vm.runs # <<>> /\ vm.ip = End(chunk)
    BY <1>4 DEF Back
  <2>2. Over(chunk, vm)
    BY <1>1, <1>4, <2>1, Ending
  <2>3. vm.runs[Len(vm.runs)].frame = Len(vm.frames)
    BY <2>1, <2>2 DEF Over
  <2>4. Pull(w) = vm.runs[Len(vm.runs)]
    BY <1>2 DEF Pull
  <2>5. Twin(vm, Mine(w), Level(w))
    BY <1>1, <1>2, <1>4, Running
  <2>x. PICK x : x = Len(vm.frames)
    OBVIOUS
  <2>y. PICK y : y = Level(w).frame
    OBVIOUS
  <2>6. Len(Mine(w).frames) = x - y /\ x \in Nat
    BY <2>5, <2>x, <2>y, TwinParts
  <2>z. y = x
    BY <1>2, <2>3, <2>4, <2>x, <2>y
  <2>7. Len(Mine(w).frames) = 0
    BY <2>6, <2>z
  <2>8. QED
    BY <1>1, <2>7, TidyDone
<1>5. Open(w) = 0
  BY <1>3, <1>4
<1>6. Len(stash) = Level(w).parked
  <2>x. PICK x : x = Len(stash)
    OBVIOUS
  <2>y. PICK y : y = Level(w).parked
    OBVIOUS
  <2>1. x \in Nat /\ y \in Nat /\ 0 = x - y
    BY <1>1, <1>5, <2>x, <2>y
  <2>2. x = y
    BY <2>1
  <2>3. QED
    BY <2>2, <2>x, <2>y
<1>7. QED
  BY <1>1, <1>2, <1>5, <1>6

\* The consumer goes on with its answer, where it waited.
LEMMA LeftParts ==
  ASSUME NEW a, NEW d, InOrder(a, d), Back, NEW r, NEW l, NEW w, NEW q, Leaves(r, l, w, q), Stay(l)
  PROVE  /\ Mine(l)' = AnswerTo(Mine(l), r.kind, yielded)
         /\ Open(l)' = Open(l) /\ Finals(l)' = Finals(l) /\ Finals(w) = <<>>
         /\ Tidy(chunk, a, d, Mine(l)', Open(l), Rank(d, l))
<1>1. /\ Sane(a) /\ Lined /\ Orderly(a, d) /\ d \in Accounts(chunk) /\ chunk \in Chunks
      /\ yielded \in Val \cup {None}
  BY OrderHere, SaneTypes
<1>2. /\ w = Waiting /\ l \in Nat /\ w = l + 1 /\ r.kind \in Asks /\ Pull(w) = r /\ r.ip \in Positions(chunk)
      /\ vm' = AnswerTo(Paused(w), r.kind, yielded) /\ Waiting' = l /\ stash' = stash /\ halted' = FALSE
      /\ Level(w).parked = line[w].parked
  BY DEF Leaves
<1>3. l \in 0..Waiting /\ l < Waiting /\ ~(l < l) /\ l \in 0..l
  BY <1>2
<1>4. PICK v \in Val : \A m : AnswerTo(m, r.kind, yielded) = Push(m, v)
  BY <1>1, <1>2, AnswerIn
<1>k. PICK k : k = Mine(l)
  OBVIOUS
<1>n. PICK n : n = Push(k, v)
  OBVIOUS
<1>5. Twin(Paused(w), k, Level(l)) /\ Paused(w).ip = r.ip
  BY <1>1, <1>2, <1>3, <1>k, PausedTwin
<1>6. Twin(vm', n, Level(l))
  <2>1. Twin(Push(Paused(w), v), Push(k, v), Level(l))
    BY <1>5, TwinPush
  <2>2. QED
    BY <1>2, <1>4, <1>n, <2>1
<1>7. Level(l)' = Level(l)
  BY <1>1, <1>3, StayPulls
<1>8. Whole(l)' = vm'
  BY <1>2, <1>3 DEF Whole
<1>9. Mine(l)' = n
  <2>1. Mine(l)' = Own(vm', Level(l))
    BY <1>7, <1>8 DEF Mine
  <2>2. QED
    BY <1>6, <2>1 DEF Twin
<1>10. line[w].parked = Len(stash) /\ Len(stash) \in Nat
  BY NothingOpen
<1>11. Open(l)' = Open(l)
  <2>1. Open(l) = line[w].parked - Level(l).parked
    BY <1>2, <1>3 DEF Open
  <2>2. Open(l)' = Len(stash') - Level(l)'.parked
    BY <1>2, <1>3 DEF Open
  <2>3. QED
    BY <1>2, <1>7, <1>10, <2>1, <2>2
<1>12. Finals(l)' = Finals(l)
  <2>1. Finals(l) = SubSeq(stash, Level(l).parked + 1, line[w].parked)
    BY <1>2, <1>3 DEF Finals
  <2>2. Finals(l)' = SubSeq(stash', Level(l)'.parked + 1, Len(stash'))
    BY <1>2, <1>3 DEF Finals
  <2>3. QED
    BY <1>2, <1>7, <1>10, <2>1, <2>2
<1>13. Finals(w) = <<>>
  <2>1. ~(w < Waiting)
    BY <1>2
  <2>2. Finals(w) = Drop(stash, Len(stash))
    BY <1>2, <1>10, <2>1 DEF Finals, Drop
  <2>3. StashType(stash)
    BY <1>1, SaneTypes
  <2>4. QED
    BY <2>2, <2>3, DropAll DEF StashType
<1>14. Tidy(chunk, a, d, n, Open(l), Rank(d, l))
  <2>1. Tidy(chunk, a, d, k, Open(l), Rank(d, l))
    BY <1>1, <1>3, <1>k DEF Orderly
  <2>2. k \in Parts /\ k.ip = r.ip /\ n \in Parts
    BY <1>5, <1>6, TwinParts
  <2>3. k = [ip |-> k.ip, frames |-> k.frames, stack |-> k.stack, runs |-> k.runs]
    BY <2>2 DEF Parts
  <2>4. n.ip = k.ip /\ n.frames = k.frames /\ n.runs = k.runs
    BY <1>n, <2>3 DEF Push
  <2>5. Skeleton(k, n)
    BY <2>4, SkeletonSame
  <2>6. Rank(d, l) \in Nat
    BY <1>1, <1>3, RankTypes
  <2>7. Open(l) \in Nat
    <3>1. Open(l) = line[w].parked - Level(l).parked
      BY <1>2, <1>3 DEF Open
    <3>2. Level(l).parked \in Nat /\ Level(l).parked <= Len(stash)
      BY <1>1, <1>3, LevelTypes DEF Lows
    <3>x. PICK x : x = Level(l).parked
      OBVIOUS
    <3>y. PICK y : y = Len(stash)
      OBVIOUS
    <3>3. x \in Nat /\ y \in Nat /\ x <= y /\ Open(l) = y - x
      BY <1>10, <3>1, <3>2, <3>x, <3>y
    <3>4. QED
      BY <3>3
  <2>8. n.ip \in Positions(chunk) /\ k.ip \in Positions(chunk)
    BY <1>2, <2>2, <2>4
  <2>9. d.parks[k.ip] \in Nat /\ d.rank[k.ip] \in Nat
    BY <1>1, <2>8, AccountTypes
  <2>10. d.rank[n.ip] <= d.rank[k.ip] /\ Open(l) + d.parks[k.ip] = Open(l) + d.parks[n.ip]
         /\ (n.ip \in a.yields => k.ip \in a.yields)
    <3>1. d.rank[n.ip] = d.rank[k.ip] /\ d.parks[n.ip] = d.parks[k.ip]
      BY <2>4
    <3>2. d.rank[n.ip] <= d.rank[k.ip]
      BY <2>9, <3>1
    <3>3. QED
      BY <2>4, <3>1, <3>2
  <2>11. QED
    BY <1>1, <2>1, <2>2, <2>5, <2>6, <2>7, <2>8, <2>10, TidyMove
<1>15. QED
  BY <1>4, <1>9, <1>11, <1>12, <1>13, <1>14, <1>k, <1>n

\* The block is put aside as the context that ran, or it is over.
LEMMA LeftBlock ==
  ASSUME NEW a, NEW d, InOrder(a, d), Back, NEW r, NEW l, NEW w, NEW q, Leaves(r, l, w, q)
  PROVE  /\ \A k \in Iter : k # r.it => coros'[k] = coros[k]
         /\ halted => coros'[r.it].state = "Suspended" /\ Parked(coros'[r.it]) = Mine(w)
         /\ ~halted => coros'[r.it].state = "Done" /\ Parked(coros'[r.it]) = NoMachine
<1>1. /\ Sane(a) /\ Lined /\ Waiting \in Nat
  BY OrderHere
<1>2. /\ w = Waiting /\ q = Len(vm.runs) /\ line[w].place = q /\ Pull(w) = r /\ Level(w).place = q
      /\ Level(w).base = r.base /\ Level(w).frame = r.frame /\ r.it \in Iter /\ r = vm.runs[q]
      /\ r.base \in Nat /\ r.frame \in 1..Len(vm.frames)
      /\ (halted => yielded # None) /\ (~halted => yielded = None)
  <2>1. /\ w = Waiting /\ q = Len(vm.runs) /\ line[w].place = q /\ Pull(w) = r /\ Level(w).place = q
        /\ Level(w).base = r.base /\ Level(w).frame = r.frame /\ r.it \in Iter /\ Known(w)
        /\ (halted => yielded # None) /\ (~halted => yielded = None)
    BY DEF Leaves
  <2>2. Pull(w) = vm.runs[q]
    BY <2>1 DEF Pull
  <2>3. Pull(w).base \in Nat /\ Pull(w).frame \in 1..Len(vm.frames)
    BY <2>1 DEF Known
  <2>4. QED
    BY <2>1, <2>2, <2>3
<1>p. PICK p : p = [state |-> "Suspended", ip |-> vm.ip, stack |-> Drop(Front(vm.stack), r.base),
                    frames |-> Rebase(Drop(vm.frames, r.frame), -r.base)]
  OBVIOUS
<1>3. coros' = [coros EXCEPT ![r.it] = IF yielded # None THEN p ELSE Ended(@)]
  BY <1>2, <1>p DEF Back, depth
<1>4. coros \in [Iter -> Coro]
  BY <1>1, SaneTypes
<1>5. \A k \in Iter : k # r.it => coros'[k] = coros[k]
  BY <1>3, <1>4
<1>6. coros'[r.it] = IF yielded # None THEN p ELSE Ended(coros[r.it])
  BY <1>2, <1>3, <1>4
<1>7. ASSUME halted PROVE coros'[r.it].state = "Suspended" /\ Parked(coros'[r.it]) = Mine(w)
  <2>1. coros'[r.it] = p
    BY <1>2, <1>6, <1>7
  <2>2. Whole(w) = PopOne(vm)
    BY <1>1, <1>2, <1>7 DEF Whole
  <2>low. PICK low : low = Level(w)
    OBVIOUS
  <2>3. vm \in Parts /\ vm.frames \in Seq(Frame) /\ vm.runs \in Seq(Run) /\ Len(vm.frames) \in Nat
    BY <1>1, SaneTypes, MachineIsParts, MachineTypes
  <2>4. PopOne(vm) = [ip |-> vm.ip, frames |-> vm.frames, stack |-> Front(vm.stack), runs |-> vm.runs]
    BY <2>3 DEF PopOne, Parts
  <2>5. OwnRuns(vm.runs, low) = <<>>
    <3>1. low \in Lows
      BY <1>1, <1>2, <2>low, LevelTypes
    <3>2. low.place = Len(vm.runs)
      BY <1>2, <2>low
    <3>3. QED
      BY <2>3, <3>1, <3>2, NoRuns
  <2>6. Mine(w) = [ ip |-> vm.ip, frames |-> OwnFrames(vm.frames, r.frame, r.base),
                    stack |-> Drop(Front(vm.stack), r.base), runs |-> <<>> ]
    <3>1. Mine(w) = Own(PopOne(vm), low)
      BY <2>2, <2>low DEF Mine
    <3>2. low.base = r.base /\ low.frame = r.frame
      BY <1>2, <2>low
    <3>3. QED
      BY <2>4, <2>5, <3>1, <3>2 DEF Own
  <2>7. OwnFrames(p.frames, 0, 0) = OwnFrames(vm.frames, r.frame, r.base)
    <3>1. r.frame \in Nat /\ r.frame <= Len(vm.frames) /\ r.base \in Int
      BY <1>2, <2>3
    <3>2. OwnFrames(Rebase(Drop(vm.frames, r.frame), -r.base), 0, 0) = OwnFrames(vm.frames, r.frame, r.base)
      BY <2>3, <3>1, FramesOff
    <3>3. p.frames = Rebase(Drop(vm.frames, r.frame), -r.base)
      BY <1>p
    <3>4. QED
      BY <3>2, <3>3
  <2>8. p.state = "Suspended" /\ p.ip = vm.ip /\ p.stack = Drop(Front(vm.stack), r.base)
    BY <1>p
  <2>9. Parked(p) = [ ip |-> p.ip, frames |-> OwnFrames(p.frames, 0, 0), stack |-> p.stack, runs |-> <<>> ]
    BY <2>8 DEF Parked
  <2>10. Parked(p) = Mine(w)
    BY <2>6, <2>7, <2>8, <2>9
  <2>11. QED
    BY <2>1, <2>8, <2>10
<1>8. ASSUME ~halted PROVE coros'[r.it].state = "Done" /\ Parked(coros'[r.it]) = NoMachine
  <2>1. coros'[r.it] = Ended(coros[r.it])
    BY <1>2, <1>6, <1>8
  <2>2. coros[r.it] \in Coro
    BY <1>2, <1>4
  <2>3. coros'[r.it].state = "Done"
    BY <2>1, <2>2 DEF Ended, Coro
  <2>4. QED
    BY <2>3 DEF Parked
<1>9. QED
  BY <1>5, <1>7, <1>8

LEMMA BackOrdered ==
  ASSUME NEW a, NEW d, InOrder(a, d), Back
  PROVE  InOrder(a, d)'
<1>q. PICK q : q = Len(vm.runs)
  OBVIOUS
<1>r. PICK r : r = vm.runs[q]
  OBVIOUS
<1>w. PICK w : w = Waiting
  OBVIOUS
<1>l. PICK l : l = w - 1
  OBVIOUS
<1>1. Leaves(r, l, w, q) /\ Stay(l)
  BY <1>q, <1>r, <1>w, <1>l, BackShape
<1>2. /\ Sane(a) /\ Lined /\ Orderly(a, d) /\ Apart(chunk, a, d) /\ d \in Accounts(chunk)
      /\ Safe(a) /\ Sane(a)'
  BY OrderHere, BackSafe, SaneNext
<1>3. /\ l \in Nat /\ w = l + 1 /\ w \in 1..w /\ w # 0 /\ Waiting' = l /\ DOMAIN line' = 1..l /\ Pull(w) = r
      /\ vm'.ip = r.ip /\ halted' = FALSE /\ stash' = stash /\ chunk' = chunk /\ r.it \in Iter
  BY <1>1 DEF Leaves
<1>4. Lined'
  BY <1>1, <1>2, LeftLined
<1>5. /\ Open(l)' = Open(l) /\ Tidy(chunk, a, d, Mine(l)', Open(l), Rank(d, l))
  BY <1>1, LeftParts
<1>6. /\ \A j \in 0..l : Rank(d, j)' = Rank(d, j)
      /\ \A k \in Iter : BlockRank(d, k)' = BlockRank(d, k)
  BY <1>1, <1>2, <1>3, StayRank
<1>7. \A j \in 0..l : j \in 0..Waiting
  BY <1>3, <1>w
<1>8. ASSUME NEW i \in 0..l, NEW j \in 0..l, i < j PROVE Rank(d, j)' < Rank(d, i)'
  BY <1>2, <1>6, <1>7, <1>8 DEF Orderly
<1>9. ASSUME NEW j \in 0..l PROVE Tidy(chunk, a, d, Mine(j)', Open(j)', Rank(d, j)')
  <2>1. CASE j = l
    BY <1>3, <1>5, <1>6, <2>1
  <2>2. CASE j # l
    <3>1. j < l
      BY <1>3, <2>2
    <3>2. Mine(j)' = Mine(j) /\ Open(j)' = Open(j)
      BY <1>1, <1>2, <1>4, <3>1, StayMine
    <3>3. Tidy(chunk, a, d, Mine(j), Open(j), Rank(d, j))
      BY <1>2, <1>7 DEF Orderly
    <3>4. QED
      BY <1>6, <3>2, <3>3
  <2>3. QED
    BY <2>1, <2>2
<1>10. DOMAIN line = 1..w
  BY <1>2, <1>w, KnownPulls
<1>11. ASSUME NEW j \in 1..l PROVE Pull(j)'.ip \notin d.calm
  <2>1. Pull(j)' = Pull(j)
    BY <1>1, <1>2, StayPulls
  <2>2. j \in DOMAIN line
    BY <1>3, <1>10
  <2>3. QED
    BY <1>2, <2>1, <2>2 DEF Orderly
<1>12. r.ip \notin d.calm
  BY <1>2, <1>3, <1>10 DEF Orderly
<1>13. ASSUME NEW k \in Iter, coros'[k].state = "Suspended"
       PROVE  Tidy(chunk', a, d, Parked(coros'[k]), 0, BlockRank(d, k)')
  <2>1. CASE k # r.it
    <3>1. coros'[k] = coros[k]
      BY <1>1, <2>1, LeftBlock
    <3>2. Tidy(chunk, a, d, Parked(coros[k]), 0, BlockRank(d, k))
      BY <1>2, <1>13, <3>1 DEF Orderly
    <3>3. QED
      BY <1>3, <1>6, <3>1, <3>2
  <2>2. CASE k = r.it
    <3>1. halted
      BY <1>1, <1>13, <2>2, LeftBlock
    <3>2. Parked(coros'[k]) = Mine(w)
      BY <1>1, <2>2, <3>1, LeftBlock
    <3>3. Open(w) = 0
      BY <1>1, NothingOpen
    <3>4. Rank(d, w) = BlockRank(d, k)
      BY <1>3, <2>2 DEF Rank
    <3>5. Tidy(chunk, a, d, Mine(w), Open(w), Rank(d, w))
      BY <1>w, OrderHere
    <3>6. QED
      BY <1>3, <1>6, <3>2, <3>3, <3>4, <3>5
  <2>3. QED
    BY <2>1, <2>2
<1>14. Orderly(a, d)'
  <2>1. \A i, j \in 0..Waiting' : i < j => Rank(d, j)' < Rank(d, i)'
    BY <1>3, <1>8
  <2>2. \A j \in 0..Waiting' : Tidy(chunk', a, d, Mine(j)', Open(j)', Rank(d, j)')
    BY <1>3, <1>9
  <2>3. \A j \in DOMAIN line' : Pull(j)'.ip \notin d.calm
    BY <1>3, <1>11
  <2>4. ~halted' /\ vm'.ip \notin d.calm
    BY <1>3, <1>12
  <2>5. QED
    BY <1>13, <2>1, <2>2, <2>3, <2>4 DEF Orderly
<1>15. Apart(chunk', a, d) /\ d \in Accounts(chunk')
  BY <1>2, <1>3
<1>16. QED
  BY <1>2, <1>4, <1>14, <1>15 DEF InOrder

\* Who is in line once a block gave control back: all but it.
LEMMA LeftLine ==
  ASSUME NEW a, NEW d, InOrder(a, d), NEW r, NEW l, NEW w, NEW q, Leaves(r, l, w, q), Stay(l)
  PROVE  /\ \A i \in 0..l : Context(i)' = Context(i) /\ Link(i)' = Link(i)
         /\ r.it \in InLine /\ InLine' = InLine \ {r.it}
         /\ \A i \in 0..l : Context(i) \in Contexts /\ Context(i) # r.it
<1>1. /\ Sane(a) /\ Lined /\ Orderly(a, d) /\ d \in Accounts(chunk)
  BY OrderHere
<1>2. w = Waiting /\ l \in Nat /\ w = l + 1 /\ Waiting' = l /\ Context(w) = r.it /\ w \in Nat
  BY DEF Leaves
<1>3. (\A i \in 1..l : Pull(i)' = Pull(i)) /\ \A i \in 0..l : Context(i)' = Context(i)
  BY <1>1, StayPulls
<1>4. ASSUME NEW i \in 0..l PROVE Link(i)' = Link(i)
  <2>1. CASE i = 0
    BY <1>3, <2>1 DEF Link
  <2>2. CASE i # 0
    <3>1. i \in 1..l
      BY <1>2, <2>2
    <3>2. QED
      BY <1>3, <2>2, <3>1 DEF Link
  <2>3. QED
    BY <2>1, <2>2
<1>5. ASSUME NEW i \in 0..l PROVE Context(i) \in Contexts /\ Context(i) # r.it
  <2>1. i \in 0..Waiting /\ w \in 0..Waiting /\ i # w
    BY <1>2
  <2>2. Context(i) # Context(w)
    BY <1>1, <2>1, OneEach
  <2>3. Seat(i)
    BY <1>1, <2>1, Seated
  <2>4. QED
    BY <1>2, <2>2, <2>3 DEF Seat
<1>6. r.it \in InLine
  <2>1. w \in 0..Waiting
    BY <1>2
  <2>2. QED
    BY <1>2, <2>1 DEF InLine
<1>7. InLine' = InLine \ {r.it}
  <2>1. InLine' = {Context(i)' : i \in 0..l}
    BY <1>2 DEF InLine
  <2>2. InLine = {Context(i) : i \in 0..w}
    BY <1>2 DEF InLine
  <2>3. \A i \in 0..w : i \in 0..l \/ i = w
    BY <1>2
  <2>4. \A i \in 0..l : i \in 0..w
    BY <1>2
  <2>5. {Context(i)' : i \in 0..l} = {Context(i) : i \in 0..l}
    BY <1>3
  <2>6. QED
    BY <1>2, <1>5, <2>1, <2>2, <2>3, <2>4, <2>5
<1>8. QED
  BY <1>3, <1>4, <1>5, <1>6, <1>7

LEMMA LeftSeats ==
  ASSUME NEW a, NEW d, InOrder(a, d), Back, NEW r, NEW l, NEW w, NEW q, Leaves(r, l, w, q), Stay(l),
         NEW c \in Contexts
  PROVE  /\ machine'[c] = IF c = r.it THEN (IF halted THEN machine[c] ELSE NoMachine)
                          ELSE IF c = Context(l) THEN AnswerTo(machine[c], r.kind, yielded) ELSE machine[c]
         /\ finals'[c] = finals[c]
<1>1. /\ Sane(a) /\ Lined /\ Orderly(a, d) /\ d \in Accounts(chunk) /\ Safe(a)
  BY OrderHere, BackSafe
<1>2. w = Waiting /\ l \in Nat /\ w = l + 1 /\ Waiting' = l /\ Context(w) = r.it /\ w \in Nat
      /\ r.it \in Iter /\ w \in 0..Waiting
  BY DEF Leaves
<1>3. InOrder(a, d)' /\ Lined'
  BY BackOrdered, <1>1, LeftLined
<1>4. /\ Mine(l)' = AnswerTo(Mine(l), r.kind, yielded) /\ Finals(l)' = Finals(l) /\ Finals(w) = <<>>
  BY LeftParts
<1>5. /\ \A i \in 0..l : Context(i)' = Context(i) /\ Context(i) # r.it
      /\ r.it \in InLine /\ InLine' = InLine \ {r.it}
  BY LeftLine
<1>6. \A j \in 0..l : Seat(j)'
  BY <1>2, <1>3, SeatedNext
<1>7. \A j \in 0..w : Seat(j)
  BY <1>1, <1>2, Seated
<1>8. CASE c = r.it
  <2>1. machine[c] = Mine(w) /\ finals[c] = <<>>
    BY <1>2, <1>4, <1>7, <1>8 DEF Seat
  <2>2. machine'[c] = Parked(coros'[c]) /\ finals'[c] = <<>>
    BY <1>5, <1>8, UnseatedNext
  <2>3. CASE halted
    <3>1. Parked(coros'[r.it]) = Mine(w)
      BY <2>3, LeftBlock
    <3>2. QED
      BY <1>8, <2>1, <2>2, <2>3, <3>1
  <2>4. CASE ~halted
    <3>1. Parked(coros'[r.it]) = NoMachine
      BY <2>4, LeftBlock
    <3>2. QED
      BY <1>8, <2>1, <2>2, <2>4, <3>1
  <2>5. QED
    BY <2>3, <2>4
<1>9. CASE c # r.it /\ c \in InLine
  <2>1. PICK j \in 0..w : c = Context(j)
    BY <1>2, <1>9 DEF InLine
  <2>2. j \in 0..l
    <3>1. j # w
      BY <1>2, <1>9, <2>1
    <3>2. QED
      BY <1>2, <3>1
  <2>3. machine[c] = Mine(j) /\ finals[c] = Finals(j)
    BY <1>7, <2>1 DEF Seat
  <2>4. machine'[c] = Mine(j)' /\ finals'[c] = Finals(j)'
    <3>1. Seat(j)' /\ Context(j)' = c
      BY <1>5, <1>6, <2>1, <2>2
    <3>2. QED
      BY <3>1 DEF Seat
  <2>5. CASE j = l
    BY <1>4, <1>9, <2>1, <2>3, <2>4, <2>5
  <2>6. CASE j # l
    <3>1. j < l /\ l \in 0..Waiting /\ j \in 0..Waiting
      BY <1>2, <2>2, <2>6
    <3>2. Mine(j)' = Mine(j) /\ Finals(j)' = Finals(j)
      BY <1>1, <1>3, <2>2, <3>1, StayMine
    <3>3. c # Context(l)
      BY <1>1, <2>1, <2>6, <3>1, OneEach
    <3>4. QED
      BY <1>9, <2>3, <2>4, <3>2, <3>3
  <2>7. QED
    BY <2>5, <2>6
<1>10. CASE c # r.it /\ c \notin InLine
  <2>1. c # Context(l)
    <3>1. Context(l) \in InLine
      <4>1. l \in 0..Waiting
        BY <1>2
      <4>2. QED
        BY <4>1 DEF InLine
    <3>2. QED
      BY <1>10, <3>1
  <2>2. machine'[c] = Parked(coros'[c]) /\ finals'[c] = <<>>
    BY <1>5, <1>10, UnseatedNext
  <2>3. machine[c] = Parked(coros[c]) /\ finals[c] = <<>>
    BY <1>10, Unseated
  <2>4. coros'[c] = coros[c]
    <3>1. c # "main"
      <4>1. 0 \in 0..Waiting /\ Context(0) = "main"
        BY <1>2 DEF Context
      <4>2. "main" \in InLine
        BY <4>1 DEF InLine
      <4>3. QED
        BY <1>10, <4>2
    <3>2. c \in Iter
      BY <3>1 DEF Contexts
    <3>3. QED
      BY <1>10, <3>2, LeftBlock
  <2>5. QED
    BY <1>10, <2>1, <2>2, <2>3, <2>4
<1>11. QED
  BY <1>8, <1>9, <1>10

\* The chain without its last link.
LEMMA LeftChain ==
  ASSUME NEW a, NEW d, InOrder(a, d), Back, NEW r, NEW l, NEW w, NEW q, Leaves(r, l, w, q), Stay(l)
  PROVE  /\ chain' = Front(chain) /\ Len(chain) > 1
         /\ chain[Len(chain)].ctx = r.it /\ chain[Len(chain)].kind = r.kind
         /\ chain[Len(chain) - 1].ctx = Context(l)
<1>1. w = Waiting /\ l \in Nat /\ w = l + 1 /\ w \in Nat /\ w # 0 /\ Waiting' = l /\ Context(w) = r.it /\ Pull(w) = r
  BY DEF Leaves
<1>2. /\ chain \in Seq(Links) /\ Len(chain) = w + 1 /\ \A j \in 0..w : chain[j + 1] = Link(j)
  BY <1>1, LinkedHere DEF JInv, Linked
<1>3. /\ chain' \in Seq(Links) /\ Len(chain') = w /\ \A j \in 0..l : chain'[j + 1] = Link(j)'
  <2>1. InOrder(a, d)'
    BY BackOrdered
  <2>2. Linked'
    BY <2>1, LinkedAfter DEF JInv
  <2>3. Links' = Links
    BY DEF Links, Contexts, Asks
  <2>4. QED
    BY <1>1, <2>2, <2>3 DEF Linked
<1>4. \A i \in 0..l : Link(i)' = Link(i)
  BY LeftLine
<1>u. PICK u : u = Front(chain)
  OBVIOUS
<1>5. u \in Seq(Links) /\ Len(u) = w /\ \A j \in 1..w : u[j] = chain[j]
  <2>1. chain # <<>> /\ Len(chain) - 1 = w
    BY <1>1, <1>2, LenNat
  <2>2. QED
    BY <1>2, <1>u, <2>1, FrontSeq
<1>p. PICK p : p = chain'
  OBVIOUS
<1>6. \A j \in 1..w : p[j] = u[j]
  <2>1. ASSUME NEW j \in 1..w PROVE p[j] = u[j]
    <3>i. PICK i : i = j - 1
      OBVIOUS
    <3>1. i \in 0..l /\ i \in 0..w /\ j = i + 1
      BY <1>1, <3>i
    <3>2. chain[j] = Link(i) /\ p[j] = Link(i)
      BY <1>2, <1>3, <1>4, <1>p, <3>1
    <3>3. QED
      BY <1>5, <3>2
  <2>2. QED
    BY <2>1
<1>7. p = u
  <2>1. p \in Seq(Links) /\ Len(p) = w
    BY <1>3, <1>p
  <2>2. QED
    BY <1>5, <1>6, <2>1, SeqEqual
<1>8. chain[w + 1] = Link(w) /\ chain[w] = Link(l)
  <2>1. l \in 0..w /\ w \in 0..w
    BY <1>1
  <2>2. QED
    BY <1>1, <1>2, <2>1
<1>9. Len(chain) = w + 1 /\ Len(chain) - 1 = w /\ Len(chain) > 1
  BY <1>1, <1>2
<1>10. Link(w) = [ctx |-> r.it, kind |-> r.kind] /\ Link(l).ctx = Context(l)
  BY <1>1 DEF Link
<1>e. PICK e : e = Link(w)
  OBVIOUS
<1>11. e.ctx = r.it /\ e.kind = r.kind
  BY <1>e, <1>10
<1>12. chain[Len(chain)] = e /\ chain[Len(chain) - 1] = Link(l)
  BY <1>e, <1>8, <1>9
<1>13. chain' = Front(chain)
  BY <1>7, <1>p, <1>u
<1>14. QED
  BY <1>9, <1>10, <1>11, <1>12, <1>13

LEMMA LeftLife ==
  ASSUME NEW a, NEW d, InOrder(a, d), Back, NEW r, NEW l, NEW w, NEW q, Leaves(r, l, w, q), Stay(l)
  PROVE  life' = [life EXCEPT ![r.it] = IF halted THEN "parked" ELSE "done"]
<1>1. r.it \in Iter /\ InLine' = InLine \ {r.it}
  BY LeftLine DEF Leaves
<1>2. ASSUME NEW j \in Iter PROVE Life(j)' = IF j = r.it THEN (IF halted THEN "parked" ELSE "done") ELSE Life(j)
  <2>1. CASE j = r.it
    <3>1. Life(j)' = CASE coros'[j].state = "Fresh" -> "fresh"
                       [] coros'[j].state = "Suspended" -> "parked" [] coros'[j].state = "Done" -> "done"
      BY <1>1, <2>1 DEF Life
    <3>2. CASE halted
      <4>1. coros'[j].state = "Suspended"
        BY <2>1, <3>2, LeftBlock
      <4>2. QED
        BY <2>1, <3>1, <3>2, <4>1
    <3>3. CASE ~halted
      <4>1. coros'[j].state = "Done"
        BY <2>1, <3>3, LeftBlock
      <4>2. QED
        BY <2>1, <3>1, <3>3, <4>1
    <3>4. QED
      BY <3>2, <3>3
  <2>2. CASE j # r.it
    <3>1. (j \in InLine') <=> (j \in InLine)
      BY <1>1, <2>2
    <3>2. coros'[j] = coros[j]
      BY <2>2, LeftBlock
    <3>3. CASE j \in InLine
      <4>1. Life(j) = "running" /\ Life(j)' = "running"
        BY <3>1, <3>3 DEF Life
      <4>2. QED
        BY <2>2, <4>1
    <3>4. CASE j \notin InLine
      <4>1. Life(j) = CASE coros[j].state = "Fresh" -> "fresh"
                        [] coros[j].state = "Suspended" -> "parked" [] coros[j].state = "Done" -> "done"
        BY <3>4 DEF Life
      <4>2. Life(j)' = CASE coros'[j].state = "Fresh" -> "fresh"
                         [] coros'[j].state = "Suspended" -> "parked" [] coros'[j].state = "Done" -> "done"
        BY <3>1, <3>4 DEF Life
      <4>3. QED
        BY <2>2, <3>2, <4>1, <4>2
    <3>5. QED
      BY <3>3, <3>4
  <2>3. QED
    BY <2>1, <2>2
<1>3. QED
  BY <1>1, <1>2 DEF life

\* A block that gives control back does so in both.
LEMMA BackKeeps ==
  ASSUME NEW a, NEW d, InOrder(a, d), Back
  PROVE  InOrder(a, d)' /\ Promise!Back
<1>q. PICK q : q = Len(vm.runs)
  OBVIOUS
<1>r. PICK r : r = vm.runs[q]
  OBVIOUS
<1>w. PICK w : w = Waiting
  OBVIOUS
<1>l. PICK l : l = w - 1
  OBVIOUS
<1>1. Leaves(r, l, w, q) /\ Stay(l)
  BY <1>q, <1>r, <1>w, <1>l, BackShape
<1>2. InOrder(a, d)' /\ Sane(a) /\ Lined
  BY BackOrdered, OrderHere
<1>me. PICK me : me = r.it
  OBVIOUS
<1>from. PICK from : from = Context(l)
  OBVIOUS
<1>kind. PICK kind : kind = r.kind
  OBVIOUS
<1>3. /\ l \in Nat /\ w = l + 1 /\ w = Waiting /\ me \in Iter /\ q = Len(vm.runs) /\ q \in Nat
      /\ Len(vm'.runs) = q - 1 /\ Level(w).place = q
      /\ (halted => yielded # None) /\ (~halted => yielded = None)
  BY <1>1, <1>me DEF Leaves
<1>4. (yielded # None) <=> halted
  BY <1>3
<1>5. me \in Contexts /\ from \in Contexts /\ from # me
  <2>1. l \in 0..l
    BY <1>3
  <2>2. from \in Contexts /\ from # me
    BY <1>1, <1>from, <1>me, <2>1, LeftLine
  <2>3. QED
    BY <1>3, <2>2 DEF Contexts
<1>6. /\ chain' = Front(chain) /\ Len(chain) > 1 /\ chain[Len(chain)].ctx = me
      /\ chain[Len(chain)].kind = kind /\ chain[Len(chain) - 1].ctx = from
  BY <1>1, <1>me, <1>kind, <1>from, LeftChain
<1>7. Promise!me = me
  BY <1>6 DEF Promise!me
<1>8. yielded # None \/ (Promise!my.ip = Promise!End(chunk) /\ Promise!my.runs = <<>>)
  <2>1. SUFFICES ASSUME ~halted PROVE Promise!my.ip = Promise!End(chunk) /\ Promise!my.runs = <<>>
    BY <1>4
  <2>2. vm.ip = End(chunk)
    BY <2>1 DEF Back
  <2>3. Promise!my = Mine(w) /\ Promise!my.ip = vm.ip
    BY <1>w, <2>1, PromiseHere
  <2>4. OwnRuns(vm.runs, Level(w)) = <<>>
    <3>1. w \in 0..Waiting
      BY <1>3
    <3>2. Level(w) \in Lows
      BY <1>2, <3>1, LevelTypes
    <3>3. vm.runs \in Seq(Run)
      BY <1>2, SaneTypes, MachineTypes
    <3>4. QED
      BY <1>3, <3>2, <3>3, NoRuns
  <2>5. Mine(w) = Own(vm, Level(w))
    BY <1>2, <1>w, <2>1, Running
  <2>6. Mine(w).runs = <<>>
    BY <2>4, <2>5 DEF Own
  <2>7. QED
    BY <2>2, <2>3, <2>6, SameOperations
<1>9. \A c \in Contexts :
        /\ machine'[c] = IF c = me THEN (IF halted THEN machine[c] ELSE NoMachine)
                         ELSE IF c = from THEN AnswerTo(machine[c], kind, yielded) ELSE machine[c]
        /\ finals'[c] = finals[c]
  BY <1>1, <1>me, <1>from, <1>kind, LeftSeats
<1>10. machine' = [machine EXCEPT ![from] = Promise!Answer(@, kind, yielded),
                                  ![me] = IF yielded # None THEN @ ELSE Promise!NoMachine]
  <2>f. PICK f : f = Promise!Answer(machine[from], kind, yielded)
    OBVIOUS
  <2>g. PICK g : g = IF yielded # None THEN machine[me] ELSE Promise!NoMachine
    OBVIOUS
  <2>1. g = IF halted THEN machine[me] ELSE NoMachine
    <3>1. Promise!NoMachine = NoMachine
      BY SameOperations
    <3>2. QED
      BY <1>4, <2>g, <3>1
  <2>2. f = AnswerTo(machine[from], kind, yielded)
    BY <2>f, SameOperations
  <2>3. \A c \in Contexts : machine'[c] = IF c = me THEN g ELSE IF c = from THEN f ELSE machine[c]
    BY <1>9, <2>1, <2>2
  <2>4. machine \in [Contexts -> {machine[c] : c \in Contexts}] /\ DOMAIN machine = Contexts
        /\ machine' = [c \in Contexts |-> machine'[c]]
    BY DEF machine
  <2>5. machine' = [[machine EXCEPT ![from] = f] EXCEPT ![me] = g]
    BY <1>5, <2>3, <2>4
  <2>6. QED
    BY <1>5, <2>5, <2>f, <2>g
<1>11. finals' = finals
  <2>1. \A c \in Contexts : finals'[c] = finals[c]
    BY <1>9
  <2>2. QED
    BY <2>1 DEF finals
<1>12. life' = [life EXCEPT ![me] = IF yielded # None THEN "parked" ELSE "done"]
  BY <1>1, <1>4, <1>me, LeftLife
<1>13. depth' = depth - 1
  BY <1>3 DEF depth
<1>14. /\ ahead' = [ahead EXCEPT ![me] = Promise!Held(kind, yielded)]
       /\ pending' = Promise!Missing(kind, yielded, pending)
  <2>1. /\ ahead' = [ahead EXCEPT ![r.it] = Park(r.kind, yielded)]
        /\ pending' = Missing(r.kind, yielded, pending)
    BY <1>q, <1>r DEF Back, depth
  <2>2. QED
    BY <1>me, <1>kind, <2>1, SameOperations
<1>15. yielded' = None /\ UNCHANGED <<chunk, out>>
  BY DEF Back
<1>16. chain' = Promise!Front(chain)
  BY <1>6, SameOperations
<1>17. QED
  BY <1>2, <1>6, <1>7, <1>8, <1>10, <1>11, <1>12, <1>13, <1>14, <1>15, <1>16 DEF Promise!Back

(* ---- the beginning ---------------------------------------------------------------------- *)

LEMMA InitOrdered ==
  ASSUME Init, NEW a \in Maps(chunk), Verified(chunk, a), NEW d \in Accounts(chunk), Apart(chunk, a, d)
  PROVE  InOrder(a, d) /\ Waiting = 0 /\ Mine(0) = vm /\ Finals(0) = <<>>
<1>1. /\ chunk \in Chunks /\ halted = FALSE /\ pending = None /\ stash = <<>> /\ line = <<>>
      /\ coros = [k \in Iter |-> [state |-> "Fresh", ip |-> 0, frames |-> <<>>, stack |-> <<>>]]
  BY DEF Init
<1>f. PICK f : f = NewFrame(End(chunk), 0)
  OBVIOUS
<1>fs. PICK fs : fs = <<f>>
  OBVIOUS
<1>2. Sane(a) /\ vm = [ip |-> chunk.main, frames |-> fs, stack |-> <<>>, runs |-> <<>>]
  BY <1>f, <1>fs, InitSane
<1>3. vm.ip = chunk.main /\ vm.frames = fs /\ vm.stack = <<>> /\ vm.runs = <<>> /\ vm \in Parts
  <2>1. vm \in Parts
    BY <1>2, SaneTypes, MachineIsParts
  <2>2. QED
    BY <1>2, <2>1
<1>4. f.base = 0 /\ f.depth = 0 /\ f.ret = End(chunk)
      /\ f = [ret |-> f.ret, base |-> f.base, slot |-> f.slot, depth |-> f.depth, own |-> f.own]
  BY <1>f DEF NewFrame
<1>5. fs \in Seq(Frame) /\ Len(fs) = 1 /\ fs[1] = f
  BY <1>3, <1>fs DEF Parts
<1>6. <<>> \in Seq([place : Nat, parked : Nat]) /\ Len(<<>>) = 0 /\ DOMAIN line = {} /\ DOMAIN vm.runs = {}
  <2>1. DOMAIN <<>> = {}
    OBVIOUS
  <2>2. QED
    BY <1>1, <1>3, <2>1, EmptySeq
<1>7. Waiting = 0
  BY <1>1, <1>6 DEF Waiting
<1>8. Lined
  BY <1>1, <1>6 DEF Lined
<1>low. PICK low : low = [base |-> 0, frame |-> 0, place |-> 0, parked |-> 0]
  OBVIOUS
<1>9. Level(0) = low
  BY <1>low DEF Level
<1>10. Whole(0) = vm
  BY <1>1, <1>7 DEF Whole
<1>11. OwnFrames(fs, 0, 0) = fs
  <2>1. OwnFrame(f, 0) = f
    <3>e. PICK e : e = End(chunk)
      OBVIOUS
    <3>1. f = [ret |-> e, base |-> 0, slot |-> Undef, depth |-> 0, own |-> 0]
      BY <1>f, <3>e DEF NewFrame
    <3>2. f \in Frame
      BY <1>5
    <3>3. OwnFrame(f, 0) = [ret |-> f.ret, base |-> f.base - 0, slot |-> f.slot, depth |-> 0, own |-> f.own]
      BY <3>2, OwnFrameType
    <3>z. PICK z : z = f.base - 0
      OBVIOUS
    <3>4. z = 0
      BY <1>4, <3>z
    <3>5. OwnFrame(f, 0) = [ret |-> f.ret, base |-> z, slot |-> f.slot, depth |-> 0, own |-> f.own]
      BY <3>3, <3>z
    <3>6. f.ret = e /\ f.slot = Undef /\ f.own = 0
      BY <3>1
    <3>7. QED
      BY <3>1, <3>4, <3>5, <3>6
  <2>2. OwnFrames(fs, 0, 0) = [j \in 1..1 |-> OwnFrame(fs[j], 0)]
    BY <1>5 DEF OwnFrames
  <2>g. PICK g : g = [j \in 1..1 |-> OwnFrame(fs[j], 0)]
    OBVIOUS
  <2>3. \A j \in 1..1 : j = 1
    OBVIOUS
  <2>4. g[1] = f
    BY <1>5, <2>1, <2>g
  <2>5. f \in Frame
    BY <1>5
  <2>6. g \in [1..1 -> Frame]
    BY <2>3, <2>4, <2>5, <2>g
  <2>7. g \in Seq(Frame) /\ Len(g) = 1
    BY <2>6, ViewSeq
  <2>8. g = fs
    BY <1>5, <2>3, <2>4, <2>7, SeqEqual
  <2>9. QED
    BY <2>2, <2>8, <2>g
<1>12. OwnRuns(<<>>, low) = <<>>
  <2>1. low \in Lows /\ low.place = 0
    BY <1>low DEF Lows
  <2>2. <<>> \in Seq(Run) /\ Len(<<>>) = 0
    BY EmptySeq
  <2>3. QED
    BY <2>1, <2>2, NoRuns
<1>13. Drop(<<>>, 0) = <<>>
  <2>1. <<>> \in Seq(Val) /\ Len(<<>>) = 0
    BY EmptySeq
  <2>2. QED
    BY <2>1, DropAll
<1>14. Mine(0) = vm
  <2>1. Mine(0) = Own(vm, low)
    BY <1>9, <1>10 DEF Mine
  <2>2. low.frame = 0 /\ low.base = 0
    BY <1>low
  <2>3. Own(vm, low) = [ip |-> chunk.main, frames |-> fs, stack |-> <<>>, runs |-> <<>>]
    BY <1>3, <1>11, <1>12, <1>13, <2>2 DEF Own
  <2>4. QED
    BY <1>2, <2>1, <2>3
<1>15. Open(0) = 0
  <2>1. Len(stash) = 0 /\ low.parked = 0
    BY <1>1, <1>6, <1>low
  <2>2. QED
    BY <1>7, <1>9, <2>1 DEF Open
<1>16. Finals(0) = <<>>
  <2>1. low.parked = 0 /\ Len(stash) = 0
    BY <1>1, <1>6, <1>low
  <2>2. Finals(0) = SubSeq(<<>>, 0 + 1, Len(<<>>))
    BY <1>1, <1>7, <1>9, <2>1 DEF Finals
  <2>3. QED
    BY <1>13, <2>2 DEF Drop
<1>17. Tidy(chunk, a, d, vm, 0, Rank(d, 0))
  <2>r. PICK R : R = Rank(d, 0)
    OBVIOUS
  <2>1. R = d.rank[chunk.main]
    BY <2>r DEF Rank
  <2>2. chunk.main \in Positions(chunk)
    BY DEF Verified, Entered
  <2>3. R \in Nat /\ d.parks[chunk.main] = 0
    BY <2>1, <2>2, AccountTypes, <1>1 DEF Apart
  <2>4. d.rank[vm.ip] <= R
    BY <1>3, <2>1, <2>3
  <2>5. vm.ip \in Positions(chunk) /\ d.parks[vm.ip] = 0 /\ vm.frames[1].ret = End(chunk) /\ Len(vm.frames) = 1
    BY <1>3, <1>4, <1>5, <2>2, <2>3
  <2>6. Tidy(chunk, a, d, vm, 0, R)
    BY <1>1, <1>3, <2>3, <2>4, <2>5, TidyFresh
  <2>7. QED
    BY <2>6, <2>r
<1>18. Orderly(a, d)
  <2>1. \A i \in 0..Waiting : i = 0
    BY <1>7
  <2>2. \A i, j \in 0..Waiting : ~(i < j)
    BY <2>1
  <2>3. \A i \in 0..Waiting : Tidy(chunk, a, d, Mine(i), Open(i), Rank(d, i))
    BY <1>14, <1>15, <1>17, <2>1
  <2>4. \A k \in Iter : coros[k].state # "Suspended"
    BY <1>1
  <2>5. QED
    BY <1>1, <1>6, <2>2, <2>3, <2>4 DEF Orderly
<1>19. QED
  BY <1>2, <1>7, <1>8, <1>14, <1>16, <1>18 DEF InOrder

LEMMA SimulateInit ==
  ASSUME Init, Disciplined(chunk)
  PROVE  JInv /\ Promise!Init
<1>1. PICK a \in Maps(chunk), d \in Accounts(chunk) : Verified(chunk, a) /\ Apart(chunk, a, d)
  BY DEF Disciplined
<1>2. InOrder(a, d) /\ Waiting = 0 /\ Mine(0) = vm /\ Finals(0) = <<>>
  BY <1>1, InitOrdered
<1>3. JInv
  BY <1>2 DEF JInv
<1>4. /\ chunk \in Chunks /\ vm = Enter(NoMachine, chunk.main, End(chunk), 0) /\ yielded = None /\ pending = None
      /\ coros = [k \in Iter |-> [state |-> "Fresh", ip |-> 0, frames |-> <<>>, stack |-> <<>>]]
      /\ ahead = [k \in Iter |-> None] /\ out = <<>>
  BY DEF Init
<1>5. \A i \in 0..Waiting : i = 0
  BY <1>2
<1>6. 0 \in 0..Waiting /\ Context(0) = "main" /\ Seat(0)
  <2>1. 0 \in 0..Waiting
    BY <1>2
  <2>2. Seat(0)
    BY <1>2, <2>1, Seated DEF InOrder
  <2>3. QED
    BY <2>1, <2>2 DEF Context
<1>7. InLine = {"main"}
  BY <1>5, <1>6 DEF InLine
<1>8. "main" \notin Iter
  BY ChunksAssumption
<1>9. \A k \in Iter : k \in Contexts /\ k # "main" /\ k \notin InLine /\ coros[k].state = "Fresh"
  BY <1>4, <1>7, <1>8 DEF Contexts
<1>10. \A k \in Iter : machine[k] = NoMachine /\ finals[k] = <<>>
  <2>1. ASSUME NEW k \in Iter PROVE machine[k] = NoMachine /\ finals[k] = <<>>
    <3>1. machine[k] = Parked(coros[k]) /\ finals[k] = <<>>
      BY <1>9, Unseated
    <3>2. QED
      BY <1>9, <3>1 DEF Parked
  <2>2. QED
    BY <2>1
<1>11. machine["main"] = vm /\ finals["main"] = <<>>
  BY <1>2, <1>6 DEF Seat
<1>12. Promise!Ctx = Contexts
  BY DEF Promise!Ctx, Contexts
<1>13. machine = [c \in Promise!Ctx |-> IF c = "main" THEN Promise!Enter(Promise!NoMachine, chunk.main, Promise!End(chunk), 0)
                                        ELSE Promise!NoMachine]
  <2>e. PICK e : e = Promise!Enter(Promise!NoMachine, chunk.main, Promise!End(chunk), 0)
    OBVIOUS
  <2>1. e = vm /\ Promise!NoMachine = NoMachine
    BY <1>4, <2>e, SameOperations
  <2>2. \A c \in Contexts : machine[c] = IF c = "main" THEN e ELSE Promise!NoMachine
    BY <1>8, <1>10, <1>11, <2>1 DEF Contexts
  <2>3. machine = [c \in Contexts |-> machine[c]]
    BY DEF machine
  <2>4. machine = [c \in Contexts |-> IF c = "main" THEN e ELSE Promise!NoMachine]
    BY <2>2, <2>3
  <2>5. QED
    BY <1>12, <2>4, <2>e
<1>14. finals = [c \in Promise!Ctx |-> <<>>]
  <2>1. \A c \in Contexts : finals[c] = <<>>
    BY <1>10, <1>11 DEF Contexts
  <2>2. finals = [c \in Contexts |-> finals[c]]
    BY DEF finals
  <2>3. QED
    BY <1>12, <2>1, <2>2
<1>15. life = [k \in Iter |-> "fresh"]
  <2>1. ASSUME NEW k \in Iter PROVE Life(k) = "fresh"
    <3>1. Life(k) = CASE coros[k].state = "Fresh" -> "fresh"
                      [] coros[k].state = "Suspended" -> "parked" [] coros[k].state = "Done" -> "done"
      BY <1>9 DEF Life
    <3>2. QED
      BY <1>9, <3>1
  <2>2. QED
    BY <2>1 DEF life
<1>16. chain = << [ctx |-> "main", kind |-> "next"] >>
  <2>e. PICK e : e = [ctx |-> "main", kind |-> "next"]
    OBVIOUS
  <2>1. chain \in Seq(Links) /\ Len(chain) = 1 /\ chain[1] = Link(0)
    <3>1. Linked
      BY <1>3, LinkedHere
    <3>2. QED
      BY <1>2, <1>6, <3>1 DEF Linked
  <2>2. Link(0) = e
    BY <1>6, <2>e DEF Link
  <2>3. e \in Links
    BY <2>e DEF Links, Contexts
  <2>4. <<e>> \in Seq(Links) /\ Len(<<e>>) = 1 /\ <<e>>[1] = e
    BY <2>3
  <2>5. \A j \in 1..1 : chain[j] = <<e>>[j]
    BY <2>1, <2>2, <2>4
  <2>c. PICK p : p = chain
    OBVIOUS
  <2>s. PICK s : s = <<e>>
    OBVIOUS
  <2>6. p = s
    <3>1. p \in Seq(Links) /\ s \in Seq(Links) /\ Len(p) = Len(s) /\ \A j \in 1..Len(p) : p[j] = s[j]
      BY <2>1, <2>4, <2>5, <2>c, <2>s
    <3>2. QED
      BY <3>1, SeqEqual
  <2>7. QED
    BY <2>6, <2>c, <2>e, <2>s
<1>17. depth = 0
  <2>1. vm.runs = <<>>
    BY <1>1, InitSane
  <2>2. QED
    BY <2>1, EmptySeq DEF depth
<1>18. QED
  BY <1>3, <1>4, <1>13, <1>14, <1>15, <1>16, <1>17 DEF Promise!Init

(* ---- every step ------------------------------------------------------------------------- *)

LEMMA StutterKeeps ==
  ASSUME NEW a, NEW d, InOrder(a, d), UNCHANGED vars
  PROVE  InOrder(a, d)' /\ UNCHANGED Promise!vars
<1>1. /\ chunk' = chunk /\ vm' = vm /\ halted' = halted /\ coros' = coros /\ ahead' = ahead
      /\ yielded' = yielded /\ pending' = pending /\ stash' = stash /\ line' = line /\ out' = out
  BY DEF vars
<1>2. /\ Sane(a) /\ Lined /\ Orderly(a, d) /\ d \in Accounts(chunk) /\ Apart(chunk, a, d) /\ Waiting \in 0..Waiting
  BY OrderHere
<1>3. Safe(a)
  BY <1>2, NextSafe
<1>4. Holds
  <2>1. StashHolds
    BY <1>1, StashSame
  <2>2. vm' \in Parts
    BY <1>1, <1>2, SaneTypes, MachineIsParts
  <2>3. QED
    BY <1>1, <1>2, <2>1, <2>2, HoldsSame
<1>w. PICK w : w = Waiting
  OBVIOUS
<1>5. Waiting' = w /\ Level(w)' = Level(w) /\ Context(w)' = Context(w)
  BY <1>2, <1>3, <1>4, <1>w, SamePulls
<1>6. ~(w < w)
  BY <1>2, <1>w, OrderHere
<1>7. Whole(w)' = Whole(w)
  BY <1>1, <1>5, <1>6, <1>w DEF Whole
<1>8. Mine(w)' = Mine(w)
  BY <1>5, <1>7 DEF Mine
<1>9. Finals(w)' = Finals(w)
  BY <1>1, <1>5, <1>6, <1>w DEF Finals
<1>10. Mine(Waiting)' = Mine(w) /\ Finals(Waiting)' = Finals(w)
  BY <1>5, <1>8, <1>9
<1>11. Left = Open(w)
  BY <1>1, <1>6, <1>w DEF Left, Open
<1>12. Orderly(a, d)'
  <2>1. Tidy(chunk, a, d, Mine(Waiting)', Left, Rank(d, Waiting))
    BY <1>10, <1>11, <1>w, OrderHere
  <2>2. CalmNow(a, d)
    BY <1>1, <1>2, <1>11, <1>w DEF CalmNow, Orderly
  <2>3. QED
    BY <1>2, <1>3, <1>4, <2>1, <2>2, StillOrderly
<1>13. Lined'
  BY <1>2, <1>3, <1>4, StillLined
<1>14. InOrder(a, d)'
  <2>1. Apart(chunk', a, d) /\ d \in Accounts(chunk') /\ Sane(a)'
    BY <1>1, <1>2, <1>3, SaneNext
  <2>2. QED
    BY <1>12, <1>13, <2>1 DEF InOrder
<1>15. /\ machine' = [machine EXCEPT ![Context(w)] = Mine(w)]
       /\ finals' = [finals EXCEPT ![Context(w)] = Finals(w)]
       /\ life' = life /\ chain' = chain
  BY <1>3, <1>4, <1>10, <1>14, <1>w, SameSeats
<1>16. machine[Context(w)] = Mine(w) /\ finals[Context(w)] = Finals(w)
  BY <1>w, OrderHere DEF Seat
<1>17. machine' = machine /\ finals' = finals
  <2>1. machine = [c \in Contexts |-> machine[c]] /\ finals = [c \in Contexts |-> finals[c]]
    BY DEF machine, finals
  <2>2. QED
    BY <1>15, <1>16, <2>1
<1>18. depth' = depth
  BY <1>1 DEF depth
<1>19. QED
  BY <1>1, <1>14, <1>15, <1>17, <1>18 DEF Promise!vars

LEMMA SimulateNext ==
  ASSUME JInv, [Next]_vars
  PROVE  JInv' /\ [Promise!Next]_(Promise!vars)
<1>1. PICK a, d : InOrder(a, d)
  BY DEF JInv
<1>2. SUFFICES InOrder(a, d)' /\ [Promise!Next]_(Promise!vars)
  BY DEF JInv
<1>3. CASE Local        BY <1>1, <1>3, LocalKeeps DEF Promise!Next
<1>4. CASE Println      BY <1>1, <1>4, PrintlnKeeps DEF Promise!Next
<1>5. CASE Raise        BY <1>1, <1>5, RaiseKeeps DEF Promise!Next
<1>6. CASE Check        BY <1>1, <1>6, CheckKeeps DEF Promise!Next
<1>7. CASE Take         BY <1>1, <1>7, TakeKeeps DEF Promise!Next
<1>8. CASE Depth        BY <1>1, <1>8, DepthKeeps DEF Promise!Next
<1>9. CASE Cut          BY <1>1, <1>9, CutKeeps DEF Promise!Next
<1>10. CASE Stash       BY <1>1, <1>10, StashKeeps DEF Promise!Next
<1>11. CASE Unstash     BY <1>1, <1>11, UnstashKeeps DEF Promise!Next
<1>12. CASE ForEach     BY <1>1, <1>12, ForEachKeeps DEF Promise!Next
<1>13. CASE NextElement BY <1>1, <1>13, NextElementKeeps DEF Promise!Next
<1>14. CASE AskKnown    BY <1>1, <1>14, AskKnownKeeps DEF Promise!Next
<1>15. CASE AskBlock    BY <1>1, <1>15, AskBlockKeeps DEF Promise!Next
<1>16. CASE Yield       BY <1>1, <1>16, YieldKeeps DEF Promise!Next
<1>17. CASE Back        BY <1>1, <1>17, BackKeeps DEF Promise!Next
<1>18. CASE UNCHANGED vars
  BY <1>1, <1>18, StutterKeeps
<1>19. QED
  BY <1>3, <1>4, <1>5, <1>6, <1>7, <1>8, <1>9, <1>10, <1>11, <1>12, <1>13, <1>14, <1>15, <1>16, <1>17, <1>18
     DEF Next

\* In a program whose finalizers neither yield nor ask while a throwable is on
\* its way, and whose blocks are asked in one order, every block runs as if it
\* had a machine of its own: whatever coro_next splits off, puts back and
\* rebases on the one stack, and the one PENDING and STASH, consumer and block
\* cannot tell.
THEOREM Implements == Spec /\ Disciplined(chunk) => KeepsPromise
<1>1. Init /\ Disciplined(chunk) => JInv /\ Promise!Init
  BY SimulateInit
<1>2. JInv /\ [Next]_vars => JInv' /\ [Promise!Next]_(Promise!vars)
  BY SimulateNext
<1>3. QED
  BY <1>1, <1>2, PTL DEF Spec, KeepsPromise
=============================================================================

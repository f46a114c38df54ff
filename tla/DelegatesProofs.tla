----------------------------- MODULE DelegatesProofs -----------------------------
(***************************************************************************)
(* Theorems of module Delegates, for any number of properties of each kind *)
(* and every nesting budget: types, that an initialized lazy property stays *)
(* as it is, and that every access is one of KotlinProperties.              *)
(***************************************************************************)
EXTENDS Delegates, TLAPS, SequenceTheorems

\* Without Careful, garbage may be stored too.
Loose ==
  /\ value \in [Property -> Operand \cup {Unset}]
  /\ frames \in Seq([of : Property, old : Operand \cup {Unset}, new : Operand \cup {Unset}])

(* ---- frames ----------------------------------------------------------------- *)

LEMMA Popped ==
  ASSUME NEW S, frames \in Seq(S), frames # <<>>
  PROVE  /\ Top \in S
         /\ Len(frames) \in DOMAIN frames
         /\ Below \in Seq(S)
         /\ DOMAIN Below \subseteq DOMAIN frames
         /\ \A i \in DOMAIN Below : Below[i] = frames[i]
<1>1. Len(frames) \in Nat /\ Len(frames) # 0 /\ DOMAIN frames = 1..Len(frames)
  BY EmptySeq, LenProperties
<1>2. Len(frames) \in DOMAIN frames
  BY <1>1
<1>3. Top \in S
  BY <1>1, <1>2, ElementOfSeq DEF Top
<1>4. /\ Below \in Seq(S)
      /\ Len(Below) = Len(frames) - 1
      /\ \A i \in 1..Len(frames) - 1 : Below[i] = frames[i]
  <2>1. 1..Len(frames) - 1 \subseteq DOMAIN frames
    BY <1>1
  <2>2. \A i \in 1..Len(frames) - 1 : frames[i] \in S
    BY <1>1, <2>1, ElementOfSeq
  <2>3. QED
    BY <1>1, <2>1, <2>2, SubSeqProperties DEF Below
<1>5. DOMAIN Below = 1..Len(frames) - 1
  BY <1>4, <1>1, LenProperties
<1>6. QED
  BY <1>1, <1>2, <1>3, <1>4, <1>5

LEMMA Pushed ==
  ASSUME NEW S, frames \in Seq(S), NEW f \in S
  PROVE  /\ Append(frames, f) \in Seq(S)
         /\ \A i \in DOMAIN Append(frames, f) :
              \/ i \in DOMAIN frames /\ Append(frames, f)[i] = frames[i]
              \/ Append(frames, f)[i] = f
<1>1. Len(frames) \in Nat /\ DOMAIN frames = 1..Len(frames)
  BY LenProperties
<1>2. /\ Append(frames, f) \in Seq(S)
      /\ Len(Append(frames, f)) = Len(frames) + 1
      /\ \A i \in 1..Len(frames) : Append(frames, f)[i] = frames[i]
      /\ Append(frames, f)[Len(frames) + 1] = f
  BY AppendProperties
<1>3. DOMAIN Append(frames, f) = 1..Len(frames) + 1
  BY <1>2, LenProperties
<1>4. QED
  BY <1>1, <1>2, <1>3

\* What a call does to the frames: one more, of the given property, or none.
LEMMA Invoked ==
  ASSUME NEW S, frames \in Seq(S), NEW p, NEW old, NEW new,
         [of |-> p, old |-> old, new |-> new] \in S,
         invoke_closure(p, old, new), pending \in BOOLEAN
  PROVE  /\ frames' \in Seq(S)
         /\ pending' \in BOOLEAN
         /\ \A i \in DOMAIN frames' :
              \/ i \in DOMAIN frames /\ frames'[i] = frames[i]
              \/ frames'[i] = [of |-> p, old |-> old, new |-> new]
<1> DEFINE f == [of |-> p, old |-> old, new |-> new]
<1>1. CASE frames' = frames
  BY <1>1 DEF invoke_closure
<1>2. CASE frames' = Append(frames, f)
  <2>1. pending' \in BOOLEAN
    BY DEF invoke_closure
  <2>2. /\ Append(frames, f) \in Seq(S)
        /\ \A i \in DOMAIN Append(frames, f) :
             \/ i \in DOMAIN frames /\ Append(frames, f)[i] = frames[i]
             \/ Append(frames, f)[i] = f
    BY Pushed
  <2>3. QED
    BY <1>2, <2>1, <2>2
<1>3. QED
  BY <1>1, <1>2 DEF invoke_closure

(* ---- types ------------------------------------------------------------------- *)

LEMMA InitTypes == Init => TypeOK /\ Loose
<1>1. SUFFICES ASSUME Init PROVE TypeOK /\ Loose
  OBVIOUS
<1>2. \A S : <<>> \in Seq(S) /\ DOMAIN <<>> = {}
  BY EmptySeq
<1>3. QED
  BY <1>1, <1>2, KindsAssumption DEF Init, TypeOK, Loose, Property, Operand

LEMMA LooseStep == Loose /\ pending \in BOOLEAN /\ [Next]_vars => Loose' /\ pending' \in BOOLEAN
<1> DEFINE S == [of : Property, old : Operand \cup {Unset}, new : Operand \cup {Unset}]
<1>1. SUFFICES ASSUME Loose, pending \in BOOLEAN, [Next]_vars PROVE Loose' /\ pending' \in BOOLEAN
  OBVIOUS
<1>2. frames \in Seq(S) /\ value \in [Property -> Operand \cup {Unset}]
  BY <1>1 DEF Loose
<1>3. CASE ReadLazy
  <2>1. PICK l \in Lazy : lazy_get(l)
    BY <1>3 DEF ReadLazy
  <2>2. CASE value[l] # Unset
    BY <1>1, <2>1, <2>2 DEF lazy_get, Loose
  <2>3. CASE value[l] = Unset
    <3>1. invoke_closure(l, Unset, Unset) /\ value' = value
      BY <2>1, <2>3 DEF lazy_get
    <3>2. [of |-> l, old |-> Unset, new |-> Unset] \in S
      BY DEF Property
    <3>3. frames' \in Seq(S) /\ pending' \in BOOLEAN
      BY <1>1, <1>2, <3>1, <3>2, Invoked
    <3>4. QED
      BY <1>2, <3>1, <3>3 DEF Loose
  <2>4. QED
    BY <2>2, <2>3
<1>4. CASE ReadDelegated
  BY <1>1, <1>4 DEF ReadDelegated, deleg_get, Loose
<1>5. CASE Assign
  <2>1. PICK p \in Property \ Lazy, v \in Operand : deleg_set(p, v)
    BY <1>5 DEF Assign
  <2>2. value' \in [Property -> Operand \cup {Unset}]
    BY <1>2, <2>1 DEF deleg_set, store
  <2>3. [of |-> p, old |-> value[p], new |-> v] \in S
    BY <1>2
  <2>4. frames' \in Seq(S) /\ pending' \in BOOLEAN
    BY <1>1, <1>2, <2>1, <2>3, Invoked DEF deleg_set
  <2>5. QED
    BY <2>2, <2>4 DEF Loose
<1>6. CASE ThunkReturns
  <2>1. PICK v \in Operand : LazyEnds(v)
    BY <1>6 DEF ThunkReturns
  <2>2. frames' \in Seq(S) /\ pending' = pending
    BY <1>2, <2>1, Popped DEF LazyEnds, Ends
  <2>3. value' \in [Property -> Operand \cup {Unset}]
    BY <1>2, <2>1 DEF LazyEnds, store
  <2>4. QED
    BY <1>1, <2>2, <2>3 DEF Loose
<1>7. CASE HandlerReturns
  <2>1. CASE ObservableEnds
    BY <1>1, <1>2, <2>1, Popped DEF ObservableEnds, Ends, Loose
  <2>2. ASSUME NEW verdict \in BOOLEAN, VetoableEnds(verdict)
        PROVE  Loose' /\ pending' \in BOOLEAN
    <3>1. Top \in S /\ Below \in Seq(S)
      BY <1>2, <2>2, Popped DEF VetoableEnds, Ends
    <3>2. value' \in [Property -> Operand \cup {Unset}]
      BY <1>2, <2>2, <3>1 DEF VetoableEnds, store
    <3>3. QED
      BY <1>1, <2>2, <3>1, <3>2 DEF VetoableEnds, Loose
  <2>3. QED
    BY <1>7, <2>1, <2>2 DEF HandlerReturns
<1>8. CASE Throw \/ Catch \/ UNCHANGED vars
  BY <1>1, <1>8 DEF Throw, Catch, vars, Loose
<1>9. QED
  BY <1>1, <1>3, <1>4, <1>5, <1>6, <1>7, <1>8 DEF Next

\* Under Careful no garbage is assigned: the values are the program's.
LEMMA TypeStep == ASSUME Careful PROVE TypeOK /\ [Next]_vars => TypeOK'
<1> DEFINE V == Values \cup {Unset}
<1>1. SUFFICES ASSUME Careful, TypeOK, [Next]_vars PROVE TypeOK'
  OBVIOUS
<1> USE KindsAssumption
<1>2. /\ frames \in Seq(Frame) /\ value \in [Property -> V]
      /\ pending \in BOOLEAN /\ answer \in Values \cup {Nothing}
      /\ \A p \in Observable \cup Vetoable : value[p] # Unset
      /\ \A i \in DOMAIN frames : frames[i].of \in Vetoable => frames[i].new # Unset
  BY <1>1 DEF TypeOK
<1>3. ASSUME NEW p \in Property, value[p] # Unset PROVE value[p] \in Values
  BY <1>2, <1>3
<1>4. CASE ReadLazy
  <2>1. PICK l \in Lazy : lazy_get(l)
    BY <1>4 DEF ReadLazy
  <2>2. l \in Property /\ l \notin Vetoable
    BY <2>1 DEF Property
  <2>3. CASE value[l] # Unset
    BY <1>1, <1>2, <1>3, <2>1, <2>2, <2>3 DEF lazy_get, answers, TypeOK
  <2>4. CASE value[l] = Unset
    <3>1. invoke_closure(l, Unset, Unset) /\ value' = value /\ answer' = answer
      BY <2>1, <2>4 DEF lazy_get
    <3>2. [of |-> l, old |-> Unset, new |-> Unset] \in Frame
      BY <2>2 DEF Frame
    <3>3. /\ frames' \in Seq(Frame) /\ pending' \in BOOLEAN
          /\ \A i \in DOMAIN frames' :
               \/ i \in DOMAIN frames /\ frames'[i] = frames[i]
               \/ frames'[i] = [of |-> l, old |-> Unset, new |-> Unset]
      BY <1>2, <3>1, <3>2, Invoked
    <3>4. QED
      BY <1>2, <2>2, <3>1, <3>3 DEF TypeOK
  <2>5. QED
    BY <2>3, <2>4
<1>5. CASE ReadDelegated
  BY <1>2, <1>3, <1>5 DEF ReadDelegated, deleg_get, answers, TypeOK
<1>6. CASE Assign
  <2>1. PICK p \in Property \ Lazy, v \in Values : deleg_set(p, v)
    BY <1>1, <1>6 DEF Assign, Operand
  <2>2. value' \in [Property -> V] /\ \A q \in Observable \cup Vetoable : value'[q] # Unset
    BY <1>2, <2>1 DEF deleg_set, store, Property
  <2>3. PICK old \in V : old = value[p]
    BY <1>2
  <2>4. [of |-> p, old |-> old, new |-> v] \in Frame
    BY DEF Frame
  <2>5. CASE p \in Late
    BY <1>2, <2>1, <2>2, <2>5 DEF deleg_set, TypeOK
  <2>6. CASE p \notin Late
    <3>1. invoke_closure(p, old, v) /\ answer' = answer
      BY <2>1, <2>3, <2>6 DEF deleg_set
    <3>2. /\ frames' \in Seq(Frame) /\ pending' \in BOOLEAN
          /\ \A i \in DOMAIN frames' :
               \/ i \in DOMAIN frames /\ frames'[i] = frames[i]
               \/ frames'[i] = [of |-> p, old |-> old, new |-> v]
      BY <1>2, <2>4, <3>1, Invoked
    <3>3. QED
      BY <1>2, <2>1, <2>2, <3>1, <3>2 DEF TypeOK
  <2>7. QED
    BY <2>5, <2>6
<1>7. CASE ThunkReturns
  <2>1. PICK v \in Operand : (unwinding \/ v # Undef) /\ LazyEnds(v)
    BY <1>7 DEF ThunkReturns
  <2>2. /\ Top \in Frame /\ Below \in Seq(Frame)
        /\ DOMAIN Below \subseteq DOMAIN frames
        /\ \A i \in DOMAIN Below : Below[i] = frames[i]
    BY <1>2, <2>1, Popped DEF LazyEnds, Ends
  <2>3. value' \in [Property -> V] /\ \A p \in Observable \cup Vetoable : value'[p] # Unset
    <3>1. CASE unwinding
      BY <1>2, <2>1, <3>1 DEF LazyEnds
    <3>2. CASE ~unwinding
      <4>1. PICK t \in Lazy : t = Top.of
        BY <2>1 DEF LazyEnds, Ends
      <4>2. v \in V /\ value' = [value EXCEPT ![t] = v]
        BY <2>1, <3>2, <4>1 DEF LazyEnds, store, Operand
      <4>3. QED
        BY <1>2, <4>1, <4>2 DEF Property
    <3>3. QED
      BY <3>1, <3>2
  <2>4. answer' \in Values \cup {Nothing}
    BY <1>2, <2>1 DEF LazyEnds, answers, Operand
  <2>5. QED
    BY <1>2, <2>1, <2>2, <2>3, <2>4 DEF LazyEnds, TypeOK
<1>8. CASE HandlerReturns
  <2>1. PICK verdict \in BOOLEAN : VetoableEnds(verdict) \/ ObservableEnds
    BY <1>8 DEF HandlerReturns
  <2>2. frames # <<>> /\ frames' = Below
    BY <2>1 DEF VetoableEnds, ObservableEnds, Ends
  <2>3. /\ Top \in Frame /\ Len(frames) \in DOMAIN frames /\ Below \in Seq(Frame)
        /\ DOMAIN Below \subseteq DOMAIN frames
        /\ \A i \in DOMAIN Below : Below[i] = frames[i]
    BY <1>2, <2>2, Popped
  <2>4. Top.new \in V /\ (Top.of \in Vetoable => Top.new # Unset)
    BY <1>2, <2>3 DEF Frame, Top
  <2>5. value' \in [Property -> V] /\ \A p \in Observable \cup Vetoable : value'[p] # Unset
    <3>1. CASE value' = value
      BY <1>2, <3>1
    <3>2. CASE value' # value
      <4>1. Top.of \in Vetoable /\ value' = [value EXCEPT ![Top.of] = Top.new]
        BY <2>1, <3>2 DEF VetoableEnds, ObservableEnds, Ends, store
      <4>0. Top.new \in Values
        BY <2>4, <4>1
      <4>2. PICK t \in Vetoable : t = Top.of
        BY <4>1
      <4>4. PICK n \in Values : n = Top.new
        BY <4>0
      <4>3. value' = [value EXCEPT ![t] = n]
        BY <4>1, <4>2, <4>4
      <4>5. QED
        BY <1>2, <4>3 DEF Property
    <3>3. QED
      BY <3>1, <3>2
  <2>6. QED
    BY <1>2, <2>1, <2>2, <2>3, <2>5 DEF VetoableEnds, ObservableEnds, TypeOK
<1>9. CASE Throw \/ Catch \/ UNCHANGED vars
  BY <1>2, <1>9 DEF Throw, Catch, vars, TypeOK
<1>10. QED
  BY <1>1, <1>4, <1>5, <1>6, <1>7, <1>8, <1>9 DEF Next

\* What the program reads is a value it computed, and a property that started
\* with a value has one, if no garbage is assigned.
THEOREM TypeCorrect == ASSUME Careful PROVE Spec => []TypeOK
<1>1. Init => TypeOK
  BY InitTypes
<1>2. TypeOK /\ [Next]_vars => TypeOK'
  BY TypeStep
<1>3. QED
  BY <1>1, <1>2, PTL DEF Spec

(* ---- once for all ------------------------------------------------------------- *)

\* Whatever the program does, garbage included.
LEMMA SettledStep ==
  ASSUME Loose, pending \in BOOLEAN, Next, NEW l \in Lazy, Settled(l)
  PROVE  Settled(l)' /\ value'[l] = value[l]
<1> DEFINE S == [of : Property, old : Operand \cup {Unset}, new : Operand \cup {Unset}]
<1>0. frames \in Seq(S) /\ pending \in BOOLEAN
  BY DEF Loose
<1> USE KindsAssumption
<1>1. /\ frames \in Seq(S) /\ value \in [Property -> Operand \cup {Unset}]
      /\ value[l] # Unset /\ \A i \in DOMAIN frames : frames[i].of # l
      /\ l \in Property
  BY DEF Loose, Settled, Property
<1>2. SUFFICES /\ value'[l] = value[l]
               /\ \A i \in DOMAIN frames' : frames'[i].of # l
  BY <1>1 DEF Settled
<1>3. CASE ReadLazy
  <2>1. PICK k \in Lazy : lazy_get(k)
    BY <1>3 DEF ReadLazy
  <2>2. CASE value[k] # Unset
    BY <1>1, <2>1, <2>2 DEF lazy_get
  <2>3. CASE value[k] = Unset
    <3>1. invoke_closure(k, Unset, Unset) /\ value' = value /\ k # l
      BY <1>1, <2>1, <2>3 DEF lazy_get
    <3>2. [of |-> k, old |-> Unset, new |-> Unset] \in S
      BY DEF Property
    <3>3. \A i \in DOMAIN frames' :
             \/ i \in DOMAIN frames /\ frames'[i] = frames[i]
             \/ frames'[i] = [of |-> k, old |-> Unset, new |-> Unset]
      <4> HIDE DEF S
      <4>1. QED
        BY <1>0, <3>1, <3>2, Invoked
    <3>4. QED
      BY <1>1, <3>1, <3>3
  <2>4. QED
    BY <2>2, <2>3
<1>4. CASE ReadDelegated
  BY <1>1, <1>4 DEF ReadDelegated, deleg_get
<1>5. CASE Assign
  <2>1. PICK p \in Property \ Lazy, v \in Operand : deleg_set(p, v)
    BY <1>5 DEF Assign
  <2>2. p # l /\ value'[l] = value[l]
    BY <1>1, <2>1 DEF deleg_set, store
  <2>3. PICK old \in Operand \cup {Unset} : old = value[p]
    BY <1>1
  <2>4. [of |-> p, old |-> old, new |-> v] \in S
    OBVIOUS
  <2>5. frames' = frames \/ invoke_closure(p, old, v)
    BY <2>1, <2>3 DEF deleg_set
  <2>6. \A i \in DOMAIN frames' :
           \/ i \in DOMAIN frames /\ frames'[i] = frames[i]
           \/ frames'[i] = [of |-> p, old |-> old, new |-> v]
    <3>1. CASE frames' = frames
      BY <3>1
    <3>2. CASE invoke_closure(p, old, v)
      <4> HIDE DEF S
      <4>1. QED
        BY <1>0, <2>4, <3>2, Invoked
    <3>3. QED
      BY <2>5, <3>1, <3>2
  <2>7. QED
    BY <1>1, <2>2, <2>6
<1>6. CASE ThunkReturns \/ HandlerReturns
  <2>1. frames # <<>> /\ frames' = Below /\ (value' = value \/ \E v : store(Top.of, v))
    BY <1>6 DEF ThunkReturns, HandlerReturns, LazyEnds, VetoableEnds, ObservableEnds, Ends
  <2>2. /\ Len(frames) \in DOMAIN frames
        /\ DOMAIN Below \subseteq DOMAIN frames
        /\ \A i \in DOMAIN Below : Below[i] = frames[i]
    BY <1>1, <2>1, Popped
  <2>3. Top.of # l
    BY <1>1, <2>2 DEF Top
  <2>4. QED
    BY <1>1, <2>1, <2>2, <2>3 DEF store
<1>7. CASE Throw \/ Catch
  BY <1>1, <1>7 DEF Throw, Catch
<1>8. QED
  BY <1>3, <1>4, <1>5, <1>6, <1>7 DEF Next

\* A lazy property that was initialized stays as it is, for every program: its
\* initializer never runs again (KT_LAZY_GET asks the cell, and is the only one
\* to start a run).
THEOREM InitializedOnce == Spec => OnceForAll
<1> DEFINE Inv == Loose /\ pending \in BOOLEAN
<1>1. Init => Inv
  BY InitTypes DEF TypeOK
<1>2. Inv /\ [Next]_vars => Inv'
  BY LooseStep
<1>3. Inv /\ [Next]_vars =>
        [\A l \in Lazy : Settled(l) => Settled(l)' /\ value'[l] = value[l]]_vars
  BY SettledStep
<1>4. QED
  BY <1>1, <1>2, <1>3, PTL DEF Spec, OnceForAll

(* ---- the refinement -------------------------------------------------------------- *)

LEMMA StartsAsPromised == Init => Promise!Init
BY DEF Init, Promise!Init, Property, Promise!Property

\* One access, or one end of what it ran, is one step of KotlinProperties.
LEMMA StepAsPromised ==
  ASSUME Careful, TypeOK, TypeOK', Next
  PROVE  Promise!Next \/ UNCHANGED Promise!vars
<1> USE KindsAssumption DEF unwinding, Property, Promise!Property
<1>1. /\ value \in [Property -> Values \cup {Unset}]
      /\ frames \in Seq(Frame) /\ pending \in BOOLEAN
  BY DEF TypeOK
<1>2. CASE ReadLazy
  <2>1. PICK l \in Lazy : lazy_get(l)
    BY <1>2 DEF ReadLazy
  <2>2. CASE value[l] # Unset /\ ~pending
    <3>1. Promise!Read(l)
      BY <1>1, <2>1, <2>2 DEF lazy_get, answers, Promise!Read
    <3>2. QED
      BY <2>1, <3>1 DEF Promise!Next
  <2>3. CASE value[l] = Unset /\ ~pending /\ Len(frames) < MaxRuns
    <3>1. ~(Len(frames) >= MaxRuns)
      BY <1>1, <2>3, LenProperties
    <3>2. Promise!Force(l)
      BY <2>1, <2>3, <3>1 DEF lazy_get, invoke_closure, Promise!Force, Promise!Called
    <3>3. QED
      BY <2>1, <3>2 DEF Promise!Next
  <2>4. CASE value[l] = Unset /\ ~pending /\ ~(Len(frames) < MaxRuns)
    <3>1. Len(frames) >= MaxRuns
      BY <1>1, <2>4, LenProperties
    <3>2. Promise!Throw
      BY <2>1, <2>4, <3>1 DEF lazy_get, invoke_closure, Promise!Throw
    <3>3. QED
      BY <3>2 DEF Promise!Next
  <2>5. CASE pending
    BY <1>1, <2>1, <2>5 DEF lazy_get, answers, invoke_closure, Promise!vars
  <2>6. QED
    BY <1>1, <2>2, <2>3, <2>4, <2>5
<1>3. CASE ReadDelegated
  <2>1. PICK p \in Property \ Lazy : deleg_get(p)
    BY <1>3 DEF ReadDelegated
  <2>2. CASE value[p] # Unset /\ ~pending
    <3>1. Promise!Read(p)
      BY <2>1, <2>2 DEF deleg_get, answers, Promise!Read
    <3>2. QED
      BY <2>1, <3>1 DEF Promise!Next
  <2>3. CASE value[p] = Unset /\ ~pending
    <3>1. Promise!Throw
      BY <2>1, <2>3 DEF deleg_get, Promise!Throw
    <3>2. QED
      BY <3>1 DEF Promise!Next
  <2>4. CASE pending
    BY <1>1, <2>1, <2>4 DEF deleg_get, answers, Promise!vars
  <2>5. QED
    BY <1>1, <2>2, <2>3, <2>4
<1>4. CASE Assign
  <2>1. PICK p \in Property \ Lazy, v \in Values : deleg_set(p, v) /\ ~pending
    BY <1>4 DEF Assign, Operand
  <2>2. CASE p \in Late
    <3>1. Promise!AssignLate(p, v)
      BY <2>1, <2>2 DEF deleg_set, store, Promise!AssignLate
    <3>2. QED
      BY <2>1, <2>2, <3>1 DEF Promise!Next
  <2>3. CASE p \in Observable /\ ~(Len(frames) >= MaxRuns)
    <3>1. Promise!AssignObservable(p, v)
      BY <2>1, <2>3 DEF deleg_set, store, invoke_closure, Promise!AssignObservable, Promise!Called
    <3>2. QED
      BY <2>1, <2>3, <3>1 DEF Promise!Next
  <2>4. CASE p \in Observable /\ Len(frames) >= MaxRuns
    <3>1. Promise!ThrowUntold(p, v)
      BY <2>1, <2>4 DEF deleg_set, store, invoke_closure, Promise!ThrowUntold
    <3>2. QED
      BY <2>1, <2>4, <3>1 DEF Promise!Next
  <2>5. CASE p \in Vetoable /\ ~(Len(frames) >= MaxRuns)
    <3>1. Promise!AssignVetoable(p, v)
      BY <2>1, <2>5 DEF deleg_set, invoke_closure, Promise!AssignVetoable, Promise!Called
    <3>2. QED
      BY <2>1, <2>5, <3>1 DEF Promise!Next
  <2>6. CASE p \in Vetoable /\ Len(frames) >= MaxRuns
    <3>1. Promise!Throw
      BY <2>1, <2>6 DEF deleg_set, invoke_closure, Promise!Throw
    <3>2. QED
      BY <3>1 DEF Promise!Next
  <2>7. QED
    BY <2>1, <2>2, <2>3, <2>4, <2>5, <2>6
<1>5. CASE ThunkReturns
  <2>1. PICK v \in Operand : (unwinding \/ v # Undef) /\ LazyEnds(v)
    BY <1>5 DEF ThunkReturns
  <2>2. CASE pending
    <3>1. Promise!Leave
      BY <2>1, <2>2 DEF LazyEnds, Ends, answers, Below, Promise!Leave, Promise!Outer
    <3>2. QED
      BY <3>1 DEF Promise!Next
  <2>3. CASE ~pending
    <3>1. v \in Values
      BY <2>1, <2>3 DEF Operand
    <3>2. Promise!Initialized(v)
      BY <2>1, <2>3 DEF LazyEnds, Ends, answers, store, Below, Top,
         Promise!Initialized, Promise!Running, Promise!Innermost, Promise!Outer
    <3>3. QED
      BY <3>1, <3>2 DEF Promise!Next
  <2>4. QED
    BY <1>1, <2>2, <2>3
<1>6. CASE HandlerReturns
  <2>1. CASE pending
    <3>1. Promise!Leave
      BY <1>6, <2>1 DEF HandlerReturns, VetoableEnds, ObservableEnds, Ends, Below,
         Promise!Leave, Promise!Outer
    <3>2. QED
      BY <3>1 DEF Promise!Next
  <2>2. CASE ~pending /\ ObservableEnds
    <3>1. Promise!Told
      BY <2>2 DEF ObservableEnds, Ends, Below, Top,
         Promise!Told, Promise!Running, Promise!Innermost, Promise!Outer
    <3>2. QED
      BY <3>1 DEF Promise!Next
  <2>3. ASSUME ~pending, NEW verdict \in BOOLEAN, VetoableEnds(verdict) PROVE Promise!Next
    <3>1. Promise!Judged(verdict)
      BY <2>3 DEF VetoableEnds, Ends, store, Below, Top,
         Promise!Judged, Promise!Running, Promise!Innermost, Promise!Outer
    <3>2. QED
      BY <3>1 DEF Promise!Next
  <2>4. QED
    BY <1>1, <1>6, <2>1, <2>2, <2>3 DEF HandlerReturns
<1>7. CASE Throw
  BY <1>7 DEF Throw, Promise!Throw, Promise!Next
<1>8. CASE Catch
  BY <1>8 DEF Catch, Promise!Catch, Promise!Next
<1>9. QED
  BY <1>2, <1>3, <1>4, <1>5, <1>6, <1>7, <1>8 DEF Next

\* Every access to a lazy, delegated or lateinit property is Kotlin's, for any
\* number of properties and any nesting of what the accesses run, as long as no
\* garbage is assigned.
THEOREM Implements == ASSUME Careful PROVE Spec => KeepsPromise
<1>1. Init => Promise!Init
  BY StartsAsPromised
<1>2. TypeOK /\ TypeOK' /\ [Next]_vars => [Promise!Next]_(Promise!vars)
  BY StepAsPromised DEF vars, Promise!vars
<1>3. QED
  BY <1>1, <1>2, TypeCorrect, PTL DEF Spec, KeepsPromise
=============================================================================

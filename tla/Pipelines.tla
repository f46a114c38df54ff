------------------------------- MODULE Pipelines -------------------------------
(***************************************************************************)
(* A traversal of a lazy sequence by hand: GenCursor::next, which asks the  *)
(* source for one element at a time and takes it through the stages, and    *)
(* gen_iter_step, which lifts the cursor out of the iterator's object while *)
(* it runs, because the stages run code of the program.                     *)
(*                                                                          *)
(* The elements of the source are 1, 2, ... in order, and a stage hands on  *)
(* the element it got.  What a lambda answers is chosen when it is called,  *)
(* and `said` remembers it: the properties compare the traversal with what  *)
(* Kotlin's lists make of the same answers.                                 *)
(***************************************************************************)
EXTENDS Integers, Sequences, SequencesExt

CONSTANTS Pipelines,   \* the pipelines to traverse: stages <<[k, n], ...>>
          Lengths,     \* how many elements the source may have
          None, Undef

Lambdas == {"map", "filter", "filterNot", "takeWhile", "dropWhile"}
Budgets == {"take", "drop"}

Stage == [k : Lambdas \cup Budgets, n : Nat]
Cursor == [at : Nat, stages : Seq(Stage), finished : BOOLEAN]
Pull == [cursor : Cursor, i : Nat, v : Nat \cup {None, Undef}, spent : BOOLEAN, take : BOOLEAN]

\* n is what a take or drop lets pass or drops; a dropWhile keeps there, once it
\* is traversed, that it has stopped dropping.
ASSUME PipelineAssumption ==
  /\ Pipelines \subseteq Seq(Stage) /\ Lengths \subseteq Nat
  /\ \A p \in Pipelines : \A i \in DOMAIN p : p[i].k \in Lambdas => p[i].n = 0
  /\ None \notin Nat \cup Pull /\ Undef \notin Nat \cup {None}

VARIABLES stages,  \* the pipeline, as built
          source,  \* "items" of a collection, the "step" of generateSequence from a
                   \* seed, or the "function" of one without
          length,  \* of the source
          heap,    \* HeapObj::GenIter: cursor and ahead
          pull,    \* the call of next() that runs: its cursor, stage and element
          pending, \* a throwable is pending
          asked,   \* how often the source was asked for an element
          said,    \* per stage, what its lambda was called on and answered
          out      \* what next() of the iterator answered

vars == <<stages, source, length, heap, pull, pending, asked, said, out>>
built == <<stages, source, length>>

\* GenCursor::open: the budgets are the traversal's own.
open(p) == [at |-> 0, stages |-> p, finished |-> FALSE]

Init ==
  /\ stages \in Pipelines /\ source \in {"items", "step", "function"} /\ length \in Lengths
  /\ source = "step" => length > 0   \* the seed
  /\ heap = [cursor |-> open(stages), ahead |-> None]
  /\ pull = None /\ pending = FALSE
  /\ asked = 0 /\ said = [i \in DOMAIN stages |-> <<>>] /\ out = <<>>

(* ---- gen_iter_step -------------------------------------------------------------- *)

\* An element hasNext() parked is taken; otherwise the cursor is copied.
Ask(take) ==
  /\ pull = None /\ ~pending
  /\ IF heap.ahead # None
     THEN /\ heap' = IF take THEN [heap EXCEPT !.ahead = None] ELSE heap
          /\ out' = IF take THEN Append(out, heap.ahead) ELSE out
          /\ UNCHANGED pull
     ELSE /\ pull' = [cursor |-> heap.cursor, i |-> 0, v |-> None, spent |-> FALSE, take |-> take]
          /\ UNCHANGED <<heap, out>>
  /\ UNCHANGED <<built, pending, asked, said>>

\* Mutation: the element hasNext() saw is not parked.
Answer_lost(cursor, v) ==
  /\ heap' = [cursor |-> cursor, ahead |-> None]
  /\ out' = IF pull.take /\ v # None /\ ~pending' THEN Append(out, v) ELSE out
  /\ pull' = None

\* The copy goes back, with the element if only hasNext() asked.
Answer(cursor, v) ==
  /\ heap' = [cursor |-> cursor, ahead |-> IF pull.take THEN None ELSE v]
  /\ out' = IF pull.take /\ v # None /\ ~pending' THEN Append(out, v) ELSE out
  /\ pull' = None

(* ---- GenCursor::next ------------------------------------------------------------- *)

finish == Answer([pull.cursor EXCEPT !.finished = TRUE], None)

\* The source runs code of the program to make element n: a step from the
\* element before it, a function also for the first.
StepRuns(n) == source = "function" \/ (source = "step" /\ n > 1)

\* Between two elements.  A step that throws, or that would run while a throwable
\* is pending, answers null, which is the end.
pull_source ==
  /\ pull # None /\ pull.i = 0
  /\ UNCHANGED <<built, said>>
  /\ \E throws \in BOOLEAN :
       LET n == pull.cursor.at + 1
           asks == ~pull.cursor.finished /\ ~(StepRuns(n) /\ pending)
       IN /\ throws => StepRuns(n) /\ asks
          /\ pending' = (pending \/ throws)
          /\ asked' = IF asks THEN asked + 1 ELSE asked
          /\ IF asks /\ n <= length /\ ~throws
             THEN /\ pull' = [cursor |-> [pull.cursor EXCEPT !.at = n], i |-> 1, v |-> n,
                              spent |-> FALSE, take |-> pull.take]
                  /\ UNCHANGED <<heap, out>>
             ELSE finish

At(kinds) == pull # None /\ pull.i \in DOMAIN stages /\ stages[pull.i].k \in kinds

\* The element goes on to the next stage, or is dropped here.
Pass(p) == pull' = [p EXCEPT !.i = @ + 1] /\ UNCHANGED <<heap, out>>
Skip(p) == pull' = [p EXCEPT !.i = 0] /\ UNCHANGED <<heap, out>>

Budget == pull.cursor.stages[pull.i].n
Spend == [pull EXCEPT !.cursor.stages[pull.i].n = Budget - 1]

\* Mutation: a take does not say that its last element passes.
Take_unspent ==
  /\ At({"take"})
  /\ UNCHANGED <<built, pending, asked, said>>
  /\ IF Budget <= 0 THEN finish ELSE Pass(Spend)

\* Mutation: a take calls the last but one its last.
Take_early ==
  /\ At({"take"})
  /\ UNCHANGED <<built, pending, asked, said>>
  /\ IF Budget <= 0 THEN finish ELSE Pass([Spend EXCEPT !.spent = @ \/ Budget <= 2])

\* `spent`: this element is the last one that passes here.
Take ==
  /\ At({"take"})
  /\ UNCHANGED <<built, pending, asked, said>>
  /\ IF Budget <= 0 THEN finish ELSE Pass([Spend EXCEPT !.spent = @ \/ Budget = 1])

Drop ==
  /\ At({"drop"})
  /\ UNCHANGED <<built, pending, asked, said>>
  /\ IF Budget > 0 THEN Skip(Spend) ELSE Pass(pull)

\* What a stage does with the answer of its lambda.
Judge(truthy) ==
  LET k == stages[pull.i].k IN
    CASE k = "map" -> Pass(IF pending' THEN [pull EXCEPT !.v = Undef] ELSE pull)
      [] k = "filter" -> IF truthy THEN Pass(pull) ELSE Skip(pull)
      [] k = "filterNot" -> IF truthy THEN Skip(pull) ELSE Pass(pull)
      [] k = "takeWhile" -> IF truthy THEN Pass(pull) ELSE finish
      [] k = "dropWhile" -> IF truthy THEN Skip(pull)
                            ELSE Pass([pull EXCEPT !.cursor.stages[pull.i].n = 1])

\* Mutation: a dropWhile that stopped is asked again.
Done_never == FALSE

\* DropWhile(_, done): it has stopped dropping.
Done == stages[pull.i].k = "dropWhile" /\ Budget = 1

\* A lambda that throws answers Undef, and none runs while one is pending.
CallLambda ==
  /\ At(Lambdas)
  /\ UNCHANGED <<built, asked>>
  /\ \E truthy \in BOOLEAN, throws \in BOOLEAN :
       LET calls == ~Done /\ ~pending IN
         /\ throws => ~truthy
         /\ ~calls => ~truthy /\ ~throws
         /\ stages[pull.i].k = "map" => ~truthy
         /\ pending' = (pending \/ throws)
         /\ said' = IF calls THEN [said EXCEPT ![pull.i] = Append(@, [x |-> pull.v, yes |-> truthy])]
                    ELSE said
         /\ IF Done THEN Pass(pull) ELSE Judge(truthy)

\* The element came through: the traversal has ended if a take let its last pass.
Deliver ==
  /\ pull # None /\ pull.i > Len(stages)
  /\ UNCHANGED <<built, pending, asked, said>>
  /\ Answer([pull.cursor EXCEPT !.finished = @ \/ pull.spent], pull.v)

HasNext == Ask(FALSE)
NextElement == Ask(TRUE)

\* A pending throwable ends the traversal for its consumer.
Failed == pull = None /\ pending /\ UNCHANGED vars

Next ==
  HasNext \/ NextElement \/ pull_source \/ Take \/ Drop \/ CallLambda \/ Deliver \/ Failed

Spec == Init /\ [][Next]_vars

(* ---- what Kotlin's lists make of it -------------------------------------------------- *)

\* The elements on which the lambda of each stage answered true.
Yes == [i \in DOMAIN stages |-> {call.x : call \in {c \in Range(said[i]) : c.yes}}]

\* How many elements of s before the first one outside S.
Leading(S, s) ==
  CHOOSE n \in 0..Len(s) : /\ \A j \in 1..n : s[j] \in S
                           /\ n = Len(s) \/ s[n + 1] \notin S

\* The elements of s in S.
Only(S, s) ==
  LET kept[n \in 0..Len(s)] ==
        IF n = 0 THEN <<>>
        ELSE IF s[n] \in S THEN Append(kept[n - 1], s[n]) ELSE kept[n - 1]
  IN kept[Len(s)]

\* What a stage makes of the list s when its lambda answers true on S.
Through(stage, S, s) ==
  CASE stage.k = "map" -> s
    [] stage.k = "filter" -> Only(S, s)
    [] stage.k = "filterNot" -> Only(Nat \ S, s)
    [] stage.k = "takeWhile" -> SubSeq(s, 1, Leading(S, s))
    [] stage.k = "dropWhile" -> SubSeq(s, Leading(S, s) + 1, Len(s))
    [] stage.k = "take" -> SubSeq(s, 1, Min({stage.n, Len(s)}))
    [] stage.k = "drop" -> SubSeq(s, stage.n + 1, Len(s))

\* On which elements of s its lambda is called.
Called(stage, S, s) ==
  IF stage.k \in {"takeWhile", "dropWhile"} THEN SubSeq(s, 1, Min({Leading(S, s) + 1, Len(s)})) ELSE s

\* What of the elements 1..n comes out of each stage of p, the source being stage 0,
\* when the lambda of stage i answers true on S[i].
Eager(p, S, n) ==
  LET list[i \in 0..Len(p)] ==
        IF i = 0 THEN [j \in 1..n |-> j] ELSE Through(p[i], S[i], list[i - 1])
  IN list

\* The first n elements of the source, with the answers the lambdas gave.
Lists(n) == Eager(stages, Yes, Min({n, length}))

\* After n elements nothing more can come: the source has no further one, or a
\* stage lets no further one pass.
Ended(n) ==
  \/ n > length
  \/ \E i \in DOMAIN stages :
       LET s == Lists(n)[i - 1] IN
         \/ stages[i].k = "take" /\ Len(s) >= stages[i].n
         \/ stages[i].k = "takeWhile" /\ Leading(Yes[i], s) < Len(s)

(* ---- properties ------------------------------------------------------------------------ *)

Elements == 1..length

\* The cursor keeps the pipeline's stages and changes only their budgets; the
\* iterator parks an element of the source or nothing, except that a lambda that
\* threw under hasNext() leaves the nothing it answered.
TypeOK ==
  /\ heap.cursor \in Cursor
  /\ heap.ahead \in Elements \cup {None} \cup (IF pending THEN {Undef} ELSE {})
  /\ pull # None => /\ pull.cursor \in Cursor /\ pull.i \in 0..(Len(stages) + 1)
                    /\ pull.v \in Elements \cup {None, Undef}
                    /\ pull.v = Undef => pending
  /\ out \in Seq(Elements)
  /\ \A c \in {heap.cursor} \cup (IF pull = None THEN {} ELSE {pull.cursor}) :
       [i \in DOMAIN c.stages |-> c.stages[i].k] = [i \in DOMAIN stages |-> stages[i].k]

AtRest == pull = None /\ ~pending

\* However hasNext() and next() alternate, the elements delivered and the one
\* parked are what the eager operations make of the elements asked for: the
\* per-traversal budgets of the stages (host.rs:9932) are those of the list.
DeliversTheList ==
  AtRest => out \o (IF heap.ahead = None THEN <<>> ELSE <<heap.ahead>>)
            = Lists(asked)[Len(stages)]

\* No stage that drops elements comes after a take, and no take is of nothing.
Passing(p) ==
  \A i \in DOMAIN p : p[i].k = "take" =>
    /\ p[i].n > 0
    /\ \A j \in DOMAIN p : i < j => p[j].k \in {"map", "take", "takeWhile"}

\* "A spent `take` ends the traversal without another pull" (host.rs:9922): the
\* source, whose elements may run code and may never end, is not asked for an
\* element once no further one could pass the stages (of a pipeline that is Passing).
AsksNoFurther == asked = 0 \/ ~Ended(asked - 1)

\* Each lambda has been called on exactly the elements that reached its stage,
\* once and in order, however often hasNext() was asked; one that ends or stops
\* its stage is not called again.
CallsInOrder ==
  AtRest => \A i \in DOMAIN stages : stages[i].k \in Lambdas =>
    [j \in DOMAIN said[i] |-> said[i][j].x] = Called(stages[i], Yes[i], Lists(asked)[i - 1])

\* A traversal that is over has no element left to deliver.
EndsAtTheEnd == AtRest /\ heap.cursor.finished => Ended(asked)
=============================================================================

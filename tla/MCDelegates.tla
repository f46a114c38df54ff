------------------------------ MODULE MCDelegates ------------------------------
(***************************************************************************)
(* What lambdas share with the code around them.  Either the lazy, delegated  *)
(* and lateinit properties of Delegates are used, whose initializers and         *)
(* handlers are lambdas; or a program with local functions and lambdas is         *)
(* compiled and run (Closures).                                                    *)
(***************************************************************************)
EXTENDS Delegates

CONSTANTS None, Names, FrameSlots, Floors

VARIABLES subs, stack, run_frames, cells, out, expected
run_vars == <<subs, stack, run_frames, cells, out, expected>>
Shared == INSTANCE Closures WITH frames <- run_frames

\* No program runs while the properties are used, and none is used by a program that runs.
NothingRuns == Shared!Refused /\ expected = None
Unused == Init /\ \A p \in Observable \cup Vetoable : value[p] = CHOOSE v \in Values : TRUE

Uses == Next /\ UNCHANGED run_vars
Runs == Shared!Next /\ UNCHANGED vars
\* Delegates may stop where nothing is left to catch.
Rests == expected = None /\ UNCHANGED <<vars, run_vars>>

AllSpec ==
  /\ (Init /\ NothingRuns) \/ (Unused /\ Shared!Init)
  /\ [][(expected = None /\ Uses) \/ (expected # None /\ Runs) \/ Rests]_<<vars, run_vars>>

\* A program with local functions and lambdas prints what it prints in Kotlin: what a lambda
\* or local fun and its frame share stays shared, and nothing else is (Closures;
\* compiler.rs:17266-17344, 5042-5095).
VariablesShared == expected # None => Shared!VariablesShared
=============================================================================

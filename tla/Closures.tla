------------------------------- MODULE Closures --------------------------------
(***************************************************************************)
(* Variables that functions share: how src/src/compiler.rs finds what a lambda  *)
(* or a local fun captures and lowers it, and how the machine runs that.         *)
(*                                                                               *)
(* Captures travel by value, a lambda's in its closure, a local fun's as          *)
(* trailing arguments of every call.  A var that a lambda or local fun shares      *)
(* with its frame is therefore kept in a heap cell, and what travels is the         *)
(* handle.  Results of functions, receivers, objects and types are left out.        *)
(***************************************************************************)
EXTENDS KotlinClosures, SequencesExt

CONSTANTS Names,   \* that programs use
          Floors,  \* values of CAPTURE_SCAN_FLOOR
          None

UndefValue == <<"undef">>

(* ---- what a body mentions and writes ---------------------------------------- *)

\* The expressions of a statement (body_any goes into lambdas as well).
Exprs(s) ==
  CASE s.k \in {"let", "set", "show"} -> {s.e}
    [] s.k = "call" -> Range(s.args)
    [] OTHER -> {}

\* The bodies right below a statement.
Bodies(s) ==
  (IF s.k \in {"fun", "if", "while"} THEN {s.body} ELSE {})
    \cup { e.body : e \in {x \in Exprs(s) : x.k = "lambda"} }

\* Every statement of a body, those of nested ones included.
RECURSIVE stmt_any(_)
stmt_any(body) ==
  Range(body) \cup UNION { stmt_any(b) : b \in UNION { Bodies(s) : s \in Range(body) } }
expr_any(body) == UNION { Exprs(s) : s \in stmt_any(body) }

mentioned_names(body) ==
  { e.n : e \in {x \in expr_any(body) : x.k \in {"name", "less", "inc"}} }
    \cup { s.n : s \in {x \in stmt_any(body) : x.k # "show"} }

written(body) ==
  { s.n : s \in {x \in stmt_any(body) : x.k = "set"} }
    \cup { e.n : e \in {x \in expr_any(body) : x.k = "inc"} }

\* The bodies of the lambdas and local funs in body.
inner(body) ==
  { e.body : e \in {x \in expr_any(body) : x.k = "lambda"} }
    \cup { s.body : s \in {x \in stmt_any(body) : x.k = "fun"} }

\* Mutation: only what a lambda or local fun writes itself.
shared_written(body) == UNION { written(b) : b \in inner(body) }
shared_captures(body) == UNION { mentioned_names(b) : b \in inner(body) } \cap written(body)

(* ---- the compiler ------------------------------------------------------------- *)

\* A name, or the shadow key a capture has where a parameter bears its name.
Key(n) == <<n, "own">>
cap_key(n) == <<n, "cap">>
Keys == Names \X {"own", "cap"}

\* The compiler over one frame: scope and boxed_vars of the frame, the local funs in
\* sight, the code so far, and what is queued for later.
Frame(c, boxed) ==
  [c EXCEPT !.map = [k \in Keys |-> None], !.next = 0, !.boxed = boxed, !.code = <<>>]
Compiler ==
  [map |-> [k \in Keys |-> None], next |-> 0, boxed |-> {}, code |-> <<>>,
   local_funs |-> [n \in Names |-> None], local_caps |-> [n \in Names |-> <<>>],
   seen |-> 0, pending_lambdas |-> <<>>, pending_local_funs |-> <<>>,
   subs |-> <<>>, error |-> FALSE]

Emit(c, ops) == [c EXCEPT !.code = @ \o ops]
Op(op, arg) == [op |-> op, arg |-> arg]
Error(c) == [c EXCEPT !.error = TRUE]

declare_full(c, key, mutable, boxed) ==
  [c EXCEPT !.map[key] = [key |-> key, slot |-> c.next, mutable |-> mutable, boxed |-> boxed],
            !.next = @ + 1]
\* Scope::exit, with everything in the scope as it was at the mark.
exit(c, mark) == [c EXCEPT !.map = mark.map, !.next = mark.next]

BySlot(bindings) == SetToSortSeq(bindings, LAMBDA a, b : a.slot < b.slot)
visible(c) == { c.map[k] : k \in {x \in Keys : c.map[x] # None} }
visible_mentioned(c, keys) == { b \in visible(c) : b.key \in keys }

\* A lambda that calls a local fun needs what that captures, under either key.
lambda_mentioned(c, body) ==
  LET names == mentioned_names(body)
      extra == UNION { Range(c.local_caps[n]) : n \in names }
  IN  {Key(n) : n \in names} \cup {Key(p.name) : p \in extra} \cup {cap_key(p.name) : p \in extra}

\* What a local fun is handed: what it mentions but for its parameters, and what the
\* local funs it mentions are handed, in the order of the names.
local_fun_caps(c, s) ==
  LET names == mentioned_names(s.body)
      own == names \ Range(s.ps)
      of_callees == { p.name : p \in UNION { Range(c.local_caps[n]) : n \in names } }
      wanted == { n \in own \cup of_callees : c.map[Key(n)] # None }
  IN  SetToSeq({ [name |-> n, boxed |-> c.map[Key(n)].boxed] : n \in wanted })

\* Mutation: the shadow key is not looked at.
cap_bare(c, p) == Key(p.name)
cap_slot(c, p) == IF c.map[cap_key(p.name)] # None THEN cap_key(p.name) ELSE Key(p.name)

Push(c, keys) == Emit(c, [i \in DOMAIN keys |-> Op("GetSlot", c.map[keys[i]].slot)])
Unresolved(c, keys) == \E k \in Range(keys) : c.map[k] = None

CaptureScan(c, body, floor) ==
  IF Cardinality(visible(c)) > floor THEN visible_mentioned(c, lambda_mentioned(c, body))
  ELSE visible(c)

compile_lambda(c, e, floor) ==
  LET caps == BySlot({b \in CaptureScan(c, e.body, floor) : b.key \notin {Key(p) : p \in Range(e.ps)}})
      pushed == Push(c, [i \in DOMAIN caps |-> caps[i].key])
      id == c.seen + 1
  IN  [Emit(pushed, <<Op("MakeClosure", [sub |-> id, params |-> Len(e.ps), ncap |-> Len(caps)])>>)
        EXCEPT !.seen = id,
               !.pending_lambdas = Append(@, [id |-> id, ps |-> e.ps, body |-> e.body, caps |-> caps,
                                              local_funs |-> c.local_funs,
                                              local_caps |-> c.local_caps])]

Read(c, n) ==
  LET b == c.map[Key(n)]
  IN  IF b = None THEN Error(c)
      ELSE Emit(c, <<Op("GetSlot", b.slot)>> \o (IF b.boxed THEN <<Op("CellGet", 0)>> ELSE <<>>))

\* StmtKind::Assign, around the value: into the cell of a boxed var, else the slot.
Target(c, n) ==
  LET b == c.map[Key(n)]
  IN  IF b = None \/ ~b.mutable THEN Error(c)
      ELSE IF b.boxed THEN Emit(c, <<Op("GetSlot", b.slot)>>) ELSE c
Store(c, n) ==
  LET b == c.map[Key(n)]
  IN  IF b = None THEN c
      ELSE Emit(c, <<IF b.boxed THEN Op("CellSet", 0) ELSE Op("SetSlot", b.slot)>>)

\* Postfix: the value before the update waits in a temporary slot.
compile_incdec(c, n) ==
  LET temp == c.next
      saved == Emit(Read(c, n), <<Op("SetSlot", temp)>>)
      target == Target([saved EXCEPT !.next = @ + 1], n)
      updated == Store(Emit(Read(target, n), <<Op("Add", 1)>>), n)
  IN  exit(Emit(updated, <<Op("GetSlot", temp)>>), c)

compile_expr(c, e, floor) ==
  CASE e.k = "lit" -> Emit(c, <<Op("Load", Number(e.v))>>)
    [] e.k = "name" -> Read(c, e.n)
    [] e.k = "less" -> Emit(Read(c, e.n), <<Op("Add", -1)>>)
    [] e.k = "inc" -> compile_incdec(c, e.n)
    [] e.k = "lambda" -> compile_lambda(c, e, floor)

compile_args(c, es, floor) == FoldLeft(LAMBDA d, e : compile_expr(d, e, floor), c, es)

\* StmtKind::LocalFun emits nothing: the function is registered and queued.
compile_local_fun(c, s) ==
  LET caps == local_fun_caps(c, s)
      id == c.seen + 1
      known == [c EXCEPT !.seen = id, !.local_funs[s.n] = [sub |-> id, arity |-> Len(s.ps)],
                         !.local_caps[s.n] = caps]
  IN  [known EXCEPT !.pending_local_funs =
         Append(@, [id |-> id, ps |-> s.ps, body |-> s.body, caps |-> caps,
                    local_funs |-> known.local_funs, local_caps |-> known.local_caps])]

\* A call of a local binding, or else of a local fun with its captures.
compile_call(c, s, floor) ==
  IF c.map[Key(s.n)] # None
  THEN Emit(compile_args(Push(c, <<Key(s.n)>>), s.args, floor), <<Op("Invoke", Len(s.args))>>)
  ELSE IF c.local_funs[s.n] = None THEN Error(c)
  ELSE LET caps == c.local_caps[s.n]
           keys == [i \in DOMAIN caps |-> cap_slot(c, caps[i])]
       IN  IF Unresolved(c, keys) THEN Error(c)
           ELSE Emit(Push(compile_args(c, s.args, floor), keys),
                     <<Op("Call", [sub |-> c.local_funs[s.n].sub, argc |-> Len(s.args) + Len(caps)])>>)

compile_let(c, s, floor) ==
  LET init == compile_expr(c, s.e, floor)
      boxed == s.mutable /\ s.n \in c.boxed
  IN  Emit(declare_full(init, Key(s.n), s.mutable, boxed),
           (IF boxed THEN <<Op("NewCell", 0)>> ELSE <<>>) \o <<Op("SetSlot", init.next)>>)

RECURSIVE compile_stmts(_, _, _)

\* A body in a scope of its own; what the scope holds is gone afterwards, the local
\* funs it registered are not.
compile_block(c, body, floor) ==
  exit(compile_stmts([c EXCEPT !.code = <<>>], body, floor), c)

compile_stmt(c, s, floor) ==
  CASE s.k = "let" -> compile_let(c, s, floor)
    [] s.k = "set" -> Store(compile_expr(Target(c, s.n), s.e, floor), s.n)
    [] s.k = "show" -> Emit(compile_expr(c, s.e, floor), <<Op("Println", 0)>>)
    [] s.k = "fun" -> compile_local_fun(c, s)
    [] s.k = "call" -> Emit(compile_call(c, s, floor), <<Op("Pop", 0)>>)
    [] s.k = "if" ->
         LET cond == Read([c EXCEPT !.code = <<>>], s.n)
             body == compile_block(cond, s.body, floor)
         IN  [body EXCEPT !.code = c.code \o cond.code
                \o <<Op("JumpIfFalse", Len(body.code))>> \o body.code]
    \* The condition is copied to the end of the loop.
    [] s.k = "while" ->
         LET cond == Read([c EXCEPT !.code = <<>>], s.n)
             body == compile_block(cond, s.body, floor)
             size == Len(body.code) + Len(cond.code) + 1
         IN  [body EXCEPT !.code = c.code \o cond.code \o <<Op("JumpIfFalse", size)>>
                \o body.code \o cond.code \o <<Op("JumpIfTrue", -size)>>]
compile_stmts(c, body, floor) == FoldLeft(LAMBDA d, s : compile_stmt(d, s, floor), c, body)

\* The code of a body: what the call pushed goes into the first slots.
Sub(c, id, nslots, body, floor) ==
  LET done == compile_stmts(Emit(c, <<Op("Bind", nslots)>>), body, floor)
  IN  [done EXCEPT !.subs = (id :> Append(done.code, Op("ReturnValue", 0))) @@ @]

Parameters(c, ps) == FoldLeft(LAMBDA d, p : declare_full(d, Key(p), FALSE, FALSE), c, ps)

compile_lambda_body(c, p, floor) ==
  LET fresh == Frame([c EXCEPT !.local_funs = p.local_funs, !.local_caps = p.local_caps],
                     shared_captures(p.body))
      bound == FoldLeft(LAMBDA d, b : declare_full(d, b.key, b.boxed, b.boxed),
                        Parameters(fresh, p.ps), p.caps)
  IN  Sub(bound, p.id, Len(p.ps) + Len(p.caps), p.body, floor)

compile_fun_captured(c, p, floor) ==
  LET fresh == Frame([c EXCEPT !.local_funs = p.local_funs, !.local_caps = p.local_caps],
                     shared_captures(p.body))
      key(b) == IF b.name \in Range(p.ps) THEN cap_key(b.name) ELSE Key(b.name)
      bound == FoldLeft(LAMBDA d, b : declare_full(d, key(b), b.boxed, b.boxed),
                        Parameters(fresh, p.ps), p.caps)
  IN  Sub(bound, p.id, Len(p.ps) + Len(p.caps), p.body, floor)

\* The two queues drain together, the last in first.
RECURSIVE drain_pending(_, _)
drain_pending(c, floor) ==
  IF c.pending_lambdas # <<>>
  THEN drain_pending(compile_lambda_body([c EXCEPT !.pending_lambdas = Front(@)],
                                         Last(c.pending_lambdas), floor), floor)
  ELSE IF c.pending_local_funs # <<>>
  THEN drain_pending(compile_fun_captured([c EXCEPT !.pending_local_funs = Front(@)],
                                          Last(c.pending_local_funs), floor), floor)
  ELSE c

compile(program, floor) ==
  drain_pending(Sub(Frame(Compiler, shared_captures(program)), 0, 0, program, floor), floor)

(* ---- the machine ------------------------------------------------------------------ *)

CONSTANT FrameSlots  \* bound on the slots of a frame

VARIABLES subs,    \* the code of each body; main's is 0
          stack, frames, cells, out

machine == <<stack, frames, cells, out>>

NewFrame(sub, base) == [sub |-> sub, pc |-> 1, base |-> base, slots |-> [i \in 0..FrameSlots - 1 |-> UndefValue]]
Fr == Last(frames)
Cur == subs[Fr.sub][Fr.pc]
At(op) == frames # <<>> /\ Cur.op = op
Top(i) == stack[Len(stack) - i]       \* 0 is the last
Drop(n) == SubSeq(stack, 1, Len(stack) - n)
Step(fr) == frames' = [frames EXCEPT ![Len(frames)] = [fr EXCEPT !.pc = @ + 1]]

\* Operations on the operand stack alone.
Operate ==
  /\ \/ At("Load") /\ stack' = Append(stack, Cur.arg)
     \/ At("GetSlot") /\ stack' = Append(stack, Fr.slots[Cur.arg])
     \/ At("Add") /\ stack' = Append(Drop(1), Number(Top(0)[2] + Cur.arg))
     \/ At("CellGet") /\ stack' = Append(Drop(1), cells[Top(0)[2]])
     \/ At("MakeClosure") /\ stack' =
          Append(Drop(Cur.arg.ncap),
                 <<"closure", Cur.arg.sub, Cur.arg.params,
                   SubSeq(stack, Len(stack) - Cur.arg.ncap + 1, Len(stack))>>)
     \/ At("Pop") /\ stack' = Drop(1)
  /\ Step(Fr) /\ UNCHANGED <<subs, cells, out>>

SetSlot ==
  /\ At("SetSlot")
  /\ Step([Fr EXCEPT !.slots[Cur.arg] = Top(0)]) /\ stack' = Drop(1)
  /\ UNCHANGED <<subs, cells, out>>

NewCell ==
  /\ At("NewCell")
  /\ cells' = Append(cells, Top(0))
  /\ stack' = Append(Drop(1), <<"cell", Len(cells) + 1>>)
  /\ Step(Fr) /\ UNCHANGED <<subs, out>>

CellSet ==
  /\ At("CellSet")
  /\ cells' = [cells EXCEPT ![Top(1)[2]] = Top(0)] /\ stack' = Drop(2)
  /\ Step(Fr) /\ UNCHANGED <<subs, out>>

Println ==
  /\ At("Println")
  /\ out' = Append(out, Top(0)) /\ stack' = Drop(1)
  /\ Step(Fr) /\ UNCHANGED <<subs, cells>>

Jump ==
  /\ At("JumpIfFalse") \/ At("JumpIfTrue")
  /\ Step([Fr EXCEPT !.pc = IF (Top(0)[2] > 0) = (Cur.op = "JumpIfTrue") THEN @ + Cur.arg ELSE @])
  /\ stack' = Drop(1)
  /\ UNCHANGED <<subs, cells, out>>

Enter(sub, base) ==
  frames' = Append([frames EXCEPT ![Len(frames)].pc = @ + 1], NewFrame(sub, base))

FunCall ==
  /\ At("Call")
  /\ Enter(Cur.arg.sub, Len(stack) - Cur.arg.argc)
  /\ UNCHANGED <<subs, stack, cells, out>>

\* invoke_closure: the arguments, cut or filled up to the parameters, and the captures
\* take the place of the closure and its arguments.
Invoke ==
  /\ At("Invoke")
  /\ LET clo == Top(Cur.arg)
         arg(i) == IF i <= Cur.arg THEN Top(Cur.arg - i) ELSE UndefValue
     IN  /\ stack' = Drop(Cur.arg + 1) \o [i \in 1..clo[3] |-> arg(i)] \o clo[4]
         /\ Enter(clo[2], Len(stack) - Cur.arg - 1)
  /\ UNCHANGED <<subs, cells, out>>

\* The prologue of a body.
BindSlots ==
  /\ At("Bind")
  /\ LET n == Cur.arg
     IN  /\ Step([Fr EXCEPT !.slots = [i \in DOMAIN @ |-> IF i < n THEN Top(n - 1 - i) ELSE @[i]]])
         /\ stack' = Drop(n)
  /\ UNCHANGED <<subs, cells, out>>

\* ReturnValue: the frame's operands go, its result stays.
ReturnValue ==
  /\ At("ReturnValue")
  /\ stack' = IF Len(frames) = 1 THEN <<>> ELSE Append(SubSeq(stack, 1, Fr.base), UndefValue)
  /\ frames' = Front(frames)
  /\ UNCHANGED <<subs, cells, out>>

MachineInit(code) ==
  subs = code /\ stack = <<>> /\ frames = <<NewFrame(0, 0)>> /\ cells = <<>> /\ out = <<>>

Refused == subs = <<>> /\ stack = <<>> /\ frames = <<>> /\ cells = <<>> /\ out = <<>>

MachineNext ==
  Operate \/ SetSlot \/ NewCell \/ CellSet \/ Println \/ Jump \/ FunCall \/ Invoke
    \/ BindSlots \/ ReturnValue

(* ---- families of programs -------------------------------------------------- *)

X == Name("x")
Y == Name("y")
\* What the bodies of f do with x, and f and g with what they call.
Reads == << Show(X) >>
Writes == << Set("x", Lit(7)), Show(X) >>
Counts == << Show(PostInc("x")) >>
Shadows == << Var("x", Lit(8)), Set("x", PostInc("x")), Show(X) >>
Nested == << Val("h", Lambda(<<>>, << Show(PostInc("x")) >>)), Call("h", <<>>), Show(X) >>
Own == << Var("y", Lit(4)), Val("h", Lambda(<<"p">>, << Show(PostInc("y")), Show(Name("p")) >>)),
          Call("h", <<Y>>), Call("h", <<X>>), Show(Y) >>
Reading == {Reads, Shadows, Own}
Writing == {Reads, Writes, Counts, Shadows, Nested, Own}

Recursive(n, body) == Fun(n, <<"p">>, body \o << If("p", << Call(n, << Minus1("p") >>) >>) >>)

\* g calls f: as it is, under a parameter of the name of what f captures, from a lambda,
\* from a function of its own.
Callers ==
  { Fun("g", <<>>, << Call("f", <<Lit(1)>>) >>),
    Fun("g", <<"x">>, << Call("f", <<X>>), Show(X) >>),
    Fun("g", <<"x">>, << Val("h", Lambda(<<"p">>, << Call("f", <<Name("p")>>), Show(X) >>)),
                         Call("h", <<Lit(1)>>) >>),
    Fun("g", <<>>, << Val("h", Lambda(<<"p">>, << Call("f", <<Name("p")>>) >>)),
                      Call("h", <<Lit(1)>>), Call("h", <<X>>) >>),
    Fun("g", <<>>, << Fun("k", <<"p">>, << Call("f", <<Lit(0)>>), Show(Y) >>),
                      Call("k", <<Lit(0)>>) >>) }

\* A lambda kept in a variable, written and read at different times.
Kept ==
  { << >>,
    << Val("h", Lambda(<<"p">>, << Show(X), Show(Y) >>)) >>,
    << Val("h", Lambda(<<"p">>, << Show(X), Show(Y), Set("y", Name("p")) >>)) >>,
    << Val("h", Lambda(<<"x">>, << Show(PostInc("y")), Show(X) >>)) >>,
    << Val("h", Lambda(<<"p">>, << Var("y", Name("p")),
                                   Val("k", Lambda(<<>>, << Show(PostInc("y")), Show(X) >>)),
                                   Call("k", <<>>), Call("k", <<>>) >>)) >> }

Uses(kept) ==
  { << Call("g", <<Lit(2)>>), Call("g", <<Lit(2)>>) >>,
    << Set("y", Lit(5)), Call("f", <<Lit(2)>>), Show(Y), Call("g", <<Lit(0)>>) >>,
    << While("y", << Var("z", Y), Val("m", Lambda(<<>>, << Show(PostInc("z")) >>)), Set("z", Y),
                     Call("m", <<>>), Show(Name("z")), Set("y", Minus1("y")) >>) >>,
    << If("x", << Var("y", Lit(9)), Set("y", PostInc("y")), Show(Y), Call("f", <<Lit(0)>>) >>),
       Show(Y) >> }
  \cup (IF kept = <<>> THEN {}
        ELSE { << Call("h", <<Lit(3)>>), Set("y", Lit(6)), Call("h", <<Lit(2)>>),
                  Call("g", <<Lit(0)>>), Call("h", <<X>>) >>,
               << If("x", << Var("y", Lit(9)), Call("h", <<Lit(3)>>), Show(Y) >>), Show(Y) >> })

Families(x, bodies) ==
  UNION { UNION { { << x, Var("y", Lit(2)), f, g >> \o kept \o use \o << Show(X), Show(Y) >>
                    : use \in Uses(kept) }
                  : kept \in Kept }
          : g \in Callers,
            f \in { Fun("f", <<"p">>, b) : b \in bodies } \cup { Recursive("f", b) : b \in bodies } }

\* Frames in frames: a lambda with a function and a lambda of its own.
Deep ==
  { << Var("x", Lit(1)),
       Val("h", Lambda(<<"y">>, << Var("z", Y), Fun("f", <<>>, inner_f),
                                   Val("k", Lambda(<<"p">>, inner_k \o << Call("f", <<>>) >>)),
                                   Call("k", <<X>>), Show(Name("z")) >>)),
       Call("h", <<Lit(2)>>), Set("x", PostInc("x")), Call("h", <<X>>), Show(X) >>
    : inner_f \in Writing \cup { << Show(PostInc("z")), Show(X) >>, << Set("z", X), Set("x", Y) >> },
      inner_k \in { <<>>, << Set("z", Name("p")) >>, << Set("x", PostInc("z")) >>,
                    << Fun("m", <<"z">>, << Set("x", Name("z")), Call("f", <<>>) >>),
                       Call("m", <<Name("p")>>) >> } }

SharedVariables ==
  Families(Val("x", Lit(1)), Reading) \cup Families(Var("x", Lit(1)), Writing) \cup Deep

(* ---- a program, and what it prints in Kotlin -------------------------------- *)

VARIABLE expected    \* what the program prints in Kotlin
vars == <<subs, machine, expected>>

\* A program that is refused prints nothing.
Init ==
  \E program \in SharedVariables, floor \in Floors :
    LET c == compile(program, floor)
    IN  /\ expected = Printed(program)
        /\ IF c.error THEN Refused ELSE MachineInit(c.subs)

Finished == frames = <<>> /\ UNCHANGED vars
Next == (MachineNext /\ UNCHANGED expected) \/ Finished

Spec == Init /\ [][Next]_vars

\* A program prints what it prints in Kotlin: what a lambda or local fun and its frame
\* share stays shared, and nothing else is (compiler.rs:17266-17344, 5042-5095).
VariablesShared ==
  /\ \A i \in DOMAIN out : i \in DOMAIN expected /\ out[i] = expected[i]
  /\ frames = <<>> => out = expected
=============================================================================

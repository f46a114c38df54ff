# A verification project for kotlinrs

kotlinrs runs Kotlin scripts: it lexes and parses a source file, checks and
lowers it to the bytecode of an external stack machine (fusevm), and runs that
bytecode against a host of some three hundred builtins (`src/src/host.rs`) that
hold everything the machine has no notion of - exceptions, coroutines, objects,
collections, live views. This directory models the parts of it where the order
of events matters and the decisions of its front end that a test suite can only
sample, checks them with TLC and proves theorems about the core with TLAPS. Paths below are relative to the repository (`src/src/host.rs:4549` is
line 4549 of the host).

Run everything from this directory:

    tlc -workers 2 -config MCUnwind_unwind.cfg MCUnwind
    tlapm UnwindProofs.tla

## 1. Inventory

The whole interpreter is single-threaded, and all run-time state is in
thread-locals of the host or in the machine (`vm.ip`, `vm.frames`, `vm.stack`,
the halt flag). There are still several *actors*, because control is handed
around: a host builtin calls back into the machine it was called from
(`run_sub`), a sequence block is suspended and put back (`coro_next`), a marker
in a debugged program turns the same thread into a request server
(`on_debug_line`). What is hard in this code is exactly what is shared between
those actors without any of them having been told: the operand stack, the
in-flight throwable, the parked finalizer entries, the pipe behind stdout.

| component | where | state it keeps | operations | how it meets the others |
|---|---|---|---|---|
| exception unwinding, run time | host.rs 4531-4577, 5086-5215, 6744-6768 | `PENDING` (throwable in flight), `STASH` (what each running finalizer parked), `NLR` (target and value of a non-local return), `EXC_ENABLED`, `KT_ERROR` | throw, fault, match, take, depth, cut, stash, unstash, abort, nlr raise/match/take | every builtin with an effect asks `unwinding()`; the compiler emits a check after every statement |
| exception unwinding, lowering | compiler.rs 5294-5386, 5877-6140, 7094-7292 | `UnwindFrame` stack, `finally_returns`, `finally_exits`, `LoopCtx`s, `nlr_catch` | `compile_try`, `emit_finally`, `route_loop_exit`, `unwind_check`, return, break, continue, loops, lambdas | writes the code whose discipline the run-time half relies on |
| sequence and iterator blocks | host.rs 2686-2710, 7594-7621, 10146-10270, 10397-10420 | per block: Fresh / Suspended (ip, frames, operands) / Done; `CoroIter`'s look-ahead cell; `YIELDED` | `KT_SEQ_NEW`, `KT_YIELD`, `coro_next`, `coro_iter_step`, `KT_ITER_PULL`, `hasNext`, `next` | shares machine, `PENDING` and `STASH` with its consumer |
| nested runs, call depth | host.rs 6771-6820, 8311-8418 | `RUN_SUB_IPS`, `NESTED_DEPTH`, call depth | `invoke_closure`, `run_sub`, `KT_DEPTH_GUARD` | every builtin that takes a lambda |
| sequence pipelines | host.rs 9895-10127, 10393-10640 | `GenCursor` stages, once-only tokens | `gen_iter_step`, `b_iter_src`, terminal operations | run lambdas while a copy of the cursor is out |
| object and companion initialization | host.rs 4500-4530, 7421-7470; compiler.rs 3960-4080 | the object's global, `FAILED_INIT`, `INIT_DEPTH` | first use, `KT_OBJ_INIT_ENTER/EXIT` | runs user code inside an expression, throws |
| lazy, lateinit, delegates | host.rs 10852-10990 | cell value, initialised flag | `lazy` get, delegate get/set, observable, vetoable | runs a thunk with the cell released |
| collections and iterators | host.rs (`MOD_COUNTS`, `note_mod`, Iter objects) | elements, modification counts, cursors | mutating members, `KT_ITER_MORE` | comodification of a loop by its body |
| members of collections | host.rs 8850-9230, 10760-12540, 13990-14240, 16337-18790 | the elements and the class a read-only collection has on the JVM | `coll_hof`, `obj_method`, `sequence_member`, `operator_apply`, `index_set` | call lambdas in the middle of a read or a write |
| live views | host.rs (`MAP_VIEWS`, `SUBLISTS`, `REVERSED_VIEWS`, `DEFAULT_MAPS`, `BACKING_WRITES`, `VIEW_SEEN`) | copy of the backing object, write count seen | refresh on read, write-through | staleness against the backing object |
| hash order, key index | host.rs 2005-2350, 16622-17240, 17610-17667, 19100-19160 (`COLL_ORDER`, `COLL_UNORDERED`, `reorder`, `hash_order`, `KeyIndex`) | whether the entries are in order, the index and the length it was built over | put, remove, `getOrPut`, remaps, navigation of sorted maps | order is made when somebody looks, the index when somebody asks; a lambda may come in between |
| priority queue | host.rs 940-1010 | heap array | sift up, sift down | a user comparator that re-enters the machine |
| ranges and progressions | host.rs 2790-2860 | first, last, step | count, at, contains | arithmetic at the ends of i64 |
| heap and side tables | host.rs 2930-3010 | `HEAP` (append-only), about thirty tables keyed by handle | `reset_heap` | one per launch |
| debug adapter | dap.rs | breakpoints, verified lines, step mode, the pipe behind stdout, `terminated` | requests, `launch`, markers, `drain_output` | is the same thread as the program |
| language server | lsp.rs | open documents | didOpen/didChange/didClose, queries | none; one message at a time |
| lexer | lexer.rs, token.rs | position | scanning | drops line breaks, which the parser then has to ask about |
| parser, AST | parser.rs, ast.rs | position in the tokens, flags of the rule at work | recursive descent with speculation and roll-back | hands trees to the compiler |
| closures and local functions | compiler.rs 2586-2602, 5044-5093, 5141-5280, 9779-9904, 17174-17344; host.rs 8256-8337 | which names are boxed, the slots of captures | capture scan, `cap_slot`, `MAKE_CLOSURE`, calls | decides at compile time what the frames share at run time |
| types, scopes, overloads, class lowering | compiler.rs | `Scope` with its undo log, class tables | declare, narrow, enter, exit, checks | feeds the variance checks what it knows of a name |
| declaration-site and use-site variance | variance.rs | the table of declared variances | declaration check, subtype, projections | refuses programs |
| numbers, formatting, string members, regex, unicode, fdlibm | host.rs, fdlibm.rs, regex.rs, unicode_jdk.rs | - | independent functions | pure |
| runtime, CLI, tiers, inline Rust, tools | runtime.rs, main.rs, cli.rs, lib.rs, tiers.rs, rust_ffi.rs, bin/ | - | straight-line | - |

`PROJECT.json` has one entry per component with its status and reason.

What makes each of the dynamic ones correct:

- *Unwinding*: a program prints and reports what Kotlin says it does; every
  finalizer runs once per way out, innermost first; what a finalizer parks is
  put back by that finalizer and nobody else; a statement that was abandoned
  leaves no operand behind; nothing is printed on the way out; every loop ends.
- *Blocks*: a block runs as if it had a machine of its own; elements arrive
  once and in order; a failed block is over.
- *Debug adapter*: nothing the program printed is lost, doubled, reordered or
  shown after the stop it preceded; every launch that names a file ends in
  `terminated`.
- *Object initialization*: at most one initializer run per object, a half-built
  instance is visible only to the initialization that is building it, a failure
  is remembered.
- *Collections and views*: an iterator over a changed collection fails on its
  next step; a view and its backing object never disagree when read.
- *Members*: a member answers what Kotlin's library answers, asks its lambda the
  same questions in the same order and no more of them once it threw, and leaves
  in the receiver what the library leaves.
- *Maps*: a key is found exactly where its entry is, and whoever looks sees the
  order of the JVM's table, list or tree.
- *Properties*: an initializer runs once, a veto is asked before the store, and
  what a nested access does is what Kotlin does.
- *Pipelines*: what is delivered is what the eager operations deliver, the
  source is asked no further than needed, each lambda is called in order.
- *Priority queue*: a heap between calls, and no element lost or doubled
  whatever the comparator does.
- *Closures*: two functions that name one variable share one variable.
- *Scopes and variance*: a name is its innermost declaration, a cast holds only
  where the flow proves it, no valid program is refused and no unsafe
  declaration accepted.
- *Parser*: a tree written as Kotlin writes it, on however many lines, is read
  back.

## 2. Modules

| module | models | abstract counterpart |
|---|---|---|
| `Kotlin` | the statements the protocol is about, and a big-step reference semantics (completions: normal, throw, return, break, continue) | - |
| `Lowering` | the compiler: statements to operations, with the context the compiler carries (unwind frames, finally paths, loops, claimed non-local return) | - |
| `Unwind` | the machine plus the host's half of the exception protocol, one action per operation | `Kotlin!Meaning` |
| `MCUnwind` | program families; `AgreesWithKotlin`; the operand depths of every chunk, worked out by a dataflow pass (`SizedAssumption`) | |
| `UnwindProofs` | theorems `TypeCorrect`, `StashBalanced`, `BalancedAtBoundaries`, `EndsWithNothing`, `CallersUntouched` | |
| `Machine` | a fusevm machine: operands, frames, nested runs | - |
| `OwnMachines` | the promise of a sequence block: one machine per context | - |
| `Coroutine` | the implementation: one machine shared by consumer and blocks, `coro_next`'s splitting and rebasing | `OwnMachines`, by refinement (`KeepsPromise`) |
| `MCCoroutine` | programs with two iterators, forEach closures and finalizers, and a map and an account of each | |
| `CoroutineProofs` | theorems `TypeCorrect`, `Nested`, `LeavesAlone` | |
| `CoroutineRefinement` | theorem `Implements`, the refinement | |
| `Dap` | the debug session, with the programs of its run | |
| `DapProofs` | theorems `TypeCorrect`, `NothingLost`, `ShownInTime` | |
| `Throwables` | what class initialization tells apart about throwables | - |
| `ClassInit` | the JVM's class initialization procedure, one thread: what an object promises its users | - |
| `ObjectInit` | the implementation: the first-use code at every reference, the initializer subroutine, `KT_OBJ_INIT_ENTER/EXIT` | `ClassInit`, by refinement (`KeepsPromise`) |
| `MCObjectInit` | programs: two objects that use each other, a main that uses both | |
| `ObjectInitProofs` | theorems `TypeCorrect`, `EnteredOnce`, `DepthExact`; `Implements`, the refinement | |
| `KotlinProperties` | what Kotlin promises of lazy, observable, vetoable and late properties | - |
| `Delegates` | `KT_LAZY_GET`, `KT_DELEG_GET`, `KT_DELEG_SET` and the code around them | `KotlinProperties`, by refinement (`KeepsPromise`) |
| `DelegatesProofs` | theorems `TypeCorrect`, `InitializedOnce`, `Implements` | |
| `JavaLists` | what an ArrayList, its subLists and reversed views and a loop over one of them promise | - |
| `ListViews` | the copies, tables and counts of the host | `JavaLists`, by refinement (`KeepsPromise`) |
| `Pipelines` | `GenCursor::next`, `gen_iter_step` | the list operations, in the properties |
| `PipelinesProofs` | theorems `TypeCorrect`, `ListDelivered`, `CalledInOrder`, `OverAtTheEnd`, `NoFurtherAsked` | |
| `KotlinCollections` | what Kotlin's library says of the members of collections: calls, answer, class, receiver afterwards | - |
| `Members` | the members that take a lambda (`coll_hof` and what it calls) | `KotlinCollections`, next to it |
| `Methods` | the members that take none, and what a read-only class refuses | `KotlinCollections`, next to it |
| `JavaMaps` | LinkedHashMap, HashMap with its table, TreeMap | - |
| `OrderedMaps` | `COLL_UNORDERED`, `reorder`, `hash_order`, `KeyIndex` and the members over one entry | `JavaMaps`, step by step |
| `MCMaps` | both maps under the same calls | |
| `MCMembers` | the composition of members, maps and pipelines for one run | |
| `JavaQueue` | what `java.util.PriorityQueue` promises | - |
| `PriorityQueue` | `pq_member` and its sifts, one step a turn of a loop | `JavaQueue`, by refinement (`KeepsPromise`) |
| `CollectionsProofs` | theorems `TypeCorrect`, `StaysHeap`, `AnswersLeast`, `Implements` of `PriorityQueue`, `LookupsRight` of `OrderedMaps` | |
| `KotlinClosures` | programs with local functions and lambdas, and what they print | - |
| `Closures` | the capture analysis, the lowering and the machine that runs it, with the programs of its run | `KotlinClosures`, in `VariablesShared` |
| `MCDelegates` | the composition of `Delegates` and `Closures` for one run | |
| `KotlinTypes` | subtyping of Kotlin | - |
| `Variance` | the checks of variance.rs | `KotlinTypes`, in the properties |
| `KotlinScopes` | which declaration a name means, and what the flow proves of it | - |
| `Scopes` | `Scope`, smart casts, the checks of declarations and assignments | `KotlinScopes`, next to it |
| `MCTypes` | questions for `Variance`, functions for `Scopes`, and both in one run | |
| `KotlinSyntax` | how Kotlin spells a tree | - |
| `Parser`, `MCParser` | expressions and statements of parser.rs | `KotlinSyntax`, in `ReadAsWritten` |

### Unwind, Lowering, Kotlin

Correspondence of state: `pc`, `stack`, `frames` are `vm.ip`, `vm.stack`,
`vm.frames`; `hosts` are the builtins that called back into the machine
(`RUN_SUB_IPS`); `pending`, `stash`, `nlr`, `report` are `PENDING`, `STASH`,
`NLR`, `KT_ERROR`; `out` records effects in order. `chunk.catchable` is
`EXC_ENABLED`. One operation of the chunk is one action, named after it; the
fusevm operations themselves are external (the machine is a dependency) and are
modelled as the host and compiler use them. Values exist only where they can be
seen: what is printed and what is returned. A bounds test over the operand an
abandoned call left behind is a nondeterministic choice (`Test`), because the
comparison there is of garbage.

`Lowering` is a compiler in TLA+: it takes the statements of `Kotlin` and emits
operations with symbolic labels which `Resolve` turns into addresses. Its
context record is the part of `Compiler` that the lowering of a statement
reads. Two of an operation's fields are a record the machine ignores: `parked`
(how many finalizers of this frame are running here) and `depth` (operands
under the statement). They are what `ParkedBalanced` and `BoundaryBalanced`
compare the machine against.

Two verifiers state the discipline the emitted code keeps, one condition per
operation and its successors: `WellParked` for the finalizers, `Sized` for the
operands. `Sized` asks for a `Fact` at every operation that can be reached: how
many operands the frame holds at least, whether exactly so many (always, unless a
throwable is in flight, or not even then), whether one is in flight, which slots
hold a saved depth. `MCUnwind` finds the facts of a chunk by a dataflow pass and
checks them against `SizedBy`, for each of the 2928 chunks of the run, before the
run starts (`SizedAssumption`).

Initial states choose the program, so that a run of TLC compiles and runs every
program of a family. The programs nest the constructs two deep: every way out
of a guarded block (fall through, throw, fault, return, a call that does any of
these, a non-local return out of a forEach, break, continue) x every handler
list x three finalizers (none, a print, a whole try with its own throw) x what
surrounds it (a following statement, an outer finally, an outer catch, an
operand, a forEach, a runCatching, a loop, a loop in a try).

### Machine, OwnMachines, Coroutine

`Machine` has the state record and the operations that touch one machine only.
`Coroutine` is the code: one machine in `vm`, whose `runs` are the nested runs
(`forEach`, or a pull of an iterator), with the iterators' parked parts in
`coros`, `CoroIter`'s cell in `ahead`, and the host's single `PENDING`, `STASH`
and `YIELDED`. `AskBlock` is `coro_next` up to its `vm.run()`; `Back` is
everything after it together with the member that called it (the builtin runs
to its end before the next operation). `AskKnown` is a pull that needs no run.

`OwnMachines` is what the comment at `host.rs:2470` and the tests promise: each
context has a machine of its own, a pull changes who runs, and the finalizers
of each context park into its own stack. `Coroutine!Promise` gives the
refinement mapping: the part of the shared stack between a pull's base and the
next pull above it, taken relative to that base, is the context's operand
stack (`Own`); its frames and runs likewise, and of the `stash` the entries between those
that were there when it was pulled from and when it pulled (`Finals`). Two history
variables say where to cut, and nothing in the code reads them: `line` has for each pull
in progress its place among the runs and the size of the stash when it began - the native
frames of `coro_next`, which is where the code keeps it - and a frame's `own` is the depth a
try saved, counted from the frame's base. `KeepsPromise` says every step of `Coroutine` is a step of
`OwnMachines` under that mapping or changes nothing in it. `Undisturbed` speaks of
the shared machine itself: no step changes an operand or a frame below a run in
progress.

`Balanced` says what the compiler's output must be like for that, as a bytecode verifier
would: there is a map of the chunk (`Maps`) from each operation to the least
number of operands its frame has there, how many of them the depth saved by `KT_EXC_DEPTH`
spares, and whether a yield may park it, that every operation agrees with
(`OpVerified`). `MCCoroutine` computes a map of every program of the run and checks
it (`BalancedAssumption`). `Disciplined` asks for what keeps the contexts apart besides:
an account of the chunk (`Accounts`) says where no throwable can be in flight, how many
finalizers the frame has open, and an order in which blocks are asked; a block is
asked only with nothing in flight and from above it in that order, and with no
finalizer open a frame is left and a block parked (`OpApart`). All but the last follows
from checks the compiler emits after every call and from how it lays out `finally`; a
yield inside a finalizer is a program the compiler takes, and the host gets wrong (4.).

### Dap

The thread is in one place at a time: `serving` (the loop of `run`), `running`
(inside `run_debug`), `stopped` (`handle_stopped`), `failing` and `ending` (the
tail of `launch`), `gone`. Output goes through two buffers: stdout's line
buffer `buf` and the pipe `pipe`; `Write` is one unit of a write(2), disabled on a
full pipe, which is how the thread blocks. A text is its ordinal number. The
client is an action of its own: it asks anything at any time, answers a stop by
resuming or hanging up, and may hang up at any moment. stackTrace, scopes,
variables and evaluate read only and are answered like threads. A request carries
its path: `Launch` is of the program, `LaunchFails` of a file that cannot be read,
which is said and ended with `terminated` before any pipe is made; a launch that
names no file is answered and nothing else (dap.rs:214), so its client is never told
`terminated`. setBreakpoints on a file that cannot be read verifies no line.

### Throwables, ClassInit, ObjectInit

`global`, `failed`, `depth`, `pending` are the object's global, `FAILED_INIT`,
`INIT_DEPTH` and `PENDING`. A program is what the lowering makes of main and of
every initializer: lines of atoms, where a statement of an init block ends in an
unwind check and a property initializer does not (build_object_in_place stores
whatever was left on the stack and goes on to the next property). `Enter` is the
test at a reference, `KT_OBJ_INIT_ENTER`, the call and the subroutine up to the
published instance: nothing between them can observe anything. `Exit` is the
subroutine's return, `KT_OBJ_INIT_EXIT` and the code after it.

`ClassInit` is the procedure of the JVM. The mapping derives an object's state
from the global, `FAILED_INIT` and the frames: kotlinrs keeps no state of its
own for "being initialized", the published instance stands for it. `Regular`
names what the refinement leaves out: an object first used by a statement that
already failed, an Error that leaves an initializer (both disagreements, see
below), and programs without a try, where a throwable ends the run on the spot
and nothing is left to compare.

### KotlinProperties, Delegates

`value` is the contents of every cell, `frames` the nested runs of initializers
and handlers with what the builtin that runs each has in its locals, `pending`
the throwable. The program is the most general one: in every frame it reads and
writes any property, throws, catches and returns. A throwable stops nothing by
itself; the statement runs to its end over garbage (`Undef`). `Careful` is the
discipline of a program that assigns no garbage; the lowering does not enforce
it (compiler.rs 11145 and the stores of boxed and top-level variables at 5794
emit no check between operand and store, although the comment at 5846 says a
raise leaves the previous value intact).

### JavaLists, ListViews

`host` is one record of the thread-locals an operation goes through: `HEAP`,
`SUBLISTS` and `REVERSED_VIEWS` (`view`), `BACKING_WRITES`, `VIEW_SEEN`,
`MOD_COUNTS`, `SUB_MOD`. A view is a copy; `refresh_view` takes it again,
`write_through` takes the view out of its table, runs the member on the copy and
splices it back. `JavaLists` has no copies: a view is a window on the elements.
The mapping computes the windows, and `stale` from the counts.

`Careful` keeps the program to what the host notices. Outside it the code departs
from the library: a structural write through anything but the direct backing of
a subList (a sibling, a view of a view, the list under a nested one) is not noticed
by that subList; writes through a reversed view are counted one level down only;
sort counts as structural for a subList's own count; a loop over a view is not
checked, nor is its start over a stale subList; a removeIf whose predicate
writes loses writes or panics; adding to a view of a view after the list shrank
panics (`Survives`).

### Pipelines

`heap` is the iterator object (`cursor`, `ahead`), `pull` the call of `next()` that
runs, on its copy of the cursor. The elements are 1, 2, ... and a lambda's answer
is chosen when it is called and remembered in `said`, so that the properties can
apply the eager operations to the same answers. The source is the `items` of a
collection, the `step` of a generateSequence from a seed, or the `function` of one
without; where it runs code of the program (`StepRuns`) that may throw, which ends
the traversal like its null, and is not run while a throwable is pending. `Eager` and what it is made of
(`Through`, `Called`, `Leading`, `Only`) take the stages and the answers as parameters:
the properties apply them to `Yes`, the proofs to any answers. `Passing` leaves out a
stage that drops elements after a take: there the spent take asks the source once
more (host.rs 10106; the comment at 9920 says it does not), as does take(0). The run
traverses the pipelines that are (`TakesLast`); of the properties only `AsksNoFurther`
needs it, and the other theorems are about every pipeline.

### KotlinCollections, Members, Methods

A member runs to its end inside one operation of the machine, and the lambda runs
inside it, so a call is a function of the receiver and of what the lambda answers
to its first, second, ... question (`lambda.says`), with the question it throws at.
That it throws does not stop the member: `invoke_closure` then answers null and
the loop goes on over nulls, which is where the code could leave something behind
that the library does not. `Members` follows coll_hof's passes - which way they
go, when they stop, what they write and when -, `Methods` the writers, copies,
reads and operators with the tables of what each class refuses.

`MCMembers` has one receiver, `collection`, as the code has it and as Kotlin has it.
`AskMember`, `AskSequence`, `AskOther`, `AskWriter` and `AskReader` choose a member and
a lambda, `Perform` makes both of it, `Continue` goes on with what the call left.
`Departs` and `CallsDepart` name, member by member, where the two are known to part
(section 4); everything else has to agree: answer, class, questions, receiver.

### OrderedMaps, JavaMaps

`map` is one sequence of entries with the two flags that say whether it can be
believed: `unordered` (a write left it out of order, `reorder` will see to it when
somebody looks) and `index.built_len` (the index is right for as long as the
sequence has the length it was built over). Neither is maintained at a write. A
member with a lambda is two steps - `GetOrPut` and `GotOrPut`, `map_remap` and
`Remapped` -, and in between the program may call any member on the same map.
`JavaMaps` has no flags: entries in the order their keys came and a table of
buckets which only grows; `MCMaps` lets both go through the same calls.
`Situations` names what a step is when the two are known to part (section 4), and a
program that is `Careful` stays out of those.

### JavaQueue, PriorityQueue

`queue` is the list object, `es` the array a member works on, `k`, `x`, `dir` the
hole, the element and the direction of the sift. One step is one turn of a sift
loop, which calls the comparator; any call may throw. After that `JavaQueue`
promises no order but still every element. Nor does it after removeIf, removeAll and
retainAll, which go to the list under the queue and need leave no heap (host.rs 12246;
the comment at 876 says the array is always one): `ordered` turns FALSE there.
A comparator that throws in `offer` leaves the element in the queue, where the JVM
has not added it yet; `JavaQueue` says the former.

### KotlinClosures, Closures

`Closures` compiles a program of `KotlinClosures` in its initial state
(`shared_captures`, `declare_full`, `cap_slot`, `lambda_mentioned`, `local_fun_caps`,
lambdas drained after the function they stand in) and then runs the code:
frames with slots, cells on the heap, closures with captured values.
`KotlinClosures` runs the tree with environments. Both values of
`CAPTURE_SCAN_FLOOR`'s test are taken (the scope captured whole or by mention).

### Variance, KotlinTypes, Scopes, KotlinScopes

`Variance` is a translation of variance.rs over types as records; a check answers
yes, no or `None` (not known). `KotlinTypes` is subtyping by containment of
projections. A function type has its receiver and its parameters, both taken
(`Taken`). A class whose header the parser could not keep (`header`) is exempt from the declaration
check, where Kotlin has no such exemption (section 4). A write is checked only if its
value is a literal (`CheckWrite`, compiler.rs:19618). `Scopes` keeps `map`, `undo`, `next_slot` and open `marks` and compiles
statement by statement: declarations, assignments, ifs with their casts.
`KotlinScopes` runs next to it and decides whether the program so far is valid.

### KotlinSyntax, Parser

The parser's position and look-ahead are a cursor record, passed on by every
rule; speculation is reading from a saved cursor. The levels of operators that
differ only in their tokens are one table (`Operators`), and `Climb` walks the
levels from the tightest out, as the nested calls of the code do. `KotlinSyntax`
writes a tree with no parenthesis more than the grammar needs and with line
breaks wherever Kotlin lets an expression go on (`wide`), between statements
(`narrow`) or nowhere (`joined`), or with an annotation on every lambda parameter
that has none (`typed`: a function type with brackets of each kind, which
`skip_lambda_param_type` must end where it ends). `Careful` names the situations in
which the writer writes more because this parser reads otherwise (section 4).
A soft keyword (`SoftKeywords`) is a name where the parser asks for one, except after `::`
(`Referred`), and its call takes no type arguments (`primary_call`).

## 3. Runs

| run | what it shows |
|---|---|
| `unwind` | programs that nest tries, loops, lambdas, calls and abandoned statements print and report what Kotlin says; compiled code passes the verifiers `WellParked` and `Sized`; stash and operand stack are balanced at every operation, no non-local return loses its target, every run ends |
| `coroutine` | 1551 programs: sharing one machine is invisible, nobody touches what lies below a run in progress; every loop over a block ends |
| `dap` | output conserved, shown at stops, every launch terminates, over sessions of five requests |
| `objects` | 6750 programs: no initializer is entered twice, `INIT_DEPTH` is exact through every failure, and every regular step is one of the JVM's procedure |
| `views` | a list, views of it and of views, a loop or a removeIf around any writes: reads are live, and every step is one of the library's lists |
| `delegates` | lazy, observable, vetoable and late properties whose code uses each other: every access is Kotlin's; and programs in which local functions and lambdas share, shadow and count variables print what they print in Kotlin |
| `pipelines` | every chain of three stages over up to four elements: delivers the eager result, asks no further, calls in order, ends at the end; every member of a collection of up to three elements with every small lambda: answers, asks and leaves what Kotlin's does; every map of up to four keys under any calls: answers, order and lookups of the JVM |
| `queue` | every queue of six elements under a comparator that may throw, through its own members and the bulk removals of the list under it: a heap between calls, a bag kept, poll takes a least one, every member ends |
| `types` | the variance checks on every question of a small universe, and every function of three declarations and two nested ifs: refusals are right, names and casts mean what they mean |
| `parser` | every operator around every other, statements in every order, calls, branches and whens, in four layouts, are read back as written |
| `nonnull` | *violation*: a test for null proves nothing to the check of a later initializer, so a valid program is refused (compiler.rs:17709) |
| `index` | *violation*: a key removed and one put that has no IndexKey leave as many entries as the index was built over; it is taken to be right, and a key that is there is not found (host.rs:19115) |

The two violations are disagreements between the code and its own comments, quoted
under "findings". The passing runs leave out the programs of section 4, so what they
show is: apart from these, none.

**Bounds, and why they are enough.** *Programs of `unwind`*: two levels of
nesting, because the compiler's state for a try is a stack of which it reads the
innermost entry only, and routes an exit to the next by name; two levels make
every routing happen, three repeat it. Loops run twice (`Times = 2`): once to be
left by an exit, once to find out whether the exit was right. *Iterators*: two,
so that a block can be the consumer of another. *Limit = 2* nested runs: the
budget is reached by a forEach closure that pulls from a block that pulls from a
block. *Pipe of 4, line buffer of 2*: a passing program prints at most what the
pipe holds between stops but more than the line buffer. *Five requests, two
unread*: a breakpoint set, a launch, a resume, a second set and a second launch,
in any order; a file is the program, cannot be read, or is not named. *Objects*: two, each of whose initializers may use the other (a
cycle needs no third), with two properties so that one is still at zero when it
is read; main has four lines, so that an object is used before, while and after
the other failed. *Views*: `MaxObjects = 3` is a list with two views, side by
side or one of the other; a list of two elements has every boundary of a range
(runs over three elements and over three writes were made too, with the same
result); `MaxWrites` bounds the writes of a program. *Delegates*: two lazy
properties (a cycle), one of each other kind, `MaxRuns = 3` nested runs - a
property's own code within another's within its own. *Pipelines*: at most three
stages, so that a budget has a lambda before and after it, and up to four
elements, more than any two budgets of at most two take. *Members*: at most three elements, 1 or 2, so
that two may be equal and one is first, in the middle or last; a lambda's script is
as long as the collection, and it may throw at any call. *Maps*: three keys of one
bucket, or four that make the table grow twice, with and without an IndexKey;
`MaxCalls = 1` lambda runs on the map at a time. *Queue*: `MaxSize = 6`
slots are a root, a full level and a partial one, so a sift passes more than one
level and the last element can be in another subtree than the hole; two of the
three elements compare equal; `MaxAdded = 2`. *Types*: generics two deep (where a
position is composed of two variances), `MaxDepth = 2` ifs, `MaxDecls = 3`
declarations of two names (a shadowed shadow). *Closures*: three levels of
functions; both sides of the capture scan's threshold (`Floors`). *Parser*: an
operator's operands matter by their level only, and chains of three put each
level on either side of each other. No state constraint is used in any run.

**Fairness.** Unwind and Coroutine: WF of the next operation - the dispatch loop
of the machine runs it, there is nobody else. PriorityQueue: WF of a turn of the
sift loop: the member runs on once it was called; that the comparator answers or
throws is part of the turn, and calling is not fair. Dap: WF of the thread
(`WF(Adapter)`), which is the operating system scheduling a runnable thread;
that a client shown a stop answers it (`WF(AnswerStop)`), which is what an
editor's user does; and that a client which made its last request hangs up in
the end - its process exits. Without the last two a program may stay stopped
for ever, and rightly so.

**Deadlock** is not checked where a program may really stop: in the coroutine, dap
and objects runs (main returned, the server left), views, pipelines and types (the
writes, calls and questions are bounded) and queue. `Unwind` and `MCParser` have an explicit
last step, and there deadlock is checked: no operation is ever reached with its
operands missing, no program is left half read.

**Mutants.** Every property of a passing run has a mutation of the code that
breaks it, in the module it mutates, marked `Mutation:`.

## 4. Where the code and Kotlin part ways

Found while modelling, and left out of the passing runs by the families or by
`Careful`. Those with a name are reproduced by giving it to a cfg.

Unwinding:

- the throwable of a call in the operand of `return` passes the catch of the try it
  stands in: no check between operand and jump (compiler.rs 5900, against the
  comments at 2405 and 7098); a throw in the copy of a finalizer on a return or
  loop-exit path passes the enclosing catch (7234-7271; `ThrowOnTheWayOut`);
- a return in a finalizer runs that finalizer again (7194; `JumpFromFinally`), and a
  finalizer that runs a non-local return while another is parked overwrites `NLR`
  (host.rs 5097-5143; `ReturnInFinally`);
- `xs.add(g())` adds although g threw (host.rs 8999; `MutatedAnyway`);
- `x + (break)` leaves `x` on the stack (compiler.rs 7075-7082; `OperandJump`), and a
  handler abandoned inside an operand jumps to the finalizer, which does not cut the
  stack back before its own statements (7184-7195, 7279; `HandlerOperand`). Both break
  `BoundaryBalanced`, against the comment that a statement boundary is balanced
  (the second is otherwise harmless: the enclosing catch cuts), and `Sized` refuses exactly
  the chunks of these families that do (a cfg that names one stops at `SizedAssumption`).

Blocks (MCCoroutine): a try across a yield, resumed one operand deeper, cuts into
the consumer's operands (host.rs 5174; `DeepTry`); a yield in a forEach closure
loses the loop (7605; `EachYields`); a block that yields inside a finalizer leaves
its entry on the consumer's in the shared `STASH` (`FinallyYields`); a pull evaluated
while a throwable unwinds enters the block, whose first check ends it for good
(10160); a block that pulls from itself restarts from its old copy until the
nesting budget is used up (10203).

Debugger: a program that prints more than the pipe holds between two stops never
ends (dap.rs 258 says the pipe is drained continuously); `disconnect` while
stopped keeps the breakpoints and the server keeps serving (469); breakpoints of
a second file replace those of the first (146); `exitProcess` under `--dap` loses
piped output and sends no `terminated` (host.rs 21583); `reset_heap` leaves
`DEFAULT_MAPS` and `PQ_CMP` alone (2971).

Objects: `Regular` (an Error out of an initializer is not remembered, 7453; an object
built under a foreign throwable is marked as failed for good, 7421).

Properties: garbage is stored after a failed operand (compiler.rs 11145, 5794);
a vetoable handler whose result expression fails stores.

Views: the list under JavaLists above.

Pipelines: a stage that drops what a spent take let through, and take(0), ask the
source once more (10106 against 9920-9923); a lambda that pulls from its own
iterator has that progress overwritten (10424); hasNext runs the map lambdas of
the element it reads ahead, which the JVM's hasNext does not.

Members with a lambda (`Departs`, `CallsDepart` of MCMembers): a writer goes on writing
after its lambda threw; no ConcurrentModificationException is thrown inside
coll_hof; a lazy sequence is materialized before all terminals but forEach, all,
none, count, first, find, any and indexOfFirst (host.rs 11361); last, findLast and
indexOfLast walk a List forwards, single does not stop at a second match, maxBy
and minBy ask on one element, sortedBy asks once an element, associateBy with two
lambdas asks the value first; a remap or predicate removal on a Map or Set never
asks what the class refuses and leaves the tag of a literal (against the comment at
1219-1226), and on a read-only list it asks all elements before it refuses;
computeIfAbsent answered null removes an entry that holds null; onEach answers a new
List, filter on a Set and sortedWith on a Set a Set (comment at 11102); the JVM classes of
distinctBy, takeLastWhile, dropLastWhile, zipWithNext and the running folds differ.

Members without (`DepartsPlainly`, `ClassDeparts`): `xs[i] = v` and addAll out of range raise another
exception, or raise it earlier, on singleton and array lists; SingletonMap lets
`map -= keys` write through and refuses remove(absent key, value); plusElement and
minusElement on a Set answer a List; min and minOrNull answer the last of equals;
classes of minus(empty), Map.plus on an empty map, Map.minus, Map.toList, slice of
one index.

Maps (`Situations` of MCMaps): the key index after a removal and a put of a key it does
not index (run `index`; getOrPut whose lambda removes does it too); a member with a
lambda adds without marking the order (`unmarked`, against the comment at 2139-2141);
getOrPut finds the position, runs the lambda and uses the position (`moved`, 12163-12186); a put
through a range of a sorted map of a key out of the range that is there overwrites it (`out
of range`, comment at 13700-13704); += and -= with a comparator use equality (`alike`); the table
is computed from the present size where Java's never shrinks (`shrunk`), starts at
1 for HashMap(emptyMap()) where Java's has 16, and is not presized by putAll; no
ConcurrentModificationException out of a remap (`modified`). Seen in the code but not
in a model: reorder forgets that a map is out of order before a comparator throws; an
equals that is not symmetric is asked of the stored key; the hash of a nested field
does not call its overridden hashCode; remove(k, v) and containsValue do not call
an overridden equals.

Priority queue: bulk removal leaves no heap (12246 against 876-878); a member works
on a copy while the comparator may change the queue (967).

Variance, an invalid program accepted: a class with a `where` clause has no header to show
and its members' variance is not checked (variance.rs:211).

Variance and scopes, valid programs refused: redundant projections
(`MutableList<List<out String>>` given `MutableList<List<String>>`), a parameter `T?`
given null through an out projection, omitted default arguments, a bounded
`T : Number` read through `Box<*>`; a test for null or an assignment that proves
non-null leaves the written type (run `nonnull`); an assignment under a cast is
checked against the cast type (compiler.rs 5715-5729); `x is Int` on an `Int?` does
not cast.

Closures: a call of a local function finds its captures by name where it is called:
under a block local, a lambda parameter, a local of another local function or a
nested local function of the same name it gets that (compiler.rs 13457 against
2520-2521 and 5045-5046); the table of local functions is not restored at the end
of a block; default arguments of a local function are not searched for captures.

Parser (`Careful` of MCParser, remove one to see it): `a as T ?: b` is refused, the `?`
taken for a nullable type (5955 against the comment at 4747); a call of `name!!` or
`a.m!!` is read as a statement of its own (invocable, 164); `i++.m` is refused;
`return` before `else` on its line is refused; comparisons side by side are taken for
type arguments (`f(a < b * c, d > (e))`, 5407 against the comment at 5359); a statement
that begins with `-`, `+`, `++`, `--`, `!!`, `::`, with the name of an infix function of the
parser's own (`to`, `until`, `downTo`, `step`, `shl` ...), or with `(` after a bare name, goes on
with the line before it; `step { }` is a name and a block, and not a call
(`soft_call`, 5593-5599). Also: `::step` and `x::data` are refused (4870, 5475), `step<T>()`
is read as two comparisons, `f<T> { }` loses its type argument, `<List<Int>, String>`
keeps its first head only, a bitwise infix name is taken across a line break, a
`when` at the start of a statement takes no postfix, and line breaks before `in`,
`is`, an infix name or an invocation inside parentheses are not accepted.

## 5. Proofs

`UnwindProofs` proves, for every set of chunks, values, throwables, functions
and slots that meets `ConstantsAssumption`:

- `TypeCorrect == Spec => []TypeOK`. Inductive with one addition: the chunk is
  one of `Chunks`, which gives the fields of the operation at hand their types.
- `StashBalanced`: if every chunk passes the verifier `WellParked`, then
  `Spec => []ParkedBalanced`. A verifier theorem: whatever the program, code that
  keeps the static discipline (each finalizer is entered by one stash and left
  by one unstash, no jump crosses one) keeps the stash balanced at run time, over
  any nesting of calls, lambdas and forEach runs. That the compiler emits such
  code is `Verified`, checked for every program of run `unwind`.

  `ParkedBalanced` alone is not inductive: on a return the balance of the frame
  below is needed, and a nested run ends in a frame of the builtin's choosing.
  The strengthening `IInv` says of every frame, not only the top one, that its
  return address is an operation whose `parked` accounts for the stash the
  frame above was entered with, and links each host record with the frame it
  entered and the address it goes on at (`UnwindProofs`, definitions before
  `Opcode`). Each operation is one lemma; operations that neither change
  frames nor stash share one.
- `BalancedAtBoundaries`: if every chunk also passes the verifier `Sized`, then
  `Spec => []BoundaryBalanced`; and from the same invariant `EndsWithNothing`
  (`[]EndsIdle`: stash and `pending` of `NothingLeftOver`; its third part, `nlr`, is false in
  general, since a finalizer's throw may replace a non-local return, and is checked on
  the run's programs only) and the action theorem `CallersUntouched`
  (`CallersKept`: no step moves or changes an operand of a frame below the running one,
  so neither a cut to a saved depth, nor a pop of what an abandoned statement no longer
  has, nor a return ever reaches into a caller's expression).

  That the hypothesis is met is `SizedAssumption`. The invariant is
  `OperandsFit`, the existence of a picture `a` with `Operands(a)`: at the running
  operation the stack and the frame's slots fit the fact `a[pc]` (`TopSized`); every
  frame below can go on at the address the frame above will return to, with one
  operand on top of the base of that frame and *whatever* is in flight by then
  (`Resumes`, for returns in `FramesSized`, for lambdas of builtins in `HostsSized`);
  bases never decrease from frame to frame. It is this "whatever is in flight" that makes the
  boundary after a call provable: the check behind it finds out. Each kind of
  step is one lemma; `Arrives` serves those within a frame, `Enters` and
  `OEnterLambda` those that push one, `OReturnStep` and `OLeaveHost` those that pop.

`ObjectInitProofs` proves, for every program (any
number of objects, properties, lines and throwables) that meets
`ProgramAssumption` and `ThrowableAssumption`:

- `TypeCorrect`, `EnteredOnce == Spec => []BuiltOnce`, `DepthExact ==
  Spec => []DepthCounts`. `BuiltOnce` is not inductive: the code never asks
  whether an initializer runs, only whether the global is empty. The
  strengthening `Nested` says that main's frame is at the bottom, that every
  object under construction has an instance in its global, and that every frame
  below another stands at an atom of its line; with it, the test of the global
  is the missing guard.
- `Implements == Spec => KeepsPromise`: the refinement. One simulation lemma per
  action under the mapping `AbsState`, `AbsFields`, `Running(frames)`; most
  leave the mapped objects alone and share `KeptObjects`, the three that push,
  pop or write rest on lemmas about `Running`.

`DelegatesProofs` proves, for any number of properties of each kind, any values and
any nesting budget (`KindsAssumption`):

- `TypeCorrect`: under `Careful`, every property holds a value of the program or,
  if it starts without one, none.
- `InitializedOnce == Spec => OnceForAll`, without `Careful`: garbage or not, a lazy
  property whose initializer is over stays as it is.
- `Implements`: under `Careful`, every step is one of `KotlinProperties`. The
  invariant it needs links each frame with the cell: what a vetoable frame has in
  its locals as the old value is what the property holds when it was entered.

`CollectionsProofs` proves, of the queue, for any elements, keys, sizes (`QueueAssumption`):

- `TypeCorrect`;
- `StaysHeap == Spec => []HeapOrdered`. In the middle of a sift
  the array is no heap; the invariant is the loop invariant of each direction -
  the array with the element in the hole is a heap but for the hole, whose
  parent and children are ordered with each other - and, while heapify runs,
  a heap from the slot it works on. The arithmetic of parents and children
  (`2 * k`, `k \div 2`) is in lemmas of their own;
- `AnswersLeast`: poll and remove() answer an element none precedes. A least one exists
  because there is a first slot among those that would precede the root;
- `Implements == Spec => KeepsPromise`: the bag of the array is a `JavaQueue`. The
  invariant is `Conserved`: while a member runs, its copy with the element in the
  hole (`Filled`), what addAll has still to add and what was taken hold, for each
  element, as many as the queue held and the call was given. A turn of a sift
  moves an element and the hole, which changes no count (`MoveFills`); `Placed` turns the
  balance of the copy into the step of the promise. How counts become bags - a sum, a
  difference, a sub-bag - is `BagSum` and `BagDifference`; what a bulk removal keeps and
  takes is counted over the slots it takes them from (`Ranks`, `ThoseTimes`). It needs
  no assumption on the comparator but that it compares keys, and none on
  when it throws.

and of a map (`Maps`, an instance beside the queue), for any keys that all have an IndexKey, any hash, comparator,
values and counts of entries, and for every nesting of members whose lambdas leave
the map they were given to alone:

- `LookupsRight`: `QuietSpec => []FindsWhatIsThere`. It rests on `Right(map)`: an index,
  if there is one, is either longer than the map - a removal it did not hear of,
  which the next lookup sees - or exact about the entries it was built over; and
  on `Asked`: a member waiting for its lambda had just looked its key up. Every write
  removes in the index too, appends behind it or only shortens the map; a key that
  is not indexed can make up the length, which is run `index`.

`DapProofs` proves, for every set of programs in which a return leaves a call
(`BoundsAssumption`), any pipe and buffer size, any breakpoints and any number of stops
and launches:

- `TypeCorrect`. The call stack is never empty because the calls before the program's
  counter are never fewer than the returns: `TInv` carries the depth as the difference
  of two counts (`Times`), which BoundsAssumption speaks of.
- `NothingLost == Spec => []OutputConserved` and `ShownInTime == Spec => []ShownAtStop`.
  The invariant `IInv` adds to the types `Whole` (what was forwarded, then the pipe, then
  the buffer, are the texts printed, in order), `Buffered` (buffer and pipe within
  their sizes; while no write is under way no ended line is in the buffer) and
  `Settled` (what each place of the thread says of buffer and pipe: at a stop the pipe
  is drained and no write under way, where a fault is told both are empty). Neither
  property is inductive alone: whether a stop shows everything depends on the write
  that came before it, whether a fault does on the drain after the last.

`CoroutineProofs` proves, for any iterators, values, throwables, any limit of nested runs
(`ValuesAssumption`, `ChunksAssumption`), and every program that is `Balanced` - any
code, any number of blocks, calls, forEach runs and tries, not only the pieces
`MCCoroutine` assembles:

- `TypeCorrect`, with `depth <= Limit`; `Nested`: `[]BasesNested`; `LeavesAlone`: `Undisturbed`.

`Balanced` is on the program's text, so it holds from the first state on; TLC
evaluates it for all 1551 programs of run `coroutine`. It is false of the two families
that break the promise: in `DeepTry` the depth saved before a yield is cut to after
it, in `EachYields` the closure of a forEach yields (4.). `Balanced` asks for a yield to
lose the saved depth and for such a closure not to yield, and for nothing else a
compiler of stack code would not keep anyway.

`BasesNested` is not inductive: whether a return leaves enough for the frame below, or a
resumed block finds its operands, depends on what each frame was promised when it
was left. `IInv` fixes one map of the program and says, with `MachineOK`: every frame
below another rests at an operation whose operands it has, counted from its own base
up to the next frame's (`Called`), or is the first of a run (`Started`); every run knows a frame
that rests where the run will answer (`RunLinked`); where a yield may come, the last run
is a pull and no frame above it needs a depth it saved (`Parkable`), which is why they can be
lifted off together and come back on another base; and a parked block satisfies the
same, relative to its own bottom (`Resumable`). `FrameStep`, `CallStep` and `ReturnStep`
move within a run, `EnterRun` and `EndRun` between runs, `Parks` and `Restores` are the two
halves of the context switch; `KeptBelow` and the lemmas after it give `Undisturbed` from the
same invariant.

`CoroutineRefinement` proves, for any of those programs that is `Disciplined`:

- `Implements`: `Spec /\ Disciplined(chunk) => KeepsPromise`. Every step of the shared machine
  is a step of `OwnMachines` or changes nothing in it.

The mapping needs more than `IInv`: the entries of the one `STASH` must lie in the order
of the contexts, so that each has a stretch of its own, and who is asked must not be
waiting already. `InOrder` adds an account of every machine (`Tidy`): a count `g[j]` for
each frame of the finalizers open below it, which agrees with what the chunk's account
says at the address the frame goes on at, so that a frame that finds finalizers of its own to
close also finds their entries in its stretch (`Orderly`), and a bound on the rank of all
that it goes on to ask, so that no block is ever asked that is in line (`AsksDown`);
and `Lined`, which ties `line` to the runs. `Twin(m, k, low)` says that k is the part of m
above the base `low`; one lemma for each operation of `Machine` says that twins stay twins
(`TwinPush`, `TwinEnter`, ...), which is where the rebasing of `coro_next` cancels out. Operations
of one context leave the seats of the others where they are (`SameSeats`). Asking a block and
going back are the two that change who is in line: the machine of the consumer is cut where
the block's begins, and found again there.

TLC checks `KeepsPromise` on all 1551 programs of run `coroutine`, the theorem speaks of the
disciplined ones, of any size: 1167 of these (`BalancedAssumption` evaluates an account of
each). In the other 384 the block b runs a closure that asks b (`Circular`), and no order of
blocks exists. There the promise holds only because a nesting budget of 2 (`Limit`) is
used up by then: with more, b starts again from its old copy (4.).

`PipelinesProofs` proves, for every set of pipelines of any length over sources of any
length (`PipelineAssumption`: a stage with a lambda starts with nothing in its flag, and
the two holes are no numbers), whatever the lambdas answer and whenever they throw:

- `TypeCorrect`;
- `ListDelivered == Spec => []DeliversTheList`, `CalledInOrder == Spec => []CallsInOrder` and
  `OverAtTheEnd == Spec => []EndsAtTheEnd`;
- `NoFurtherAsked`: if every pipeline is `Passing`, `Spec => []AsksNoFurther`.

None of them is inductive: they speak of rest, while between two calls an element is at
some stage, some budgets are written already and others not. The invariant is about a
sequence `g[i]` for each stage, what has entered the stage and been dealt with there:
`Flow` says that what stage i makes of `g[i]` is `g[i + 1]`, but for the element that is
waiting before one stage, and that what the stage has left (`Left`: its budget, or
whether a dropWhile has stopped) is what `g[i]` leaves of it; `Finishing` that a
traversal is finished, or its element the last, exactly for a reason in some `g[i]`;
`Delivered` that the last `g` is what came out. One lemma, `FlowStep`, moves the element
past any stage, from two facts about the stage alone: what it makes of one element
more (`ThroughAppend`), and that answers about elements to come do not change what it
made of the earlier ones (`ThroughSame`). That the chain of the `g[i]` is `Eager` needs that its
recursive function exists and is the only one: no operator may be a parameter of an
induction theorem here, so it goes through the smallest stage at which two chains
differ (`Smallest`, `SameAll`, `Recursion`).

`TypeOK` of Unwind, Coroutine, ObjectInit, Delegates, PriorityQueue, Dap and Pipelines is
proved and not in a run.

Only model-checked: `AgreesWithKotlin`, `VariablesShared` and `ReadAsWritten` (their
references and what they check are recursive over statements and trees:
RECURSIVE operators and induction over data are out of the prover's reach), the
properties of `types` (likewise), `Verified`, the third part of `NothingLeftOver`,
`ReturnHasTarget` (both false in general: a finalizer's throw that is caught leaves `nlr` set;
family `ReturnInFinally`), `Terminates`,
`Ends` and `MembersEnd` (liveness, out of reach too), Coroutine's refinement for programs
with circular blocks, the refinement of views (sequences of unbounded length), and the properties of the members (recursive passes, and a reference over
sequences) and maps other than lookups.

## 6. What is left

Would come next:

1. Instance construction and overload resolution; class lowering.
2. Ranges and progressions at the ends of i64 (host.rs 2790-2870); call depth
   (6771).
3. The lexer's templates and comments.
4. Proofs: the refinement of the views (`ListViews`), over sequences of bounded copies.

Not modelled, and why: of the member library, arrays, ranges, ArrayDeque, what draws
random numbers and the members of strings that take no lambda; of maps, views,
putAll and tree bins. They repeat what is modelled over other receivers, or are
pure functions of a text. Number formatting, regular expressions and Unicode tables are independent pure functions of their arguments over strings
and floats, without shared state or order; the language server answers one
message at a time from one text; execution tiers, inline Rust and the command
line configure external parts; the developer tools generate test programs and
documentation; the machine fusevm and its JIT are dependencies, modelled only as
the code here uses them.

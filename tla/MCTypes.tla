-------------------------------- MODULE MCTypes --------------------------------
(***************************************************************************)
(* What the compiler knows of the types of a program.  Either a question is    *)
(* asked of the checks of variance, every one of a small universe of types: a   *)
(* check must agree with what every value of the types in question may be.      *)
(* Or a function is compiled statement by statement, Scopes and KotlinScopes      *)
(* together, with blocks two deep, shadowing, tests and assignments in any order. *)
(***************************************************************************)
EXTENDS Variance, Scopes

CONSTANTS Questions,  \* what is asked of the checks
          None_       \* no answer yet

Reference == INSTANCE KotlinTypes WITH
  Generics <- [MutableList |-> <<"inv">>, ArrayList |-> <<"inv">>, List |-> <<"out">>,
               Comparable |-> <<"in">>, Array |-> <<"inv">>, MutableMap |-> <<"inv", "inv">>,
               Map |-> <<"inv", "out">>,
               Box |-> <<"inv">>, Src |-> <<"out">>, Sink |-> <<"in">>, Two |-> <<"inv", "inv">>]

(* ---- the program's classes ----------------------------------------------- *)

T == Named("T", <<>>, FALSE)
Plain(n) == Named(n, <<>>, FALSE)
Int == Plain("Int")
Double == Plain("Double")
Str == Plain("String")
Number == Plain("Number")
Any == Plain("Any")
AnyQ == Named("Any", <<>>, TRUE)
IntQ == Named("Int", <<>>, TRUE)
One(h, v, t) == Named(h, << Arg(v, t) >>, FALSE)

Member(name, kind, ty, params, ret) ==
  [name |-> name, kind |-> kind, ty |-> ty, private |-> FALSE, mutable |-> FALSE, own |-> {},
   recv |-> None, params |-> [i \in DOMAIN params |-> [ty |-> params[i]]], ret |-> ret]
Prop(name, mutable, t) == [Member(name, "prop", t, <<>>, None) EXCEPT !.mutable = mutable]
Fun(name, params, ret) == Member(name, "fun", None, params, ret)
Class(name, simple, vs, members) ==
  [name |-> name, simple |-> simple, type_params |-> SubSeq(<<"T", "U">>, 1, Len(vs)),
   variance |-> vs, header |-> TRUE, members |-> members]

MCClasses ==
  << Class("Box", "Box", <<"inv">>,
           << Prop("v", TRUE, T), Fun("put", <<T>>, Plain("Unit")),
              Fun("at", <<Int, T>>, Plain("Unit")), Fun("get", <<>>, T),
              Fun("n", <<>>, Named("T", <<>>, TRUE)), Fun("put", <<T, T>>, T) >>),
     Class("Src", "Src", <<"out">>, << Fun("get", <<>>, T) >>),
     Class("Sink", "Sink", <<"in">>, << Fun("at", <<Int, T>>, Plain("Unit")) >>),
     Class("Two", "Two", <<"inv", "inv">>,
           << Fun("at", <<T, Named("U", <<>>, FALSE)>>, Plain("Unit")), Fun("get", <<>>, T),
              Prop("v", TRUE, Named("U", <<>>, FALSE)) >>),
     Class("A$Twin", "Twin", <<"out">>, <<>>), Class("B$Twin", "Twin", <<"in">>, <<>>) >>

MCFunctions == << [name |-> "made", extension |-> FALSE, ret |-> One("Box", "inv", Int)],
                  [name |-> "make", extension |-> FALSE, ret |-> Named("String", <<>>, TRUE)] >>
MCQualified == [n \in {"Map.Entry", "A.Twin"} |->
                  IF n = "A.Twin" THEN [last |-> "Twin", hoisted |-> "A$Twin"]
                  ELSE [last |-> "Entry", hoisted |-> "Map$Entry"]]

(* ---- types -------------------------------------------------------------------- *)

Ground == {Int, IntQ, Str, Number, AnyQ}

\* An argument written as a programmer would: nothing said twice, and a star where
\* anything goes.
Projections(h) ==
  IF h \in {"List", "Src", "Comparable", "Sink"} THEN {"inv"} ELSE {"inv", "in", "out"}
Written(h, types) ==
  ({One(h, v, t) : v \in Projections(h), t \in types} \ {One(h, "out", AnyQ)})
    \cup { Named(h, <<Star>>, FALSE) }
Of(heads, types) == UNION {Written(h, types) : h \in heads}

Simple == Of({"MutableList", "List", "Comparable", "Box"}, {Int, Number, AnyQ, IntQ})
Nested == Of({"MutableList", "List", "Box"}, Of({"MutableList", "List"}, {Int, Number}))
Maps == { Named(h, << Arg("inv", a), Arg(v, b) >>, FALSE) :
            h \in {"Map", "MutableMap"}, v \in {"inv"}, a \in {Int, Number}, b \in {Int, Number} }

\* Types over the parameters T and U of a class.
U == Named("U", <<>>, FALSE)
OverT1 == {T, Named("T", <<>>, TRUE)} \cup Of({"MutableList", "List", "Comparable", "ArrayList"}, {T})
OverT ==
  OverT1 \cup Of({"MutableList", "Src", "Sink"}, OverT1) \cup {Func(<<>>, <<a>>, b) : a, b \in OverT1}
    \cup {Func(<<a>>, <<>>, b) : a, b \in OverT1} \cup {Func(<<a>>, <<b>>, Int) : a, b \in OverT1}
    \cup { Named("Map", << Arg("inv", a), Arg("inv", b) >>, FALSE) : a, b \in OverT1 \cup {U, Int} }

(* ---- the questions ---------------------------------------------------------- *)

Members(t) == { Prop("p", FALSE, t), Prop("p", TRUE, t), Fun("f", <<Int, t>>, Plain("Unit")),
                Fun("f", <<>>, t), Member("s", "super", t, <<>>, None),
                [Fun("f", <<t>>, None) EXCEPT !.own = {"T"}] }
Declarations ==
  { [kind |-> "declaration", of |-> [Class("C", "C", vs, <<m>>) EXCEPT !.header = rendered]] :
      vs \in {<<"out", "in">>, <<"in", "out">>, <<"inv", "out">>}, rendered \in BOOLEAN,
      m \in UNION {Members(t) : t \in OverT} }

Pairs(types) == types \X types
Initializers ==
  { [kind |-> "initializer", declared |-> p[1], actual |-> p[2]] :
      p \in Pairs(Ground \cup Simple) \cup Pairs(Nested) \cup Pairs(Maps) }

Receivers ==
  Of({"MutableList", "ArrayList", "Array", "Box"}, {Int, Number}) \cup Of({"Sink"}, {Int, Number})
    \cup { Named(h, <<x, y>>, FALSE) :
             h \in {"Two", "MutableMap"},
             x, y \in {Star} \cup {Arg(v, t) : v \in {"inv", "in", "out"}, t \in {Int, Number}} }
Calls ==
  { [kind |-> "call", recv |-> r, method |-> m, argc |-> n] :
      r \in Receivers, m \in {"add", "set", "put", "at", "get"}, n \in 0..2 }
Reads ==
  { [kind |-> "read", recv |-> r, member |-> m, declared |-> d] :
      r \in Receivers, m \in {"get", "v", "n"}, d \in {Int, IntQ, Number, AnyQ, Any} }
Writes == { [kind |-> "write", recv |-> r, member |-> "v", literal |-> l] :
              r \in Receivers, l \in BOOLEAN }

AllQuestions == Declarations \cup Initializers \cup Calls \cup Reads \cup Writes

(* ---- asking --------------------------------------------------------------------- *)

VARIABLES asked, answer

QuestionInit == asked \in Questions /\ answer = None_

Asked(kind) == answer = None_ /\ asked.kind = kind /\ UNCHANGED asked

CheckDeclaration == Asked("declaration") /\ answer' = (check_class(asked.of) # None)
CheckInitializer ==
  Asked("initializer") /\ answer' = initializer_mismatch(asked.declared, asked.actual)
CheckCall ==
  Asked("call") /\ answer' = (projected_call(asked.recv, asked.method, asked.argc, TRUE) # None)
CheckRead ==
  /\ Asked("read")
  /\ answer' = (projected_read(asked.recv, asked.member, asked.member # "v", FALSE) # None
                /\ asked.declared # AnyQ)
\* Only a literal is checked: nothing else has a type to name.
CheckWrite ==
  Asked("write") /\ answer' = (asked.literal /\ projected_write(asked.recv, asked.member))

QuestionNext == CheckDeclaration \/ CheckInitializer \/ CheckCall \/ CheckRead \/ CheckWrite

Answered(kind) == answer # None_ /\ asked.kind = kind

(* ---- the answers that are right -------------------------------------------------------------- *)

RECURSIVE Substitute(_, _)
Substitute(t, with) ==
  IF ~IsNamed(t)
  THEN Func([i \in DOMAIN t.recv |-> Substitute(t.recv[i], with)],
            [i \in DOMAIN t.params |-> Substitute(t.params[i], with)], Substitute(t.ret, with))
  ELSE IF t.args = <<>> THEN
    IF t.name \in DOMAIN with
    THEN [with[t.name] EXCEPT !.null = @ \/ t.null] ELSE t
  ELSE [t EXCEPT !.args = [i \in DOMAIN @ |->
          IF @[i] = Star THEN Star ELSE Arg(@[i].v, Substitute(@[i].ty, with))]]

\* C<a> is a subtype of C<b>: every parameter's arguments, as it is declared.
Instances(c) ==
  LET ps == params_of(c)
  IN  { s \in [DOMAIN ps -> {Int, Number, Any} \X {Int, Number, Any}] :
          \A p \in DOMAIN ps :
            /\ ps[p] # "in" => Reference!Sub(s[p][1], s[p][2])
            /\ ps[p] # "out" => Reference!Sub(s[p][2], s[p][1]) }

\* A member is safe in a position if its type varies with the class's own as the
\* position asks: a result's type with it, a parameter's against it, a var's both.
Safe(site, c) ==
  \A s \in Instances(c) :
    LET lower == Substitute(site.ty, [p \in DOMAIN site.params |-> s[p][1]])
        upper == Substitute(site.ty, [p \in DOMAIN site.params |-> s[p][2]])
    IN  /\ site.pos # "in" => Reference!Sub(lower, upper)
        /\ site.pos # "out" => Reference!Sub(upper, lower)

\* A declaration whose header can be rendered is refused exactly if some member of it
\* would be unsafe through a supertype of the class that its declared variance allows, and
\* no other is refused (variance.rs:210-272).
DeclaredVarianceRight ==
  Answered("declaration") =>
    answer = /\ asked.of.header
             /\ \E i \in DOMAIN asked.of.members :
                  LET s == sites(asked.of.members[i], params_of(asked.of))
                  IN  \E k \in DOMAIN s : ~Safe(s[k], asked.of)

\* Pairs of types that the code knows all about: no projection in the actual type,
\* the same generics, and builtin types that nothing extends.
RECURSIVE Known(_, _)
Known(a, d) ==
  \/ d = AnyQ
  \/ a.args = <<>> /\ a.name \in {"Int", "String"} /\ d.name \in {"Int", "String", "Number"}
  \/ a.name = d.name /\ \A i \in DOMAIN a.args :
       /\ a.args[i].v = "inv"
       /\ d.args[i] # Star => /\ Known(a.args[i].ty, d.args[i].ty)
                              /\ Known(d.args[i].ty, a.args[i].ty)

\* An initializer is refused only if its type is no subtype of the declared one, and
\* always where both types are known throughout (variance.rs:6-11, 398-462).
MismatchesRight ==
  Answered("initializer") =>
    LET fits == Reference!Sub(asked.actual, asked.declared)
    IN  (answer => ~fits) /\ (Known(asked.actual, asked.declared) => answer = ~fits)

\* What a receiver of a written type may really be.
Behind(recv) ==
  { Named(recv.name, [i \in DOMAIN recv.args |-> Arg("inv", args[i])], FALSE) :
      args \in { f \in [DOMAIN recv.args -> {Int, Double, Number, AnyQ, Plain("Nothing")}] :
                   Reference!Sub(Named(recv.name, [i \in DOMAIN recv.args |-> Arg("inv", f[i])],
                                       FALSE), recv) } }

Params == [MutableList |-> <<"T">>, ArrayList |-> <<"T">>, Array |-> <<"T">>, Box |-> <<"T">>,
           Sink |-> <<"T">>, Two |-> <<"T", "U">>, MutableMap |-> <<"T", "U">>]
At(class, t) ==
  Substitute(t, [p \in {Params[class.name][i] : i \in DOMAIN class.args} |->
                   class.args[CHOOSE i \in DOMAIN class.args : Params[class.name][i] = p].ty])

\* The parameters of the member that is called, in the standard library's own classes.
Signature(recv, method, argc) ==
  CASE recv.name \in {"MutableList", "ArrayList"} /\ method = "add" /\ argc = 1 -> <<T>>
    [] recv.name \in {"MutableList", "ArrayList"} /\ method \in {"add", "set"} /\ argc = 2 -> <<Int, T>>
    [] recv.name = "Array" /\ method = "set" /\ argc = 2 -> <<Int, T>>
    [] recv.name = "MutableMap" /\ method \in {"put", "set"} /\ argc = 2 -> <<T, U>>
    [] recv.name \in {"Box", "Sink"} /\ method = "at" -> <<Int, T>>
    [] recv.name = "Two" /\ method = "at" -> <<T, U>>
    [] OTHER -> <<>>

\* A type some value of which every class behind the receiver takes as this parameter.
Takes(recv, t) ==
  \E a \in {Int, Double, Number, AnyQ} : \A c \in Behind(recv) : Reference!Sub(a, At(c, t))

\* A call through a projection is refused exactly if some parameter of the member takes
\* no value at all; a write of a literal if the property does, and no other write; a read
\* only if what it answers need not be what it is declared to be (variance.rs:489-690).
ProjectionsRight ==
  /\ Answered("call") =>
       LET ps == Signature(asked.recv, asked.method, asked.argc)
       IN  answer = \E i \in DOMAIN ps : ~Takes(asked.recv, ps[i])
  /\ Answered("write") =>
       answer = (/\ asked.literal
                 /\ asked.recv.name \in {"Box", "Two"}
                 /\ ~Takes(asked.recv, IF asked.recv.name = "Box" THEN T ELSE U))
  /\ Answered("read") /\ answer =>
       LET t == IF asked.recv.name = "Two" /\ asked.member = "v" THEN U
                ELSE IF asked.member = "n" THEN Named("T", <<>>, TRUE) ELSE T
       IN  \E c \in Behind(asked.recv) : ~Reference!Sub(At(c, t), asked.declared)

CONSTANTS MaxDepth,   \* open ifs
          MaxDecls,   \* live declarations
          Types,      \* of annotations
          Tests,      \* conditions of ifs
          Careful     \* no test for null, no assignment that proves something or is made
                      \* under a smart cast, no annotation that keeps no null but String's

Subtypes == INSTANCE KotlinTypes WITH
  Generics <- [Box |-> <<"inv">>, Comparable |-> <<"in">>, List |-> <<"out">>]

\* Reading the property v: T of a Box, whose T has no bound.
ReadV(t) ==
  IF t.name # "Box" THEN Named("Nothing", <<>>, TRUE)
  ELSE IF t.args[1].v \in {"star", "in"} THEN Named("Any", <<>>, TRUE) ELSE t.args[1].ty
ResultOf(f) == LET fs == { Functions[i] : i \in DOMAIN Functions }
               IN  (CHOOSE g \in fs : g.name = f).ret

VARIABLES decls, frames, lawful
Kotlin == INSTANCE KotlinScopes WITH
  Sub <- Subtypes!Sub, Read <- ReadV, Result <- ResultOf, Nothing <- None

vars == <<scope_vars, decls, frames, lawful>>

\* Every check answers what is right for every type in question: a declaration, an initializer,
\* and a member reached through a projection (variance.rs:210-715).
ChecksRight == DeclaredVarianceRight /\ MismatchesRight /\ ProjectionsRight

(* ---- programs --------------------------------------------------------------- *)

Lit(t) == [k |-> "lit", t |-> Named(t, <<>>, FALSE)]
Var(n) == [k |-> "var", n |-> n]
Box(arg) == Named("Box", <<arg>>, FALSE)
New(t) == [k |-> "new", t |-> t]
Is(n, t) == [k |-> "is", n |-> n, t |-> t, args |-> IF t = "Box" THEN <<Star>> ELSE <<>>]
NonNull(n) == [k |-> "nonnull", n |-> n]
And(l, r) == [k |-> "and", l |-> l, r |-> r]
Or(l, r) == [k |-> "or", l |-> l, r |-> r]
Not(c) == [k |-> "not", c |-> c]

Bare(t) == Named(t, <<>>, FALSE)
OrNull(t) == Named(t, <<>>, TRUE)
BoxInt == Box(Arg("inv", Bare("Int")))
BoxStar == Box(Star)

ScopeClasses ==
  << [name |-> "Box", simple |-> "Box", type_params |-> <<"T">>, variance |-> <<"inv">>,
      header |-> TRUE,
      members |-> << [name |-> "v", kind |-> "prop", ty |-> Bare("T"), private |-> FALSE,
                      mutable |-> TRUE, own |-> {}, recv |-> None, params |-> <<>>,
                      ret |-> None] >>] >>
ScopeFunctions == << [name |-> "make", extension |-> FALSE, ret |-> OrNull("String")] >>
ScopeQualified == [n \in {} |-> None]

CarefulTypes ==
  {Bare("Int"), Bare("Any"), OrNull("String"), BoxInt, BoxStar, None}
AllTypes == {Bare("Int"), OrNull("Int"), Bare("Any"), OrNull("String"), Bare("String"), BoxStar}

OneTest == {Is(n, t) : n \in Names, t \in {"Int", "String", "Box"}}
CarefulTests ==
  OneTest \cup { Not(Is("x", "Int")), Not(Is("x", "Box")),
    And(Is("x", "Int"), Is("y", "String")), Or(Not(Is("x", "Box")), Not(Is("y", "Int"))) }
AllTests == {Is(n, t) : n \in Names, t \in {"Int", "String"}} \cup {NonNull(n) : n \in Names}

Exprs ==
  {Lit("Int"), Lit("Double"), [k |-> "null"], New(BoxInt), [k |-> "call", f |-> "make"]}
    \cup {Var(n) : n \in Names} \cup {[k |-> "read", n |-> n] : n \in Names}
Resolved(e) == e.k \in {"var", "read"} => Kotlin!InSight(e.n)
Tested(c) ==
  CASE c.k \in {"and", "or"} -> {c.l, c.r} [] c.k = "not" -> {c.c} [] OTHER -> {c}
\* A test of a name in sight for a type its values may have.
Possible(test) ==
  /\ Kotlin!InSight(test.n)
  /\ test.k = "is" =>
       LET t == Named(test.t, test.args, FALSE)
           known == Kotlin!Known(Kotlin!Meant(test.n))
       IN  Subtypes!Sub(t, known) \/ Subtypes!Sub(known, t)
InScope(c) == \A t \in Tested(c) : \A u \in Tested(t) : Possible(u)

(* ---- statement by statement ------------------------------------------------------ *)

Goes == lawful /\ ~refused
\* Not between an if's first branch and its else.
AtStatement == Goes /\ (marks # <<>> => Inner.branch # "else?")

Declaration(n, t, e) ==
  /\ AtStatement /\ Resolved(e) /\ Len(decls) < MaxDecls
  /\ t = None => e.k \in {"lit", "new"}
  /\ e.k = "read" => Kotlin!Known(Kotlin!Meant(e.n)).name = "Box"
  /\ Let(n, t, e) /\ Kotlin!Let(n, t, e)

Assignment(n, e) ==
  /\ AtStatement /\ Resolved(e) /\ Kotlin!InSight(n)
  /\ e.k # "read"
  /\ Careful => LET d == Kotlin!Meant(n)
                IN  d.fact = None /\ (Subtypes!Sub(d.ty, Kotlin!TypeOf(e)) \/ e.k = "null")
  /\ Assign(n, e) /\ Kotlin!Assign(n, e)

BeginThen(c) == AtStatement /\ Len(frames) < MaxDepth /\ InScope(c) /\ Then(c) /\ Kotlin!Then(c)
FinishThen == Goes /\ EndThen /\ Kotlin!EndThen
BeginElse == Goes /\ Else /\ Kotlin!Else
FinishElse == Goes /\ EndElse /\ Kotlin!EndElse
WithoutElse == Goes /\ NoElse /\ Kotlin!NoElse

ProgramInit == \E t \in Types \ {None} :
          LET ps == << [name |-> "x", ty |-> t] >> IN ScopeInit(ps) /\ Kotlin!FlowInit(ps)

ProgramNext ==
  \/ \E n \in Names, t \in Types, e \in Exprs : Declaration(n, t, e)
  \/ \E n \in Names, e \in Exprs : Assignment(n, e)
  \/ \E c \in Tests : BeginThen(c)
  \/ FinishThen \/ BeginElse \/ FinishElse \/ WithoutElse

(* ---- one or the other -------------------------------------------------------------- *)

\* No question is asked while a function is compiled.
NoQuestion == [kind |-> "none"]
\* And the function of a question is empty.
EmptyFunction ==
  LET ps == << [name |-> "x", ty |-> Plain("Any")] >> IN ScopeInit(ps) /\ Kotlin!FlowInit(ps)

Init == \/ QuestionInit /\ EmptyFunction
        \/ ProgramInit /\ asked = NoQuestion /\ answer = None_

Next == \/ QuestionNext /\ UNCHANGED vars
        \/ asked = NoQuestion /\ ProgramNext /\ UNCHANGED <<asked, answer>>

Spec == Init /\ [][Next]_<<vars, asked, answer>>

(* ---- scopes that are right --------------------------------------------------------------------- *)

\* A name means its innermost declaration, whatever blocks and casts came between, and
\* no two live declarations share a slot (Scope, compiler.rs:433-570).
MeansTheInnermost ==
  Goes =>
    /\ \A n \in Names : (map[n] # None) = Kotlin!InSight(n)
    /\ \A n \in Seen(map) :
         /\ map[n].slot = Kotlin!Innermost(decls, n) - 1
         /\ map[n].mutable = Kotlin!Meant(n).var
    /\ next_slot = Len(decls)

\* A binding is lowered by another type than its annotation's only where the flow proves
\* that type, and what is kept as written is what was (compiler.rs:524-560).
CastOnlyWhereProved ==
  Goes => \A n \in Seen(map) :
    LET d == Kotlin!Meant(n)
    IN  /\ map[n].ty # coarse(d.ty) => d.fact # None /\ map[n].ty = coarse(d.fact)
        /\ map[n].written \in {None, d.ty}
        /\ map[n].declared # None => map[n].declared = Kotlin!Known(d).name

\* A program is refused only if it is not valid Kotlin (variance.rs:6-11).
RefusesOnlyInvalid == refused => ~lawful
=============================================================================

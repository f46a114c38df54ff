------------------------------- MODULE Variance --------------------------------
(***************************************************************************)
(* kotlinrs's checks of declaration-site and use-site variance              *)
(* (src/src/variance.rs), over types as they are written.                   *)
(*                                                                          *)
(* A certain answer is "yes" or "no"; None is an answer the code does not    *)
(* have.  Every check refuses programs, so None refuses nothing.  Messages   *)
(* are left out, but for what they say of a declaration: the parameter, the  *)
(* position and whether its nearest generic is a typealias.                  *)
(***************************************************************************)
EXTENDS Naturals, Sequences, FiniteSets

CONSTANTS Classes,    \* the program's classes, with the signatures of their members
          Functions,  \* its top-level functions
          Qualified,  \* names with a dot: the last segment, the hoisted name
          None

(* ---- types as written ---------------------------------------------------- *)

Named(name, args, null) == [name |-> name, args |-> args, null |-> null]
\* recv: the receiver's type, if there is one.
Func(recv, params, ret) == [recv |-> recv, params |-> params, ret |-> ret, null |-> FALSE]
IsNamed(t) == "name" \in DOMAIN t
Star == [v |-> "star"]
Arg(v, t) == [v |-> v, ty |-> t]

dotted(name) == name \in DOMAIN Qualified
head(t) == IF dotted(t.name) THEN Qualified[t.name].last ELSE t.name
hoisted(name) == IF dotted(name) THEN Qualified[name].hoisted ELSE name

\* Mutation: a contravariant argument of a contravariant position stays one.
compose_once(pos, arg) == IF arg = "out" THEN pos ELSE IF pos = "inv" THEN "inv" ELSE arg
compose(pos, arg) ==
  CASE arg = "out" -> pos
    [] arg = "in" /\ pos = "out" -> "in"
    [] arg = "in" /\ pos = "in" -> "out"
    [] OTHER -> "inv"

\* The first answer of a sequence of answers.
FirstOf(answers) ==
  LET some == SelectSeq(answers, LAMBDA x : x # None)
  IN  IF some = <<>> THEN None ELSE Head(some)

(* ---- what is known of a generic -------------------------------------------- *)

stdlib_variance(h) ==
  CASE h \in {"List", "Collection", "Iterable", "Set", "Sequence", "Iterator", "ListIterator",
              "Lazy", "Result", "IndexedValue", "MutableIterable", "MutableIterator"} -> <<"out">>
    [] h \in {"Pair", "Entry"} -> <<"out", "out">>
    [] h = "Triple" -> <<"out", "out", "out">>
    [] h = "Map" -> <<"inv", "out">>
    [] h = "Comparable" -> <<"in">>
    [] h \in {"Comparator", "Array", "MutableList", "MutableSet", "MutableCollection",
              "ArrayList", "HashSet", "LinkedHashSet", "ArrayDeque",
              "MutableListIterator"} -> <<"inv">>
    [] h \in {"MutableMap", "HashMap", "LinkedHashMap", "Grouping"} -> <<"inv", "inv">>
    [] OTHER -> None

is_jvm_typealias(h) ==
  h \in {"ArrayList", "HashMap", "HashSet", "LinkedHashMap", "LinkedHashSet", "Comparator"}

\* A simple name that two classes share names neither.
ByName == [name \in UNION { {Classes[i].name, Classes[i].simple} : i \in DOMAIN Classes } |->
             {i \in DOMAIN Classes : name \in {Classes[i].name, Classes[i].simple}}]
Declaring(name) == IF name \in DOMAIN ByName THEN ByName[name] ELSE {}
names_user_class(t) == IsNamed(t) /\ Declaring(hoisted(t.name)) # {}
TheOnly(is) == IF Cardinality(is) = 1 THEN Classes[CHOOSE i \in is : TRUE] ELSE None
user_class(t) == IF IsNamed(t) THEN TheOnly(Declaring(hoisted(t.name))) ELSE None

\* The variance of the parameters of a written generic, if its arguments fit them.
Fitting(t, vs) == IF vs = None THEN None ELSE IF Len(vs) = Len(t.args) THEN vs ELSE None
DeclaredBy(c) == IF c = None THEN None ELSE c.variance
of(t) == Fitting(t, IF names_user_class(t) THEN DeclaredBy(user_class(t)) ELSE stdlib_variance(head(t)))

fun_ret(name) ==
  LET named == {i \in DOMAIN Functions : Functions[i].name = name}
  IN  IF Declaring(name) # {} \/ Cardinality(named) # 1 THEN None
      ELSE LET f == Functions[CHOOSE i \in named : TRUE]
           IN  IF f.extension THEN None ELSE f.ret

(* ---- declaration-site variance ------------------------------------------- *)

\* params: the type parameters in sight, each with its declared variance.
RECURSIVE first_violation(_, _, _, _)
first_violation(t, pos, params, alias) ==
  IF ~IsNamed(t) THEN
    LET taken == t.recv \o t.params IN
    FirstOf([i \in 1..Len(taken) |->
               first_violation(taken[i], compose(pos, "in"), params, FALSE)]
            \o << first_violation(t.ret, pos, params, FALSE) >>)
  ELSE IF t.args = <<>> THEN
    IF t.name \in DOMAIN params /\ params[t.name] # "inv" /\ pos # params[t.name]
    THEN [name |-> t.name, declared |-> params[t.name], pos |-> pos, abbreviated |-> alias]
    ELSE None
  ELSE IF of(t) = None THEN None
  ELSE FirstOf([i \in 1..Len(t.args) |->
         IF t.args[i] = Star THEN None
         ELSE first_violation(t.args[i].ty,
                compose(pos, IF t.args[i].v = "inv" THEN of(t)[i] ELSE t.args[i].v),
                params, is_jvm_typealias(head(t)))])

\* The written types of a member, each with its position and the parameters it sees.
sites(m, all) ==
  LET seen == [p \in DOMAIN all \ m.own |-> all[p]]
      site(t, pos) == IF t = None THEN <<>> ELSE << [ty |-> t, pos |-> pos, params |-> seen] >>
      RECURSIVE each(_)
      each(i) == IF i > Len(m.params) THEN <<>> ELSE site(m.params[i].ty, "in") \o each(i + 1)
  IN  CASE m.kind = "super" -> site(m.ty, "out")
        [] m.kind = "prop" -> site(m.ty, IF m.mutable THEN "inv" ELSE "out")
        [] m.kind = "fun" -> site(m.recv, "in") \o each(1) \o site(m.ret, "out")

params_of(c) ==
  [p \in {c.type_params[i] : i \in DOMAIN c.type_params} |->
     c.variance[CHOOSE i \in DOMAIN c.type_params : c.type_params[i] = p]]

\* What a class is refused for; a private member is exempt, and so is a class whose
\* header cannot be rendered (one with a `where`).
check_class(c) ==
  IF ~c.header \/ \A i \in DOMAIN c.variance : c.variance[i] = "inv" THEN None
  ELSE FirstOf([k \in 1..Len(c.members) |->
         IF c.members[k].private THEN None
         ELSE LET s == sites(c.members[k], params_of(c))
              IN  FirstOf([i \in 1..Len(s) |->
                             first_violation(s[i].ty, s[i].pos, s[i].params, FALSE)])])

check_declaration_variance == FirstOf([i \in 1..Len(Classes) |-> check_class(Classes[i])])

(* ---- subtypes -------------------------------------------------------------- *)

is_number(h) == h \in {"Int", "Long", "Short", "Byte", "Double", "Float"}
is_final_builtin(h) == is_number(h) \/ h \in {"String", "Boolean", "Char", "Unit"}

\* Mutation: what is not certain counts as no.
all_known(answers) == IF answers \subseteq {"yes"} THEN "yes" ELSE "no"
all_certain(answers) ==
  CASE "no" \in answers -> "no"
    [] "no" \notin answers /\ None \in answers -> None
    [] OTHER -> "yes"

RECURSIVE same(_, _)
same(a, d) ==
  IF ~IsNamed(a) \/ ~IsNamed(d) THEN None
  ELSE IF dotted(a.name) \/ dotted(d.name) THEN None
  ELSE IF a.name # d.name \/ a.null # d.null \/ Len(a.args) # Len(d.args) THEN "no"
  ELSE all_certain({ LET x == a.args[i]
                         y == d.args[i]
                     IN  IF x.v # y.v THEN "no" ELSE IF x = Star THEN "yes"
                         ELSE same(x.ty, y.ty) : i \in DOMAIN a.args })

\* Two names that differ: decided only for the builtin types nothing extends.
unrelated(a, d) ==
  IF names_user_class(a) \/ names_user_class(d) THEN None
  ELSE CASE is_final_builtin(a.name) /\ is_final_builtin(d.name) -> "no"
         [] is_final_builtin(a.name) /\ d.name = "Number" ->
              IF is_number(a.name) THEN "yes" ELSE "no"
         [] a.name = "Number" /\ is_final_builtin(d.name) -> "no"
         [] OTHER -> None

RECURSIVE subtype(_, _)
\* Of one generic whose parameters have the variances vs.
subtype_args(a, d, vs) ==
  IF vs = None THEN None
  ELSE all_certain({ LET x == a.args[i]
                         y == d.args[i]
                         v == IF y.v = "inv" THEN vs[i] ELSE y.v
                     IN  CASE x.v # "inv" -> None
                           [] x.v = "inv" /\ v = "star" -> "yes"
                           [] x.v = "inv" /\ v = "inv" -> same(x.ty, y.ty)
                           [] x.v = "inv" /\ v = "out" -> subtype(x.ty, y.ty)
                           [] x.v = "inv" /\ v = "in" -> subtype(y.ty, x.ty)
                     : i \in DOMAIN a.args })
subtype(a, d) ==
  IF ~IsNamed(a) \/ ~IsNamed(d) THEN None
  ELSE IF dotted(a.name) \/ dotted(d.name) THEN None
  ELSE IF a.null /\ ~d.null THEN "no"
  ELSE IF d.name = "Any" /\ d.args = <<>> THEN "yes"
  ELSE IF a.name # d.name THEN unrelated(a, d)
  ELSE IF Len(a.args) # Len(d.args) THEN None
  ELSE IF a.args = <<>> THEN "yes"
  ELSE subtype_args(a, d, of(d))

initializer_mismatch(declared, actual) == subtype(actual, declared) = "no"

\* The type a factory's call has; its type arguments are the type's.
factory_result(callee) ==
  CASE callee \in {"listOf", "emptyList", "listOfNotNull"} -> "List"
    [] callee = "mutableListOf" -> "MutableList"
    [] callee = "arrayListOf" -> "ArrayList"
    [] callee \in {"setOf", "emptySet"} -> "Set"
    [] callee = "mutableSetOf" -> "MutableSet"
    [] callee = "hashSetOf" -> "HashSet"
    [] callee = "linkedSetOf" -> "LinkedHashSet"
    [] callee \in {"mapOf", "emptyMap"} -> "Map"
    [] callee = "mutableMapOf" -> "MutableMap"
    [] callee = "hashMapOf" -> "HashMap"
    [] callee = "linkedMapOf" -> "LinkedHashMap"
    [] callee \in {"arrayOf", "emptyArray"} -> "Array"
    [] OTHER -> None

\* The type of a call with type arguments, of a constructor or a listed factory.
construction_type(call) ==
  IF dotted(call.name) \/ (\E i \in DOMAIN Functions : Functions[i].name = call.name) THEN None
  ELSE IF factory_result(call.name) # None /\ Declaring(call.name) = {}
       THEN [call EXCEPT !.name = factory_result(call.name)]
  ELSE IF user_class(call) # None \/ stdlib_variance(call.name) # None THEN call
  ELSE None

(* ---- use-site projections ---------------------------------------------------- *)

\* The argument a receiver has for one of its class's type parameters.
projection_of(recv, c, tp) ==
  LET named == {i \in DOMAIN c.type_params : c.type_params[i] = tp}
  IN  IF named = {} \/ Len(recv.args) # Len(c.type_params) THEN None
      ELSE recv.args[CHOOSE i \in named : \A j \in named : i <= j]

sole_member(c, name) ==
  LET named == {i \in DOMAIN c.members : c.members[i].name = name}
  IN  IF Cardinality(named) = 1 THEN c.members[CHOOSE i \in named : TRUE] ELSE None

\* A parameter's type read through the receiver, if it is a bare type parameter.
Projected(recv, c, t) ==
  IF ~IsNamed(t) THEN None ELSE IF t.args # <<>> THEN None ELSE projection_of(recv, c, t.name)

\* Mutation: a star is not taken for a projection.
word_out(p) == IF p = None THEN None ELSE IF p.v = "out" THEN p.v ELSE None
word(p) == IF p = None THEN None ELSE IF p.v \in {"star", "out"} THEN p.v ELSE None

\* The standard members that take the projected argument, by receiver, member and
\* number of arguments.
takes_projected(h, method, argc, indexed) ==
  \/ /\ h \in {"MutableList", "MutableSet", "MutableCollection", "ArrayList", "HashSet",
                "LinkedHashSet"}
     /\ method = "add" /\ argc = 1
  \/ h \in {"MutableList", "ArrayList"} /\ method \in {"add", "set"} /\ argc = 2
  \/ h = "Array" /\ method = "set" /\ argc = 2
  \/ /\ h \in {"MutableMap", "HashMap", "LinkedHashMap"} /\ argc = 2
     /\ method = "put" \/ (method = "set" /\ indexed)

\* The projection a call is refused for.
projected_call(recv, method, argc, indexed) ==
  IF ~IsNamed(recv) THEN None
  ELSE IF names_user_class(recv) THEN
    LET c == user_class(recv)
        m == IF c = None THEN None ELSE sole_member(c, method)
    IN  IF m = None THEN None
        ELSE IF m.kind # "fun" \/ m.private THEN None
        ELSE IF m.recv # None \/ m.ret = None \/ m.own # {}
                \/ (\E i \in DOMAIN m.params : m.params[i].ty = None) THEN None
        ELSE FirstOf([i \in 1..Len(m.params) |-> word(Projected(recv, c, m.params[i].ty))])
  ELSE IF ~takes_projected(head(recv), method, argc, indexed) THEN None
  ELSE IF Len(recv.args) # Len(stdlib_variance(head(recv))) THEN None
  ELSE FirstOf([i \in 1..(IF method = "add" \/ Len(recv.args) = 1 THEN 1 ELSE Len(recv.args)) |->
                  word(recv.args[i])])

\* What a read through an in or star projection captures.
captured(p, null) ==
  IF p = None THEN None
  ELSE IF p.v \in {"star", "in"} THEN [captured |-> p, null |-> null] ELSE None

projected_read(recv, member, call, indexed) ==
  IF ~IsNamed(recv) THEN None
  ELSE IF names_user_class(recv) THEN
    LET c == user_class(recv)
        m == IF c = None THEN None ELSE sole_member(c, member)
        t == CASE m = None -> None
               [] m # None /\ m.kind = "prop" /\ ~call -> m.ty
               [] m # None /\ m.kind = "fun" /\ call ->
                    IF m.recv = None /\ m.own = {} /\ m.params = <<>> THEN m.ret ELSE None
               [] OTHER -> None
    IN  IF t = None THEN None
        ELSE IF ~IsNamed(t) \/ (\E i \in DOMAIN c.variance : c.variance[i] # "inv") THEN None
        ELSE captured(Projected(recv, c, t), t.null)
  ELSE IF (indexed \/ (call /\ member = "get")) /\ Len(recv.args) = 1
          /\ head(recv) \in {"MutableList", "ArrayList", "Array"}
       THEN captured(recv.args[1], FALSE)
  ELSE None

\* Whether recv.name = value writes a type parameter projected out or by a star.
projected_write(recv, name) ==
  LET c == user_class(recv)
      m == IF c = None THEN None ELSE sole_member(c, name)
  IN  IF m = None THEN FALSE
      ELSE IF m.kind # "prop" \/ m.private THEN FALSE
      ELSE m.mutable /\ m.ty # None /\ word(Projected(recv, c, m.ty)) # None
=============================================================================

----------------------------- MODULE Throwables -----------------------------
(***************************************************************************)
(* The throwables that class initialization tells apart: those a program    *)
(* raises, some of them Errors, and the two LinkageErrors that stand for    *)
(* an initializer that failed.                                              *)
(***************************************************************************)
CONSTANTS Obj,     \* the object singletons of a program
          Raised,  \* what a program raises
          Errors,  \* those of them that are an Error
          None

InInitializer(e) == [class |-> "ExceptionInInitializerError", cause |-> e]
NotDefined(o, e) == [class |-> "NoClassDefFoundError", of |-> o, cause |-> e]

Throwable ==
  Raised \cup {InInitializer(e) : e \in Raised}
         \cup {NotDefined(o, e) : o \in Obj, e \in Raised}

IsError(e) == e \notin Raised \/ e \in Errors

ASSUME ThrowableAssumption ==
  /\ Errors \subseteq Raised
  /\ None \notin Throwable /\ None \notin Obj
  /\ \A e \in Raised, o \in Obj : InInitializer(e) \notin Raised /\ NotDefined(o, e) \notin Raised
=============================================================================

------------------------- MODULE ImplicitConversions -------------------------
(***************************************************************************)
(* Implicit conversion sequences in C++ (lib/Sema/SemaOverload.cpp,        *)
(* CheckReferenceInit of lib/Sema/SemaDeclCXX.cpp): user-defined           *)
(* conversions and the binding of references, over StandardConversions.    *)
(*                                                                         *)
(* A parameter has a type and is passed by value or is a reference to it.  *)
(* An operation that looks for a sequence yields the set of those there    *)
(* are, one or none.  Explicit conversion functions are left out.          *)
(***************************************************************************)
EXTENDS StandardConversions

CONSTANTS
  Constructors(_),    \* the converting constructors of a class [id, param]
  Conversions(_)      \* the conversion functions of a class [id, to, quals]

(* TryObjectArgumentInitialization, for a method of the class with these   *)
(* qualifiers.                                                             *)
TryObjectArgument(type, class, quals) ==
  LET T == [base |-> class, via |-> <<>>, cv |-> <<quals>>] IN
  IF Quals(type) \subseteq quals /\ (type.base = class \/ IsDerivedFrom(type, T))
  THEN {Standard([SetAsIdentityConversion(type, T) EXCEPT
                    !.Second = IF type.base = class THEN "identity" ELSE "derived_to_base",
                    !.Ref = TRUE, !.Direct = TRUE])}
  ELSE {}

(***************************************************************************)
(* The sequences for an argument and a parameter.  suppress:               *)
(* user-defined conversions are not permitted.                             *)
(***************************************************************************)
RECURSIVE TryImplicitConversion(_, _, _)
RECURSIVE CheckReferenceInit(_, _, _)

TryCopyInitialization(e, P, suppress) ==
  IF P.ref = "value" THEN TryImplicitConversion(e, P.type, suppress)
  ELSE CheckReferenceInit(e, P, suppress)

UserCandidate(fn, conversion, isConversion, final) ==
  [fn |-> fn, Viable |-> TRUE, IgnoreObject |-> FALSE, Conversions |-> <<conversion>>,
   isConversion |-> isConversion, Final |-> final]

(* AddOverloadCandidate of a constructor.                                  *)
ConstructorCandidates(e, T) ==
  IF ~Is(T, Classes) THEN {}
  ELSE UNION {{UserCandidate(fn, c, FALSE, SetAsIdentityConversion(T, T)) :
                 c \in TryCopyInitialization(e, fn.param, TRUE)} : fn \in Constructors(T.base)}

(* AddConversionCandidate: the call of the conversion function is an       *)
(* argument of its own.                                                    *)
ResultOf(fn) == [type |-> fn.to.type, form |-> IF fn.to.ref = "lref" THEN "lvalue" ELSE "rvalue"]

ConversionCandidates(e, P, fns) ==
  UNION {UNION {{UserCandidate(fn, object, TRUE, final.std) :
                   final \in TryCopyInitialization(ResultOf(fn), P, TRUE)} :
                object \in TryObjectArgument(e.type, e.type.base, fn.quals)} : fn \in fns}

ConversionsOf(e) == IF Is(e.type, Classes) THEN Conversions(e.type.base) ELSE {}

ByValue(T) == [type |-> T, ref |-> "value"]

IsUserDefinedConversion(e, T, suppress) ==
  BestOf(ConstructorCandidates(e, T)
           \cup (IF suppress THEN {} ELSE ConversionCandidates(e, ByValue(T), ConversionsOf(e))))

(* A class that is copied, perhaps as a base of what it is copied from,    *)
(* counts as a standard conversion.                                        *)
IsCopy(e, T) ==
  Unqualified(e.type) = Unqualified(T) \/ IsDerivedFrom(e.type, T)

StandardElse(standard, otherwise) ==
  IF standard # {} THEN {Standard(s) : s \in standard} ELSE otherwise

TryImplicitConversion(e, T, suppress) ==
  StandardElse(
    IsStandardConversion(e, T),
    UNION {IF ~c.isConversion /\ IsCopy(e, T)
              THEN {Standard([SetAsIdentityConversion(e.type, T) EXCEPT
                                !.Copy = "yes",
                                !.Second = IF Unqualified(e.type) = Unqualified(T)
                                           THEN "identity" ELSE "derived_to_base"])}
              ELSE IF suppress THEN {}
              ELSE {UserDefined(c.fn, c.Final)} :
              c \in IsUserDefinedConversion(e, T, suppress)})

(* CompareReferenceRelationship.                                           *)
IsReferenceRelated(T1, e) ==
  ~IsArray(e) /\ (Unqualified(T1) = Unqualified(e.type) \/ IsDerivedFrom(e.type, T1))
IsReferenceCompatible(T1, e) == IsReferenceRelated(T1, e) /\ Quals(e.type) \subseteq Quals(T1)

(* The sequence of a binding, which sets neither what it copies with nor   *)
(* whether it is deprecated.                                               *)
Binding(e, T1, direct, rref) ==
  Standard([SetAsIdentityConversion(e.type, T1) EXCEPT
              !.Second = IF Unqualified(T1) = Unqualified(e.type) THEN "identity"
                         ELSE "derived_to_base",
              !.Ref = TRUE, !.Direct = direct, !.RRef = rref, !.Copy = "uninitialized"])

(* The conversion functions that return an lvalue the reference can be     *)
(* bound to.  There being two that are equally good is not implemented.    *)
BindingCandidates(e, P, suppress) ==
  IF suppress \/ P.ref # "lref" THEN {}
  ELSE ConversionCandidates(e, P, {fn \in ConversionsOf(e) : fn.to.ref = "lref"})

(* What the binding of a reference does with the candidates that convert   *)
(* to an lvalue and with whether the types are reference-compatible.       *)
BindReference(e, P, suppress, compatible, candidates) ==
  LET T1 == P.type
      rref == P.ref = "rref" IN
  IF rref /\ IsLvalue(e) THEN {}
  ELSE IF IsLvalue(e) /\ compatible THEN {Binding(e, T1, TRUE, FALSE)}
  ELSE IF candidates # {} THEN {UserDefined(c.fn, c.Final) : c \in BestOf(candidates)}
  ELSE IF ~rref /\ Quals(T1) # {"const"} THEN {}
  ELSE IF ~IsLvalue(e) /\ Is(e.type, Classes) /\ compatible
  THEN {Binding(e, T1, FALSE, rref)}
  ELSE IF \/ IsReferenceRelated(T1, e) /\ ~compatible
          \/ /\ suppress /\ ~IsReferenceRelated(T1, e)
             /\ Is(T1, Classes) \/ Is(e.type, Classes)
  THEN {}
  ELSE {[ics EXCEPT !.std.Ref = TRUE, !.std.RRef = rref] :
          ics \in TryImplicitConversion(e, T1, suppress)}

CheckReferenceInit(e, P, suppress) ==
  BindReference(e, P, suppress, IsReferenceCompatible(P.type, e), BindingCandidates(e, P, suppress))
=============================================================================

-------------------------- MODULE OverloadResolution --------------------------
(***************************************************************************)
(* A call is resolved: its functions become candidates, with the implicit  *)
(* conversion sequences of the arguments (ImplicitConversions), among      *)
(* which the best is looked for (BestViableFunction).                      *)
(*                                                                         *)
(* A function has parameters, of which some are required, may have an      *)
(* ellipsis, may be deleted, and may be a method of a class; a call has    *)
(* arguments and, if it is of methods, an object.                          *)
(***************************************************************************)
EXTENDS ImplicitConversions, BestViableFunction, SequencesExt

(***************************************************************************)
(* Candidates.                                                             *)
(***************************************************************************)

(* What a binding leaves uninitialized may be anything.                    *)
Initialized(ics) ==
  IF ics.kind # "ellipsis" /\ ics.std.Copy = "uninitialized"
  THEN {[ics EXCEPT !.std.Copy = c] : c \in {"no", "yes"}} ELSE {ics}

ArgumentConversions(c, f) ==
  [i \in DOMAIN c.args |->
     IF i > Len(f.params) THEN {Ellipsis}
     ELSE UNION {Initialized(ics) : ics \in TryCopyInitialization(c.args[i], f.params[i], FALSE)}]

(* The object of a static method has a place and no conversion.            *)
ObjectConversions(c, f) ==
  IF ~f.isMethod THEN <<>>
  ELSE IF f.isStatic THEN <<{Ellipsis}>>
  ELSE <<TryObjectArgument(c.object, f.class, f.quals)>>

(* AddOverloadCandidate, AddMethodCandidate: what CandidateFor is.         *)
OverloadCandidates(c, f) ==
  LET sets == ObjectConversions(c, f) \o ArgumentConversions(c, f)
      viable == /\ Len(c.args) <= Len(f.params) \/ f.isVariadic
                /\ Len(c.args) >= f.required
                /\ \A i \in DOMAIN sets : sets[i] # {} IN
  {[Viable |-> viable, Conversions |-> s, IgnoreObject |-> f.isMethod /\ f.isStatic,
    isConversion |-> FALSE, Deleted |-> f.isDeleted] :
     s \in IF ~viable THEN {<<>>}
           ELSE {s \in [DOMAIN sets -> UNION Range(sets)] : \A i \in DOMAIN sets : s[i] \in sets[i]}}

(***************************************************************************)
(* What comments and assertions say of it.                                 *)
(***************************************************************************)

(* SemaOverload.cpp:158: isPointerConversionToVoidPointer "Determines      *)
(* whether this conversion is a conversion of a pointer to a void          *)
(* pointer", whose source types can be compared.                           *)
VoidPointersComeOfPointers ==
  Complete => \A k \in Places : \A i, j \in ViableOnes : Compare(k, i, j) # "undefined"

(* SemaOverload.cpp:1523: "A conversion that is not a conversion of a      *)
(* pointer, or pointer to member, to bool is better than another           *)
(* conversion that is such a conversion."                                  *)
PointersToBoolAreWorse ==
  LET toBool(s) == Is(s.To, {"bool"}) /\ (IsPointer(s.From) \/ IsMemberPointer(s.From)) IN
  Complete => \A s1, s2 \in StandardOnes :
    s1.From = s2.From /\ ~toBool(s1) /\ toBool(s2) =>
      CompareStandardConversionSequences(s1, s2) = "better"

(* SemaOverload.cpp:1636: sequences are ranked by their qualifications     *)
(* when they "differ only in their qualification conversion and yield      *)
(* similar types".                                                         *)
OnlySimilarTypesByQualification ==
  Complete => \A s1, s2 \in StandardOnes :
    CompareQualificationConversions(s1, s2) # "same" =>
      AreSimilar(s1.To, s2.To)

(* SemaOverload.cpp:649: "Any difference in top-level cv-qualification is  *)
(* subsumed by the initialization itself and does not constitute a         *)
(* conversion."                                                            *)
TopLevelQualifiersAreNoConversion ==
  Complete => \A s \in StandardOnes :
    Unqualified(s.From) = Unqualified(s.To) => s.Second = "identity" /\ s.Third = "identity"

(* What a sequence is when the binding of a reference is no copy.          *)
Corrected(ics) ==
  IF ics.kind # "ellipsis" /\ ics.std.Ref THEN [ics EXCEPT !.std.Copy = "no"] ELSE ics

(* SemaOverload.h:130: CopyConstructor is "The copy constructor that is    *)
(* used to perform this conversion, when the conversion is actually just   *)
(* the initialization of an object via copy constructor": no binding of a  *)
(* reference is compared as such a copy.                                   *)
OnlyCopiesAreComparedAsCopies ==
  Complete => \A s1, s2 \in StandardOnes :
    CompareImplicitConversionSequences(Standard(s1), Standard(s2))
      = CompareImplicitConversionSequences(Corrected(Standard(s1)), Corrected(Standard(s2)))

(* SemaDeclCXX.cpp:2173: the assertion that what was found by conversion   *)
(* functions is a direct binding, "Expected a direct reference binding!"   *)
ExpectedADirectBinding ==
  Complete => \A f \in Range(call.functions) : \A i \in DOMAIN call.args \cap DOMAIN f.params :
    f.params[i].ref = "lref" /\ ~IsReferenceCompatible(f.params[i].type, call.args[i]) =>
      \A c \in BestOf(BindingCandidates(call.args[i], f.params[i], FALSE)) : c.Final.Direct
=============================================================================

------------------------- MODULE StandardConversions -------------------------
(***************************************************************************)
(* Standard conversions in C++ and how implicit conversion sequences and   *)
(* candidates are ranked (lib/Sema/SemaOverload.cpp).                      *)
(*                                                                         *)
(* A type is a base, the way to it, the outermost pointer first, and the   *)
(* cv-qualifiers at its levels, one more than there are pointers.  On the  *)
(* way "*" is a pointer and a class a pointer to its members: the type     *)
(* const int A::* volatile is                                              *)
(*   [base |-> "int", via |-> <<"A">>, cv |-> <<{"volatile"}, {"const"}>>] *)
(* Of an argument its form tells what it is besides its type: an lvalue,   *)
(* an rvalue, a null pointer constant, or an array or a string literal,    *)
(* whose type is given as the pointer type it decays to.                   *)
(*                                                                         *)
(* Objective-C, blocks, complex numbers, bit-fields, functions, treating   *)
(* lvalues as rvalues and overloading in C are left out.                   *)
(***************************************************************************)
EXTENDS Naturals, Sequences

CONSTANTS
  Classes,
  Derivations         \* pairs <<D, B>>: D is derived, directly or not, from B

(* "Is derived from" is transitive, and no class is derived from itself.   *)
ASSUME DerivationsAssumption ==
  \A p, q \in Derivations : p[2] = q[1] => <<p[1], q[2]>> \in Derivations /\ p[1] # q[2]

(***************************************************************************)
(* Types.                                                                  *)
(***************************************************************************)
IsPointer(T) == Len(T.cv) > 1 /\ T.via[1] = "*"
IsMemberPointer(T) == Len(T.cv) > 1 /\ T.via[1] # "*"
Pointee(T) == [base |-> T.base, via |-> Tail(T.via), cv |-> Tail(T.cv)]
Quals(T) == T.cv[1]
Unqualified(T) == [T EXCEPT !.cv[1] = {}]
QualifiedAs(T, q) == [T EXCEPT !.cv[1] = q]
PointerTo(T) == [base |-> T.base, via |-> <<"*">> \o T.via, cv |-> <<{}>> \o T.cv]

Is(T, bases) == Len(T.cv) = 1 /\ T.base \in bases
Integral == {"bool", "char", "int", "unsigned", "long", "enum"}
Floating == {"float", "double"}
IsVoidPointer(T) == IsPointer(T) /\ Len(T.cv) = 2 /\ T.base = "void"

(* Of unqualified classes.                                                 *)
IsDerivedFrom(T1, T2) ==
  Len(T1.cv) = 1 /\ Len(T2.cv) = 1 /\ <<T1.base, T2.base>> \in Derivations

(***************************************************************************)
(* Standard conversions.                                                   *)
(***************************************************************************)

(* The enumeration's underlying type is unsigned and as large as an int.   *)
IsIntegralPromotion(F, T) ==
  \/ Is(F, {"char", "bool"}) /\ Is(T, {"int"})
  \/ Is(F, {"enum"}) /\ Is(T, {"unsigned"})

IsFloatingPointPromotion(F, T) == Is(F, {"float"}) /\ Is(T, {"double"})

(* To a pointer: from null, and from a pointer to an object that is given  *)
(* as a pointer to void or to a base class with the same qualifiers.       *)
IsPointerConversion(e, F, T) ==
  /\ IsPointer(T)
  /\ \/ e.form = "null"
     \/ /\ IsPointer(F)
        /\ \/ ~IsVoidPointer(F) /\ IsVoidPointer(T)
           \/ IsDerivedFrom(Pointee(F), Pointee(T))

PointerConverted(e, F, T) ==
  IF e.form = "null" \/ Quals(Pointee(T)) = Quals(Pointee(F)) THEN T
  ELSE PointerTo(QualifiedAs(Pointee(T), Quals(Pointee(F))))

(* From null, and from a pointer to a member of a base class: what is      *)
(* converted is the class, not the type of the member.                     *)
IsMemberPointerConversion(e, F, T) ==
  /\ IsMemberPointer(T)
  /\ e.form = "null" \/ (IsMemberPointer(F) /\ <<T.via[1], F.via[1]>> \in Derivations)

MemberPointerConverted(e, F, T) ==
  IF e.form = "null" THEN T ELSE [Unqualified(F) EXCEPT !.via[1] = T.via[1]]

(* The second conversion and the type it gives.                            *)
SecondConversion(e, F, T) ==
  LET To == Unqualified(T) IN
  IF Unqualified(F) = To THEN <<"identity", F>>
  ELSE IF IsIntegralPromotion(F, T) THEN <<"integral_promotion", To>>
  ELSE IF IsFloatingPointPromotion(F, T) THEN <<"floating_promotion", To>>
  ELSE IF Is(F, Integral) /\ Is(T, Integral \ {"enum"}) THEN <<"integral_conversion", To>>
  ELSE IF Is(F, Floating) /\ Is(T, Floating) THEN <<"floating_conversion", To>>
  ELSE IF \/ Is(F, Floating) /\ Is(T, Integral \ {"bool", "enum"})
          \/ Is(F, Integral) /\ Is(T, Floating) THEN <<"floating_integral", To>>
  ELSE IF IsPointerConversion(e, F, T) THEN <<"pointer_conversion", PointerConverted(e, F, T)>>
  ELSE IF IsMemberPointerConversion(e, F, T)
       THEN <<"pointer_member", MemberPointerConverted(e, F, T)>>
  ELSE IF Is(T, {"bool"}) /\ (IsPointer(F) \/ IsMemberPointer(F) \/ Is(F, Floating))
       THEN <<"boolean_conversion", To>>
  ELSE <<"identity", F>>

(* Alike but for their qualifiers, at every level.                         *)
AreSimilar(T1, T2) == T1.base = T2.base /\ T1.via = T2.via /\ Len(T1.cv) = Len(T2.cv)

(* Mutant: const need not be in every outer level of the target.           *)
IsQualificationConversion_NoOuterConst(F, T) ==
  /\ F # T
  /\ Len(F.cv) > 1 /\ AreSimilar(F, T)
  /\ \A j \in 2..Len(F.cv) : F.cv[j] \subseteq T.cv[j]

IsQualificationConversion(F, T) ==
  /\ F # T
  /\ Len(F.cv) > 1 /\ AreSimilar(F, T)
  /\ \A j \in 2..Len(F.cv) :
       /\ F.cv[j] \subseteq T.cv[j]
       /\ F.cv[j] # T.cv[j] => \A k \in 2..j - 1 : "const" \in T.cv[k]

IsArray(e) == e.form \in {"array", "string"}
IsLvalue(e) == IsArray(e) \/ e.form = "lvalue"

SetAsIdentityConversion(F, T) ==
  [First |-> "identity", Second |-> "identity", Third |-> "identity", From |-> F, To |-> T,
   Deprecated |-> FALSE, Ref |-> FALSE, Direct |-> FALSE, RRef |-> FALSE, Copy |-> "no"]

(* A string literal may still become a pointer to char that is not const.  *)
IsStringLiteralToNonConst(e, T) ==
  e.form = "string" /\ IsPointer(T) /\ T.base = "char" /\ Len(T.cv) = 2 /\ T.cv[2] = {}

FirstConversion(e) ==
  CASE IsArray(e) -> "array_to_pointer"
    [] e.form = "lvalue" -> "lvalue_to_rvalue"
    [] OTHER -> "identity"

(* The sequence, if it leads to T, with these second and third conversions.*)
SequenceTo(e, T, second, qualification) ==
  LET scs == [SetAsIdentityConversion(e.type, T) EXCEPT
                !.First = FirstConversion(e),
                !.Second = second[1],
                !.Third = IF qualification THEN "qualification" ELSE "identity"] IN
  IF IsStringLiteralToNonConst(e, T)
  THEN {[scs EXCEPT !.Second = "identity", !.Third = "qualification", !.Deprecated = TRUE]}
  ELSE IF qualification \/ Unqualified(second[2]) = Unqualified(T) THEN {scs} ELSE {}

Qualified(e, T, second) == SequenceTo(e, T, second, IsQualificationConversion(second[2], T))

(* The type of the argument behind its first conversion.                   *)
FirstType(e) == IF e.form = "lvalue" THEN Unqualified(e.type) ELSE e.type

IsStandardConversion(e, T) ==
  IF Is(e.type, Classes) \/ Is(T, Classes) THEN {}
  ELSE Qualified(e, T, SecondConversion(e, FirstType(e), T))

(***************************************************************************)
(* What the sequences that are ranked are.                                 *)
(***************************************************************************)
IsType(T) ==
  /\ T = [base |-> T.base, via |-> T.via, cv |-> T.cv]
  /\ T.cv \in Seq(SUBSET {"const", "volatile", "restrict"})
  /\ T.via \in Seq(Classes \cup {"*"}) /\ Len(T.cv) = Len(T.via) + 1

(* A null pointer constant is of an integral type, an array decays.        *)
Forms == {"lvalue", "rvalue", "null", "array", "string"}
IsArgument(e) ==
  /\ IsType(e.type) /\ e.form \in Forms
  /\ e.form = "null" => Is(e.type, Integral)
  /\ IsArray(e) => IsPointer(e.type)

Steps(s) == <<s.First, s.Second, s.Third, s.Deprecated>>

(* Of an argument: a class is copied or bound, as itself or as one of its  *)
(* bases; something else is bound as what it is, or converted.             *)
IsSequence(e, s) ==
  LET same == Unqualified(s.From) = Unqualified(s.To) IN
  /\ IsType(s.From) /\ IsType(s.To) /\ Unqualified(s.From) = Unqualified(e.type)
  /\ s.Ref \in BOOLEAN /\ s.RRef \in BOOLEAN
  /\ \/ /\ Is(s.From, Classes) /\ Is(s.To, Classes)
        /\ Steps(s)
             = <<"identity", IF same THEN "identity" ELSE "derived_to_base", "identity", FALSE>>
     \/ /\ ~Is(s.From, Classes) /\ same
        /\ Steps(s) = <<"identity", "identity", "identity", FALSE>>
     \/ \E c \in IsStandardConversion(e, s.To) : s.From = e.type /\ Steps(s) = Steps(c)

(* Two sequences of the same argument.                                     *)
AreOfOneArgument(s1, s2) ==
  \E f \in Forms : LET e == [type |-> s1.From, form |-> f] IN
    IsArgument(e) /\ IsSequence(e, s1) /\ IsSequence(e, s2)

(***************************************************************************)
(* Ranking.  Of two sequences the first is better, worse, or the same.     *)
(***************************************************************************)
Rank(kind) ==
  CASE kind \in {"identity", "lvalue_to_rvalue", "array_to_pointer", "qualification"} -> 0
    [] kind \in {"integral_promotion", "floating_promotion"} -> 1
    [] OTHER -> 2

(* The first and the third conversion are always exact.                    *)
GetRank(s) == Rank(s.Second)

IsPointerConversionToBool(s) ==
  Is(s.To, {"bool"}) /\ (IsPointer(s.From) \/ s.First = "array_to_pointer")

IsPointerConversionToVoidPointer(s) ==
  s.Second = "pointer_conversion" /\ IsVoidPointer(s.To)

Opposite(kind) ==
  CASE kind = "better" -> "worse" [] kind = "worse" -> "better" [] OTHER -> kind

(* Which of two classes, or types, a derives from b favours.               *)
ByDerivation(nearer, T1, T2) ==
  CASE IsDerivedFrom(T1, T2) -> nearer
    [] IsDerivedFrom(T2, T1) -> Opposite(nearer)
    [] OTHER -> "same"

(* The classes a conversion goes from and to: to the nearer base is        *)
(* better, and from the nearer derived class.                              *)
CompareClasses(F1, T1, F2, T2) ==
  IF F1 = F2 /\ T1 # T2 THEN ByDerivation("better", T1, T2)
  ELSE IF F1 # F2 /\ T1 = T2 THEN ByDerivation("worse", F1, F2)
  ELSE "same"

BothCopies(s1, s2) == s1.Copy = "yes" /\ s2.Copy = "yes"

CompareDerivedToBaseConversions(s1, s2) ==
  IF /\ s1.Second = "pointer_conversion" /\ s2.Second = "pointer_conversion"
     /\ IsPointer(s1.From) /\ IsPointer(s2.From)
  THEN CompareClasses(Unqualified(Pointee(s1.From)), Unqualified(Pointee(s1.To)),
                      Unqualified(Pointee(s2.From)), Unqualified(Pointee(s2.To)))
  ELSE IF ((s1.Ref /\ s2.Ref) \/ BothCopies(s1, s2)) /\ s1.Second = "derived_to_base"
  THEN CompareClasses(Unqualified(s1.From), Unqualified(s1.To),
                      Unqualified(s2.From), Unqualified(s2.To))
  ELSE "same"

(* The levels at which the types that the conversions yield, unwrapped     *)
(* together as far as they are pointers of one kind, are qualified         *)
(* differently: the one with fewer qualifiers at all of them is better,    *)
(* unless it comes of the deprecated conversion.                           *)
CompareQualificationConversions(s1, s2) ==
  LET T1 == s1.To
      T2 == s2.To
      levels == {j \in 2..Len(T1.cv) : /\ j \in DOMAIN T2.cv /\ T1.cv[j] # T2.cv[j]
                                       /\ \A k \in 1..j - 1 : T1.via[k] = T2.via[k]} IN
  IF \/ <<s1.First, s1.Second, s1.Third>> # <<s2.First, s2.Second, s2.Third>>
     \/ s1.Third # "qualification"
     \/ Unqualified(T1) = Unqualified(T2)
     \/ levels = {} THEN "same"
  ELSE IF \A j \in levels : T1.cv[j] \subseteq T2.cv[j]
  THEN IF s1.Deprecated THEN "same" ELSE "better"
  ELSE IF \A j \in levels : T2.cv[j] \subseteq T1.cv[j]
  THEN IF s2.Deprecated THEN "same" ELSE "worse"
  ELSE "same"

(* Mutant: bindings to different types are ranked by their qualifiers.     *)
CompareReferenceBindings_OfAnyTypes(s1, s2) ==
  IF ~(s1.Ref /\ s2.Ref) THEN "same"
  ELSE IF s1.RRef # s2.RRef THEN IF s1.RRef THEN "better" ELSE "worse"
  ELSE IF Quals(s1.To) = Quals(s2.To) THEN "same"
  ELSE IF Quals(s1.To) \subseteq Quals(s2.To) THEN "better"
  ELSE IF Quals(s2.To) \subseteq Quals(s1.To) THEN "worse"
  ELSE "same"

CompareReferenceBindings(s1, s2) ==
  IF ~(s1.Ref /\ s2.Ref) THEN "same"
  ELSE IF s1.RRef # s2.RRef THEN IF s1.RRef THEN "better" ELSE "worse"
  ELSE IF Unqualified(s1.To) # Unqualified(s2.To) \/ Quals(s1.To) = Quals(s2.To) THEN "same"
  ELSE IF Quals(s1.To) \subseteq Quals(s2.To) THEN "better"
  ELSE IF Quals(s2.To) \subseteq Quals(s1.To) THEN "worse"
  ELSE "same"

(* s1 is s2 without some of its conversions.                               *)
IsSubsequence(s1, s2) ==
  \/ s1.Second = "identity" /\ s1.Third = s2.Third
  \/ s1.Third = "identity" /\ s1.Second = s2.Second
  \/ s1.Second = "identity" /\ s1.Third = "identity"

(* Both to void pointers: the classes that are pointed to are compared,    *)
(* and there is none when what is converted is no pointer.                 *)
CompareVoidPointers(s1, s2) ==
  IF ~IsPointer(s1.From) \/ ~IsPointer(s2.From) THEN "undefined"
  ELSE ByDerivation("worse", Unqualified(Pointee(s1.From)), Unqualified(Pointee(s2.From)))

CompareByPointers(s1, s2) ==
  LET void1 == IsPointerConversionToVoidPointer(s1)
      void2 == IsPointerConversionToVoidPointer(s2) IN
  IF void1 # void2 THEN IF void2 THEN "better" ELSE "worse"
  ELSE IF void1 THEN CompareVoidPointers(s1, s2)
  ELSE CompareDerivedToBaseConversions(s1, s2)

(* The rules in turn: the first one that decides.                          *)
FirstOf(verdicts) ==
  LET decide == {i \in DOMAIN verdicts : verdicts[i] # "same"} IN
  IF decide = {} THEN "same" ELSE verdicts[CHOOSE i \in decide : \A j \in decide : i <= j]

(* By what only one of the two sequences is.                               *)
Favour(better1, better2) ==
  CASE better1 /\ ~better2 -> "better" [] better2 /\ ~better1 -> "worse" [] OTHER -> "same"

(* Mutant: a sequence that is part of the first is not looked for.         *)
CompareBySubsequence_OneWay(s1, s2) ==
  IF <<s1.Second, s1.Third>> # <<s2.Second, s2.Third>> /\ IsSubsequence(s1, s2)
  THEN "better" ELSE "same"

CompareBySubsequence(s1, s2) ==
  IF <<s1.Second, s1.Third>> = <<s2.Second, s2.Third>> THEN "same"
  ELSE IF IsSubsequence(s1, s2) THEN "better"
  ELSE IF IsSubsequence(s2, s1) THEN "worse" ELSE "same"

CompareStandardConversionSequences(s1, s2) ==
  FirstOf(<<CompareBySubsequence(s1, s2),
            Favour(GetRank(s1) < GetRank(s2), GetRank(s2) < GetRank(s1)),
            Favour(IsPointerConversionToBool(s2), IsPointerConversionToBool(s1)),
            CompareByPointers(s1, s2),
            CompareQualificationConversions(s1, s2),
            CompareReferenceBindings(s1, s2)>>)

(***************************************************************************)
(* Implicit conversion sequences: standard, user-defined, or by an         *)
(* ellipsis.                                                               *)
(***************************************************************************)
Standard(s) == [kind |-> "standard", std |-> s]
UserDefined(fn, after) == [kind |-> "user", fn |-> fn, std |-> after]
Ellipsis == [kind |-> "ellipsis"]

Form(ics) == CASE ics.kind = "standard" -> 0 [] ics.kind = "user" -> 1 [] OTHER -> 2

CompareImplicitConversionSequences(c1, c2) ==
  IF Form(c1) # Form(c2) THEN IF Form(c1) < Form(c2) THEN "better" ELSE "worse"
  ELSE IF c1.kind = "ellipsis" \/ (c1.kind = "user" /\ c1.fn # c2.fn) THEN "same"
  ELSE CompareStandardConversionSequences(c1.std, c2.std)

(* A candidate has the sequences of its arguments, the object's first, and *)
(* a conversion function has that of its result too.                       *)
isBetterOverloadCandidate(c1, c2) ==
  LET first == IF c1.IgnoreObject \/ c2.IgnoreObject THEN 2 ELSE 1
      outcomes == {CompareImplicitConversionSequences(c1.Conversions[i], c2.Conversions[i]) :
                     i \in first..Len(c1.Conversions)} IN
  IF ~c2.Viable THEN c1.Viable
  ELSE /\ c1.Viable
       /\ "worse" \notin outcomes
       /\ \/ "better" \in outcomes
          \/ /\ c1.isConversion /\ c2.isConversion
             /\ CompareStandardConversionSequences(c1.Final, c2.Final) = "better"

(* What two viable candidates have to be: a sequence for every argument,   *)
(* with the same function in it if they are compared.                      *)
AreComparableConversions(c1, c2) ==
  /\ {c1.kind, c2.kind} \subseteq {"standard", "user", "ellipsis"}
  /\ c1.kind = c2.kind /\ c1.kind # "ellipsis" /\ (c1.kind = "user" => c1.fn = c2.fn)
       => AreOfOneArgument(c1.std, c2.std)

AreComparable(c1, c2) ==
  /\ DOMAIN c1.Conversions = 1..Len(c1.Conversions)
  /\ Len(c1.Conversions) = Len(c2.Conversions)
  /\ \A i \in DOMAIN c1.Conversions :
       AreComparableConversions(c1.Conversions[i], c2.Conversions[i])
  /\ c1.isConversion => AreOfOneArgument(c1.Final, c1.Final)

(* BestViableFunction, of a set of viable candidates: the one, if any,     *)
(* that is better than all others.                                         *)
BestOf(cands) == {c \in cands : \A d \in cands \ {c} : isBetterOverloadCandidate(c, d)}
=============================================================================

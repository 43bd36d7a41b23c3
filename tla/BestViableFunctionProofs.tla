----------------------- MODULE BestViableFunctionProofs -----------------------
(***************************************************************************)
(* The two passes of BestViableFunction find the winner among any number   *)
(* of candidates.  They rely on no two candidates being each better than   *)
(* the other, and so on the verdicts of the rules that rank conversions    *)
(* being opposite ones when the sequences change places.  Whether three    *)
(* sequences can be better than one another in a circle is not for the two *)
(* passes to know, but for the rules.                                      *)
(***************************************************************************)
EXTENDS BestViableFunction, SequenceTheorems, TLAPS

(***************************************************************************)
(* Verdicts.                                                               *)
(***************************************************************************)
LEMMA OppositeIsItsOwn ==
  ASSUME NEW kind
  PROVE  /\ Opposite(Opposite(kind)) = kind
         /\ Opposite(kind) = "same" <=> kind = "same"
         /\ Opposite(kind) = "better" <=> kind = "worse"
  BY DEF Opposite

(* Two lists of verdicts that are opposite up to where they first decide   *)
(* give opposite ones.                                                     *)
LEMMA FirstThatDecides ==
  ASSUME NEW v, DOMAIN v = 1..6, NEW k \in 1..6, v[k] # "same",
         \A j \in 1..6 : j < k => v[j] = "same"
  PROVE  FirstOf(v) = v[k]
<1> DEFINE decide == {i \in DOMAIN v : v[i] # "same"}
           least == CHOOSE i \in decide : \A j \in decide : i <= j
<1>1. k \in decide /\ \A j \in decide : k <= j
  OBVIOUS
<1>2. least \in decide /\ \A j \in decide : least <= j
  BY <1>1
<1>3. least = k
  BY <1>1, <1>2
<1> QED BY <1>1, <1>3 DEF FirstOf

LEMMA FirstOfOpposite ==
  ASSUME NEW v, NEW w, DOMAIN v = 1..6, DOMAIN w = 1..6,
         \A k \in 1..6 : (\A j \in 1..6 : j < k => v[j] = "same") => w[k] = Opposite(v[k])
  PROVE  FirstOf(w) = Opposite(FirstOf(v))
<1>1. CASE \A k \in 1..6 : v[k] = "same"
  <2>1. \A k \in 1..6 : w[k] = "same"
    BY <1>1 DEF Opposite
  <2>2. FirstOf(v) = "same" /\ FirstOf(w) = "same"
    BY <1>1, <2>1 DEF FirstOf
  <2> QED BY <2>2 DEF Opposite
<1>2. ASSUME NEW k \in 1..6, v[k] # "same", \A j \in 1..6 : j < k => v[j] = "same"
      PROVE  FirstOf(w) = Opposite(FirstOf(v))
  <2>1. \A j \in 1..6 : j < k => w[j] = "same"
    BY <1>2 DEF Opposite
  <2>2. w[k] = Opposite(v[k]) /\ w[k] # "same"
    BY <1>2, OppositeIsItsOwn
  <2> QED BY <1>2, <2>1, <2>2, FirstThatDecides
<1>3. \/ \A k \in 1..6 : v[k] = "same"
      \/ \E k \in 1..6 : v[k] # "same" /\ \A j \in 1..6 : j < k => v[j] = "same"
  OBVIOUS
<1> QED BY <1>1, <1>2, <1>3

(***************************************************************************)
(* The rules, one by one.                                                  *)
(***************************************************************************)
LEMMA NotDerivedFromEachOther ==
  ASSUME NEW T1, NEW T2, IsDerivedFrom(T1, T2), IsDerivedFrom(T2, T1)
  PROVE  FALSE
  BY DerivationsAssumption DEF IsDerivedFrom

LEMMA BySubsequenceOpposite ==
  ASSUME NEW s1, NEW s2
  PROVE  CompareBySubsequence(s2, s1) = Opposite(CompareBySubsequence(s1, s2))
  BY DEF CompareBySubsequence, IsSubsequence, Opposite

LEMMA FavourOpposite ==
  ASSUME NEW better1 \in BOOLEAN, NEW better2 \in BOOLEAN, ~(better1 /\ better2)
  PROVE  Favour(better2, better1) = Opposite(Favour(better1, better2))
  BY DEF Favour, Opposite

LEMMA ByDerivationOpposite ==
  ASSUME NEW nearer \in {"better", "worse"}, NEW T1, NEW T2
  PROVE  ByDerivation(nearer, T2, T1) = Opposite(ByDerivation(nearer, T1, T2))
  BY NotDerivedFromEachOther DEF ByDerivation, Opposite

LEMMA ClassesOpposite ==
  ASSUME NEW F1, NEW T1, NEW F2, NEW T2
  PROVE  CompareClasses(F2, T2, F1, T1) = Opposite(CompareClasses(F1, T1, F2, T2))
<1>1. Opposite("same") = "same"
  BY DEF Opposite
<1> QED BY <1>1, ByDerivationOpposite DEF CompareClasses

CVQualifiers == SUBSET {"const", "volatile", "restrict"}

LEMMA QualificationOpposite ==
  ASSUME NEW s1, NEW s2, IsType(s1.To), IsType(s2.To)
  PROVE  CompareQualificationConversions(s2, s1)
           = Opposite(CompareQualificationConversions(s1, s2))
<1> DEFINE levels(T1, T2) == {j \in 2..Len(T1.cv) : /\ j \in DOMAIN T2.cv /\ T1.cv[j] # T2.cv[j]
                                                    /\ \A k \in 1..j - 1 : T1.via[k] = T2.via[k]}
<1>1. levels(s1.To, s2.To) = levels(s2.To, s1.To)
  <2>1. s1.To.cv \in Seq(CVQualifiers) /\ s2.To.cv \in Seq(CVQualifiers)
    BY DEF IsType, CVQualifiers
  <2> QED BY <2>1
<1>2. ASSUME \A j \in levels(s1.To, s2.To) : s1.To.cv[j] \subseteq s2.To.cv[j],
             \A j \in levels(s1.To, s2.To) : s2.To.cv[j] \subseteq s1.To.cv[j]
      PROVE  levels(s1.To, s2.To) = {}
  BY <1>2
<1> QED BY <1>1, <1>2 DEF CompareQualificationConversions, Opposite

LEMMA ReferenceOpposite ==
  ASSUME NEW s1, NEW s2, s1.RRef \in BOOLEAN, s2.RRef \in BOOLEAN
  PROVE  CompareReferenceBindings(s2, s1) = Opposite(CompareReferenceBindings(s1, s2))
  BY DEF CompareReferenceBindings, Opposite

(***************************************************************************)
(* Sequences.                                                              *)
(***************************************************************************)
IsOfAnArgument(s) == \E e : IsArgument(e) /\ IsSequence(e, s)

LEMMA TypeRecord ==
  ASSUME NEW T, IsType(T)
  PROVE  T = [base |-> T.base, via |-> T.via, cv |-> T.cv]
  BY DEF IsType

LEMMA TypeLevels ==
  ASSUME NEW T, IsType(T)
  PROVE  /\ T.cv \in Seq(CVQualifiers) /\ T.cv # <<>> /\ T.via \in Seq(Classes \cup {"*"})
         /\ Len(T.via) \in Nat /\ Len(T.cv) \in Nat /\ Len(T.cv) = Len(T.via) + 1
<1>1. /\ T.cv \in Seq(CVQualifiers) /\ T.via \in Seq(Classes \cup {"*"})
      /\ Len(T.cv) = Len(T.via) + 1
  BY DEF IsType, CVQualifiers
<1>2. Len(T.via) \in Nat /\ Len(T.cv) \in Nat /\ Len(T.cv) # 0
  BY <1>1
<1> QED BY <1>1, <1>2

LEMMA UnqualifiedOf ==
  ASSUME NEW b, NEW v, NEW q
  PROVE  Unqualified([base |-> b, via |-> v, cv |-> q])
           = [base |-> b, via |-> v, cv |-> [q EXCEPT ![1] = {}]]
  BY DEF Unqualified

LEMMA UnqualifiedRecord ==
  ASSUME NEW T, IsType(T)
  PROVE  Unqualified(T) = [base |-> T.base, via |-> T.via, cv |-> [T.cv EXCEPT ![1] = {}]]
<1>1. ASSUME NEW b, NEW v, NEW q, NEW R, R = [base |-> b, via |-> v, cv |-> q]
      PROVE  [R EXCEPT !.cv[1] = {}] = [base |-> b, via |-> v, cv |-> [q EXCEPT ![1] = {}]]
  BY <1>1
<1> QED BY <1>1, TypeRecord DEF Unqualified

LEMMA UnqualifiedType ==
  ASSUME NEW T, IsType(T)
  PROVE  /\ Len(T.cv) \in Nat \ {0} /\ DOMAIN T.cv = 1..Len(T.cv)
         /\ Unqualified(T).base = T.base /\ Unqualified(T).via = T.via
         /\ Len(Unqualified(T).cv) = Len(T.cv)
         /\ \A j \in 2..Len(T.cv) : Unqualified(T).cv[j] = T.cv[j]
<1>1. T.cv \in Seq(CVQualifiers) /\ T.cv # <<>>
  BY TypeLevels
<1>2. Len(T.cv) \in Nat \ {0} /\ DOMAIN T.cv = 1..Len(T.cv)
  BY <1>1
<1>3. Unqualified(T) = [base |-> T.base, via |-> T.via, cv |-> [T.cv EXCEPT ![1] = {}]]
  BY UnqualifiedRecord
<1>4. /\ [T.cv EXCEPT ![1] = {}] \in Seq(CVQualifiers)
      /\ Len([T.cv EXCEPT ![1] = {}]) = Len(T.cv)
  BY <1>1, <1>2 DEF CVQualifiers
<1> QED BY <1>2, <1>3, <1>4

LEMMA UnqualifiedIsType ==
  ASSUME NEW T, IsType(T)
  PROVE  IsType(Unqualified(T))
<1>1. /\ T.cv \in Seq(CVQualifiers) /\ T.via \in Seq(Classes \cup {"*"})
      /\ Len(T.cv) = Len(T.via) + 1
  BY TypeLevels
<1>2. Unqualified(T) = [base |-> T.base, via |-> T.via, cv |-> [T.cv EXCEPT ![1] = {}]]
  BY UnqualifiedRecord
<1>3. /\ [T.cv EXCEPT ![1] = {}] \in Seq(CVQualifiers)
      /\ Len([T.cv EXCEPT ![1] = {}]) = Len(T.cv)
  BY <1>1 DEF CVQualifiers
<1> QED BY <1>1, <1>2, <1>3 DEF IsType, CVQualifiers

LEMMA SameType ==
  ASSUME NEW T1, NEW T2, IsType(T1), IsType(T2), Unqualified(T1) = Unqualified(T2)
  PROVE  /\ T1.base = T2.base /\ T1.via = T2.via /\ Len(T1.cv) = Len(T2.cv)
         /\ \A j \in 2..Len(T1.cv) : T1.cv[j] = T2.cv[j]
         /\ \A bases : Is(T1, bases) <=> Is(T2, bases)
  BY UnqualifiedType DEF Is

(* A class is only converted by being copied or bound.                     *)
LEMMA SecondConversions ==
  ASSUME NEW e, NEW F, NEW T
  PROVE  SecondConversion(e, F, T)[1] # "derived_to_base"
  BY DEF SecondConversion

LEMMA StandardConversionOf ==
  ASSUME NEW e, NEW T, NEW c \in IsStandardConversion(e, T)
  PROVE  /\ ~Is(e.type, Classes) /\ ~Is(T, Classes)
         /\ c.Second # "derived_to_base"
<1> DEFINE second == SecondConversion(e, FirstType(e), T)
           q == IsQualificationConversion(second[2], T)
           scs == [SetAsIdentityConversion(e.type, T) EXCEPT
                    !.First = FirstConversion(e), !.Second = second[1],
                    !.Third = IF q THEN "qualification" ELSE "identity"]
<1>1. ~Is(e.type, Classes) /\ ~Is(T, Classes) /\ c \in SequenceTo(e, T, second, q)
  BY DEF IsStandardConversion, Qualified
<1>2. scs.Second = second[1]
  BY DEF SetAsIdentityConversion
<1>3. \/ c = scs
      \/ c = [scs EXCEPT !.Second = "identity", !.Third = "qualification", !.Deprecated = TRUE]
  BY <1>1 DEF SequenceTo
<1>4. CASE c = scs
  BY <1>1, <1>2, <1>4, SecondConversions
<1>5. CASE c = [scs EXCEPT !.Second = "identity", !.Third = "qualification", !.Deprecated = TRUE]
  <2>1. c.Second = "identity"
    BY <1>5 DEF SetAsIdentityConversion
  <2> QED BY <1>1, <2>1
<1> QED BY <1>3, <1>4, <1>5

LEMMA ClassesInSequences ==
  ASSUME NEW s, IsOfAnArgument(s)
  PROVE  /\ s.Second = "derived_to_base" => Is(s.From, Classes)
         /\ Is(s.From, Classes) <=> Is(s.To, Classes)
         /\ Is(s.From, Classes) =>
              s.Third = "identity" /\ s.Second \in {"identity", "derived_to_base"}
<1> DEFINE same == Unqualified(s.From) = Unqualified(s.To)
<1>1. IsType(s.From) /\ IsType(s.To)
  BY DEF IsOfAnArgument, IsSequence
<1>2. CASE /\ Is(s.From, Classes) /\ Is(s.To, Classes)
           /\ s.Second = (IF same THEN "identity" ELSE "derived_to_base")
           /\ s.Third = "identity"
  BY <1>2
<1>3. CASE ~Is(s.From, Classes) /\ same /\ s.Second = "identity"
  BY <1>1, <1>3, SameType
<1>4. ASSUME NEW e, NEW c \in IsStandardConversion(e, s.To), s.From = e.type, Steps(s) = Steps(c)
      PROVE  ~Is(s.From, Classes) /\ ~Is(s.To, Classes) /\ s.Second # "derived_to_base"
  BY <1>4, StandardConversionOf DEF Steps
<1> QED BY <1>2, <1>3, <1>4 DEF IsOfAnArgument, IsSequence, Steps

(* Between a class that becomes one of its bases and one that does not,    *)
(* the latter is part of the former: an earlier rule has decided.          *)
LEMMA DerivedToBaseOpposite ==
  ASSUME NEW s1, NEW s2, IsOfAnArgument(s1), IsOfAnArgument(s2),
         CompareBySubsequence(s1, s2) = "same"
  PROVE  CompareDerivedToBaseConversions(s2, s1)
           = Opposite(CompareDerivedToBaseConversions(s1, s2))
<1> DEFINE F1 == Unqualified(s1.From)  T1 == Unqualified(s1.To)
           F2 == Unqualified(s2.From)  T2 == Unqualified(s2.To)
<1>1. IsType(s1.From) /\ IsType(s1.To) /\ IsType(s2.From) /\ IsType(s2.To)
  BY DEF IsOfAnArgument, IsSequence
<1>2. ASSUME NEW a, NEW b, IsOfAnArgument(a), IsOfAnArgument(b),
             CompareBySubsequence(a, b) = "same" \/ CompareBySubsequence(b, a) = "same",
             a.Second = "derived_to_base", b.Second # "derived_to_base"
      PROVE  CompareClasses(Unqualified(a.From), Unqualified(a.To),
                            Unqualified(b.From), Unqualified(b.To)) = "same"
  <2>1. Is(a.From, Classes) /\ Is(a.To, Classes) /\ a.Third = "identity"
    BY <1>2, ClassesInSequences
  <2>2. ASSUME Is(b.From, Classes) \/ Is(b.To, Classes)
        PROVE  FALSE
    <3>1. b.Second = "identity" /\ b.Third = "identity"
      BY <1>2, <2>2, ClassesInSequences
    <3> QED BY <1>2, <2>1, <3>1 DEF CompareBySubsequence, IsSubsequence
  <2>3. IsType(a.From) /\ IsType(a.To) /\ IsType(b.From) /\ IsType(b.To)
    BY <1>2 DEF IsOfAnArgument, IsSequence
  <2>4. Unqualified(a.From) # Unqualified(b.From) /\ Unqualified(a.To) # Unqualified(b.To)
    BY <2>1, <2>2, <2>3, SameType
  <2> QED BY <2>4 DEF CompareClasses
<1>3. CompareBySubsequence(s2, s1) = "same"
  BY BySubsequenceOpposite DEF Opposite
<1>4. Opposite("same") = "same"
  BY DEF Opposite
<1>5. CompareClasses(F2, T2, F1, T1) = Opposite(CompareClasses(F1, T1, F2, T2))
  BY ClassesOpposite
<1>6. CASE /\ s1.Second = "pointer_conversion" /\ s2.Second = "pointer_conversion"
           /\ IsPointer(s1.From) /\ IsPointer(s2.From)
  BY <1>6, ClassesOpposite DEF CompareDerivedToBaseConversions
<1>7. CASE ~(/\ s1.Second = "pointer_conversion" /\ s2.Second = "pointer_conversion"
             /\ IsPointer(s1.From) /\ IsPointer(s2.From))
  <2>1. CASE ~((s1.Ref /\ s2.Ref) \/ BothCopies(s1, s2))
    BY <1>4, <1>7, <2>1 DEF CompareDerivedToBaseConversions, BothCopies
  <2>2. CASE (s1.Ref /\ s2.Ref) \/ BothCopies(s1, s2)
    <3>1. /\ CompareDerivedToBaseConversions(s1, s2)
               = IF s1.Second = "derived_to_base" THEN CompareClasses(F1, T1, F2, T2) ELSE "same"
          /\ CompareDerivedToBaseConversions(s2, s1)
               = IF s2.Second = "derived_to_base" THEN CompareClasses(F2, T2, F1, T1) ELSE "same"
      BY <1>7, <2>2 DEF CompareDerivedToBaseConversions, BothCopies
    <3>2. s1.Second = "derived_to_base" /\ s2.Second # "derived_to_base"
            => CompareClasses(F1, T1, F2, T2) = "same"
      BY <1>2
    <3>3. s2.Second = "derived_to_base" /\ s1.Second # "derived_to_base"
            => CompareClasses(F2, T2, F1, T1) = "same"
      BY <1>2, <1>3
    <3> QED BY <1>4, <1>5, <3>1, <3>2, <3>3
  <2> QED BY <2>1, <2>2
<1> QED BY <1>6, <1>7

LEMMA PointersOpposite ==
  ASSUME NEW s1, NEW s2, IsOfAnArgument(s1), IsOfAnArgument(s2),
         CompareBySubsequence(s1, s2) = "same"
  PROVE  CompareByPointers(s2, s1) = Opposite(CompareByPointers(s1, s2))
<1> DEFINE void1 == IsPointerConversionToVoidPointer(s1)
           void2 == IsPointerConversionToVoidPointer(s2)
<1>1. CompareVoidPointers(s2, s1) = Opposite(CompareVoidPointers(s1, s2))
  <2>1. Opposite("undefined") = "undefined"
    BY DEF Opposite
  <2> QED BY <2>1, ByDerivationOpposite DEF CompareVoidPointers
<1>2. void1 \in BOOLEAN /\ void2 \in BOOLEAN
  BY DEF IsPointerConversionToVoidPointer
<1>3. Opposite("better") = "worse" /\ Opposite("worse") = "better"
  BY DEF Opposite
<1> HIDE DEF void1, void2
<1> QED BY <1>1, <1>2, <1>3, DerivedToBaseOpposite DEF CompareByPointers, void1, void2

(* CompareStandardConversionSequences: whichever of two sequences comes    *)
(* first, the verdict is the same.                                         *)
LEMMA ComparisonOpposite ==
  ASSUME NEW s1, NEW s2, IsOfAnArgument(s1), IsOfAnArgument(s2)
  PROVE  CompareStandardConversionSequences(s2, s1)
           = Opposite(CompareStandardConversionSequences(s1, s2))
<1> DEFINE verdicts(a, b) ==
             <<CompareBySubsequence(a, b),
               Favour(GetRank(a) < GetRank(b), GetRank(b) < GetRank(a)),
               Favour(IsPointerConversionToBool(b), IsPointerConversionToBool(a)),
               CompareByPointers(a, b),
               CompareQualificationConversions(a, b),
               CompareReferenceBindings(a, b)>>
<1>1. verdicts(s2, s1)[1] = Opposite(verdicts(s1, s2)[1])
  BY BySubsequenceOpposite
<1>2. verdicts(s2, s1)[2] = Opposite(verdicts(s1, s2)[2])
  <2>1. \A a, b : (GetRank(a) < GetRank(b)) \in BOOLEAN
    OBVIOUS
  <2>2. GetRank(s1) \in Nat /\ GetRank(s2) \in Nat
    BY DEF GetRank, Rank
  <2>3. ~(GetRank(s1) < GetRank(s2) /\ GetRank(s2) < GetRank(s1))
    BY <2>2
  <2> QED BY <2>1, <2>3, FavourOpposite
<1>3. verdicts(s2, s1)[3] = Opposite(verdicts(s1, s2)[3])
  BY DEF Favour, Opposite
<1>4. verdicts(s1, s2)[1] = "same" => verdicts(s2, s1)[4] = Opposite(verdicts(s1, s2)[4])
  BY PointersOpposite
<1>5. verdicts(s2, s1)[5] = Opposite(verdicts(s1, s2)[5])
  BY QualificationOpposite DEF IsOfAnArgument, IsSequence
<1>6. verdicts(s2, s1)[6] = Opposite(verdicts(s1, s2)[6])
  BY ReferenceOpposite DEF IsOfAnArgument, IsSequence
<1>7. DOMAIN verdicts(s1, s2) = 1..6 /\ DOMAIN verdicts(s2, s1) = 1..6
  OBVIOUS
<1>8. /\ CompareStandardConversionSequences(s1, s2) = FirstOf(verdicts(s1, s2))
      /\ CompareStandardConversionSequences(s2, s1) = FirstOf(verdicts(s2, s1))
  BY DEF CompareStandardConversionSequences
<1> HIDE DEF verdicts
<1>9. ASSUME NEW k \in 1..6, \A j \in 1..6 : j < k => verdicts(s1, s2)[j] = "same"
      PROVE  verdicts(s2, s1)[k] = Opposite(verdicts(s1, s2)[k])
  <2>1. k > 1 => verdicts(s1, s2)[1] = "same"
    BY <1>9
  <2> QED BY <1>1, <1>2, <1>3, <1>4, <1>5, <1>6, <2>1
<1> QED BY <1>7, <1>8, <1>9, FirstOfOpposite

LEMMA OneArgument ==
  ASSUME NEW s1, NEW s2, AreOfOneArgument(s1, s2)
  PROVE  IsOfAnArgument(s1) /\ IsOfAnArgument(s2)
  BY DEF AreOfOneArgument, IsOfAnArgument

LEMMA ImplicitOpposite ==
  ASSUME NEW c1, NEW c2, AreComparableConversions(c1, c2)
  PROVE  CompareImplicitConversionSequences(c2, c1)
           = Opposite(CompareImplicitConversionSequences(c1, c2))
<1>1. Form(c1) \in Nat /\ Form(c2) \in Nat
  BY DEF Form
<1>2. CASE Form(c1) # Form(c2)
  BY <1>1, <1>2 DEF CompareImplicitConversionSequences, Opposite
<1>3. CASE Form(c1) = Form(c2)
  <2>1. c1.kind = c2.kind /\ c1.kind \in {"standard", "user", "ellipsis"}
    BY <1>3 DEF Form, AreComparableConversions
  <2>2. CASE c1.kind = "ellipsis" \/ (c1.kind = "user" /\ c1.fn # c2.fn)
    BY <1>3, <2>1, <2>2 DEF CompareImplicitConversionSequences, Opposite
  <2>3. CASE ~(c1.kind = "ellipsis" \/ (c1.kind = "user" /\ c1.fn # c2.fn))
    <3>1. IsOfAnArgument(c1.std) /\ IsOfAnArgument(c2.std)
      BY <2>1, <2>3, OneArgument DEF AreComparableConversions
    <3> QED BY <1>3, <2>1, <2>3, <3>1, ComparisonOpposite DEF CompareImplicitConversionSequences
  <2> QED BY <2>2, <2>3
<1> QED BY <1>2, <1>3

(* isBetterOverloadCandidate: of two viable candidates of a call, one at   *)
(* most is better than the other.                                          *)
LEMMA OneIsBetter ==
  ASSUME NEW c1, NEW c2, c1.Viable, c2.Viable, AreComparable(c1, c2), AreComparable(c2, c1),
         isBetterOverloadCandidate(c1, c2), isBetterOverloadCandidate(c2, c1)
  PROVE  FALSE
<1> DEFINE first == IF c1.IgnoreObject \/ c2.IgnoreObject THEN 2 ELSE 1
           N == Len(c1.Conversions)
           Of(a, b) == {CompareImplicitConversionSequences(a.Conversions[i], b.Conversions[i]) :
                          i \in first..N}
<1>1. /\ "worse" \notin Of(c1, c2)
      /\ \/ "better" \in Of(c1, c2)
         \/ /\ c1.isConversion /\ c2.isConversion
            /\ CompareStandardConversionSequences(c1.Final, c2.Final) = "better"
  BY DEF isBetterOverloadCandidate
<1>2. /\ "worse" \notin Of(c2, c1)
      /\ \/ "better" \in Of(c2, c1)
         \/ /\ c1.isConversion /\ c2.isConversion
            /\ CompareStandardConversionSequences(c2.Final, c1.Final) = "better"
  <2>1. N = Len(c2.Conversions)
    BY DEF AreComparable
  <2> QED BY <2>1 DEF isBetterOverloadCandidate
<1>3. ASSUME NEW i \in first..N
      PROVE  AreComparableConversions(c1.Conversions[i], c2.Conversions[i])
  <2>1. i \in 1..N
    BY <1>3
  <2> QED BY <2>1 DEF AreComparable
<1>4. "better" \in Of(c1, c2) => "worse" \in Of(c2, c1)
  BY <1>3, ImplicitOpposite DEF Opposite
<1>5. ~(/\ c1.isConversion /\ c2.isConversion
        /\ CompareStandardConversionSequences(c1.Final, c2.Final) = "better"
        /\ CompareStandardConversionSequences(c2.Final, c1.Final) = "better")
  BY ComparisonOpposite, OneArgument DEF AreComparable, Opposite
<1>6. "better" \in Of(c2, c1) => "worse" \in Of(c1, c2)
  BY <1>3, ImplicitOpposite DEF Opposite
<1> QED BY <1>1, <1>2, <1>4, <1>5, <1>6

(***************************************************************************)
(* The two passes.                                                         *)
(***************************************************************************)

(* No two viable candidates are each better than the other.                *)
Asymmetric ==
  \A i, j \in DOMAIN CandidateSet :
    Viable(i) /\ Viable(j) /\ i # j => ~(IsBetter(i, j) /\ IsBetter(j, i))

IsASequence == \E S : CandidateSet \in Seq(S)
Count == Len(CandidateSet)
Untouched == pc = "find" /\ Cand = 1 /\ Best = 0

(* What the first pass has made of the candidates it has seen: the best    *)
(* one is viable and there is one if any is, and what wins can only be it. *)
Found ==
  /\ Best = 0 => \A i \in DOMAIN CandidateSet : i < Cand => ~Viable(i)
  /\ Best # 0 => Best \in DOMAIN CandidateSet /\ Viable(Best)
  /\ \A w \in DOMAIN CandidateSet : w < Cand /\ IsWinner(w) => w = Best

(* The best one is better than the rivals the second pass has seen.        *)
Checked ==
  /\ Best \in DOMAIN CandidateSet /\ Viable(Best)
  /\ \A w \in DOMAIN CandidateSet : IsWinner(w) => w = Best
  /\ \A i \in Rivals : i < Cand => IsBetter(Best, i)

(***************************************************************************)
(* The inductive invariant.                                                *)
(***************************************************************************)
IInv ==
  /\ IsASequence
  /\ Cand \in Nat \ {0}
  /\ pc \in {"find", "check", "done"}
  /\ AllAdded \/ Untouched
  /\ pc = "find" => Found
  /\ pc = "check" => Checked
  /\ BestIsFound

LEMMA Domain ==
  ASSUME IsASequence
  PROVE  Count \in Nat /\ DOMAIN CandidateSet = 1..Count
<1>1. PICK S : CandidateSet \in Seq(S)
  BY DEF IsASequence
<1> QED BY <1>1 DEF Count

(* Nothing that is said of the candidates changes with the iterators.      *)
LEMMA SameCandidates ==
  ASSUME CandidateSet' = CandidateSet
  PROVE  /\ IsASequence => IsASequence'
         /\ \A i : Viable(i)' = Viable(i)
         /\ \A i, j : IsBetter(i, j)' = IsBetter(i, j)
         /\ \A w : IsWinner(w)' = IsWinner(w)
  BY DEF IsASequence, Viable, IsBetter, IsWinner

LEMMA InitEstablishes == Init => IInv
<1> SUFFICES ASSUME Init PROVE IInv
  OBVIOUS
<1>1. CandidateSet \in Seq({})
  BY DEF Init
<1>2. IsASequence /\ DOMAIN CandidateSet = {}
  BY <1>1 DEF Init, IsASequence
<1> QED BY <1>2 DEF Init, IInv, Untouched, Found, BestIsFound

LEMMA AddCandidateKeeps == IInv /\ AddCandidate => IInv'
<1> SUFFICES ASSUME IInv, AddCandidate PROVE IInv'
  OBVIOUS
<1>1. PICK S : CandidateSet \in Seq(S)
  BY DEF IInv, IsASequence
<1>2. PICK c : CandidateSet' = Append(CandidateSet, c)
  BY DEF AddCandidate
<1>3. CandidateSet \in Seq(S \cup {c})
  BY <1>1
<1>4. CandidateSet' \in Seq(S \cup {c})
  BY <1>2, <1>3
<1>5. IsASequence'
  BY <1>4 DEF IsASequence
<1>6. Count' \in Nat /\ DOMAIN CandidateSet' = 1..Count'
  BY <1>4 DEF Count
<1>7. Untouched
  BY <1>1 DEF IInv, AllAdded, AddCandidate
<1>8. Untouched'
  BY <1>7 DEF Untouched, AddCandidate
<1>9. Found'
  BY <1>6, <1>8 DEF Untouched, Found
<1> QED BY <1>5, <1>8, <1>9 DEF IInv, Untouched, BestIsFound

(* The one that wins displaces the best one, and is not displaced.         *)
LEMMA FindBestKeeps == IInv /\ Asymmetric /\ FindBest => IInv'
<1> SUFFICES ASSUME IInv, Asymmetric, FindBest PROVE IInv'
  OBVIOUS
<1>1. /\ CandidateSet' = CandidateSet /\ call' = call /\ pc = "find" /\ pc' = "find"
      /\ Cand' = Cand + 1 /\ Cand \in Nat \ {0} /\ Found
  BY DEF FindBest, IInv
<1>2. Count \in Nat /\ DOMAIN CandidateSet = 1..Count /\ Cand \in DOMAIN CandidateSet
  BY Domain DEF IInv, FindBest, Count
<1>3. /\ Best = 0 => \A i \in DOMAIN CandidateSet : i < Cand => ~Viable(i)
      /\ Best # 0 => Best \in DOMAIN CandidateSet /\ Viable(Best)
      /\ \A w \in DOMAIN CandidateSet : w < Cand /\ IsWinner(w) => w = Best
  BY <1>1 DEF Found
<1>4. Best' # 0 => Best' \in DOMAIN CandidateSet /\ Viable(Best')
  BY <1>2, <1>3 DEF FindBest
<1>5. ASSUME Best' = 0, NEW i \in DOMAIN CandidateSet, i < Cand + 1
      PROVE  ~Viable(i)
  <2>1. Best = 0 /\ ~Viable(Cand)
    BY <1>2, <1>5 DEF FindBest
  <2>2. i < Cand \/ i = Cand
    BY <1>1, <1>2, <1>5
  <2> QED BY <1>3, <1>5, <2>1, <2>2
<1>6. ASSUME NEW w \in DOMAIN CandidateSet, w < Cand + 1, IsWinner(w)
      PROVE  w = Best'
  <2>1. CASE w = Cand
    <3>1. Viable(Cand)
      BY <1>6, <2>1 DEF IsWinner
    <3>2. Best # 0 /\ Best # Cand => IsBetter(Cand, Best)
      BY <1>3, <1>6, <2>1 DEF IsWinner
    <3> QED BY <2>1, <3>1, <3>2 DEF FindBest
  <2>2. CASE w # Cand
    <3>1. w < Cand
      BY <1>1, <1>2, <1>6, <2>2
    <3>2. w = Best /\ Best # 0
      BY <1>2, <1>3, <1>6, <3>1
    <3>3. Viable(Cand) => ~IsBetter(Cand, Best)
      BY <1>2, <1>6, <2>2, <3>2 DEF IsWinner, Asymmetric
    <3> QED BY <3>2, <3>3 DEF FindBest
  <2> QED BY <2>1, <2>2
<1>7. Found'
  BY <1>1, <1>4, <1>5, <1>6, SameCandidates DEF Found
<1>8. AllAdded' /\ IsASequence' /\ Cand' \in Nat \ {0}
  BY <1>1, SameCandidates DEF FindBest, AllAdded, IInv
<1> QED BY <1>1, <1>7, <1>8 DEF IInv, BestIsFound

LEMMA NoViableFunctionKeeps == IInv /\ NoViableFunction => IInv'
<1> SUFFICES ASSUME IInv, NoViableFunction PROVE IInv'
  OBVIOUS
<1>1. /\ CandidateSet' = CandidateSet /\ call' = call /\ pc' = "done"
      /\ Cand' = Cand /\ Result' = "no_viable_function"
  BY DEF NoViableFunction
<1>2. \A i \in DOMAIN CandidateSet : ~Viable(i)
  BY Domain DEF IInv, NoViableFunction, Found, Count
<1>3. \A w \in DOMAIN CandidateSet : ~IsWinner(w)
  BY <1>2 DEF IsWinner
<1>4. BestIsFound'
  BY <1>1, <1>2, <1>3, SameCandidates DEF BestIsFound
<1> QED BY <1>1, <1>4, SameCandidates DEF IInv, NoViableFunction, AllAdded

LEMMA StartCheckKeeps == IInv /\ StartCheck => IInv'
<1> SUFFICES ASSUME IInv, StartCheck PROVE IInv'
  OBVIOUS
<1>1. /\ CandidateSet' = CandidateSet /\ call' = call /\ pc' = "check"
      /\ Cand' = 1 /\ Best' = Best /\ Best # 0 /\ Cand > Count
  BY DEF StartCheck, Count
<1>2. Count \in Nat /\ DOMAIN CandidateSet = 1..Count /\ Cand \in Nat
  BY Domain DEF IInv
<1>3. Best \in DOMAIN CandidateSet /\ Viable(Best)
  BY <1>1 DEF IInv, StartCheck, Found
<1>4. \A w \in DOMAIN CandidateSet : IsWinner(w) => w = Best
  BY <1>1, <1>2 DEF IInv, StartCheck, Found
<1>5. \A i \in Rivals' : ~(i < 1)
  BY <1>1, <1>2 DEF Rivals
<1>6. Checked'
  BY <1>1, <1>3, <1>4, <1>5, SameCandidates DEF Checked
<1> QED BY <1>1, <1>6, SameCandidates DEF IInv, StartCheck, AllAdded, BestIsFound

LEMMA CheckBestKeeps == IInv /\ CheckBest => IInv'
<1> SUFFICES ASSUME IInv, CheckBest PROVE IInv'
  OBVIOUS
<1>1. /\ CandidateSet' = CandidateSet /\ call' = call /\ pc = "check" /\ pc' = "check"
      /\ Cand' = Cand + 1 /\ Best' = Best /\ Cand \in Nat \ {0} /\ Checked
  BY DEF CheckBest, IInv
<1>2. DOMAIN CandidateSet = 1..Count /\ Count \in Nat
  BY Domain DEF IInv
<1>3. Rivals' = Rivals
  BY <1>1, SameCandidates DEF Rivals
<1>4. ASSUME NEW i \in Rivals, i < Cand + 1
      PROVE  IsBetter(Best, i)
  <2>1. i < Cand \/ i = Cand
    BY <1>1, <1>2, <1>4 DEF Rivals
  <2> QED BY <1>1, <1>4, <2>1 DEF Checked, CheckBest
<1>5. Checked'
  BY <1>1, <1>3, <1>4, SameCandidates DEF Checked
<1> QED BY <1>1, <1>5, SameCandidates DEF IInv, AllAdded, BestIsFound, Untouched

LEMMA AmbiguousKeeps == IInv /\ Ambiguous => IInv'
<1> SUFFICES ASSUME IInv, Ambiguous PROVE IInv'
  OBVIOUS
<1>1. /\ CandidateSet' = CandidateSet /\ call' = call /\ pc = "check" /\ pc' = "done"
      /\ Cand' = Cand /\ Result' = "ambiguous" /\ Checked
  BY DEF Ambiguous, IInv
<1>2. ASSUME NEW w \in DOMAIN CandidateSet, IsWinner(w)
      PROVE  FALSE
  <2>1. w = Best
    BY <1>1, <1>2 DEF Checked
  <2> QED BY <1>2, <2>1 DEF IsWinner, Ambiguous, Rivals
<1>3. Best \in DOMAIN CandidateSet /\ Viable(Best)
  BY <1>1 DEF Checked
<1>4. BestIsFound'
  BY <1>1, <1>2, <1>3, SameCandidates DEF BestIsFound
<1> QED BY <1>1, <1>4, SameCandidates DEF IInv, AllAdded, Untouched

LEMMA SuccessKeeps == IInv /\ Success => IInv'
<1> SUFFICES ASSUME IInv, Success PROVE IInv'
  OBVIOUS
<1>1. /\ CandidateSet' = CandidateSet /\ call' = call /\ pc = "check" /\ pc' = "done"
      /\ Cand' = Cand /\ Best' = Best /\ Cand > Count /\ Checked
      /\ Result' = IF CandidateSet[Best].Deleted THEN "deleted" ELSE "success"
  BY DEF Success, IInv, Count
<1>2. DOMAIN CandidateSet = 1..Count /\ Count \in Nat /\ Cand \in Nat
  BY Domain DEF IInv
<1>3. IsWinner(Best)
  BY <1>1, <1>2 DEF Checked, IsWinner, Rivals
<1>4. Best \in DOMAIN CandidateSet /\ Viable(Best)
  BY <1>1 DEF Checked
<1>5. /\ Result' \in {"success", "deleted"}
      /\ Result' = "deleted" <=> CandidateSet[Best].Deleted
  BY <1>1
<1>6. BestIsFound'
  BY <1>1, <1>3, <1>4, <1>5, SameCandidates DEF BestIsFound
<1> QED BY <1>1, <1>6, SameCandidates DEF IInv, AllAdded, Untouched

LEMMA StutterKeeps == IInv /\ UNCHANGED resolution => IInv'
<1> SUFFICES ASSUME IInv, UNCHANGED resolution PROVE IInv'
  OBVIOUS
<1>1. /\ CandidateSet' = CandidateSet /\ call' = call /\ pc' = pc
      /\ Cand' = Cand /\ Best' = Best /\ Result' = Result
  BY DEF resolution
<1>2. Rivals' = Rivals
  BY <1>1, SameCandidates DEF Rivals
<1>3. (Found => Found') /\ (Checked => Checked') /\ (AllAdded \/ Untouched)'
  BY <1>1, <1>2, SameCandidates DEF Found, Checked, IInv, AllAdded, Untouched
<1>4. BestIsFound'
  BY <1>1, SameCandidates DEF IInv, BestIsFound
<1> QED BY <1>1, <1>3, <1>4, SameCandidates DEF IInv

(***************************************************************************)
(* The candidates are those the functions of the call may become.          *)
(***************************************************************************)
Known == call \in Calls /\ CandidateSet \in Seq(Candidates(call))

LEMMA KnownIsInvariant == Spec => []Known
<1>1. Init => Known
  BY DEF Init, Known
<1>2. Known /\ [Next]_resolution => Known'
  <2> SUFFICES ASSUME Known, [Next]_resolution PROVE Known'
    OBVIOUS
  <2>1. CASE AddCandidate
    <3> DEFINE n == Len(CandidateSet) + 1
    <3>1. PICK c \in CandidateFor(call, call.functions[n]) : CandidateSet' = Append(CandidateSet, c)
      BY <2>1 DEF AddCandidate
    <3>2. n \in 1..Len(call.functions)
      BY <2>1, CandidatesAssumption DEF AddCandidate, Known
    <3>3. c \in Candidates(call)
      BY <3>2 DEF Candidates
    <3>4. call' = call
      BY <2>1 DEF AddCandidate
    <3> HIDE DEF n
    <3>5. Append(CandidateSet, c) \in Seq(Candidates(call))
      BY <3>3 DEF Known
    <3> QED BY <3>1, <3>4, <3>5 DEF Known
  <2>2. CASE ~AddCandidate
    <3>1. call' = call /\ CandidateSet' = CandidateSet
      BY <2>2 DEF Next, FindBest, NoViableFunction, StartCheck, CheckBest, Ambiguous, Success,
                  resolution
    <3> QED BY <3>1 DEF Known
  <2> QED BY <2>1, <2>2
<1> QED BY <1>1, <1>2, PTL DEF Spec

LEMMA ViableCandidates ==
  ASSUME Known, NEW i \in DOMAIN CandidateSet, NEW j \in DOMAIN CandidateSet,
         CandidateSet[i].Viable, CandidateSet[j].Viable
  PROVE  AreComparable(CandidateSet[i], CandidateSet[j])
<1>1. CandidateSet[i] \in Candidates(call) /\ CandidateSet[j] \in Candidates(call)
  BY DEF Known
<1> QED BY <1>1, CandidatesAssumption DEF Known

LEMMA KnownAreAsymmetric == Known => Asymmetric
<1> SUFFICES ASSUME Known, NEW i \in DOMAIN CandidateSet, NEW j \in DOMAIN CandidateSet,
                    Viable(i), Viable(j), IsBetter(i, j), IsBetter(j, i)
             PROVE  FALSE
  BY DEF Asymmetric
<1>1. /\ AreComparable(CandidateSet[i], CandidateSet[j])
      /\ AreComparable(CandidateSet[j], CandidateSet[i])
  BY ViableCandidates DEF Viable
<1> QED BY <1>1, OneIsBetter DEF Viable, IsBetter

(* BestViableFunction: what is found is better than every other viable     *)
(* function, and a call is only ambiguous, or without a viable function,   *)
(* when there is no such function.  That "better" is transitive is not     *)
(* needed, only that of two candidates one at most is.                     *)
THEOREM BestIsFoundTheorem == Spec => []BestIsFound
<1>1. IInv /\ Known /\ [Next]_resolution => IInv'
  BY KnownAreAsymmetric, AddCandidateKeeps, FindBestKeeps, NoViableFunctionKeeps, StartCheckKeeps,
     CheckBestKeeps, AmbiguousKeeps, SuccessKeeps, StutterKeeps DEF Next
<1>2. IInv => BestIsFound
  BY DEF IInv
<1> QED BY <1>1, <1>2, InitEstablishes, KnownIsInvariant, PTL DEF Spec

(* CompareImplicitConversionSequences: whichever of the sequences that two *)
(* candidates have for an argument comes first, the verdict is the same.   *)
THEOREM ComparisonIsAntisymmetricTheorem == Spec => []ComparisonIsAntisymmetric
<1>1. Known => ComparisonIsAntisymmetric
  <2> SUFFICES ASSUME Known, NEW k \in Places, NEW i \in ViableOnes, NEW j \in ViableOnes
               PROVE  Compare(k, i, j) = Opposite(Compare(k, j, i))
    BY DEF ComparisonIsAntisymmetric
  <2>1. AreComparableConversions(CandidateSet[j].Conversions[k], CandidateSet[i].Conversions[k])
    BY ViableCandidates DEF ViableOnes, Places, AreComparable
  <2> QED BY <2>1, ImplicitOpposite DEF Compare
<1> QED BY <1>1, KnownIsInvariant, PTL

(***************************************************************************)
(* Qualification conversions.                                              *)
(***************************************************************************)

(* What is pointed to, and what points to a type, are types.               *)
LEMMA PointeeType ==
  ASSUME NEW T, IsType(T)
  PROVE  /\ Len(Pointee(T).cv) = Len(T.cv) - 1
         /\ Len(T.cv) > 1 => IsType(Pointee(T)) /\ Quals(Pointee(T)) = T.cv[2]
<1>1. /\ T.cv \in Seq(CVQualifiers) /\ T.cv # <<>>
      /\ T.via \in Seq(Classes \cup {"*"}) /\ Len(T.via) \in Nat /\ Len(T.cv) = Len(T.via) + 1
  BY TypeLevels
<1>2. Tail(T.cv) \in Seq(CVQualifiers) /\ Len(Tail(T.cv)) = Len(T.cv) - 1
  BY <1>1, HeadTailProperties
<1>3. ASSUME Len(T.cv) > 1
      PROVE  IsType(Pointee(T)) /\ Quals(Pointee(T)) = T.cv[2]
  <2>1. Tail(T.via) \in Seq(Classes \cup {"*"}) /\ Len(Tail(T.via)) = Len(T.via) - 1
    <3>1. T.via # <<>>
      BY <1>1, <1>3
    <3> QED BY <1>1, <3>1, HeadTailProperties
  <2>2. Tail(T.cv)[1] = T.cv[2]
    BY <1>1, <1>2, <1>3
  <2>3. Len(Tail(T.cv)) = Len(Tail(T.via)) + 1
    BY <1>1, <1>2, <2>1
  <2> QED BY <1>2, <2>1, <2>2, <2>3 DEF IsType, CVQualifiers, Quals, Pointee
<1> QED BY <1>2, <1>3 DEF Pointee

LEMMA PointerToType ==
  ASSUME NEW T, IsType(T), NEW q \in CVQualifiers, NEW P, P = PointerTo(QualifiedAs(T, q))
  PROVE  /\ IsType(P) /\ Len(P.cv) = Len(T.cv) + 1 /\ P.cv[2] = q
         /\ P.base = T.base /\ P.via = <<"*">> \o T.via
         /\ \A k \in 2..Len(T.cv) : P.cv[k + 1] = T.cv[k]
<1> DEFINE r == [T.cv EXCEPT ![1] = q]
<1>1. /\ T.cv \in Seq(CVQualifiers) /\ T.cv # <<>>
      /\ T.via \in Seq(Classes \cup {"*"}) /\ Len(T.via) \in Nat /\ Len(T.cv) = Len(T.via) + 1
  BY TypeLevels
<1>2. QualifiedAs(T, q) = [base |-> T.base, via |-> T.via, cv |-> r]
  <2>1. ASSUME NEW b, NEW v, NEW p, T = [base |-> b, via |-> v, cv |-> p]
        PROVE  [T EXCEPT !.cv[1] = q] = [base |-> b, via |-> v, cv |-> [p EXCEPT ![1] = q]]
    BY <2>1
  <2> QED BY <2>1, TypeRecord DEF QualifiedAs
<1>3. P = [base |-> T.base, via |-> <<"*">> \o T.via, cv |-> <<{}>> \o r]
  BY <1>2 DEF PointerTo
<1>4. /\ r \in Seq(CVQualifiers) /\ Len(r) = Len(T.cv) /\ r[1] = q
      /\ \A k \in 2..Len(T.cv) : r[k] = T.cv[k]
  BY <1>1
<1> HIDE DEF r
<1>5. /\ <<{}>> \o r \in Seq(CVQualifiers) /\ Len(<<{}>> \o r) = Len(T.cv) + 1
      /\ (<<{}>> \o r)[2] = q
      /\ \A k \in 2..Len(T.cv) : (<<{}>> \o r)[k + 1] = T.cv[k]
  <2>1. <<{}>> \in Seq(CVQualifiers)
    BY DEF CVQualifiers
  <2> QED BY <1>1, <1>4, <2>1
<1>6. <<"*">> \o T.via \in Seq(Classes \cup {"*"}) /\ Len(<<"*">> \o T.via) = Len(T.via) + 1
  BY <1>1
<1> QED BY <1>1, <1>3, <1>5, <1>6 DEF IsType, CVQualifiers

LEMMA FirstReplaced ==
  ASSUME NEW S, NEW v \in Seq(S), v # <<>>, NEW c \in S
  PROVE  /\ [v EXCEPT ![1] = c] \in Seq(S) /\ Len([v EXCEPT ![1] = c]) = Len(v)
         /\ \A k \in 2..Len(v) : [v EXCEPT ![1] = c][k] = v[k]
  OBVIOUS

(* Between types of equally many levels the second conversion keeps the    *)
(* qualifiers; if there are more than two, it changes the class of a       *)
(* pointer to a member at most.                                            *)
LEMMA SecondConversionKeeps ==
  ASSUME NEW e, NEW F, NEW T, IsType(F), IsType(T), e.form # "null",
         Len(F.cv) = Len(T.cv), Len(T.cv) > 1,
         NEW To, To = SecondConversion(e, F, T)[2]
  PROVE  /\ IsType(To) /\ Len(To.cv) = Len(T.cv)
         /\ \A k \in 2..Len(T.cv) : To.cv[k] = F.cv[k]
         /\ Len(T.cv) > 2 => To.base = F.base /\ \A k \in 2..Len(T.cv) - 1 : To.via[k] = F.via[k]
<1>1. Len(T.cv) \in Nat /\ Len(F.cv) \in Nat
  BY UnqualifiedType
<1>2. \A bases : ~Is(F, bases) /\ ~Is(T, bases)
  <2>1. \A m \in Nat : m > 1 => m # 1
    OBVIOUS
  <2> QED BY <1>1, <2>1, Zenon DEF Is
<1>3. CASE To = F
  BY <1>3
<1>4. CASE IsPointerConversion(e, F, T) /\ To = PointerConverted(e, F, T)
  <2>1. IsType(Pointee(F)) /\ IsType(Pointee(T))
        /\ Quals(Pointee(F)) = F.cv[2] /\ Quals(Pointee(T)) = T.cv[2]
        /\ Len(Pointee(T).cv) = Len(T.cv) - 1
    BY PointeeType
  <2>2. Len(T.cv) = 2
    <3>1. IsVoidPointer(T) \/ IsDerivedFrom(Pointee(F), Pointee(T))
      BY <1>4 DEF IsPointerConversion
    <3>2. Len(Pointee(T).cv) = 1 => Len(T.cv) = 2
      <4>1. \A m \in Nat : m - 1 = 1 => m = 2
        OBVIOUS
      <4> QED BY <1>1, <2>1, <4>1, Zenon
    <3> QED BY <3>1, <3>2, Zenon DEF IsVoidPointer, IsDerivedFrom
  <2>3. CASE T.cv[2] = F.cv[2] /\ To = T
    BY <2>2, <2>3
  <2>4. CASE To = PointerTo(QualifiedAs(Pointee(T), F.cv[2]))
    <3>1. F.cv[2] \in CVQualifiers
      <4>1. F.cv \in Seq(CVQualifiers)
        BY TypeLevels
      <4> QED BY <2>2, <4>1
    <3>2. IsType(To) /\ Len(To.cv) = Len(T.cv) - 1 + 1 /\ To.cv[2] = F.cv[2]
      BY <2>1, <2>4, <3>1, PointerToType
    <3> QED BY <2>2, <3>2
  <2> QED BY <1>4, <2>1, <2>3, <2>4 DEF PointerConverted
<1>5. CASE IsMemberPointerConversion(e, F, T) /\ To = MemberPointerConverted(e, F, T)
  <2> DEFINE U == Unqualified(F)
  <2>1. /\ IsType(U) /\ Len(U.cv) = Len(F.cv) /\ U.base = F.base /\ U.via = F.via
        /\ \A k \in 2..Len(F.cv) : U.cv[k] = F.cv[k]
    BY UnqualifiedIsType, UnqualifiedType
  <2>2. To = [U EXCEPT !.via[1] = T.via[1]]
    BY <1>5 DEF MemberPointerConverted
  <2> HIDE DEF U
  <2>3. /\ U.cv \in Seq(CVQualifiers) /\ U.via \in Seq(Classes \cup {"*"})
        /\ Len(U.via) \in Nat /\ Len(U.cv) = Len(U.via) + 1
    BY <2>1, TypeLevels
  <2>4. ASSUME NEW b, NEW v, NEW q, NEW c, NEW R, R = [base |-> b, via |-> v, cv |-> q]
        PROVE  [R EXCEPT !.via[1] = c] = [base |-> b, via |-> [v EXCEPT ![1] = c], cv |-> q]
    BY <2>4
  <2>5. To = [base |-> U.base, via |-> [U.via EXCEPT ![1] = T.via[1]], cv |-> U.cv]
    BY <2>1, <2>2, <2>4, TypeRecord
  <2>6. T.via[1] \in Classes \cup {"*"}
    <3>1. T.via \in Seq(Classes \cup {"*"}) /\ Len(T.via) \in Nat /\ Len(T.cv) = Len(T.via) + 1
      BY TypeLevels
    <3> QED BY <3>1
  <2>7. /\ [U.via EXCEPT ![1] = T.via[1]] \in Seq(Classes \cup {"*"})
        /\ Len([U.via EXCEPT ![1] = T.via[1]]) = Len(U.via)
        /\ \A k \in 2..Len(U.via) : [U.via EXCEPT ![1] = T.via[1]][k] = U.via[k]
    <3>1. U.via # <<>>
      BY <2>1, <2>3
    <3> QED BY <2>3, <2>6, <3>1, FirstReplaced
  <2>8. IsType(To) /\ To.cv = U.cv /\ To.base = U.base
    <3>1. To.base = U.base /\ To.cv = U.cv /\ To.via = [U.via EXCEPT ![1] = T.via[1]]
      BY <2>5
    <3>2. To = [base |-> To.base, via |-> To.via, cv |-> To.cv]
      BY <2>5, <3>1, Zenon
    <3> QED BY <2>3, <2>7, <3>1, <3>2, Zenon DEF IsType, CVQualifiers
  <2>9. \A k \in 2..Len(T.cv) - 1 : To.via[k] = U.via[k]
    <3>1. Len(U.via) = Len(T.cv) - 1
      BY <1>1, <2>1, <2>3
    <3>2. To.via = [U.via EXCEPT ![1] = T.via[1]]
      BY <2>5
    <3> QED BY <2>7, <3>1, <3>2
  <2> QED BY <2>1, <2>8, <2>9
<1>6. \/ To = F
      \/ IsPointerConversion(e, F, T) /\ To = PointerConverted(e, F, T)
      \/ IsMemberPointerConversion(e, F, T) /\ To = MemberPointerConverted(e, F, T)
  BY <1>2, Zenon DEF SecondConversion, IsIntegralPromotion, IsFloatingPointPromotion
<1> QED BY <1>3, <1>4, <1>5, <1>6

(* Beneath a level that is not const the levels are the same.              *)
SameBeneath(F, T, j) ==
  /\ F.base = T.base
  /\ \A k \in j + 1..Len(T.cv) : F.cv[k] = T.cv[k]
  /\ \A k \in j..Len(T.cv) - 1 : F.via[k] = T.via[k]

LEMMA QualificationKeeps ==
  ASSUME NEW F, NEW T, IsType(F), IsType(T), IsQualificationConversion(F, T),
         NEW j \in 2..Len(T.cv), "const" \notin T.cv[j]
  PROVE  SameBeneath(F, T, j) /\ "const" \notin F.cv[j]
<1>1. Len(T.cv) \in Nat /\ Len(F.cv) = Len(T.cv) /\ F.base = T.base /\ F.via = T.via
  BY UnqualifiedType DEF IsQualificationConversion, AreSimilar
<1>2. ASSUME NEW k \in j + 1..Len(T.cv), F.cv[k] # T.cv[k]
      PROVE  FALSE
  <2>1. k \in 2..Len(F.cv) /\ j \in 2..k - 1
    BY <1>1, <1>2
  <2> QED BY <1>2, <2>1 DEF IsQualificationConversion
<1>3. "const" \notin F.cv[j]
  BY <1>1 DEF IsQualificationConversion
<1> QED BY <1>1, <1>2, <1>3 DEF SameBeneath

LEMMA SequencesKeep ==
  ASSUME NEW s, IsOfAnArgument(s), Len(s.To.cv) = Len(s.From.cv), ~s.Deprecated,
         NEW j \in 2..Len(s.To.cv), "const" \notin s.To.cv[j]
  PROVE  /\ "const" \notin s.From.cv[j]
         /\ j < Len(s.To.cv) => SameBeneath(s.From, s.To, j)
<1> DEFINE n == Len(s.To.cv)
<1>1. IsType(s.From) /\ IsType(s.To) /\ n \in Nat /\ n > 1
  BY UnqualifiedType DEF IsOfAnArgument, IsSequence
<1>2. \A bases : ~Is(s.From, bases)
  BY <1>1 DEF Is
<1>3. CASE Unqualified(s.From) = Unqualified(s.To)
  BY <1>1, <1>3, SameType DEF SameBeneath
<1>4. ASSUME NEW e, IsArgument(e), NEW c \in IsStandardConversion(e, s.To),
             s.From = e.type, Steps(s) = Steps(c)
      PROVE  /\ "const" \notin s.From.cv[j]
             /\ j < n => SameBeneath(s.From, s.To, j)
  <2> DEFINE F == FirstType(e)
             second == SecondConversion(e, F, s.To)
             To == second[2]
  <2>1. F = s.From \/ F = Unqualified(s.From)
    BY <1>4 DEF FirstType
  <2>2. /\ F.base = s.From.base /\ F.via = s.From.via /\ Len(F.cv) = n
        /\ \A k \in 2..n : F.cv[k] = s.From.cv[k]
    BY <1>1, <2>1, UnqualifiedType
  <2>3. IsType(F)
    BY <1>1, <2>1, UnqualifiedIsType
  <2>4. e.form # "null"
    BY <1>2, <1>4 DEF IsArgument
  <2>5. /\ IsType(To) /\ Len(To.cv) = n
        /\ \A k \in 2..n : To.cv[k] = F.cv[k]
        /\ n > 2 => To.base = F.base /\ \A k \in 2..n - 1 : To.via[k] = F.via[k]
    BY <1>1, <2>2, <2>3, <2>4, SecondConversionKeeps
  <2>6. c \in SequenceTo(e, s.To, second, IsQualificationConversion(To, s.To))
    BY DEF IsStandardConversion, Qualified
  <2>7. ~IsStringLiteralToNonConst(e, s.To)
    <3>1. ASSUME IsStringLiteralToNonConst(e, s.To)
          PROVE  c.Deprecated = TRUE
      BY <2>6, <3>1 DEF SequenceTo, SetAsIdentityConversion
    <3> QED BY <1>4, <3>1 DEF Steps
  <2>8. IsQualificationConversion(To, s.To) \/ Unqualified(To) = Unqualified(s.To)
    BY <2>6, <2>7 DEF SequenceTo
  <2> HIDE DEF To, F
  <2>9. SameBeneath(To, s.To, j) /\ "const" \notin To.cv[j]
    <3>1. CASE IsQualificationConversion(To, s.To)
      BY <1>1, <2>5, <3>1, QualificationKeeps
    <3>2. CASE Unqualified(To) = Unqualified(s.To)
      <4>1. /\ To.base = s.To.base /\ To.via = s.To.via
            /\ \A k \in 2..Len(To.cv) : To.cv[k] = s.To.cv[k]
        BY <1>1, <2>5, <3>2, SameType
      <4> QED BY <1>1, <2>5, <4>1 DEF SameBeneath
    <3> QED BY <2>8, <3>1, <3>2
  <2>10. "const" \notin s.From.cv[j]
    BY <2>2, <2>5, <2>9
  <2>11. ASSUME j < n
         PROVE  SameBeneath(s.From, s.To, j)
    <3>1. n > 2 /\ j + 1..n \subseteq 2..n /\ j..n - 1 \subseteq 2..n - 1
      BY <1>1, <2>11
    <3> QED BY <2>2, <2>5, <2>9, <3>1 DEF SameBeneath
  <2> QED BY <2>10, <2>11
<1>5. ~(Is(s.From, Classes) /\ Is(s.To, Classes))
  BY <1>2
<1> QED BY <1>3, <1>4, <1>5 DEF IsOfAnArgument, IsSequence

(* What can be stored beneath depends on nothing else.                     *)
LEMMA SubSequences ==
  ASSUME NEW S, NEW q \in Seq(S), NEW j \in Nat \ {0}, j <= Len(q)
  PROVE  /\ SubSeq(q, j, Len(q)) \in Seq(S) /\ Len(SubSeq(q, j, Len(q))) = Len(q) - j + 1
         /\ \A k \in 1..Len(q) - j + 1 : SubSeq(q, j, Len(q))[k] = q[j + k - 1]
<1>1. j \in Int /\ Len(q) \in Int /\ \A k \in j..Len(q) : q[k] \in S
  OBVIOUS
<1> QED BY <1>1, SubSeqProperties

LEMMA SamePlace ==
  ASSUME NEW F, NEW T, IsType(F), IsType(T), Len(F.cv) = Len(T.cv),
         NEW j \in 2..Len(T.cv) - 1, SameBeneath(F, T, j)
  PROVE  Unqualified(At(F, j)) = Unqualified(At(T, j))
<1> DEFINE n == Len(T.cv)
           W == Classes \cup {"*"}
           Way(v) == SubSeq(v, j, n - 1)
           Place(q) == [SubSeq(q, j, n) EXCEPT ![1] = {}]
<1>1. /\ n \in Nat /\ F.cv \in Seq(CVQualifiers) /\ T.cv \in Seq(CVQualifiers)
      /\ F.via \in Seq(W) /\ T.via \in Seq(W) /\ Len(F.via) = n - 1 /\ Len(T.via) = n - 1
  <2>1. \A x, y \in Nat : x = y + 1 => y = x - 1
    OBVIOUS
  <2>2. /\ F.cv \in Seq(CVQualifiers) /\ F.via \in Seq(W) /\ Len(F.via) \in Nat
        /\ Len(F.cv) \in Nat /\ Len(F.cv) = Len(F.via) + 1
    BY TypeLevels
  <2>3. /\ T.cv \in Seq(CVQualifiers) /\ T.via \in Seq(W) /\ Len(T.via) \in Nat
        /\ Len(T.cv) \in Nat /\ Len(T.cv) = Len(T.via) + 1
    BY TypeLevels
  <2> QED BY <2>1, <2>2, <2>3, Zenon
<1>3. At(F, j) = [base |-> F.base, via |-> Way(F.via), cv |-> SubSeq(F.cv, j, n)]
  BY <1>1, Zenon DEF At
<1>4. At(T, j) = [base |-> T.base, via |-> Way(T.via), cv |-> SubSeq(T.cv, j, n)]
  BY <1>1, Zenon DEF At
<1> HIDE DEF Way
<1>5. /\ Unqualified(At(F, j)) = [base |-> F.base, via |-> Way(F.via), cv |-> Place(F.cv)]
      /\ Unqualified(At(T, j)) = [base |-> T.base, via |-> Way(T.via), cv |-> Place(T.cv)]
  <2>1. /\ Unqualified([base |-> F.base, via |-> Way(F.via), cv |-> SubSeq(F.cv, j, n)])
             = [base |-> F.base, via |-> Way(F.via), cv |-> Place(F.cv)]
        /\ Unqualified([base |-> T.base, via |-> Way(T.via), cv |-> SubSeq(T.cv, j, n)])
             = [base |-> T.base, via |-> Way(T.via), cv |-> Place(T.cv)]
    BY UnqualifiedOf, Zenon
  <2> QED BY <1>3, <1>4, <2>1, Zenon
<1>6. Place(F.cv) = Place(T.cv)
  <2>1. ASSUME NEW q \in Seq(CVQualifiers), Len(q) = n
        PROVE  /\ SubSeq(q, j, n) \in Seq(CVQualifiers) /\ Len(SubSeq(q, j, n)) = n - j + 1
               /\ \A k \in 1..n - j + 1 : SubSeq(q, j, n)[k] = q[j + k - 1]
    BY <1>1, <2>1, SubSequences
  <2>2. ASSUME NEW k \in 2..n - j + 1
        PROVE  SubSeq(F.cv, j, n)[k] = SubSeq(T.cv, j, n)[k]
    <3>1. j + k - 1 \in j + 1..n /\ k \in 1..n - j + 1
      BY <1>1
    <3> QED BY <1>1, <2>1, <3>1 DEF SameBeneath
  <2>3. /\ SubSeq(F.cv, j, n) \in Seq(CVQualifiers) /\ SubSeq(T.cv, j, n) \in Seq(CVQualifiers)
        /\ Len(SubSeq(F.cv, j, n)) = n - j + 1 /\ Len(SubSeq(T.cv, j, n)) = n - j + 1
    BY <1>1, <2>1
  <2>4. ASSUME NEW p \in Seq(CVQualifiers), NEW q \in Seq(CVQualifiers), Len(p) = Len(q),
               \A k \in 2..Len(p) : p[k] = q[k]
        PROVE  [p EXCEPT ![1] = {}] = [q EXCEPT ![1] = {}]
    <3>1. DOMAIN p = DOMAIN q /\ DOMAIN p = 1..Len(p)
      BY <2>4
    <3>2. \A k \in DOMAIN p : k # 1 => p[k] = q[k]
      BY <2>4, <3>1
    <3> QED BY <3>1, <3>2
  <2> QED BY <2>2, <2>3, <2>4
<1>7. Way(F.via) = Way(T.via)
  <2>1. ASSUME NEW v \in Seq(W), Len(v) = n - 1
        PROVE  /\ Way(v) \in Seq(W) /\ Len(Way(v)) = n - j
               /\ \A k \in 1..n - j : Way(v)[k] = v[j + k - 1]
    <3>1. j \in Nat \ {0} /\ j <= Len(v) /\ Len(v) - j + 1 = n - j
      BY <1>1, <2>1
    <3>2. /\ SubSeq(v, j, Len(v)) \in Seq(W) /\ Len(SubSeq(v, j, Len(v))) = Len(v) - j + 1
          /\ \A k \in 1..Len(v) - j + 1 : SubSeq(v, j, Len(v))[k] = v[j + k - 1]
      BY <2>1, <3>1, SubSequences
    <3> QED BY <2>1, <3>1, <3>2, Zenon DEF Way
  <2>2. ASSUME NEW k \in 1..n - j
        PROVE  Way(F.via)[k] = Way(T.via)[k]
    <3>1. j + k - 1 \in j..n - 1
      BY <1>1
    <3> QED BY <1>1, <2>1, <3>1 DEF SameBeneath
  <2>3. /\ Way(F.via) \in Seq(W) /\ Way(T.via) \in Seq(W)
        /\ Len(Way(F.via)) = n - j /\ Len(Way(T.via)) = n - j
    BY <1>1, <2>1
  <2> HIDE DEF W
  <2> QED BY <2>2, <2>3
<1> QED BY <1>5, <1>6, <1>7 DEF SameBeneath

(* IsQualificationConversion: nothing const is reached through what an     *)
(* argument is converted to as something that is not, and what may be      *)
(* stored through it could be stored through the argument.                 *)
THEOREM StoresStaySoundTheorem == Spec => []StoresStaySound
<1>1. Known => StoresStaySound
  <2> SUFFICES ASSUME Known, NEW s \in StandardOnes,
                      Len(s.To.cv) = Len(s.From.cv), ~s.Deprecated,
                      NEW j \in 2..Len(s.To.cv), "const" \notin s.To.cv[j]
               PROVE  /\ "const" \notin s.From.cv[j]
                      /\ j < Len(s.To.cv) =>
                           \A X \in StoredTypes : Takes(At(s.To, j), X) => Takes(At(s.From, j), X)
    BY DEF StoresStaySound
  <2>1. PICK i \in ViableOnes, k \in Places :
          CandidateSet[i].Conversions[k].kind = "standard" /\ s = CandidateSet[i].Conversions[k].std
    BY DEF StandardOnes
  <2>2. AreComparableConversions(CandidateSet[i].Conversions[k], CandidateSet[i].Conversions[k])
    BY ViableCandidates DEF ViableOnes, Places, AreComparable
  <2>3. IsOfAnArgument(s)
    BY <2>1, <2>2, OneArgument DEF AreComparableConversions
  <2>4. IsType(s.From) /\ IsType(s.To) /\ Len(s.To.cv) \in Nat
    BY <2>3, UnqualifiedType DEF IsOfAnArgument, IsSequence
  <2>5. "const" \notin s.From.cv[j] /\ (j < Len(s.To.cv) => SameBeneath(s.From, s.To, j))
    BY <2>3, SequencesKeep
  <2>6. ASSUME j < Len(s.To.cv)
        PROVE  Unqualified(At(s.From, j)) = Unqualified(At(s.To, j))
    <3>1. j \in 2..Len(s.To.cv) - 1
      BY <2>4, <2>6
    <3> QED BY <2>4, <2>5, <2>6, <3>1, SamePlace
  <2> QED BY <2>5, <2>6 DEF Takes
<1> QED BY <1>1, KnownIsInvariant, PTL

(***************************************************************************)
(* What conversions there are.                                             *)
(***************************************************************************)
PromotionsAndConversions ==
  {"integral_promotion", "floating_promotion", "integral_conversion", "floating_conversion",
   "floating_integral", "pointer_conversion", "pointer_member", "boolean_conversion"}

LEMMA Levels ==
  ASSUME NEW T
  PROVE  /\ \A bases : Is(T, bases) => ~IsPointer(T) /\ ~IsMemberPointer(T)
         /\ ~(IsPointer(T) /\ IsMemberPointer(T))
         /\ Len(T.cv) = 2 => \A bases : ~Is(T, bases)
<1>1. ~(1 > 1) /\ 1 # 2
  OBVIOUS
<1> QED BY <1>1, Zenon DEF Is, IsPointer, IsMemberPointer

LEMMA SecondConversionMeans ==
  ASSUME NEW e, NEW F, NEW T, IsType(F), IsType(T),
         e.form = "null" => ~IsPointer(F) /\ ~IsMemberPointer(F),
         NEW kind, NEW To, SecondConversion(e, F, T) = <<kind, To>>
  PROVE  /\ kind \in PromotionsAndConversions \/ (kind = "identity" /\ To = F)
         /\ kind = "pointer_conversion" =>
              IsPointerConversion(e, F, T) /\ To = PointerConverted(e, F, T)
         /\ kind = "pointer_member" =>
              IsMemberPointerConversion(e, F, T) /\ To = MemberPointerConverted(e, F, T)
         /\ kind \notin {"identity", "pointer_conversion"} => ~IsPointer(T)
         /\ kind \notin {"identity", "pointer_member"} => ~IsMemberPointer(T)
         /\ kind = "boolean_conversion" => Is(T, {"bool"})
         /\ IsPointer(F) => kind \in {"identity", "pointer_conversion", "boolean_conversion"}
         /\ IsMemberPointer(F) => kind \in {"identity", "pointer_member", "boolean_conversion"}
         /\ IsPointer(F) /\ Is(T, {"bool"}) => kind = "boolean_conversion"
<1>1. /\ \A bases : Is(F, bases) => ~IsPointer(F) /\ ~IsMemberPointer(F)
      /\ \A bases : Is(T, bases) => ~IsPointer(T) /\ ~IsMemberPointer(T)
      /\ ~(IsPointer(F) /\ IsMemberPointer(F)) /\ ~(IsPointer(T) /\ IsMemberPointer(T))
  BY Levels
<1>2. Unqualified(F) = Unqualified(T) => (IsPointer(F) <=> IsPointer(T))
  BY SameType DEF IsPointer
<1> DEFINE same == Unqualified(F) = Unqualified(T)
           promoted == IsIntegralPromotion(F, T)
           floating == IsFloatingPointPromotion(F, T)
           integral == Is(F, Integral) /\ Is(T, Integral \ {"enum"})
           float == Is(F, Floating) /\ Is(T, Floating)
           mixed == \/ Is(F, Floating) /\ Is(T, Integral \ {"bool", "enum"})
                    \/ Is(F, Integral) /\ Is(T, Floating)
           pointer == IsPointerConversion(e, F, T)
           member == IsMemberPointerConversion(e, F, T)
           bool == Is(T, {"bool"}) /\ (IsPointer(F) \/ IsMemberPointer(F) \/ Is(F, Floating))
           neither(x) == ~IsPointer(x) /\ ~IsMemberPointer(x)
<1>3. promoted \/ floating => neither(F) /\ neither(T)
  BY <1>1 DEF IsIntegralPromotion, IsFloatingPointPromotion
<1>4. pointer => IsPointer(T) /\ ~IsMemberPointer(T) /\ ~IsMemberPointer(F)
  BY <1>1 DEF IsPointerConversion
<1>5. member => IsMemberPointer(T) /\ ~IsPointer(T) /\ ~IsPointer(F)
  BY <1>1 DEF IsMemberPointerConversion
<1>6. integral \/ float \/ mixed => neither(F) /\ neither(T)
  BY <1>1
<1>7. \/ same /\ kind = "identity" /\ To = F
      \/ promoted /\ kind = "integral_promotion"
      \/ floating /\ kind = "floating_promotion"
      \/ integral /\ kind = "integral_conversion"
      \/ float /\ kind = "floating_conversion"
      \/ mixed /\ kind = "floating_integral"
      \/ pointer /\ kind = "pointer_conversion" /\ To = PointerConverted(e, F, T)
      \/ member /\ kind = "pointer_member" /\ To = MemberPointerConverted(e, F, T)
      \/ bool /\ kind = "boolean_conversion"
      \/ ~same /\ ~bool /\ kind = "identity" /\ To = F
  BY DEF SecondConversion
<1>8. bool => Is(T, {"bool"}) /\ neither(T)
  BY <1>1
<1>9. IsPointer(F) /\ Is(T, {"bool"}) => ~same /\ bool
  BY <1>1, <1>2
<1>10. Is(T, {"bool"}) => neither(T)
  BY <1>1
<1> HIDE DEF same, promoted, floating, integral, float, mixed, pointer, member, bool
<1> QED BY <1>3, <1>4, <1>5, <1>6, <1>7, <1>8, <1>9, <1>10
        DEF PromotionsAndConversions, pointer, member

(* To pointers of two levels.                                              *)
LEMMA PointerConversionMeans ==
  ASSUME NEW e, NEW F, NEW T, IsType(F), IsType(T), IsPointerConversion(e, F, T),
         e.form # "null"
  PROVE  IsPointer(F) /\ Len(T.cv) = 2
<1>1. IsPointer(F) /\ (IsVoidPointer(T) \/ IsDerivedFrom(Pointee(F), Pointee(T)))
  BY DEF IsPointerConversion
<1>2. Len(Pointee(T).cv) = Len(T.cv) - 1
  BY PointeeType
<1> QED BY <1>1, <1>2, UnqualifiedType DEF IsVoidPointer, IsDerivedFrom

(* The fields of a standard conversion.                                    *)
LEMMA StandardConversionMeans ==
  ASSUME NEW e, NEW T, IsArgument(e), IsType(T), NEW c \in IsStandardConversion(e, T)
  PROVE  /\ c.First = FirstConversion(e)
         /\ c.Deprecated = IsStringLiteralToNonConst(e, T)
         /\ c.Second \in PromotionsAndConversions \cup {"identity"}
         /\ c.Third \in {"identity", "qualification"}
         /\ c.Third = "qualification" =>
              \/ /\ IsPointer(e.type) /\ IsPointer(T)
                 /\ c.Second \in {"identity", "pointer_conversion"}
              \/ /\ IsMemberPointer(e.type) /\ IsMemberPointer(T)
                 /\ c.Second \in {"identity", "pointer_member"}
         /\ c.Second = "boolean_conversion" => Is(T, {"bool"})
         /\ c.Second = "pointer_member" => IsMemberPointer(T)
         /\ IsMemberPointer(e.type) =>
              c.Second \in {"identity", "pointer_member", "boolean_conversion"}
         /\ IsPointer(e.type) =>
              c.Second \in {"identity", "pointer_conversion", "boolean_conversion"}
         /\ IsPointer(e.type) /\ Is(T, {"bool"}) => c.Second = "boolean_conversion"
         /\ IsPointer(e.type) /\ c.Second = "pointer_conversion" => Len(T.cv) = 2
<1> DEFINE F == FirstType(e)
           second == SecondConversion(e, F, T)
           q == IsQualificationConversion(second[2], T)
           scs == [SetAsIdentityConversion(e.type, T) EXCEPT
                    !.First = FirstConversion(e), !.Second = second[1],
                    !.Third = IF q THEN "qualification" ELSE "identity"]
<1>1. c \in SequenceTo(e, T, second, q)
  BY DEF IsStandardConversion, Qualified
<1>2. /\ IsType(e.type) /\ (IsArray(e) => IsPointer(e.type))
      /\ e.form = "null" => ~IsPointer(e.type) /\ ~IsMemberPointer(e.type)
  BY Levels DEF IsArgument
<1>3. /\ IsType(F) /\ (IsPointer(F) <=> IsPointer(e.type))
      /\ IsMemberPointer(F) <=> IsMemberPointer(e.type)
  BY <1>2, UnqualifiedIsType, UnqualifiedType DEF FirstType, IsPointer, IsMemberPointer
<1>4. PICK kind, To : second = <<kind, To>>
  BY DEF SecondConversion
<1>5. /\ kind \in PromotionsAndConversions \/ (kind = "identity" /\ To = F)
      /\ kind = "pointer_conversion" =>
           IsPointerConversion(e, F, T) /\ To = PointerConverted(e, F, T)
      /\ kind = "pointer_member" =>
           IsMemberPointerConversion(e, F, T) /\ To = MemberPointerConverted(e, F, T)
      /\ kind \notin {"identity", "pointer_conversion"} => ~IsPointer(T)
      /\ kind \notin {"identity", "pointer_member"} => ~IsMemberPointer(T)
      /\ kind = "boolean_conversion" => Is(T, {"bool"})
      /\ IsMemberPointer(F) => kind \in {"identity", "pointer_member", "boolean_conversion"}
      /\ IsPointer(F) => kind \in {"identity", "pointer_conversion", "boolean_conversion"}
      /\ IsPointer(F) /\ Is(T, {"bool"}) => kind = "boolean_conversion"
  BY <1>2, <1>3, <1>4, SecondConversionMeans
<1>6. CASE IsStringLiteralToNonConst(e, T)
  <2>1. c = [scs EXCEPT !.Second = "identity", !.Third = "qualification", !.Deprecated = TRUE]
    BY <1>1, <1>6 DEF SequenceTo
  <2>2. /\ c.First = FirstConversion(e) /\ c.Second = "identity" /\ c.Third = "qualification"
        /\ c.Deprecated = TRUE
    BY <2>1 DEF SetAsIdentityConversion
  <2>3. e.form = "string" /\ Len(T.cv) = 2 /\ IsPointer(T)
    BY <1>6 DEF IsStringLiteralToNonConst
  <2>4. IsPointer(e.type) /\ IsPointer(T) /\ ~IsMemberPointer(e.type)
    BY <1>2, <2>3, Levels DEF IsArray
  <2>5. ~Is(T, {"bool"})
    BY <2>3, Levels
  <2>6. (TRUE = IsStringLiteralToNonConst(e, T)) = TRUE
    BY <1>6 DEF IsStringLiteralToNonConst
  <2> QED BY <2>2, <2>4, <2>5, <2>6
<1>7. CASE ~IsStringLiteralToNonConst(e, T)
  <2>1. c = scs
    BY <1>1, <1>7 DEF SequenceTo
  <2>2. /\ c.First = FirstConversion(e) /\ c.Second = kind /\ c.Deprecated = FALSE
        /\ c.Third = IF q THEN "qualification" ELSE "identity"
    BY <1>4, <2>1 DEF SetAsIdentityConversion
  <2>3. ASSUME q
        PROVE  \/ IsPointer(e.type) /\ IsPointer(T) /\ kind \in {"identity", "pointer_conversion"}
               \/ /\ IsMemberPointer(e.type) /\ IsMemberPointer(T)
                  /\ kind \in {"identity", "pointer_member"}
    <3>1. Len(To.cv) > 1 /\ Len(To.cv) = Len(T.cv) /\ To.via = T.via /\ To # T
      BY <1>4, <2>3 DEF IsQualificationConversion, AreSimilar
    <3>2. /\ IsPointer(T) \/ IsMemberPointer(T)
          /\ IsPointer(T) <=> IsPointer(To)
          /\ IsMemberPointer(T) <=> IsMemberPointer(To)
      BY <3>1 DEF IsPointer, IsMemberPointer
    <3>3. CASE kind = "identity"
      BY <1>3, <1>5, <3>2, <3>3 DEF PromotionsAndConversions
    <3>4. CASE kind = "pointer_conversion"
      <4>1. e.form # "null"
        BY <1>5, <3>1, <3>4 DEF PointerConverted
      <4> QED BY <1>3, <1>5, <3>2, <3>4, <4>1, PointerConversionMeans
    <3>5. CASE kind = "pointer_member"
      <4>1. e.form # "null"
        BY <1>5, <3>1, <3>5 DEF MemberPointerConverted
      <4> QED BY <1>3, <1>5, <3>5, <4>1 DEF IsMemberPointerConversion
    <3> QED BY <1>5, <3>2, <3>3, <3>4, <3>5
  <2>4. IsPointer(e.type) /\ kind = "pointer_conversion" => Len(T.cv) = 2
    BY <1>2, <1>3, <1>5, PointerConversionMeans
  <2>5. (FALSE = IsStringLiteralToNonConst(e, T)) = TRUE
    BY <1>7 DEF IsStringLiteralToNonConst
  <2>6. kind = "pointer_member" => IsMemberPointer(T)
    BY <1>5 DEF IsMemberPointerConversion
  <2> HIDE DEF q
  <2> QED BY <1>3, <1>5, <2>2, <2>3, <2>4, <2>5, <2>6
<1> QED BY <1>6, <1>7

(***************************************************************************)
(* What sequences there are.                                               *)
(***************************************************************************)
Sound(s) ==
  /\ s.Second \in PromotionsAndConversions \cup {"identity", "derived_to_base"}
  /\ s.Third \in {"identity", "qualification"}
  /\ s.Third = "qualification" =>
       \/ IsPointer(s.From) /\ IsPointer(s.To) /\ s.Second \in {"identity", "pointer_conversion"}
       \/ /\ IsMemberPointer(s.From) /\ IsMemberPointer(s.To)
          /\ s.Second \in {"identity", "pointer_member"}
  /\ s.Second = "boolean_conversion" => Is(s.To, {"bool"})
  /\ s.Second = "pointer_member" => IsMemberPointer(s.To)
  /\ IsMemberPointer(s.From) => s.Second \in {"identity", "pointer_member", "boolean_conversion"}
  /\ IsPointer(s.From) => s.Second \in {"identity", "pointer_conversion", "boolean_conversion"}
  /\ IsPointer(s.From) /\ Is(s.To, {"bool"}) => s.Second = "boolean_conversion"
  /\ IsPointer(s.From) /\ s.Second = "pointer_conversion" => Len(s.To.cv) = 2
  /\ s.First = "array_to_pointer" => IsPointer(s.From)
  /\ IsPointer(s.From) => ~Is(s.From, Classes) /\ ~IsMemberPointer(s.From)

LEMMA SequenceMeans ==
  ASSUME NEW e, NEW s, IsArgument(e), IsSequence(e, s)
  PROVE  /\ Sound(s)
         /\ s.Third = "qualification" =>
              s.First = FirstConversion(e) /\ s.Deprecated = IsStringLiteralToNonConst(e, s.To)
<1> DEFINE same == Unqualified(s.From) = Unqualified(s.To)
<1>1. /\ IsType(s.From) /\ IsType(s.To)
      /\ ~(IsPointer(s.From) /\ (Is(s.From, Classes) \/ IsMemberPointer(s.From)))
  BY Levels DEF IsSequence
<1>2. CASE /\ Is(s.From, Classes) /\ Is(s.To, Classes)
           /\ Steps(s)
                = <<"identity", IF same THEN "identity" ELSE "derived_to_base", "identity", FALSE>>
  <2>1. s.First = "identity" /\ s.Third = "identity" /\ s.Second \in {"identity", "derived_to_base"}
    BY <1>2 DEF Steps
  <2>2. ~IsPointer(s.From) /\ ~IsMemberPointer(s.From)
    BY <1>2, Levels
  <2> QED BY <2>1, <2>2 DEF Sound, PromotionsAndConversions
<1>3. CASE ~Is(s.From, Classes) /\ same /\ Steps(s) = <<"identity", "identity", "identity", FALSE>>
  <2>1. s.First = "identity" /\ s.Third = "identity" /\ s.Second = "identity"
    BY <1>3 DEF Steps
  <2>2. ~(IsPointer(s.From) /\ Is(s.To, {"bool"}))
    BY <1>1, <1>3, SameType, Levels
  <2> QED BY <1>1, <2>1, <2>2 DEF Sound
<1>4. ASSUME NEW c \in IsStandardConversion(e, s.To), s.From = e.type, Steps(s) = Steps(c)
      PROVE  /\ Sound(s)
             /\ s.Third = "qualification" =>
                  s.First = FirstConversion(e) /\ s.Deprecated = IsStringLiteralToNonConst(e, s.To)
  <2>1. s.First = c.First /\ s.Second = c.Second /\ s.Third = c.Third /\ s.Deprecated = c.Deprecated
    BY <1>4 DEF Steps
  <2>2. s.First = FirstConversion(e) /\ s.Deprecated = IsStringLiteralToNonConst(e, s.To)
    BY <1>1, <1>4, <2>1, StandardConversionMeans
  <2>3. s.First = "array_to_pointer" => IsPointer(s.From)
    BY <1>4, <2>2 DEF FirstConversion, IsArgument
  <2>4. /\ s.Second \in PromotionsAndConversions \cup {"identity"}
        /\ s.Third \in {"identity", "qualification"}
        /\ s.Third = "qualification" =>
             \/ /\ IsPointer(s.From) /\ IsPointer(s.To)
                /\ s.Second \in {"identity", "pointer_conversion"}
             \/ /\ IsMemberPointer(s.From) /\ IsMemberPointer(s.To)
                /\ s.Second \in {"identity", "pointer_member"}
        /\ s.Second = "boolean_conversion" => Is(s.To, {"bool"})
        /\ s.Second = "pointer_member" => IsMemberPointer(s.To)
        /\ IsMemberPointer(s.From) =>
             s.Second \in {"identity", "pointer_member", "boolean_conversion"}
        /\ IsPointer(s.From) =>
             s.Second \in {"identity", "pointer_conversion", "boolean_conversion"}
        /\ IsPointer(s.From) /\ Is(s.To, {"bool"}) => s.Second = "boolean_conversion"
        /\ IsPointer(s.From) /\ s.Second = "pointer_conversion" => Len(s.To.cv) = 2
    BY <1>1, <1>4, <2>1, StandardConversionMeans
  <2> QED BY <1>1, <2>2, <2>3, <2>4 DEF Sound
<1> QED BY <1>2, <1>3, <1>4 DEF IsSequence, Steps

(* Two sequences of one argument.                                          *)
OfSame(x, y) == \E e : IsArgument(e) /\ IsSequence(e, x) /\ IsSequence(e, y)

LEMMA OfSameMeans ==
  ASSUME NEW x, NEW y, OfSame(x, y)
  PROVE  /\ IsOfAnArgument(x) /\ IsOfAnArgument(y) /\ OfSame(y, x)
         /\ Sound(x) /\ Sound(y)
         /\ IsType(x.From) /\ IsType(x.To) /\ IsType(y.From) /\ IsType(y.To)
         /\ Unqualified(x.From) = Unqualified(y.From)
         /\ IsPointer(x.From) <=> IsPointer(y.From)
         /\ IsMemberPointer(x.From) <=> IsMemberPointer(y.From)
         /\ Is(x.From, Classes) <=> Is(y.From, Classes)
         /\ x.Third = "qualification" /\ y.Third = "qualification" =>
              /\ x.First = y.First
              /\ Unqualified(x.To) = Unqualified(y.To) => x.Deprecated = y.Deprecated
<1>1. PICK e : IsArgument(e) /\ IsSequence(e, x) /\ IsSequence(e, y)
  BY DEF OfSame
<1>2. /\ IsType(x.From) /\ IsType(x.To) /\ IsType(y.From) /\ IsType(y.To)
      /\ Unqualified(x.From) = Unqualified(y.From)
  BY <1>1 DEF IsSequence
<1>3. /\ IsPointer(x.From) <=> IsPointer(y.From)
      /\ IsMemberPointer(x.From) <=> IsMemberPointer(y.From)
      /\ Is(x.From, Classes) <=> Is(y.From, Classes)
  BY <1>2, SameType DEF IsPointer, IsMemberPointer
<1>4. Unqualified(x.To) = Unqualified(y.To) =>
        IsStringLiteralToNonConst(e, x.To) = IsStringLiteralToNonConst(e, y.To)
  <2> SUFFICES ASSUME Unqualified(x.To) = Unqualified(y.To)
               PROVE  IsStringLiteralToNonConst(e, x.To) = IsStringLiteralToNonConst(e, y.To)
    OBVIOUS
  <2>1. /\ x.To.base = y.To.base /\ x.To.via = y.To.via /\ Len(x.To.cv) = Len(y.To.cv)
        /\ Len(x.To.cv) = 2 => x.To.cv[2] = y.To.cv[2]
    BY <1>2, SameType
  <2> QED BY <2>1 DEF IsStringLiteralToNonConst, IsPointer
<1> QED BY <1>1, <1>2, <1>3, <1>4, SequenceMeans DEF OfSame, IsOfAnArgument

(***************************************************************************)
(* The rules in turn.                                                      *)
(***************************************************************************)
ByRank(x, y) == Favour(GetRank(x) < GetRank(y), GetRank(y) < GetRank(x))
ByBool(x, y) == Favour(IsPointerConversionToBool(y), IsPointerConversionToBool(x))

LEMMA TheRulesInTurn ==
  ASSUME NEW x, NEW y
  PROVE  CompareStandardConversionSequences(x, y) =
           IF CompareBySubsequence(x, y) # "same" THEN CompareBySubsequence(x, y)
           ELSE IF ByRank(x, y) # "same" THEN ByRank(x, y)
           ELSE IF ByBool(x, y) # "same" THEN ByBool(x, y)
           ELSE IF CompareByPointers(x, y) # "same" THEN CompareByPointers(x, y)
           ELSE IF CompareQualificationConversions(x, y) # "same"
           THEN CompareQualificationConversions(x, y)
           ELSE CompareReferenceBindings(x, y)
<1> DEFINE v == <<CompareBySubsequence(x, y), ByRank(x, y), ByBool(x, y), CompareByPointers(x, y),
                  CompareQualificationConversions(x, y), CompareReferenceBindings(x, y)>>
<1>1. CompareStandardConversionSequences(x, y) = FirstOf(v)
  BY DEF CompareStandardConversionSequences, ByRank, ByBool
<1>2. DOMAIN v = 1..6
  OBVIOUS
<1>3. /\ v[1] = CompareBySubsequence(x, y) /\ v[2] = ByRank(x, y) /\ v[3] = ByBool(x, y)
      /\ v[4] = CompareByPointers(x, y) /\ v[5] = CompareQualificationConversions(x, y)
      /\ v[6] = CompareReferenceBindings(x, y)
  OBVIOUS
<1> HIDE DEF v
<1>4. ASSUME NEW k \in 1..6, v[k] # "same", \A j \in 1..6 : j < k => v[j] = "same"
      PROVE  FirstOf(v) = v[k]
  BY <1>2, <1>4, FirstThatDecides
<1>5. (\A k \in 1..6 : v[k] = "same") => FirstOf(v) = "same"
  BY <1>2 DEF FirstOf
<1>6. FirstOf(v) =
        IF v[1] # "same" THEN v[1] ELSE IF v[2] # "same" THEN v[2]
        ELSE IF v[3] # "same" THEN v[3] ELSE IF v[4] # "same" THEN v[4]
        ELSE IF v[5] # "same" THEN v[5] ELSE v[6]
  BY <1>4, <1>5
<1> QED BY <1>1, <1>3, <1>6

BetterThan(x, y) == CompareStandardConversionSequences(x, y) = "better"

LEMMA RankOfSound ==
  ASSUME NEW s, Sound(s)
  PROVE  /\ GetRank(s) \in {0, 1, 2}
         /\ GetRank(s) = 0 => s.Second = "identity"
         /\ s.Second = "identity" => GetRank(s) = 0
         /\ s.Second \in {"pointer_conversion", "boolean_conversion", "derived_to_base"} =>
              GetRank(s) = 2
  BY DEF Sound, GetRank, Rank, PromotionsAndConversions

LEMMA BetterIsNoHigherInRank ==
  ASSUME NEW x, NEW y, Sound(x), Sound(y), BetterThan(x, y)
  PROVE  GetRank(x) <= GetRank(y)
<1>1. GetRank(x) \in 0..2 /\ GetRank(y) \in 0..2 /\ (x.Second = "identity" => GetRank(x) = 0)
  BY RankOfSound
<1>2. CASE CompareBySubsequence(x, y) # "same"
  <2>1. IsSubsequence(x, y)
    BY <1>2, TheRulesInTurn DEF BetterThan, CompareBySubsequence
  <2>2. x.Second = "identity" \/ x.Second = y.Second
    BY <2>1 DEF IsSubsequence
  <2> QED BY <1>1, <2>2 DEF GetRank
<1>3. CASE CompareBySubsequence(x, y) = "same"
  <2>1. ByRank(x, y) # "worse"
    BY <1>3, TheRulesInTurn DEF BetterThan
  <2> QED BY <1>1, <2>1 DEF ByRank, Favour
<1> QED BY <1>2, <1>3

(* Of equal rank one is part of the other only as it has no third          *)
(* conversion.                                                             *)
LEMMA BetterBySubsequence ==
  ASSUME NEW x, NEW y, Sound(x), Sound(y), GetRank(x) = GetRank(y),
         CompareBySubsequence(x, y) = "better"
  PROVE  x.Third = "identity" /\ y.Third = "qualification" /\ x.Second = y.Second
<1>1. IsSubsequence(x, y) /\ (x.Second # y.Second \/ x.Third # y.Third)
  BY DEF CompareBySubsequence
<1>2. x.Second = "identity" => y.Second = "identity"
  BY RankOfSound
<1> QED BY <1>1, <1>2 DEF IsSubsequence, Sound

LEMMA BetterToBool ==
  ASSUME NEW x, NEW y, OfSame(x, y), GetRank(x) = GetRank(y), BetterThan(x, y),
         IsPointerConversionToBool(x)
  PROVE  IsPointerConversionToBool(y)
<1>1. Sound(x) /\ Sound(y)
  BY OfSameMeans
<1>2. IsPointer(x.From) /\ x.Second = "boolean_conversion"
  BY <1>1 DEF IsPointerConversionToBool, Sound
<1>3. CompareBySubsequence(x, y) # "better"
  BY <1>1, <1>2, BetterBySubsequence DEF Sound
<1>4. CompareBySubsequence(x, y) = "same" /\ ByRank(x, y) \in {"same", "better"}
  BY <1>3, TheRulesInTurn DEF BetterThan
<1>5. ByRank(x, y) = "same"
  BY <1>1, <1>4, RankOfSound DEF ByRank, Favour
<1>6. ByBool(x, y) # "worse"
  BY <1>4, <1>5, TheRulesInTurn DEF BetterThan
<1> QED BY <1>6 DEF ByBool, Favour

(* A pointer to a member that becomes another or a bool, which no rule but *)
(* that of rvalue references tells apart.                                  *)
LEMMA MemberConversions ==
  ASSUME NEW x, NEW y, OfSame(x, y), GetRank(x) = GetRank(y), BetterThan(x, y),
         IsMemberPointer(x.From), x.Second # y.Second
  PROVE  x.RRef /\ ~y.RRef
<1>1. /\ Sound(x) /\ Sound(y) /\ IsType(x.To) /\ IsType(y.To)
      /\ IsMemberPointer(y.From) /\ ~IsPointer(x.From) /\ ~IsPointer(y.From)
  BY OfSameMeans, Levels
<1>2. /\ x.Second \in {"pointer_member", "boolean_conversion"}
      /\ y.Second \in {"pointer_member", "boolean_conversion"}
  BY <1>1, RankOfSound DEF Sound
<1>3. CompareBySubsequence(x, y) = "same"
  BY <1>2 DEF CompareBySubsequence, IsSubsequence
<1>4. ByRank(x, y) = "same" /\ ByBool(x, y) = "same"
  <2>1. ByRank(x, y) = "same"
    BY <1>1, RankOfSound DEF ByRank, Favour
  <2>2. ~IsPointerConversionToBool(x) /\ ~IsPointerConversionToBool(y)
    BY <1>1 DEF IsPointerConversionToBool, Sound
  <2> QED BY <2>1, <2>2 DEF ByBool, Favour
<1>5. CompareByPointers(x, y) = "same"
  BY <1>2 DEF CompareByPointers, IsPointerConversionToVoidPointer, CompareDerivedToBaseConversions
<1>6. CompareQualificationConversions(x, y) = "same"
  BY DEF CompareQualificationConversions
<1>7. CompareReferenceBindings(x, y) = "better"
  BY <1>3, <1>4, <1>5, <1>6, TheRulesInTurn DEF BetterThan
<1>8. Unqualified(x.To) # Unqualified(y.To)
  <2>1. \/ Is(x.To, {"bool"}) /\ ~Is(y.To, {"bool"})
        \/ Is(y.To, {"bool"}) /\ ~Is(x.To, {"bool"})
    BY <1>1, <1>2, Levels DEF Sound
  <2> QED BY <1>1, <2>1, SameType
<1> QED BY <1>7, <1>8 DEF CompareReferenceBindings

(***************************************************************************)
(* Three sequences, each better than the next.                             *)
(***************************************************************************)
LEMMA QualificationIsShared ==
  ASSUME NEW x, NEW y, OfSame(x, y), GetRank(x) = GetRank(y), BetterThan(x, y),
         IsPointerConversionToBool(x) <=> IsPointerConversionToBool(y),
         IsMemberPointer(x.From) => x.Second = y.Second,
         x.Third = "qualification"
  PROVE  y.Third = "qualification" /\ x.Second = y.Second
<1>1. Sound(x) /\ Sound(y)
  BY OfSameMeans
<1>2. ASSUME IsPointer(x.From), IsPointer(x.To), x.Second \in {"identity", "pointer_conversion"}
      PROVE  x.Second = y.Second
  <2>1. IsPointer(y.From)
    BY <1>2, OfSameMeans
  <2>2. ~IsPointerConversionToBool(y)
    BY <1>2, Levels DEF IsPointerConversionToBool
  <2>3. y.Second # "boolean_conversion"
    BY <1>1, <2>1, <2>2 DEF IsPointerConversionToBool, Sound
  <2>4. y.Second \in {"identity", "pointer_conversion"}
    BY <1>1, <2>1, <2>3 DEF Sound
  <2> QED BY <1>1, <1>2, <2>4, RankOfSound
<1>3. \/ IsPointer(x.From) /\ IsPointer(x.To) /\ x.Second \in {"identity", "pointer_conversion"}
      \/ IsMemberPointer(x.From)
  BY <1>1 DEF Sound
<1>4. x.Second = y.Second
  BY <1>2, <1>3
<1>5. CompareBySubsequence(x, y) # "worse"
  BY TheRulesInTurn DEF BetterThan
<1>6. y.Third # "identity"
  BY <1>4, <1>5 DEF CompareBySubsequence, IsSubsequence
<1> QED BY <1>1, <1>4, <1>6 DEF Sound

(* The rules that are left when the first three do not decide.             *)
BetterByTheRest(x, y) ==
  IF CompareByPointers(x, y) # "same" THEN CompareByPointers(x, y) = "better"
  ELSE IF CompareQualificationConversions(x, y) # "same"
  THEN CompareQualificationConversions(x, y) = "better"
  ELSE CompareReferenceBindings(x, y) = "better"

(* Qualification conversions are only compared between similar types.      *)
SimilarIfQualified(x, y) ==
  CompareQualificationConversions(x, y) # "same" => AreSimilar(x.To, y.To)

Tied(x, y) ==
  /\ OfSame(x, y)
  /\ x.Third = y.Third
  /\ x.Third = "qualification" => x.Second = y.Second
  /\ GetRank(x) = GetRank(y)
  /\ IsPointerConversionToBool(x) <=> IsPointerConversionToBool(y)
  /\ IsPointerConversionToVoidPointer(x) <=> IsPointerConversionToVoidPointer(y)

(* An edge of the circle.                                                  *)
Edge(x, y) ==
  /\ OfSame(x, y) /\ BetterThan(x, y)
  /\ SimilarIfQualified(x, y)
  /\ x.Ref => x.Copy = "no"

LEMMA EdgesAreTied ==
  ASSUME NEW a, NEW b, NEW c, Edge(a, b), Edge(b, c), Edge(c, a)
  PROVE  /\ Tied(a, b) /\ Tied(b, c) /\ Tied(c, a)
         /\ BetterByTheRest(a, b) /\ BetterByTheRest(b, c) /\ BetterByTheRest(c, a)
<1> DEFINE Bool(s) == IsPointerConversionToBool(s)
           Void(s) == IsPointerConversionToVoidPointer(s)
<1>1. /\ OfSame(a, b) /\ OfSame(b, c) /\ OfSame(c, a)
      /\ BetterThan(a, b) /\ BetterThan(b, c) /\ BetterThan(c, a)
      /\ Sound(a) /\ Sound(b) /\ Sound(c)
  BY OfSameMeans DEF Edge
<1>2. GetRank(a) = GetRank(b) /\ GetRank(b) = GetRank(c)
  <2>1. GetRank(a) \in Nat /\ GetRank(b) \in Nat /\ GetRank(c) \in Nat
    BY <1>1, RankOfSound
  <2>2. GetRank(a) <= GetRank(b) /\ GetRank(b) <= GetRank(c) /\ GetRank(c) <= GetRank(a)
    BY <1>1, BetterIsNoHigherInRank
  <2> QED BY <2>1, <2>2
<1>3. (Bool(a) <=> Bool(b)) /\ (Bool(b) <=> Bool(c))
  BY <1>1, <1>2, BetterToBool
<1>4. ASSUME NEW x \in {a, b, c}, x.Third = "qualification"
      PROVE  /\ \A y \in {a, b, c} : y.Third = "qualification"
             /\ a.Second = b.Second /\ b.Second = c.Second
  <2>1. /\ IsMemberPointer(a.From) <=> IsMemberPointer(b.From)
        /\ IsMemberPointer(b.From) <=> IsMemberPointer(c.From)
    BY <1>1, OfSameMeans
  <2>2. IsMemberPointer(a.From) =>
          /\ a.Second # b.Second => a.RRef /\ ~b.RRef
          /\ b.Second # c.Second => b.RRef /\ ~c.RRef
          /\ c.Second # a.Second => c.RRef /\ ~a.RRef
    BY <1>1, <1>2, <2>1, MemberConversions
  <2>3. IsMemberPointer(a.From) => a.Second = b.Second /\ b.Second = c.Second
    BY <2>2
  <2> QED BY <1>1, <1>2, <1>3, <1>4, <2>1, <2>3, QualificationIsShared
<1>5. /\ a.Third = b.Third /\ b.Third = c.Third
      /\ a.Third = "qualification" => a.Second = b.Second /\ b.Second = c.Second
  BY <1>1, <1>4 DEF Sound
<1>6. ASSUME NEW x, NEW y, OfSame(x, y), BetterThan(x, y), GetRank(x) = GetRank(y),
             Bool(x) <=> Bool(y), x.Third = y.Third
      PROVE  BetterByTheRest(x, y) /\ (Void(x) => Void(y))
  <2>1. CompareBySubsequence(x, y) = "same"
    <3>1. Sound(x) /\ Sound(y)
      BY <1>6, OfSameMeans
    <3>2. CompareBySubsequence(x, y) # "better"
      BY <1>6, <3>1, BetterBySubsequence
    <3> QED BY <1>6, <3>2, TheRulesInTurn DEF BetterThan
  <2>2. GetRank(x) \in Nat /\ GetRank(y) \in Nat
    BY <1>6, OfSameMeans, RankOfSound
  <2>3. ByRank(x, y) = "same" /\ ByBool(x, y) = "same"
    BY <1>6, <2>2 DEF ByRank, ByBool, Favour
  <2>4. BetterByTheRest(x, y)
    BY <1>6, <2>1, <2>3, TheRulesInTurn DEF BetterThan, BetterByTheRest
  <2>5. CompareByPointers(x, y) \in {"same", "better"}
    BY <2>4 DEF BetterByTheRest
  <2>6. Void(x) => Void(y)
    BY <2>5 DEF CompareByPointers
  <2> QED BY <2>4, <2>6
<1>7. /\ BetterByTheRest(a, b) /\ BetterByTheRest(b, c) /\ BetterByTheRest(c, a)
      /\ (Void(a) => Void(b)) /\ (Void(b) => Void(c)) /\ (Void(c) => Void(a))
  BY <1>1, <1>2, <1>3, <1>5, <1>6
<1> QED BY <1>1, <1>2, <1>3, <1>5, <1>7 DEF Tied

(***************************************************************************)
(* The rules of derivation.                                                *)
(***************************************************************************)
Target(s) == Unqualified(IF s.Second = "pointer_conversion" THEN Pointee(s.To) ELSE s.To)

AppliesToPointers(x, y) ==
  /\ x.Second = "pointer_conversion" /\ y.Second = "pointer_conversion"
  /\ IsPointer(x.From) /\ ~IsPointerConversionToVoidPointer(x)
AppliesToClasses(x, y) ==
  /\ x.Second = "derived_to_base" /\ y.Second = "derived_to_base"
  /\ (x.Ref /\ y.Ref) \/ BothCopies(x, y)
Applies(x, y) == AppliesToPointers(x, y) \/ AppliesToClasses(x, y)

LEMMA PointeesOfOne ==
  ASSUME NEW T1, NEW T2, IsType(T1), IsType(T2), IsPointer(T1), Unqualified(T1) = Unqualified(T2)
  PROVE  Unqualified(Pointee(T1)) = Unqualified(Pointee(T2))
<1>1. /\ T1.base = T2.base /\ T1.via = T2.via
      /\ Len(T1.cv) = Len(T2.cv) /\ Len(T1.cv) \in Nat
      /\ \A j \in 2..Len(T1.cv) : T1.cv[j] = T2.cv[j]
  BY SameType, UnqualifiedType
<1>2. /\ T1.cv \in Seq(CVQualifiers) /\ T2.cv \in Seq(CVQualifiers)
      /\ T1.cv # <<>> /\ T2.cv # <<>>
  BY TypeLevels
<1>3. Tail(T1.cv) = Tail(T2.cv)
  <2>1. ASSUME NEW q \in Seq(CVQualifiers), q # <<>>
        PROVE  /\ Tail(q) \in Seq(CVQualifiers) /\ Len(Tail(q)) = Len(q) - 1
               /\ \A k \in 1..Len(q) - 1 : Tail(q)[k] = q[k + 1]
    BY <2>1, HeadTailProperties
  <2>2. ASSUME NEW k \in 1..Len(T1.cv) - 1
        PROVE  T1.cv[k + 1] = T2.cv[k + 1]
    BY <1>1
  <2>3. \A k \in 1..Len(T1.cv) - 1 : Tail(T1.cv)[k] = Tail(T2.cv)[k]
    BY <1>1, <1>2, <2>1, <2>2
  <2>4. ASSUME NEW q \in Seq(CVQualifiers), NEW p \in Seq(CVQualifiers), Len(p) = Len(q),
               \A k \in 1..Len(p) : p[k] = q[k]
        PROVE  p = q
    BY <2>4
  <2>5. /\ Tail(T1.cv) \in Seq(CVQualifiers) /\ Tail(T2.cv) \in Seq(CVQualifiers)
        /\ Len(Tail(T1.cv)) = Len(T1.cv) - 1 /\ Len(Tail(T2.cv)) = Len(T1.cv) - 1
    BY <1>1, <1>2, <2>1
  <2> QED BY <2>3, <2>4, <2>5, Zenon
<1> QED BY <1>1, <1>3 DEF Pointee

LEMMA NotFromItself ==
  ASSUME NEW T
  PROVE  ~IsDerivedFrom(T, T)
  BY NotDerivedFromEachOther

LEMMA NearerIsBetter ==
  ASSUME NEW x, NEW y, Tied(x, y), BetterByTheRest(x, y)
  PROVE  /\ CompareByPointers(x, y) \in {"same", "better"}
         /\ CompareByPointers(x, y) = "better" =>
              Applies(x, y) /\ IsDerivedFrom(Target(x), Target(y))
         /\ Applies(x, y) => ~IsDerivedFrom(Target(y), Target(x))
<1>1. CompareByPointers(x, y) \in {"same", "better"}
  BY DEF BetterByTheRest
<1>2. /\ IsType(x.From) /\ IsType(y.From) /\ IsOfAnArgument(x) /\ IsOfAnArgument(y)
      /\ Sound(x) /\ Sound(y) /\ Unqualified(x.From) = Unqualified(y.From)
      /\ IsPointer(x.From) <=> IsPointer(y.From)
      /\ Is(x.From, Classes) <=> Is(y.From, Classes)
  BY OfSameMeans DEF Tied
<1>3. IsPointer(x.From) => Unqualified(Pointee(x.From)) = Unqualified(Pointee(y.From))
  BY <1>2, PointeesOfOne
<1>4. CASE IsPointerConversionToVoidPointer(x)
  <2>1. CompareByPointers(x, y) = CompareVoidPointers(x, y)
    BY <1>4 DEF CompareByPointers, Tied
  <2>2. IsPointer(x.From) /\ IsPointer(y.From)
    BY <1>1, <2>1 DEF CompareVoidPointers
  <2>3. CompareByPointers(x, y) = "same"
    BY <1>3, <2>1, <2>2, NotFromItself DEF CompareVoidPointers, ByDerivation
  <2>4. ~Applies(x, y)
    BY <1>4 DEF Applies, AppliesToPointers, AppliesToClasses, IsPointerConversionToVoidPointer
  <2> QED BY <2>3, <2>4
<1>5. CASE ~IsPointerConversionToVoidPointer(x)
  <2>1. CompareByPointers(x, y) = CompareDerivedToBaseConversions(x, y)
    <3>1. IsPointerConversionToVoidPointer(x) = FALSE /\ IsPointerConversionToVoidPointer(y) = FALSE
      BY <1>5 DEF Tied, IsPointerConversionToVoidPointer
    <3> QED BY <3>1 DEF CompareByPointers
  <2>2. x.Second = "derived_to_base" <=> y.Second = "derived_to_base"
    <3>1. Is(x.From, Classes) => /\ x.Second \in {"identity", "derived_to_base"}
                                 /\ y.Second \in {"identity", "derived_to_base"}
      BY <1>2, ClassesInSequences
    <3>2. x.Second = "derived_to_base" \/ y.Second = "derived_to_base" => Is(x.From, Classes)
      BY <1>2, ClassesInSequences
    <3> QED BY <1>2, <3>1, <3>2, RankOfSound DEF Tied
  <2>3. ASSUME NEW F, NEW T1, NEW T2
        PROVE  /\ CompareClasses(F, T1, F, T2) = "better" => IsDerivedFrom(T1, T2)
               /\ IsDerivedFrom(T2, T1) => CompareClasses(F, T1, F, T2) = "worse"
    BY NotDerivedFromEachOther, NotFromItself DEF CompareClasses, ByDerivation, Opposite
  <2>4. AppliesToPointers(x, y) =>
          CompareDerivedToBaseConversions(x, y)
            = CompareClasses(Unqualified(Pointee(x.From)), Target(x),
                             Unqualified(Pointee(x.From)), Target(y))
    BY <1>2, <1>3 DEF AppliesToPointers, CompareDerivedToBaseConversions, Target
  <2>5. AppliesToClasses(x, y) =>
          CompareDerivedToBaseConversions(x, y)
            = CompareClasses(Unqualified(x.From), Target(x), Unqualified(x.From), Target(y))
    BY <1>2 DEF AppliesToClasses, CompareDerivedToBaseConversions, Target
  <2>6. ~Applies(x, y) => CompareDerivedToBaseConversions(x, y) = "same"
    BY <1>2, <1>5, <2>2 DEF Applies, AppliesToPointers, AppliesToClasses, BothCopies,
                            CompareDerivedToBaseConversions
  <2> HIDE DEF Applies
  <2>7. Applies(x, y) => AppliesToPointers(x, y) \/ AppliesToClasses(x, y)
    BY DEF Applies
  <2> QED BY <1>1, <2>1, <2>3, <2>4, <2>5, <2>6, <2>7
<1> QED BY <1>4, <1>5

(* Where they apply to an edge of a circle they apply to the next one.     *)
LEMMA AppliesOn ==
  ASSUME NEW a, NEW b, NEW c, Tied(a, b), Tied(b, c), BetterByTheRest(b, c),
         b.Ref => b.Copy = "no", Applies(a, b)
  PROVE  Applies(b, c)
<1>1. /\ Sound(a) /\ Sound(b) /\ Sound(c) /\ IsOfAnArgument(b) /\ IsOfAnArgument(c)
      /\ IsPointer(a.From) <=> IsPointer(b.From)
      /\ IsPointer(b.From) <=> IsPointer(c.From)
      /\ Is(b.From, Classes) <=> Is(c.From, Classes)
  BY OfSameMeans DEF Tied
<1>2. CASE AppliesToPointers(a, b)
  <2>1. IsPointer(b.From) /\ b.Second = "pointer_conversion" /\ ~IsPointerConversionToVoidPointer(b)
    BY <1>1, <1>2 DEF AppliesToPointers, Tied
  <2>2. ~IsPointerConversionToBool(b)
    BY <1>1, <2>1 DEF Sound, IsPointerConversionToBool
  <2>3. c.Second # "boolean_conversion"
    BY <1>1, <2>1, <2>2 DEF Sound, IsPointerConversionToBool, Tied
  <2>4. c.Second = "pointer_conversion"
    BY <1>1, <2>1, <2>3, RankOfSound DEF Sound, Tied
  <2> QED BY <2>1, <2>4 DEF Applies, AppliesToPointers
<1>3. CASE AppliesToClasses(a, b)
  <2>1. b.Second = "derived_to_base" /\ Is(b.From, Classes)
    BY <1>1, <1>3, ClassesInSequences DEF AppliesToClasses
  <2>2. b.Third = "identity" /\ c.Second \in {"identity", "derived_to_base"}
    BY <1>1, <2>1, ClassesInSequences
  <2>3. c.Second = "derived_to_base"
    BY <1>1, <2>1, <2>2, RankOfSound DEF Tied
  <2>4. ASSUME ~(b.Ref /\ c.Ref), ~BothCopies(b, c)
        PROVE  FALSE
    <3>1. CompareByPointers(b, c) = "same"
      BY <2>1, <2>4 DEF CompareByPointers, IsPointerConversionToVoidPointer, Tied,
                        CompareDerivedToBaseConversions
    <3>2. CompareQualificationConversions(b, c) = "same"
      BY <2>2 DEF CompareQualificationConversions
    <3>3. CompareReferenceBindings(b, c) = "same"
      BY <2>4 DEF CompareReferenceBindings
    <3> QED BY <3>1, <3>2, <3>3 DEF BetterByTheRest
  <2> QED BY <2>1, <2>3, <2>4 DEF Applies, AppliesToClasses
<1> QED BY <1>2, <1>3 DEF Applies

LEMMA Tails ==
  ASSUME NEW S, {} \in S, NEW q \in Seq(S), q # <<>>
  PROVE  /\ Len(q) = 1 => Tail(q) = <<>>
         /\ Len(q) = 2 => [Tail(q) EXCEPT ![1] = {}] = <<{}>>
<1>1. Tail(q) \in Seq(S) /\ Len(Tail(q)) = Len(q) - 1
  BY HeadTailProperties
<1>2. ASSUME Len(q) = 1
      PROVE  Tail(q) = <<>>
  <2>1. Tail(q) \in Seq(S) /\ Len(Tail(q)) = 0
    BY <1>1, <1>2
  <2> QED BY <2>1, EmptySeq
<1>3. ASSUME Len(q) = 2
      PROVE  [Tail(q) EXCEPT ![1] = {}] = <<{}>>
  <2>1. Tail(q) \in Seq(S) /\ Len(Tail(q)) = 1
    BY <1>1, <1>3
  <2> QED BY <2>1
<1> QED BY <1>2, <1>3

LEMMA SameClass ==
  ASSUME NEW T1, NEW T2, IsType(T1), IsType(T2), T1.base = T2.base,
         Len(T1.cv) = 2, Len(T2.cv) = 2
  PROVE  Unqualified(Pointee(T1)) = Unqualified(Pointee(T2))
<1>1. ASSUME NEW T, IsType(T), Len(T.cv) = 2
      PROVE  Unqualified(Pointee(T)) = [base |-> T.base, via |-> <<>>, cv |-> <<{}>>]
  <2>1. /\ T.cv \in Seq(CVQualifiers) /\ T.cv # <<>> /\ T.via \in Seq(Classes \cup {"*"})
        /\ Len(T.via) \in Nat /\ Len(T.via) + 1 = 2
    BY <1>1, TypeLevels
  <2>2. ASSUME NEW n \in Nat, n + 1 = 2
        PROVE  n = 1
    BY <2>2
  <2>3. Len(T.via) = 1
    BY <2>1, <2>2
  <2>4. T.via # <<>>
    <3>1. ASSUME NEW v, v = <<>>
          PROVE  Len(v) # 1
      BY <3>1
    <3> QED BY <2>3, <3>1
  <2>5. T.via \in Seq({{}} \cup Classes \cup {"*"})
    BY <2>1
  <2>6. {} \in CVQualifiers
    BY DEF CVQualifiers
  <2>7. Tail(T.via) = <<>> /\ [Tail(T.cv) EXCEPT ![1] = {}] = <<{}>>
    BY <1>1, <2>1, <2>3, <2>4, <2>5, <2>6, Tails
  <2>8. Unqualified(Pointee(T))
          = [base |-> T.base, via |-> Tail(T.via), cv |-> [Tail(T.cv) EXCEPT ![1] = {}]]
    BY UnqualifiedOf, Zenon DEF Pointee
  <2> QED BY <2>7, <2>8, Zenon
<1> QED BY <1>1, Zenon

(* Where they apply and do not decide, the target stays the same or an     *)
(* rvalue reference is left.                                               *)
LEMMA NextTarget ==
  ASSUME NEW x, NEW y, Tied(x, y), BetterByTheRest(x, y), SimilarIfQualified(x, y),
         Applies(x, y), CompareByPointers(x, y) = "same"
  PROVE  Target(x) = Target(y) \/ (x.RRef /\ ~y.RRef)
<1>1. /\ IsType(x.To) /\ IsType(y.To) /\ Sound(x) /\ Sound(y)
      /\ IsPointer(x.From) <=> IsPointer(y.From)
      /\ x.RRef \in BOOLEAN /\ y.RRef \in BOOLEAN
  BY OfSameMeans DEF Tied, IsOfAnArgument, IsSequence
<1>2. CASE CompareQualificationConversions(x, y) # "same"
  <2>1. x.To.base = y.To.base /\ x.Third = "qualification"
    BY <1>2 DEF CompareQualificationConversions, SimilarIfQualified, AreSimilar
  <2>2. AppliesToPointers(x, y)
    BY <1>1, <2>1 DEF Applies, AppliesToClasses, Sound
  <2>3. Len(x.To.cv) = 2 /\ Len(y.To.cv) = 2
    BY <1>1, <2>2 DEF AppliesToPointers, Sound
  <2> QED BY <1>1, <2>1, <2>2, <2>3, SameClass DEF AppliesToPointers, Target
<1>3. CASE CompareReferenceBindings(x, y) = "better" /\ Unqualified(x.To) = Unqualified(y.To)
  <2>1. x.To.base = y.To.base
    BY <1>1, <1>3, SameType
  <2>2. CASE AppliesToPointers(x, y)
    <3>1. Len(x.To.cv) = 2 /\ Len(y.To.cv) = 2
      BY <1>1, <2>2 DEF AppliesToPointers, Sound
    <3> QED BY <1>1, <2>1, <2>2, <3>1, SameClass DEF AppliesToPointers, Target
  <2>3. CASE AppliesToClasses(x, y)
    BY <1>3, <2>3 DEF AppliesToClasses, Target
  <2> QED BY <2>2, <2>3 DEF Applies
<1>4. CASE CompareReferenceBindings(x, y) = "better" /\ Unqualified(x.To) # Unqualified(y.To)
  BY <1>1, <1>4 DEF CompareReferenceBindings
<1> QED BY <1>2, <1>3, <1>4 DEF BetterByTheRest

LEMMA DerivationIsTransitive ==
  ASSUME NEW T1, NEW T2, NEW T3, IsDerivedFrom(T1, T2), IsDerivedFrom(T2, T3)
  PROVE  IsDerivedFrom(T1, T3)
<1>1. <<T1.base, T2.base>> \in Derivations /\ <<T2.base, T3.base>> \in Derivations
  BY DEF IsDerivedFrom
<1>2. <<T1.base, T3.base>> \in Derivations
  BY <1>1, DerivationsAssumption
<1> QED BY <1>2 DEF IsDerivedFrom

LEMMA NoNearer ==
  ASSUME NEW a, NEW b, NEW c, Edge(a, b), Edge(b, c), Edge(c, a)
  PROVE  CompareByPointers(a, b) = "same"
<1> DEFINE Derived(x, y) == IsDerivedFrom(Target(x), Target(y))
           Left(x, y) == x.RRef /\ ~y.RRef
<1>1. /\ Tied(a, b) /\ Tied(b, c) /\ Tied(c, a)
      /\ BetterByTheRest(a, b) /\ BetterByTheRest(b, c) /\ BetterByTheRest(c, a)
  BY EdgesAreTied
<1>2. /\ SimilarIfQualified(b, c) /\ SimilarIfQualified(c, a)
      /\ b.Ref => b.Copy = "no"
      /\ c.Ref => c.Copy = "no"
  BY DEF Edge
<1> SUFFICES ASSUME CompareByPointers(a, b) = "better"
             PROVE  FALSE
  BY <1>1, NearerIsBetter
<1>3. Applies(a, b) /\ Derived(a, b)
  BY <1>1, NearerIsBetter
<1>4. Applies(b, c) /\ Applies(c, a)
  BY <1>1, <1>2, <1>3, AppliesOn
<1>5. ~Derived(c, b) /\ ~Derived(a, c)
  BY <1>1, <1>4, NearerIsBetter
<1>6. Derived(b, c) \/ Target(b) = Target(c) \/ Left(b, c)
  BY <1>1, <1>2, <1>4, NearerIsBetter, NextTarget
<1>7. Derived(c, a) \/ Target(c) = Target(a) \/ Left(c, a)
  BY <1>1, <1>2, <1>4, NearerIsBetter, NextTarget
<1>8. Left(b, c)
  BY <1>3, <1>5, <1>6, DerivationIsTransitive
<1>9. Left(c, a)
  BY <1>3, <1>5, <1>7, DerivationIsTransitive
<1> QED BY <1>8, <1>9

(***************************************************************************)
(* The rule of qualification.                                              *)
(***************************************************************************)
Below(x, y) ==
  AreSimilar(x.To, y.To) /\ \A j \in 2..Len(x.To.cv) : x.To.cv[j] \subseteq y.To.cv[j]
Same(x, y) == Unqualified(x.To) = Unqualified(y.To)

LEMMA BelowIsAnOrder ==
  ASSUME NEW x, NEW y, NEW z, IsType(x.To), IsType(y.To), IsType(z.To)
  PROVE  /\ Below(x, y) /\ Below(y, x) => Same(x, y)
         /\ Same(x, y) => Below(x, y) /\ Below(y, x)
         /\ Below(x, y) /\ Below(y, z) => Below(x, z)
<1>1. ASSUME Below(x, y), Below(y, x)
      PROVE  Same(x, y)
  <2>1. /\ x.To.base = y.To.base /\ x.To.via = y.To.via /\ Len(x.To.cv) = Len(y.To.cv)
        /\ \A j \in 2..Len(x.To.cv) : x.To.cv[j] = y.To.cv[j]
    BY <1>1 DEF Below, AreSimilar
  <2>2. x.To.cv \in Seq(CVQualifiers) /\ y.To.cv \in Seq(CVQualifiers)
    BY TypeLevels
  <2>3. ASSUME NEW p \in Seq(CVQualifiers), NEW q \in Seq(CVQualifiers), Len(p) = Len(q),
               \A k \in 2..Len(p) : p[k] = q[k]
        PROVE  [p EXCEPT ![1] = {}] = [q EXCEPT ![1] = {}]
    <3>1. DOMAIN p = DOMAIN q /\ DOMAIN p = 1..Len(p)
      BY <2>3
    <3>2. \A k \in DOMAIN p : k # 1 => p[k] = q[k]
      BY <2>3, <3>1
    <3> QED BY <3>1, <3>2
  <2>4. [x.To.cv EXCEPT ![1] = {}] = [y.To.cv EXCEPT ![1] = {}]
    BY <2>1, <2>2, <2>3, Zenon
  <2>5. /\ Unqualified(x.To)
             = [base |-> x.To.base, via |-> x.To.via, cv |-> [x.To.cv EXCEPT ![1] = {}]]
        /\ Unqualified(y.To)
             = [base |-> y.To.base, via |-> y.To.via, cv |-> [y.To.cv EXCEPT ![1] = {}]]
    BY UnqualifiedRecord, Zenon
  <2> QED BY <2>1, <2>4, <2>5, Zenon DEF Same
<1>2. Same(x, y) => Below(x, y) /\ Below(y, x)
  BY SameType DEF Same, Below, AreSimilar
<1>3. Below(x, y) /\ Below(y, z) => Below(x, z)
  BY DEF Below, AreSimilar
<1> QED BY <1>1, <1>2, <1>3

LEMMA BetterIsBelow ==
  ASSUME NEW x, NEW y, IsType(x.To), IsType(y.To), SimilarIfQualified(x, y),
         CompareQualificationConversions(x, y) = "better"
  PROVE  Below(x, y) /\ ~Same(x, y) /\ ~x.Deprecated /\ x.Third = "qualification"
<1>1. /\ x.Third = "qualification" /\ ~Same(x, y) /\ ~x.Deprecated
      /\ \A j \in {j \in 2..Len(x.To.cv) : /\ j \in DOMAIN y.To.cv /\ x.To.cv[j] # y.To.cv[j]
                                           /\ \A k \in 1..j - 1 : x.To.via[k] = y.To.via[k]} :
           x.To.cv[j] \subseteq y.To.cv[j]
  BY DEF CompareQualificationConversions, Same
<1>2. AreSimilar(x.To, y.To) /\ x.To.via = y.To.via
  BY DEF SimilarIfQualified, AreSimilar
<1>3. 2..Len(x.To.cv) \subseteq DOMAIN y.To.cv
  BY <1>2, UnqualifiedType DEF AreSimilar
<1> QED BY <1>1, <1>2, <1>3 DEF Below

LEMMA AboveIsWorse ==
  ASSUME NEW x, NEW y, IsType(x.To), IsType(y.To),
         x.First = y.First, x.Second = y.Second, x.Third = y.Third, x.Third = "qualification",
         Below(y, x), ~Same(x, y), ~y.Deprecated
  PROVE  CompareQualificationConversions(x, y) = "worse"
<1> DEFINE levels == {j \in 2..Len(x.To.cv) :
                        /\ j \in DOMAIN y.To.cv /\ x.To.cv[j] # y.To.cv[j]
                        /\ \A k \in 1..j - 1 : x.To.via[k] = y.To.via[k]}
<1>1. /\ AreSimilar(x.To, y.To) /\ x.To.via = y.To.via
      /\ \A j \in 2..Len(x.To.cv) : j \in DOMAIN y.To.cv /\ y.To.cv[j] \subseteq x.To.cv[j]
  BY UnqualifiedType DEF Below, AreSimilar
<1>2. ASSUME \A j \in levels : x.To.cv[j] \subseteq y.To.cv[j]
      PROVE  FALSE
  <2>1. Below(x, y)
    BY <1>1, <1>2 DEF Below
  <2> QED BY <2>1, BelowIsAnOrder
<1>3. levels # {} /\ ~(\A j \in levels : x.To.cv[j] \subseteq y.To.cv[j])
  BY <1>2
<1>4. \A j \in levels : y.To.cv[j] \subseteq x.To.cv[j]
  BY <1>1
<1>5. <<x.First, x.Second, x.Third>> = <<y.First, y.Second, y.Third>>
  OBVIOUS
<1>6. Unqualified(x.To) # Unqualified(y.To)
  BY DEF Same
<1> QED BY <1>3, <1>4, <1>5, <1>6 DEF CompareQualificationConversions

LEMMA NoQualification ==
  ASSUME NEW a, NEW b, NEW c, Edge(a, b), Edge(b, c), Edge(c, a)
  PROVE  CompareQualificationConversions(a, b) = "same"
<1> DEFINE Left(x, y) == x.RRef /\ ~y.RRef
           Better(x, y) == Below(x, y) /\ ~Same(x, y) /\ ~x.Deprecated
<1>1. /\ BetterByTheRest(a, b) /\ BetterByTheRest(b, c) /\ BetterByTheRest(c, a)
      /\ Tied(a, b) /\ Tied(b, c) /\ Tied(c, a)
      /\ CompareByPointers(a, b) = "same" /\ CompareByPointers(b, c) = "same"
      /\ CompareByPointers(c, a) = "same"
  BY EdgesAreTied, NoNearer
<1>2. /\ OfSame(a, b) /\ OfSame(b, c) /\ OfSame(c, a)
      /\ SimilarIfQualified(a, b) /\ SimilarIfQualified(b, c) /\ SimilarIfQualified(c, a)
  BY DEF Edge
<1>3. IsType(a.To) /\ IsType(b.To) /\ IsType(c.To)
  BY <1>2, OfSameMeans
<1> SUFFICES ASSUME CompareQualificationConversions(a, b) = "better"
             PROVE  FALSE
  BY <1>1 DEF BetterByTheRest
<1>4. Better(a, b) /\ a.Third = "qualification"
  BY <1>2, <1>3, BetterIsBelow
<1>5. /\ a.First = b.First /\ b.First = c.First
      /\ a.Second = b.Second /\ b.Second = c.Second
      /\ b.Third = "qualification" /\ c.Third = "qualification"
      /\ Same(c, a) => c.Deprecated = a.Deprecated
  BY <1>1, <1>2, <1>4, OfSameMeans DEF Tied, Same
<1>6. ASSUME NEW x, NEW y, IsType(x.To), IsType(y.To), BetterByTheRest(x, y),
             CompareByPointers(x, y) = "same", SimilarIfQualified(x, y),
             x.RRef \in BOOLEAN, y.RRef \in BOOLEAN
      PROVE  Better(x, y) \/ Same(x, y) \/ Left(x, y)
  <2>1. \/ CompareQualificationConversions(x, y) = "better"
        \/ CompareReferenceBindings(x, y) = "better"
    BY <1>6 DEF BetterByTheRest
  <2>2. CompareReferenceBindings(x, y) = "better" => Same(x, y) \/ Left(x, y)
    BY <1>6 DEF CompareReferenceBindings, Same
  <2> QED BY <1>6, <2>1, <2>2, BetterIsBelow
<1>7. a.RRef \in BOOLEAN /\ b.RRef \in BOOLEAN /\ c.RRef \in BOOLEAN
  BY <1>2 DEF OfSame, IsSequence
<1>8. Better(b, c) \/ Same(b, c) \/ Left(b, c)
  BY <1>1, <1>2, <1>3, <1>6, <1>7
<1>9. Better(c, a) \/ Same(c, a) \/ Left(c, a)
  BY <1>1, <1>2, <1>3, <1>6, <1>7
<1>10. ~(Below(a, c) /\ ~Same(c, a) /\ ~a.Deprecated)
  BY <1>1, <1>3, <1>4, <1>5, AboveIsWorse DEF BetterByTheRest
<1>11. ~(Below(c, b) /\ ~Same(b, c) /\ ~c.Deprecated)
  BY <1>1, <1>3, <1>4, <1>5, AboveIsWorse DEF BetterByTheRest
<1>12. Left(b, c)
  <2>1. ASSUME Below(b, c)
        PROVE  FALSE
    <3>1. Below(a, c)
      BY <1>3, <1>4, <2>1, BelowIsAnOrder
    <3>2. ~Same(c, a)
      BY <1>3, <1>4, <2>1, BelowIsAnOrder
    <3> QED BY <1>4, <1>10, <3>1, <3>2
  <2> QED BY <1>3, <1>8, <2>1, BelowIsAnOrder
<1>13. Left(c, a)
  <2>1. ASSUME Below(c, a), ~c.Deprecated
        PROVE  FALSE
    <3>1. Below(c, b)
      BY <1>3, <1>4, <2>1, BelowIsAnOrder
    <3>2. ~Same(b, c)
      BY <1>3, <1>4, <2>1, BelowIsAnOrder
    <3> QED BY <1>11, <2>1, <3>1, <3>2
  <2> QED BY <1>3, <1>4, <1>5, <1>9, <2>1, BelowIsAnOrder
<1> QED BY <1>12, <1>13

(***************************************************************************)
(* The rule of references, the last one.                                   *)
(***************************************************************************)
LEMMA NoCircle ==
  ASSUME NEW a, NEW b, NEW c, Edge(a, b), Edge(b, c), Edge(c, a)
  PROVE  FALSE
<1>1. /\ CompareReferenceBindings(a, b) = "better"
      /\ CompareReferenceBindings(b, c) = "better"
      /\ CompareReferenceBindings(c, a) = "better"
  BY EdgesAreTied, NoNearer, NoQualification DEF BetterByTheRest
<1>2. a.RRef \in BOOLEAN /\ b.RRef \in BOOLEAN /\ c.RRef \in BOOLEAN
  BY DEF Edge, OfSame, IsSequence
<1>3. ASSUME NEW x, NEW y, CompareReferenceBindings(x, y) = "better",
             x.RRef \in BOOLEAN, y.RRef \in BOOLEAN
      PROVE  /\ y.RRef => x.RRef
             /\ x.RRef = y.RRef =>
                  Quals(x.To) \subseteq Quals(y.To) /\ Quals(x.To) # Quals(y.To)
  BY <1>3 DEF CompareReferenceBindings
<1>4. a.RRef = b.RRef /\ b.RRef = c.RRef
  BY <1>1, <1>2, <1>3
<1>5. /\ Quals(a.To) \subseteq Quals(b.To) /\ Quals(b.To) \subseteq Quals(c.To)
      /\ Quals(c.To) \subseteq Quals(a.To) /\ Quals(a.To) # Quals(b.To)
  BY <1>1, <1>2, <1>3, <1>4
<1> QED BY <1>5

LEMMA BetterConversions ==
  ASSUME NEW c1, NEW c2, AreComparableConversions(c1, c2),
         CompareImplicitConversionSequences(c1, c2) = "better"
  PROVE  /\ Form(c1) \in Nat /\ Form(c2) \in Nat /\ Form(c1) <= Form(c2)
         /\ Form(c1) = Form(c2) =>
              OfSame(c1.std, c2.std) /\ BetterThan(c1.std, c2.std) /\ c1.kind # "ellipsis"
<1>1. Form(c1) \in Nat /\ Form(c2) \in Nat
  BY DEF Form
<1>2. Form(c1) <= Form(c2)
  BY <1>1 DEF CompareImplicitConversionSequences
<1>3. ASSUME Form(c1) = Form(c2)
      PROVE  OfSame(c1.std, c2.std) /\ BetterThan(c1.std, c2.std) /\ c1.kind # "ellipsis"
  <2>1. /\ c1.kind # "ellipsis" /\ (c1.kind = "user" => c1.fn = c2.fn)
        /\ BetterThan(c1.std, c2.std)
    BY <1>3 DEF CompareImplicitConversionSequences, BetterThan
  <2>2. c1.kind = c2.kind
    BY <1>3 DEF Form, AreComparableConversions
  <2>3. OfSame(c1.std, c2.std)
    BY <2>1, <2>2 DEF AreComparableConversions, AreOfOneArgument, OfSame
  <2> QED BY <2>1, <2>3
<1> QED BY <1>1, <1>2, <1>3

(* CompareStandardConversionSequences: of the sequences three candidates   *)
(* have for an argument none is better than the next all the way round,    *)
(* but for qualification conversions between types that are not similar.   *)
(* The rules are passed one after the other: rank, and what is no part of  *)
(* another, are the same all round, each of the other rules orders what    *)
(* the earlier ones tie, and no later rule leads back.                     *)
THEOREM BetterIsAcyclicTheorem == Spec => []BetterIsAcyclic
<1> DEFINE conversion(k, i) == CandidateSet[i].Conversions[k]
           initialized(ics) == ics.kind # "ellipsis" /\ ics.std.Ref => ics.std.Copy = "no"
           better(k, i, j) == Compare(k, i, j) = "better"
           dissimilar(k, i, j) ==
             /\ ~AreSimilar(conversion(k, i).std.To, conversion(k, j).std.To)
             /\ CompareQualificationConversions(conversion(k, i).std, conversion(k, j).std) # "same"
<1>1. Known => BetterIsAcyclic
  <2> SUFFICES ASSUME Known, NEW k \in Places,
                      NEW h \in ViableOnes, NEW i \in ViableOnes, NEW j \in ViableOnes,
                      initialized(conversion(k, h)), initialized(conversion(k, i)),
                      initialized(conversion(k, j)),
                      better(k, h, i), better(k, i, j), better(k, j, h),
                      ~dissimilar(k, h, i), ~dissimilar(k, i, j), ~dissimilar(k, j, h)
               PROVE  FALSE
    BY DEF BetterIsAcyclic
  <2>1. \A m, n \in ViableOnes : AreComparableConversions(conversion(k, m), conversion(k, n))
    BY ViableCandidates DEF ViableOnes, Places, AreComparable
  <2>2. \A m, n \in ViableOnes : better(k, m, n) =>
          /\ Form(conversion(k, m)) \in Nat /\ Form(conversion(k, n)) \in Nat
          /\ Form(conversion(k, m)) <= Form(conversion(k, n))
          /\ Form(conversion(k, m)) = Form(conversion(k, n)) =>
               /\ OfSame(conversion(k, m).std, conversion(k, n).std)
               /\ BetterThan(conversion(k, m).std, conversion(k, n).std)
               /\ conversion(k, m).kind # "ellipsis"
    BY <2>1, BetterConversions DEF Compare
  <2>3. /\ Form(conversion(k, h)) = Form(conversion(k, i))
        /\ Form(conversion(k, i)) = Form(conversion(k, j))
    BY <2>2
  <2>4. \A m, n \in ViableOnes :
          better(k, m, n) /\ Form(conversion(k, m)) = Form(conversion(k, n))
            /\ initialized(conversion(k, m)) /\ ~dissimilar(k, m, n)
          => Edge(conversion(k, m).std, conversion(k, n).std)
    BY <2>2 DEF Edge, SimilarIfQualified
  <2>5. /\ Edge(conversion(k, h).std, conversion(k, i).std)
        /\ Edge(conversion(k, i).std, conversion(k, j).std)
        /\ Edge(conversion(k, j).std, conversion(k, h).std)
    BY <2>3, <2>4
  <2> QED BY <2>5, NoCircle
<1> QED BY <1>1, KnownIsInvariant, PTL
=============================================================================

-------------------------- MODULE BestViableFunction --------------------------
(***************************************************************************)
(* Overload resolution (lib/Sema/SemaOverload.cpp): the functions become   *)
(* candidates in the order they are declared in, the best viable one is    *)
(* looked for in one pass, and a second pass makes sure of it.             *)
(***************************************************************************)
EXTENDS StandardConversions

CONSTANTS
  Calls,                 \* what is called: a record that has the functions
  CandidateFor(_, _),    \* the candidates a function may become in a call
  StoredTypes            \* types of what may be stored through a pointer

Candidates(c) == UNION {CandidateFor(c, c.functions[n]) : n \in 1..Len(c.functions)}

(* What AddOverloadCandidate and AddMethodCandidate hand over: candidates  *)
(* whose sequences are what their rules make, one for every argument; "is  *)
(* better" asserts the latter, "Overload candidate mismatch".              *)
ASSUME CandidatesAssumption ==
  \A c \in Calls :
    /\ Len(c.functions) \in Nat
    /\ \A x, y \in {x \in Candidates(c) : x.Viable} :
         AreComparable(x, y)

VARIABLES
  call,            \* never changes
  CandidateSet,    \* records with Viable and Deleted at least
  pc,              \* "find", "check" or "done"
  Cand,            \* the iterator of either loop
  Best,            \* 0 is the end of the set
  Result

resolution == <<call, CandidateSet, pc, Cand, Best, Result>>

Init ==
  /\ call \in Calls
  /\ CandidateSet = <<>>
  /\ pc = "find"
  /\ Cand = 1
  /\ Best = 0
  /\ Result = "none"

(* AddOverloadCandidate or AddMethodCandidate.                             *)
AddCandidate ==
  /\ Len(CandidateSet) < Len(call.functions)
  /\ \E c \in CandidateFor(call, call.functions[Len(CandidateSet) + 1]) :
       CandidateSet' = Append(CandidateSet, c)
  /\ UNCHANGED <<call, pc, Cand, Best, Result>>

AllAdded == Len(CandidateSet) = Len(call.functions)
Viable(i) == CandidateSet[i].Viable
IsBetter(i, j) == isBetterOverloadCandidate(CandidateSet[i], CandidateSet[j])

FindBest ==
  /\ pc = "find" /\ AllAdded /\ Cand <= Len(CandidateSet)
  /\ Best' = IF Viable(Cand) /\ (Best = 0 \/ IsBetter(Cand, Best)) THEN Cand ELSE Best
  /\ Cand' = Cand + 1
  /\ UNCHANGED <<call, CandidateSet, pc, Result>>

NoViableFunction ==
  /\ pc = "find" /\ AllAdded /\ Cand > Len(CandidateSet) /\ Best = 0
  /\ pc' = "done"
  /\ Result' = "no_viable_function"
  /\ UNCHANGED <<call, CandidateSet, Cand, Best>>

StartCheck ==
  /\ pc = "find" /\ AllAdded /\ Cand > Len(CandidateSet) /\ Best # 0
  /\ pc' = "check"
  /\ Cand' = 1
  /\ UNCHANGED <<call, CandidateSet, Best, Result>>

(* Mutant: only the candidates behind the best one are looked at again.    *)
Rivals_Later == {i \in DOMAIN CandidateSet : Viable(i) /\ i > Best}
Rivals == {i \in DOMAIN CandidateSet : Viable(i) /\ i # Best}

CheckBest ==
  /\ pc = "check" /\ Cand <= Len(CandidateSet)
  /\ Cand \in Rivals => IsBetter(Best, Cand)
  /\ Cand' = Cand + 1
  /\ UNCHANGED <<call, CandidateSet, pc, Best, Result>>

Ambiguous ==
  /\ pc = "check" /\ Cand <= Len(CandidateSet)
  /\ Cand \in Rivals /\ ~IsBetter(Best, Cand)
  /\ Best' = 0
  /\ Result' = "ambiguous"
  /\ pc' = "done"
  /\ UNCHANGED <<call, CandidateSet, Cand>>

Success ==
  /\ pc = "check" /\ Cand > Len(CandidateSet)
  /\ Result' = IF CandidateSet[Best].Deleted THEN "deleted" ELSE "success"
  /\ pc' = "done"
  /\ UNCHANGED <<call, CandidateSet, Cand, Best>>

Next ==
  AddCandidate \/ FindBest \/ NoViableFunction \/ StartCheck \/ CheckBest \/ Ambiguous \/ Success

Spec == Init /\ [][Next]_resolution /\ WF_resolution(Next)

(***************************************************************************)
(* What it promises.                                                       *)
(***************************************************************************)
IsWinner(w) ==
  /\ w \in DOMAIN CandidateSet /\ Viable(w)
  /\ \A i \in DOMAIN CandidateSet : Viable(i) /\ i # w => IsBetter(w, i)

(* BestViableFunction: one pass that keeps the better of two, followed by  *)
(* one that compares it with all, finds the function that is better than   *)
(* every other viable one wherever it is declared, and says so when there  *)
(* is none.                                                                *)
BestIsFound ==
  pc = "done" =>
    LET found == Result \in {"success", "deleted"} IN
    /\ found \/ Result \in {"no_viable_function", "ambiguous"}
    /\ Result = "no_viable_function" <=> \A i \in DOMAIN CandidateSet : ~Viable(i)
    /\ found <=> \E w \in DOMAIN CandidateSet : IsWinner(w)
    /\ found => /\ IsWinner(Best)
                /\ Result = "deleted" <=> CandidateSet[Best].Deleted

(***************************************************************************)
(* Properties, of the sequences of the viable candidates when all of them  *)
(* are there.                                                              *)
(***************************************************************************)
Complete == Len(CandidateSet) = Len(call.functions) /\ pc = "find" /\ Cand = 1
ViableOnes == {i \in DOMAIN CandidateSet : CandidateSet[i].Viable}
Places == {k \in 1..Len(call.args) + 1 :
             \A i \in ViableOnes : /\ k \in DOMAIN CandidateSet[i].Conversions
                                   /\ k = 1 => ~CandidateSet[i].IgnoreObject}
Compare(k, i, j) ==
  CompareImplicitConversionSequences(CandidateSet[i].Conversions[k], CandidateSet[j].Conversions[k])

(* CompareImplicitConversionSequences and all it calls look at the first   *)
(* sequence's fields and at the second's in turn: whichever comes first,   *)
(* the verdict is the same one.  The single pass of BestViableFunction     *)
(* relies on it.                                                           *)
ComparisonIsAntisymmetric ==
  Complete => \A k \in Places : \A i, j \in ViableOnes :
    Compare(k, i, j) = Opposite(Compare(k, j, i))

(* However many rules rank the sequences of one argument, no three of them *)
(* are better than one another in a circle, unless two of them go to types *)
(* that are not similar and that CompareQualificationConversions compares  *)
(* nevertheless.  (What the binding of a reference leaves uninitialized is *)
(* taken for no copy.)  "Better" is not transitive: of an rvalue C to      *)
(* const B&, A&& and const X& each is better than the next, but nothing    *)
(* ranks the first and the last.                                           *)
BetterIsAcyclic ==
  LET conversion(k, i) == CandidateSet[i].Conversions[k]
      initialized(ics) == ics.kind # "ellipsis" /\ ics.std.Ref => ics.std.Copy = "no"
      better(k, i, j) == Compare(k, i, j) = "better"
      dissimilar(k, i, j) ==
        /\ ~AreSimilar(conversion(k, i).std.To, conversion(k, j).std.To)
        /\ CompareQualificationConversions(conversion(k, i).std, conversion(k, j).std) # "same" IN
  Complete => \A k \in Places :
    \A h, i, j \in {i \in ViableOnes : initialized(conversion(k, i))} :
      better(k, h, i) /\ better(k, i, j) /\ better(k, j, h) =>
        dissimilar(k, h, i) \/ dissimilar(k, i, j) \/ dissimilar(k, j, h)

StandardOnes ==
  UNION {{CandidateSet[i].Conversions[k].std :
            k \in {k \in Places : CandidateSet[i].Conversions[k].kind = "standard"}} :
         i \in ViableOnes}

(* What can be stored in a place of this type without a cast.              *)
Takes(T, X) == IsStandardConversion([type |-> X, form |-> "rvalue"], Unqualified(T)) # {}
At(T, j) ==
  [base |-> T.base, via |-> SubSeq(T.via, j, Len(T.via)), cv |-> SubSeq(T.cv, j, Len(T.cv))]

(* IsQualificationConversion: a place that the converted pointer, or       *)
(* pointer to a member, leads to and that is not const there is not const  *)
(* where the argument leads to, and what may be stored in it through the   *)
(* one may be stored through the other, so that nothing const is reached   *)
(* as something that is not, now or by way of what is stored; save by the  *)
(* deprecated conversion of string literals.                               *)
StoresStaySound ==
  Complete => \A s \in StandardOnes :
    Len(s.To.cv) = Len(s.From.cv) /\ ~s.Deprecated =>
      \A j \in 2..Len(s.To.cv) : "const" \notin s.To.cv[j] =>
        /\ "const" \notin s.From.cv[j]
        /\ j < Len(s.To.cv) =>
             \A X \in StoredTypes : Takes(At(s.To, j), X) => Takes(At(s.From, j), X)
=============================================================================

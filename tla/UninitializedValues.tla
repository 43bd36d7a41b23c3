------------------------- MODULE UninitializedValues -------------------------
(***************************************************************************)
(* Uninitialized variables (lib/Analysis/UninitializedValues.cpp), an      *)
(* analysis for DataflowSolver, without the tainting of what is computed   *)
(* from them (CheckUninitializedValues does not ask for it), and the       *)
(* checker that observes its solution.                                     *)
(*                                                                         *)
(* A value is the set of the variables that may be uninitialized.  A       *)
(* statement assigns (perhaps with an operator) or declares a variable,    *)
(* takes its address, or only reads.                                       *)
(***************************************************************************)
EXTENDS Naturals, Sequences, FiniteSets

CONSTANTS
  Blocks,
  Variables    \* the variables declared in the function

VARIABLES
  problem,     \* a record [succ, code]: successors and statements of the blocks
  BlockData    \* the solution

(***************************************************************************)
(* Transfer functions.                                                     *)
(***************************************************************************)

(* What is assigned is initialized, and what has its address taken counts  *)
(* as initialized.                                                         *)
Initializes(s) ==
  \/ s.op \in {"assign", "compound", "address"}
  \/ s.op = "declare" /\ s.init

(* Mutant: a declaration without an initializer changes nothing.           *)
Visit_IgnoresDecl(s, V) == IF Initializes(s) THEN V \ {s.var} ELSE V

Visit(s, V) ==
  IF Initializes(s) THEN V \ {s.var}
  ELSE IF s.op = "declare" THEN V \cup {s.var} ELSE V

(* The values before each statement of the code, and at its end.           *)
UninitBeforeEach(code, V) ==
  LET Before[k \in 1..Len(code) + 1] ==
        IF k = 1 THEN V ELSE Visit(code[k - 1], Before[k - 1])
  IN Before

UninitBefore(code, i, V) == UninitBeforeEach(code, V)[i]

Successors(p, B) == p.succ[B]
AllUninitialized(p) == Variables
Union(vals) == UNION vals
ProcessBlock(p, B, V) == UninitBefore(p.code[B], Len(p.code[B]) + 1, V)

(***************************************************************************)
(* The checker: a variable is reported once, for one of its reads.         *)
(***************************************************************************)
Code(B) == problem.code[B]
Reads(s) == s.reads \cup (IF s.op = "compound" THEN {s.var} ELSE {})

ObserveDeclRefExpr(B, i, v) ==
  v \in Reads(Code(B)[i]) /\ v \in UninitBefore(Code(B), i, BlockData[B])

Reported == {v \in Variables : \E B \in Blocks : \E i \in DOMAIN Code(B) :
               ObserveDeclRefExpr(B, i, v)}

(***************************************************************************)
(* What a solution promises.                                               *)
(***************************************************************************)
Writes(s, v) == s.var = v /\ s.op # "read"
LeftAlone(B, i, v) == \A j \in 1..i : ~Writes(Code(B)[j], v)

(* A declaration without initializer reaches the end of what precedes i.   *)
UninitWithin(B, i, v) ==
  \E j \in 1..i :
    /\ Writes(Code(B)[j], v) /\ ~Initializes(Code(B)[j])
    /\ \A k \in j + 1..i : ~Writes(Code(B)[k], v)

(* The ways to a block, without a block twice, the block before it first.  *)
Ways(B) ==
  {w \in UNION {[1..n -> Blocks] : n \in 1..Cardinality(Blocks)} :
     /\ B \in problem.succ[w[1]]
     /\ \A i \in 1..Len(w) - 1 : w[i] \in problem.succ[w[i + 1]]
     /\ \A i, j \in DOMAIN w : w[i] = w[j] => i = j}

IsEntry(B) == \A b \in Blocks : B \notin problem.succ[b]

(* Does a value that was never written reach the statement on some way?    *)
PotentiallyUninitialized(B, i, v) ==
  \/ UninitWithin(B, i - 1, v)
  \/ /\ LeftAlone(B, i - 1, v)
     /\ \/ IsEntry(B)
        \/ \E w \in Ways(B) :
             LET last == w[Len(w)] IN
             /\ \A j \in 1..Len(w) - 1 : LeftAlone(w[j], Len(Code(w[j])), v)
             /\ \/ UninitWithin(last, Len(Code(last)), v)
                \/ IsEntry(last) /\ LeftAlone(last, Len(Code(last)), v)

PotentiallyUninitializedReads ==
  {v \in Variables : \E B \in Blocks : \E i \in DOMAIN Code(B) :
     v \in Reads(Code(B)[i]) /\ PotentiallyUninitialized(B, i, v)}

NoUninitializedReadIsMissed == PotentiallyUninitializedReads \subseteq Reported

(* UninitializedValues.h:58: the analysis is of "what variable             *)
(* declarations in a function are potentially unintialized".               *)
OnlyPotentiallyUninitializedAreReported == Reported \subseteq PotentiallyUninitializedReads
=============================================================================

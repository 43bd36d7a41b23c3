---------------------------- MODULE LiveVariables ----------------------------
(***************************************************************************)
(* Live variables (lib/Analysis/LiveVariables.cpp), an analysis for        *)
(* DataflowSolver, and the check for dead stores that observes its         *)
(* solution (lib/Analysis/CheckDeadStores.cpp).                            *)
(*                                                                         *)
(* A function is a graph of blocks and the statements of each.  A          *)
(* statement assigns (perhaps with an operator), increments or declares a  *)
(* variable, or only reads; a block's condition is its last statement.     *)
(* What is tracked of block-level expressions is left out.                 *)
(***************************************************************************)
EXTENDS Naturals, Sequences, FiniteSets

CONSTANTS
  Blocks,
  Locals,      \* the variables with local storage
  Globals      \* those with global storage: always live

VARIABLES
  problem,     \* a record [succ, code]: successors and statements of the blocks
  BlockData    \* the solution

Variables == Locals \cup Globals

(***************************************************************************)
(* Transfer functions: the variables live before a statement, from those   *)
(* that are live behind it.                                                *)
(***************************************************************************)
Kill(Live, v) == Live \ ({v} \ Globals)

(* Mutant: what is read is made live before the assignment kills.          *)
VisitAssign_ReadsFirst(s, Live) == Kill(Live \cup s.reads, s.var)

VisitAssign(s, Live) ==
  Kill(Live, s.var) \cup (IF s.op = "compound" THEN {s.var} ELSE {}) \cup s.reads

VisitDeclStmt(s, Live) == Kill(Live \cup s.reads, s.var)

Visit(s, Live) ==
  CASE s.op \in {"assign", "compound"} -> VisitAssign(s, Live)
    [] s.op = "increment" -> Live \cup {s.var}
    [] s.op = "declare" -> VisitDeclStmt(s, Live)
    [] s.op = "read" -> Live \cup s.reads

(* The variables live before each statement of the code, and at its end.  *)
LiveBeforeEach(code, Live) ==
  LET Before[k \in 1..Len(code) + 1] ==
        IF k > Len(code) THEN Live ELSE Visit(code[k], Before[k + 1])
  IN Before

LiveBefore(code, i, Live) == LiveBeforeEach(code, Live)[i]

(***************************************************************************)
(* The analysis runs backward: values flow to a block's predecessors.      *)
(***************************************************************************)
Predecessors(p, B) == {b \in Blocks : B \in p.succ[b]}
AlwaysLive(p) == Globals
Union(vals) == UNION vals
ProcessBlock(p, B, Live) == LiveBefore(p.code[B], 1, Live)

(***************************************************************************)
(* The check for dead stores, on the solution.                             *)
(***************************************************************************)
Code(B) == problem.code[B]
AfterStmt(B, i) == LiveBefore(Code(B), i + 1, BlockData[B])

(* Mutant: the observer sees what is live before the statement.            *)
DeadStore_BeforeStmt(B, i) ==
  LET s == Code(B)[i] IN
  /\ s.op # "read"
  /\ s.var \in Locals \ LiveBefore(Code(B), i, BlockData[B])
  /\ s.op = "assign" => s.reads # {s.var}
  /\ s.op = "declare" => s.reads # {}

(* ObserveStmt: assignments of a variable to itself and initialisations    *)
(* with a constant, or without an initializer, are not reported.           *)
DeadStore(B, i) ==
  LET s == Code(B)[i] IN
  /\ s.op # "read"
  /\ s.var \in Locals \ AfterStmt(B, i)
  /\ s.op = "assign" => s.reads # {s.var}
  /\ s.op = "declare" => s.reads # {}

(***************************************************************************)
(* What a solution promises.                                               *)
(***************************************************************************)

(* What a statement reads of what the variables held before it.            *)
Reads(s) ==
  CASE s.op = "declare" -> s.reads \ {s.var}
    [] s.op = "compound" -> s.reads \cup {s.var}
    [] s.op = "increment" -> {s.var}
    [] OTHER -> s.reads

Writes(s) == IF s.op = "read" THEN {} ELSE {s.var}

(* Is the variable read from a statement of the block on, before it is     *)
(* written there, or does the block leave it alone?                        *)
ReadIn(B, i, v) ==
  \E j \in i..Len(Code(B)) :
    /\ v \in Reads(Code(B)[j])
    /\ \A k \in i..j - 1 : v \notin Writes(Code(B)[k])

LeftAlone(B, i, v) == \A j \in i..Len(Code(B)) : v \notin Writes(Code(B)[j])

(* The ways on from a block, without a block twice.                        *)
Ways(B) ==
  {w \in UNION {[1..n -> Blocks] : n \in 1..Cardinality(Blocks)} :
     /\ w[1] \in problem.succ[B]
     /\ \A i \in 1..Len(w) - 1 : w[i + 1] \in problem.succ[w[i]]
     /\ \A i, j \in DOMAIN w : w[i] = w[j] => i = j}

ReadBehind(B, v) ==
  \E w \in Ways(B) :
    /\ ReadIn(w[Len(w)], 1, v)
    /\ \A i \in 1..Len(w) - 1 : LeftAlone(w[i], 1, v)

(* The locals whose value some way on from the block reads, and the        *)
(* globals.                                                                *)
LiveIffReadBehind ==
  \A B \in Blocks : BlockData[B] = Globals \cup {v \in Locals : ReadBehind(B, v)}

DeadStoresAreNeverRead ==
  \A B \in Blocks : \A i \in DOMAIN Code(B) :
    DeadStore(B, i) =>
      LET v == Code(B)[i].var IN
      /\ ~ReadIn(B, i + 1, v)
      /\ LeftAlone(B, i + 1, v) => ~ReadBehind(B, v)
=============================================================================

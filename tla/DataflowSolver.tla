---------------------------- MODULE DataflowSolver ----------------------------
(***************************************************************************)
(* The solver of the flow-sensitive analyses                               *)
(* (include/clang/Analysis/FlowSensitive/DataflowSolver.h): a worklist of  *)
(* blocks, the values of the edges that were computed so far, and the      *)
(* value each block was given by merging those of the edges into it.       *)
(*                                                                         *)
(* "Into" and "out of" follow the direction of the analysis.  The worklist *)
(* is a set of pointers: which block is taken next is not specified.       *)
(***************************************************************************)
EXTENDS Naturals

CONSTANTS
  Blocks,             \* of the control-flow graph
  Problems,           \* the functions that may be analysed
  Targets(_, _),      \* the blocks that the edges out of a block lead to
  Top(_),             \* the value of a block that no value flows into
  Merge(_),           \* of the values, at least one, that flow into a block
  Transfer(_, _, _)   \* the value at the other end of a block

VARIABLES
  problem,     \* the function; never changes
  WorkList,
  EdgeData,    \* the values of the edges that have one
  BlockData    \* the values of the blocks that were processed

solver == <<problem, WorkList, EdgeData, BlockData>>

Init ==
  /\ problem \in Problems
  /\ WorkList = Blocks
  /\ EdgeData = [e \in {} |-> 0]
  /\ BlockData = [B \in {} |-> 0]

(* The values that flow into a block.                                      *)
Incoming(B) == {EdgeData[e] : e \in {e \in DOMAIN EdgeData : e[2] = B}}

(* ProcessMerge.                                                           *)
Merged(B) == IF Incoming(B) = {} THEN Top(problem) ELSE Merge(Incoming(B))

EdgesOutOf(B) == {B} \X Targets(problem, B)

(* The targets of the edges whose value is new or has changed.             *)
Updated(B, V) ==
  {t \in Targets(problem, B) :
     <<B, t>> \in DOMAIN EdgeData => EdgeData[<<B, t>>] # V}

(* Mutant: the targets are enqueued whether their edge changed or not.     *)
Process_AlwaysEnqueues(B) ==
  LET In == Merged(B)
      V == Transfer(problem, B, In) IN
  /\ BlockData' = [b \in DOMAIN BlockData \cup {B} |-> IF b = B THEN In ELSE BlockData[b]]
  /\ EdgeData' = [e \in DOMAIN EdgeData \cup EdgesOutOf(B) |->
                    IF e[1] = B THEN V ELSE EdgeData[e]]
  /\ WorkList' = (WorkList \ {B}) \cup Targets(problem, B)

(* ProcessMerge, ProcessBlock and UpdateEdges of the block dequeued.       *)
Process(B) ==
  LET In == Merged(B)
      V == Transfer(problem, B, In) IN
  /\ BlockData' = [b \in DOMAIN BlockData \cup {B} |-> IF b = B THEN In ELSE BlockData[b]]
  /\ EdgeData' = [e \in DOMAIN EdgeData \cup EdgesOutOf(B) |->
                    IF e[1] = B THEN V ELSE EdgeData[e]]
  /\ WorkList' = (WorkList \ {B}) \cup Updated(B, V)

Next ==
  \E B \in WorkList : Process(B) /\ UNCHANGED problem

Spec == Init /\ [][Next]_solver /\ WF_solver(Next)

Solved == WorkList = {}

(***************************************************************************)
(* What the solver promises.                                               *)
(***************************************************************************)

(* A block that is not waiting to be processed has its value from the      *)
(* edges into it as they are now, and they from it.                        *)
Stable(B) ==
  /\ B \in DOMAIN BlockData
  /\ BlockData[B] = Merged(B)
  /\ \A t \in Targets(problem, B) :
       /\ <<B, t>> \in DOMAIN EdgeData
       /\ EdgeData[<<B, t>>] = Transfer(problem, B, BlockData[B])

(* SolveDataflowEquations: when the worklist is empty the equations of all *)
(* the blocks hold, those of blocks that do not reach the exit included    *)
(* ("to ensure the dataflow values are computed for every block").         *)
SolutionIsAFixpoint == Solved => \A B \in Blocks : Stable(B)
=============================================================================

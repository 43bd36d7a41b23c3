--------------------------- MODULE MCFlowAnalyses ---------------------------
(***************************************************************************)
(* Liveness in graphs of three blocks with at most two successors each,    *)
(* loops within and across blocks among them, and the statements that      *)
(* matter to a local variable that another one is copied to; uninitialized *)
(* values in graphs of an entry and two blocks that are reached from it,   *)
(* with the statements that matter to one variable.                        *)
(***************************************************************************)
EXTENDS FlowAnalyses

MCBlocks == 1..3

Stmt(op, v, reads) == [op |-> op, var |-> v, reads |-> reads, init |-> FALSE]

LiveBodies ==
  {<<>>,
   <<Stmt("assign", "x", {"g"})>>,
   <<Stmt("assign", "y", {"x"}), Stmt("assign", "g", {})>>,
   <<Stmt("compound", "x", {"y"})>>,
   <<Stmt("declare", "x", {"x", "y"}), Stmt("read", "y", {"x"})>>,
   <<Stmt("increment", "y", {}), Stmt("assign", "x", {"x"})>>}

UninitBodies ==
  {<<>>,
   <<Stmt("read", "x", {"x"})>>,
   <<[Stmt("declare", "x", {}) EXCEPT !.init = TRUE]>>,
   <<Stmt("declare", "x", {}), Stmt("read", "y", {"y"})>>,
   <<Stmt("compound", "x", {}), Stmt("declare", "y", {}), Stmt("address", "x", {}),
     Stmt("assign", "y", {"x"})>>}

Successors == {S \in SUBSET MCBlocks : Cardinality(S) <= 2}

Function(analysis, s, c) == [analysis |-> analysis, succ |-> s, code |-> c]

LiveGraphs ==
  {s \in [MCBlocks -> Successors] : s[3] \subseteq {1} /\ 1 \notin s[1]}
UninitGraphs ==
  {s \in [MCBlocks -> Successors] :
     /\ 2 \in s[1] \/ (3 \in s[1] /\ 2 \in s[3])
     /\ 3 \in s[1] \/ (2 \in s[1] /\ 3 \in s[2])
     /\ \A B \in MCBlocks : 1 \notin s[B]}

MCProblems ==
  {Function("live", s, c) : s \in LiveGraphs, c \in [MCBlocks -> LiveBodies]}
    \cup {Function("uninitialized", s, c) : s \in UninitGraphs, c \in [MCBlocks -> UninitBodies]}
=============================================================================

---------------------------- MODULE FlowAnalyses ----------------------------
(***************************************************************************)
(* The two analyses that run on the solver: live variables, backward, and  *)
(* uninitialized values, forward.                                          *)
(***************************************************************************)
EXTENDS Naturals, Sequences, FiniteSets

CONSTANTS
  Blocks,
  Problems,    \* records [analysis, succ, code]: which analysis of a function,
               \* and the successors and statements of its blocks
  Locals,      \* the variables with local storage
  Globals      \* those with global storage: always live

(* A variable has one kind of storage, and a function has finitely many    *)
(* blocks, whose statements are those the analysis tells apart.            *)
ASSUME BlocksAssumption == IsFiniteSet(Blocks)
ASSUME StorageAssumption == Locals \cap Globals = {}

Statements(ops) ==
  [op : ops, var : Locals \cup Globals, reads : SUBSET (Locals \cup Globals), init : BOOLEAN]

StatementsOf(analysis) ==
  Statements({"assign", "compound", "declare", "read",
              IF analysis = "live" THEN "increment" ELSE "address"})

ASSUME ProblemsAssumption ==
  \A p \in Problems :
    /\ p.analysis \in {"live", "uninitialized"}
    /\ p.succ \in [Blocks -> SUBSET Blocks]
    /\ p.code \in [Blocks -> Seq(StatementsOf(p.analysis))]

VARIABLES problem, WorkList, EdgeData, BlockData

Live == INSTANCE LiveVariables
Uninit == INSTANCE UninitializedValues WITH Variables <- Locals

IsLive(p) == p.analysis = "live"

(* The analyses' directions, initial values, merges and transfers.         *)
Targets(p, B) == IF IsLive(p) THEN Live!Predecessors(p, B) ELSE Uninit!Successors(p, B)
Top(p) == IF IsLive(p) THEN Live!AlwaysLive(p) ELSE Uninit!AllUninitialized(p)
Merge(vals) == UNION vals
Transfer(p, B, V) ==
  IF IsLive(p) THEN Live!ProcessBlock(p, B, V) ELSE Uninit!ProcessBlock(p, B, V)

INSTANCE DataflowSolver

(***************************************************************************)
(* Properties.                                                             *)
(***************************************************************************)
LiveSolved == Solved /\ problem.analysis = "live"
UninitSolved == Solved /\ problem.analysis = "uninitialized"

(* isLive: when the equations are solved a local variable is live at the   *)
(* end of a block exactly when some way on from it reads the value, and    *)
(* the globals always are, in whatever order the blocks were processed.    *)
LiveIffReadBehind == LiveSolved => Live!LiveIffReadBehind

(* Report: "Value stored to ... is never read", on any way from the store. *)
DeadStoresAreNeverRead == LiveSolved => Live!DeadStoresAreNeverRead

(* The merges prefer soundness: no variable that is read while it may be   *)
(* uninitialized goes without a report.                                    *)
NoUninitializedReadIsMissed == UninitSolved => Uninit!NoUninitializedReadIsMissed

(* The solver comes to an end, though it starts from nothing known and     *)
(* values go up and down while the blocks are processed: they start from   *)
(* everything where nothing flows in yet.                                  *)
Terminates == <>Solved

(* What is reported may be uninitialized on some way.  The code breaks it. *)
OnlyPotentiallyUninitializedAreReported ==
  UninitSolved => Uninit!OnlyPotentiallyUninitializedAreReported
=============================================================================

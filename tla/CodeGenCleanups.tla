--------------------------- MODULE CodeGenCleanups ---------------------------
(***************************************************************************)
(* Cleanups and the branches through them in code generation               *)
(* (lib/CodeGen/CodeGenFunction.cpp, CGStmt.cpp), for the functions that   *)
(* the check of jump scopes (lib/Sema/SemaDecl.cpp) accepts.               *)
(*                                                                         *)
(* A function is emitted statement by statement: compound statements,      *)
(* declarations of variables that need a cleanup, labels, gotos and        *)
(* returns, conditional or not.  Then it is run: `live' are the variables  *)
(* that were declared and not cleaned up yet.                              *)
(*                                                                         *)
(* A basic block is what it executes, its terminator, and whether it was   *)
(* inserted in the function (getParent).  A branch is named by the block   *)
(* it ends.  `aim' is history: where the source says control goes when it  *)
(* leaves the block by a jump or out of a scope.                           *)
(***************************************************************************)
EXTENDS Integers, Sequences, FiniteSets, SequencesExt

CONSTANTS
  Labels,       \* the labels of the function
  Kinds,        \* what needs a cleanup: "attribute" or "block" variables
  MaxVars, MaxJumps, MaxScopes    \* bounds on the function's statements

ASSUME CleanupAssumption ==
  /\ Kinds \subseteq {"attribute", "block"} /\ Kinds # {}
  /\ {MaxVars, MaxJumps, MaxScopes} \subseteq Nat

VARIABLES
  f,          \* the function being emitted
  source,     \* the source so far: open scopes, labels and jumps
  run         \* the run of the emitted function

vars == <<f, source, run>>

NoBlock == 0
entry == 1
ReturnBlock == 2

NoTerm == [k |-> "none"]
Br(to) == [k |-> "br", to |-> to]
Block(kind, code) ==
  [kind |-> kind, code |-> code, term |-> NoTerm, in |-> FALSE, aim |-> NoBlock]

createBasicBlock(g, b) == [g EXCEPT !.blocks = Append(@, b)]
newest(g) == Len(g.blocks)

Append1(g, b, i) == [g EXCEPT !.blocks[b].code = Append(@, i)]
Scope(g) == Len(g.CleanupEntries)

(* A branch from the current block, unless it is terminated.               *)
EmitBranch(g, target) ==
  IF g.cur = NoBlock THEN g
  ELSE [g EXCEPT !.blocks[g.cur].term = IF @ = NoTerm THEN Br(target) ELSE @,
                 !.cur = NoBlock]

EmitBlock(g0, b) ==
  LET g == EmitBranch(g0, b)
      scoped == Scope(g) > 0 /\ b \notin DOMAIN g.BlockScopes
      s == IF scoped
             THEN [g EXCEPT !.BlockScopes = (b :> Scope(g)) @@ @,
                            !.CleanupEntries[Scope(g)].Blocks = Append(@, b)]
             ELSE g
  IN [s EXCEPT !.cur = b, !.blocks[b].in = TRUE]

EmitNewBlock(g, b) == LET h == createBasicBlock(g, b) IN EmitBlock(h, newest(h))

EnsureInsertPoint(g) ==
  IF g.cur = NoBlock THEN EmitNewBlock(g, Block("source", <<>>)) ELSE g

(* Mutant: the fixup is left to the outermost scope.                       *)
AddBranchFixup_Outermost(g, branch) ==
  [g EXCEPT !.CleanupEntries[1].BranchFixups = Append(@, branch)]

AddBranchFixup(g, branch) ==
  [g EXCEPT !.CleanupEntries[Scope(g)].BranchFixups = Append(@, branch)]

(* Mutant: a branch to a block that was inserted already is never fixed up.*)
EmitBranchThroughCleanup_ForwardOnly(g, dest) ==
  IF g.cur = NoBlock THEN g
  ELSE LET b == [g EXCEPT !.blocks[g.cur].term = Br(dest),
                          !.blocks[g.cur].aim = dest, !.cur = NoBlock]
       IN IF Scope(g) = 0 \/ g.blocks[dest].in THEN b ELSE AddBranchFixup(b, g.cur)

EmitBranchThroughCleanup(g, dest) ==
  IF g.cur = NoBlock THEN g
  ELSE LET b == [g EXCEPT !.blocks[g.cur].term = Br(dest),
                          !.blocks[g.cur].aim = dest, !.cur = NoBlock]
           sameScope == /\ g.blocks[dest].in
                        /\ dest \in DOMAIN g.BlockScopes
                        /\ g.BlockScopes[dest] = Scope(g)
       IN IF Scope(g) = 0 \/ sameScope THEN b ELSE AddBranchFixup(b, g.cur)

----------------------------------------------------------------------------
(* PopCleanupBlock.                                                        *)

Store(sw, id) == [op |-> "store", sw |-> sw, id |-> id]

CaseOf(g, sw, dest) == SelectInSeq(g.blocks[sw].term.cases, LAMBDA c : c = dest)
AddCase(g, sw, dest) == [g EXCEPT !.blocks[sw].term.cases = Append(@, dest)]
NextID(g, sw) == Len(g.blocks[sw].term.cases) + 1

(* Send a branch through the cleanup: it stores where to go next, which is *)
(* the destination, or a pad that goes there through the outer cleanup.    *)
FixBranch(g0, branch, cleanup, sw) ==
  LET dest == g0.blocks[branch].term.to
      g == [g0 EXCEPT !.blocks[branch].term.to = cleanup]
      id == IF dest = g.blocks[sw].term.default THEN 0 ELSE CaseOf(g, sw, dest)
      known == dest = g.blocks[sw].term.default \/ id > 0
      pad == [Block("pad", <<>>) EXCEPT !.term = Br(dest), !.in = TRUE]
      p == createBasicBlock(g, pad)
  IN IF Scope(g) > 0
       THEN AddBranchFixup(Append1(AddCase(p, sw, newest(p)), branch, Store(sw, NextID(g, sw))),
                           newest(p))
     ELSE IF known THEN Append1(g, branch, Store(sw, id))
     ELSE Append1(AddCase(g, sw, dest), branch, Store(sw, NextID(g, sw)))

RECURSIVE FixBranches(_, _, _, _)
FixBranches(g, branches, cleanup, sw) ==
  IF branches = <<>> THEN g
  ELSE FixBranches(FixBranch(g, Head(branches), cleanup, sw), Tail(branches), cleanup, sw)

(* Mutant: the fall-through does not set where to go next.                 *)
SwitchAndEnd_NoReset(g) ==
  LET h == createBasicBlock(createBasicBlock(g, Block("switch", <<>>)), Block("source", <<>>))
      sw == newest(h) - 1
  IN [h EXCEPT !.blocks[sw].term = [k |-> "switch", default |-> sw + 1, cases |-> <<>>]]

(* The switch block, the end block, and the store on the fall-through.     *)
SwitchAndEnd(g) ==
  LET h == createBasicBlock(createBasicBlock(g, Block("switch", <<>>)), Block("source", <<>>))
      sw == newest(h) - 1
      s == [h EXCEPT !.blocks[sw].term = [k |-> "switch", default |-> sw + 1, cases |-> <<>>]]
  IN IF g.cur = NoBlock THEN s
     ELSE [Append1(s, g.cur, Store(sw, 0)) EXCEPT !.blocks[g.cur].aim = sw + 1]

(* The popped function, the cleanup block and the switch block, if any.    *)
PopCleanupBlock(g) ==
  LET entryOf == Last(g.CleanupEntries)
      p == [g EXCEPT !.CleanupEntries = Front(@)]
      left == SelectSeq(entryOf.BranchFixups,
                        LAMBDA b : LET dest == g.blocks[b].term.to
                                   IN ~(/\ dest \in DOMAIN g.BlockScopes
                                        /\ g.BlockScopes[dest] = Scope(g)))
      s == SwitchAndEnd(p)
      sw == newest(s) - 1
      q == IF left = <<>> THEN p ELSE FixBranches(s, left, entryOf.CleanupBlock, sw)
  IN [fn |-> [q EXCEPT !.BlockScopes =
                Restrict(@, DOMAIN @ \ {entryOf.Blocks[k] : k \in 1..Len(entryOf.Blocks)})],
      cleanup |-> entryOf.CleanupBlock,
      switch |-> IF left = <<>> THEN NoBlock ELSE sw]

EmitCleanupBlock(g) ==
  LET info == PopCleanupBlock(g)
      c == EmitBlock(info.fn, info.cleanup)
  IN IF info.switch = NoBlock THEN c
     ELSE EmitBlock(EmitBlock(c, info.switch), info.switch + 1)

RECURSIVE EmitCleanupBlocks(_, _)
EmitCleanupBlocks(g, old) ==
  IF Scope(g) <= old THEN g ELSE EmitCleanupBlocks(EmitCleanupBlock(g), old)

----------------------------------------------------------------------------
(* The check of jump scopes: a goto is accepted when the innermost scope   *)
(* around its label is one of those around the goto.  The scopes it knows  *)
(* are those of variables with a cleanup attribute.                        *)

Checked(scopes) == SelectSeq(scopes, LAMBDA v : v.kind = "attribute")

JumpAccepted(gotoScopes, labelScopes) ==
  LET s == Checked(labelScopes)
  IN s # <<>> => Last(s) \in ToSet(Checked(gotoScopes))

----------------------------------------------------------------------------
(* Emission.                                                               *)

Emitting == run.pc = NoBlock

Init ==
  /\ f = [blocks |-> <<[Block("source", <<>>) EXCEPT !.in = TRUE], Block("source", <<>>)>>,
          cur |-> entry, CleanupEntries |-> <<>>, BlockScopes |-> <<>>]
  /\ source = [scopes |-> <<>>, opens |-> <<0>>, vars |-> 0, scopeCount |-> 0,
               at |-> [l \in Labels |-> NoBlock], defined |-> [l \in Labels |-> FALSE],
               labelScopes |-> [l \in Labels |-> <<>>], jumps |-> {}, jumpCount |-> 0]
  /\ run = [pc |-> NoBlock, live |-> <<>>, slot |-> <<>>, aim |-> NoBlock]

(* EmitCompoundStmt, up to its statements.                                 *)
OpenCompound ==
  /\ Emitting
  /\ source.scopeCount < MaxScopes
  /\ source' = [source EXCEPT !.opens = Append(@, Scope(f)), !.scopeCount = @ + 1]
  /\ UNCHANGED <<f, run>>

(* ... and from its statements on.                                         *)
CloseCompound ==
  /\ Emitting
  /\ Len(source.opens) > 1
  /\ f' = EmitCleanupBlocks(f, Last(source.opens))
  /\ source' = [source EXCEPT !.opens = Front(@),
                              !.scopes = SubSeq(@, 1, Last(source.opens))]
  /\ UNCHANGED run

(* A variable with a cleanup: CleanupScope makes its block and pushes it.  *)
DeclareVar(kind) ==
  /\ Emitting
  /\ source.vars < MaxVars
  /\ LET v == [name |-> source.vars + 1, kind |-> kind]
         g == EnsureInsertPoint(f)
         d == Append1(g, g.cur, [op |-> "declare", var |-> v])
         c == createBasicBlock(d, Block("cleanup", <<[op |-> "cleanup", var |-> v]>>))
     IN /\ f' = [c EXCEPT !.CleanupEntries =
                   Append(@, [CleanupBlock |-> newest(c), Blocks |-> <<>>, BranchFixups |-> <<>>])]
        /\ source' = [source EXCEPT !.vars = @ + 1, !.scopes = Append(@, v)]
  /\ UNCHANGED run

(* getBasicBlockForLabel, at its first use.                                *)
WithLabelBlock(g, l) ==
  IF source.at[l] # NoBlock THEN [fn |-> g, block |-> source.at[l]]
  ELSE LET h == createBasicBlock(g, Block("source", <<>>)) IN [fn |-> h, block |-> newest(h)]

EmitLabel(l) ==
  /\ Emitting
  /\ ~source.defined[l]
  /\ \A j \in source.jumps : j.label = l => JumpAccepted(j.scopes, source.scopes)
  /\ LET w == WithLabelBlock(f, l)
     IN /\ f' = EmitBlock(w.fn, w.block)
        /\ source' = [source EXCEPT !.at[l] = w.block, !.defined[l] = TRUE,
                                    !.labelScopes[l] = source.scopes]
  /\ UNCHANGED run

(* A jump, alone or as the body of an if.                                  *)
Jump(g, dest, conditional) ==
  IF ~conditional THEN EmitBranchThroughCleanup(g, dest)
  ELSE LET e == EnsureInsertPoint(g)
           h == createBasicBlock(createBasicBlock(e, Block("source", <<>>)), Block("source", <<>>))
           then == newest(h) - 1
           c == [h EXCEPT !.blocks[h.cur].term = [k |-> "cond", then |-> then, else |-> then + 1],
                          !.cur = NoBlock]
       IN EmitBlock(EmitBranchThroughCleanup(EmitBlock(c, then), dest), then + 1)

EmitGotoStmt(l, conditional) ==
  /\ Emitting
  /\ source.jumpCount < MaxJumps
  /\ source.defined[l] => JumpAccepted(source.scopes, source.labelScopes[l])
  /\ LET w == WithLabelBlock(f, l)
     IN /\ f' = Jump(w.fn, w.block, conditional)
        /\ source' = [source EXCEPT !.at[l] = w.block, !.jumpCount = @ + 1,
                        !.jumps = @ \cup {[label |-> l, scopes |-> source.scopes]}]
  /\ UNCHANGED run

EmitReturnStmt(conditional) ==
  /\ Emitting
  /\ source.jumpCount < MaxJumps
  /\ f' = Jump(IF conditional THEN f ELSE EnsureInsertPoint(f), ReturnBlock, conditional)
  /\ source' = [source EXCEPT !.jumpCount = @ + 1]
  /\ UNCHANGED run

(* The end of the body, FinishFunction, and the call of the function.      *)
FinishFunction ==
  /\ Emitting
  /\ Len(source.opens) = 1
  /\ \A j \in source.jumps : source.defined[j.label]
  /\ f' = EmitBlock(EmitCleanupBlocks(f, 0), ReturnBlock)
  /\ run' = [run EXCEPT !.pc = entry, !.slot = [b \in 1..newest(f') |-> -1]]
  /\ UNCHANGED source

----------------------------------------------------------------------------
(* The run.                                                                *)

RECURSIVE Executed(_, _)
Executed(code, r) ==
  IF code = <<>> THEN r
  ELSE LET i == Head(code)
       IN Executed(Tail(code),
            CASE i.op = "declare" -> [r EXCEPT !.live = Append(@, i.var)]
              [] i.op = "cleanup" -> [r EXCEPT !.live = IF @ = <<>> THEN @ ELSE Front(@)]
              [] i.op = "store" -> [r EXCEPT !.slot[i.sw] = i.id])

Successors(t, slot, b) ==
  CASE t.k = "br" -> {t.to}
    [] t.k = "cond" -> {t.then, t.else}
    [] t.k = "switch" -> {IF slot[b] > 0 THEN t.cases[slot[b]] ELSE t.default}
    [] t.k = "none" -> {}

Step ==
  /\ ~Emitting
  /\ LET b == f.blocks[run.pc]
         r == Executed(b.code, run)
     IN \E next \in Successors(b.term, r.slot, run.pc) :
          run' = [r EXCEPT !.pc = next,
                           !.aim = LET aim == IF b.aim = NoBlock THEN @ ELSE b.aim
                                   IN IF aim = next THEN NoBlock ELSE aim]
  /\ UNCHANGED <<f, source>>

Next ==
  \/ OpenCompound
  \/ CloseCompound
  \/ \E kind \in Kinds : DeclareVar(kind)
  \/ \E l \in Labels : EmitLabel(l)
  \/ \E l \in Labels, conditional \in BOOLEAN : EmitGotoStmt(l, conditional)
  \/ \E conditional \in BOOLEAN : EmitReturnStmt(conditional)
  \/ FinishFunction
  \/ Step

Spec == Init /\ [][Next]_vars

----------------------------------------------------------------------------
(* Properties.                                                             *)

Here == f.blocks[run.pc]

(* A variable is cleaned up only while it is live and the innermost one:   *)
(* no cleanup runs twice, or of a variable whose declaration was jumped    *)
(* over, on any path of a function that is accepted and, as the check of   *)
(* jumps knows no other kind, has cleanups of attributes only.             *)
CleanupsNest ==
  ~Emitting /\ Here.kind = "cleanup" =>
    run.live # <<>> /\ Last(run.live) = Head(Here.code).var

(* A jump that leaves scopes cleans up all of their variables and no other:*)
(* at a label the live variables are those of the scopes around it, and at *)
(* the return there are none.  With that no accepted jump goes into a scope*)
(* ("Trying to branch into cleanup region").  With __block variables, for  *)
(* which jumps are not checked, the code breaks it.                        *)
LiveAreThoseInScope ==
  /\ run.pc = ReturnBlock => run.live = <<>>
  /\ \A l \in Labels : ~Emitting /\ run.pc = source.at[l] => run.live = source.labelScopes[l]

(* However many cleanups a jump runs through, and although the code of a   *)
(* cleanup is shared by all of the paths through it, control comes out     *)
(* where the source says.  Nothing of the scopes is left at the end of the *)
(* function ("did not remove all blocks from block scope map!", "mismatched*)
(* push/pop in cleanup stack!"), and every block that control can reach    *)
(* was inserted and has a terminator, the return block excepted.           *)
JumpsArrive ==
  ~Emitting =>
    /\ f.BlockScopes = <<>> /\ f.CleanupEntries = <<>>
    /\ Here.in
    /\ Here.term = NoTerm <=> run.pc = ReturnBlock
    /\ run.aim # NoBlock => Here.kind \in {"cleanup", "switch", "pad"}
    /\ Here.kind \in {"switch", "pad"} => run.aim # NoBlock
    /\ Here.kind = "switch" => run.slot[run.pc] >= 0
=============================================================================

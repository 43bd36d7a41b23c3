----------------------------- MODULE MCRewriter -----------------------------
(***************************************************************************)
(* A file of four tokens under any three edits, one of three under any     *)
(* four, and one of ten under insertions at every offset, in ten orders:   *)
(* enough to split an interior node of a delta tree whose nodes have at    *)
(* most three values.  Nodes of the rope have at most two pieces or        *)
(* children.                                                               *)
(***************************************************************************)
EXTENDS Rewriter

MCClients ==
  {[Size |-> 4, MaxEdits |-> 3, plan |-> <<>>], [Size |-> 3, MaxEdits |-> 4, plan |-> <<>>]}
    \cup {[Size |-> 10, MaxEdits |-> 10, plan |-> [k \in 1..10 |-> ((a * k) % 11) - 1]] : a \in 1..10}
=============================================================================

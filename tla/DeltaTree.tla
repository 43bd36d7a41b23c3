------------------------------ MODULE DeltaTree ------------------------------
(***************************************************************************)
(* The B-tree that holds the deltas of a rewrite buffer                    *)
(* (lib/Rewrite/DeltaTree.cpp).                                            *)
(*                                                                         *)
(* A node is a record of its values (pairs of an offset and a delta), its  *)
(* children (none for a leaf) and the full delta it remembers.  Nodes are  *)
(* values here: the tree is changed in place by the code, which keeps the  *)
(* left half of a split in the node that was split.                        *)
(***************************************************************************)
EXTENDS Integers, Sequences, SequencesExt

CONSTANT WidthFactor     \* a node has at most 2 * WidthFactor - 1 values

Leaf == [vals |-> <<>>, kids |-> <<>>, FullDelta |-> 0]
isLeaf(n) == n.kids = <<>>
isFull(n) == Len(n.vals) = 2 * WidthFactor - 1

RECURSIVE SumOf(_)
SumOf(s) == IF s = <<>> THEN 0 ELSE Head(s) + SumOf(Tail(s))

RecomputeFullDeltaLocally(n) ==
  [n EXCEPT !.FullDelta = SumOf([k \in 1..Len(n.vals) |-> n.vals[k].delta])
                          + SumOf([k \in 1..Len(n.kids) |-> n.kids[k].FullDelta])]

(* The first value whose offset is not less than loc.                      *)
InsertionPoint(n, loc) ==
  1 + Len(SelectSeq(n.vals, LAMBDA v : v.loc < loc))

Split(l, v, r) == [split |-> TRUE, lhs |-> l, val |-> v, rhs |-> r]
Kept(n) == [split |-> FALSE, node |-> n]

DoSplit(n) ==
  LET half(a, b, c) == RecomputeFullDeltaLocally(
                         [n EXCEPT !.vals = SubSeq(n.vals, a, b),
                                   !.kids = IF isLeaf(n) THEN <<>>
                                            ELSE SubSeq(n.kids, a, c)])
  IN Split(half(1, WidthFactor - 1, WidthFactor), n.vals[WidthFactor],
           half(WidthFactor + 1, 2 * WidthFactor - 1, 2 * WidthFactor))

(* A split child comes back: put the value and the right half into n.      *)
InsertSplit(n, i, s) ==
  [n EXCEPT !.vals = InsertAt(@, i, s.val),
            !.kids = InsertAt([@ EXCEPT ![i] = s.lhs], i + 1, s.rhs)]

(* Mutant: the full delta of the side that takes the new child is not      *)
(* brought up to date.                                                     *)
InsertIntoSide_NoDelta(side, s) ==
  LET i == InsertionPoint(side, s.val.loc)
  IN [side EXCEPT !.vals = InsertAt(@, i, s.val),
                  !.kids = InsertAt(@, i + 1, s.rhs)]

InsertIntoSide(side, s) ==
  LET i == InsertionPoint(side, s.val.loc)
  IN [side EXCEPT !.vals = InsertAt(@, i, s.val),
                  !.kids = InsertAt(@, i + 1, s.rhs),
                  !.FullDelta = @ + s.val.delta + s.rhs.FullDelta]

(* ... or, when n is full, split n and put them into one of its halves.    *)
SplitInterior(n, i, s) ==
  LET t == DoSplit([n EXCEPT !.kids[i] = s.lhs])
  IN IF s.val.loc < t.val.loc
       THEN [t EXCEPT !.lhs = InsertIntoSide(@, s)]
       ELSE [t EXCEPT !.rhs = InsertIntoSide(@, s)]

Merged(v, delta) == [v EXCEPT !.delta = @ + delta]

RECURSIVE DoInsertion(_, _, _)
DoInsertion(old, loc, delta) ==
  LET n == [old EXCEPT !.FullDelta = @ + delta]
      i == InsertionPoint(n, loc)
      found == i <= Len(n.vals) /\ n.vals[i].loc = loc
  IN IF found THEN Kept([n EXCEPT !.vals[i] = Merged(@, delta)])
     ELSE IF isLeaf(n) /\ ~isFull(n)
       THEN Kept([n EXCEPT !.vals = InsertAt(@, i, [loc |-> loc, delta |-> delta])])
     ELSE IF isLeaf(n)
       THEN LET t == DoSplit(n)
            IN IF t.val.loc > loc
                 THEN [t EXCEPT !.lhs = DoInsertion(@, loc, delta).node]
                 ELSE [t EXCEPT !.rhs = DoInsertion(@, loc, delta).node]
     ELSE LET r == DoInsertion(n.kids[i], loc, delta)
          IN IF ~r.split THEN Kept([n EXCEPT !.kids[i] = r.node])
             ELSE IF ~isFull(n) THEN Kept(InsertSplit(n, i, r))
             ELSE SplitInterior(n, i, r)

(* NumValsGreater: the values of a node before the offset.                 *)
Passed(n, i) == Len(SelectSeq(n.vals, LAMBDA v : v.loc < i))

(* The walk of getDeltaAt from a node down.                                *)
RECURSIVE DeltaBelow(_, _)
DeltaBelow(n, i) ==
  LET k == Passed(n, i)
      here == SumOf([j \in 1..k |-> n.vals[j].delta])
      left == SumOf([j \in 1..k |-> n.kids[j].FullDelta])
  IN IF isLeaf(n) THEN here
     ELSE IF k < Len(n.vals) /\ n.vals[k + 1].loc = i
       THEN here + left + n.kids[k + 1].FullDelta
     ELSE here + left + DeltaBelow(n.kids[k + 1], i)

getDeltaAt(Root, i) == DeltaBelow(Root, i)

(* A root that was split gets a new one above it.                          *)
AddDelta(Root, loc, delta) ==
  LET r == DoInsertion(Root, loc, delta)
  IN IF r.split
       THEN [vals |-> <<r.val>>, kids |-> <<r.lhs, r.rhs>>,
             FullDelta |-> r.lhs.FullDelta + r.rhs.FullDelta + r.val.delta]
       ELSE r.node

----------------------------------------------------------------------------
(* What a tree is.                                                         *)

(* All values of a subtree from its k-th child on, in order.               *)
RECURSIVE ValuesFrom(_, _)
ValuesFrom(n, k) ==
  IF isLeaf(n) THEN n.vals
  ELSE ValuesFrom(n.kids[k], 1)
       \o (IF k <= Len(n.vals) THEN <<n.vals[k]>> \o ValuesFrom(n, k + 1) ELSE <<>>)

Values(n) == ValuesFrom(n, 1)

RECURSIVE Depths(_)
Depths(n) == IF isLeaf(n) THEN {0}
             ELSE UNION {{d + 1 : d \in Depths(n.kids[k])} : k \in 1..Len(n.kids)}

(* VerifyTree: each node's full delta is that of its values and children,  *)
(* children fit between the values, and each node but the root is half     *)
(* full, as the comment on WidthFactor says.                               *)
RECURSIVE Verified(_, _)
Verified(n, isRoot) ==
  /\ n = RecomputeFullDeltaLocally(n)
  /\ Len(n.vals) <= 2 * WidthFactor - 1
  /\ ~isRoot => Len(n.vals) >= WidthFactor - 1
  /\ isLeaf(n) \/ Len(n.kids) = Len(n.vals) + 1
  /\ \A k \in 1..Len(n.kids) : Verified(n.kids[k], FALSE)

(* A B-tree whose nodes remember their full delta.                         *)
IsBTree(Root) ==
  /\ Verified(Root, TRUE)
  /\ \A d, e \in Depths(Root) : d = e
  /\ LET v == Values(Root)
     IN \A k \in 1..Len(v) - 1 : v[k].loc < v[k + 1].loc

(* The map a tree stands for.                                              *)
MapOf(Root, Locs) ==
  LET v == Values(Root)
      at == [l \in Locs |-> {k \in 1..Len(v) : v[k].loc = l}]
  IN [l \in Locs |-> IF at[l] = {} THEN 0 ELSE v[CHOOSE k \in at[l] : TRUE].delta]
=============================================================================

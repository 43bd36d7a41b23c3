----------------------------- MODULE RewriteRope -----------------------------
(***************************************************************************)
(* The B+ tree of rope pieces behind a rewrite buffer                      *)
(* (lib/Rewrite/RewriteRope.cpp).                                          *)
(*                                                                         *)
(* A piece is the sequence of characters it is a view of.  A leaf's pieces *)
(* are kept by its number, since a leaf lives in two structures: the tree, *)
(* and the list of leaves in order through which the text is read.  The    *)
(* list is a sequence of leaf numbers: PrevLeaf and NextLeaf are the       *)
(* neighbours.  The operations of a node are functions from a heap (leaves *)
(* and list) and the node to the same, with the new right sibling that     *)
(* must go into the parent, if any.                                        *)
(***************************************************************************)
EXTENDS Integers, Sequences, SequencesExt

CONSTANT WidthFactor    \* a node has at most 2 * WidthFactor pieces or children

LeafNode(id, size) == [leaf |-> TRUE, id |-> id, kids |-> <<>>, Size |-> size]
Interior(kids, size) == [leaf |-> FALSE, id |-> 0, kids |-> kids, Size |-> size]

RECURSIVE SumOf(_)
SumOf(s) == IF s = <<>> THEN 0 ELSE Head(s) + SumOf(Tail(s))

PieceSizes(ps) == [k \in 1..Len(ps) |-> Len(ps[k])]
ChildSizes(kids) == [k \in 1..Len(kids) |-> kids[k].Size]

(* The offset at which the k-th piece or child starts.                     *)
StartOf(sizes, k) == SumOf(SubSeq(sizes, 1, k - 1))

(* The piece or child that an offset within them lies in.                  *)
HolderOf(sizes, Offset) ==
  CHOOSE k \in 1..Len(sizes) : StartOf(sizes, k) <= Offset /\ Offset < StartOf(sizes, k + 1)

(* The piece that starts at an offset there is a split at; one past the    *)
(* last piece for the end of the leaf.                                     *)
SlotAt(sizes, Offset) ==
  CHOOSE k \in 1..Len(sizes) + 1 : StartOf(sizes, k) = Offset

Result(h, n, rhs) == [heap |-> h, node |-> n, rhs |-> rhs]
None == <<>>

----------------------------------------------------------------------------
(* Leaves.                                                                 *)

isFull(s) == Len(s) = 2 * WidthFactor

insertAfterLeafInOrder(ord, new, id) ==
  InsertAt(ord, SelectInSeq(ord, LAMBDA x : x = id) + 1, new)

removeFromLeafInOrder(ord, id) == SelectSeq(ord, LAMBDA x : x # id)

LeafHalves(h, n) ==
  LET ps == h.leaves[n.id]
      new == Len(h.leaves) + 1
      l == SubSeq(ps, 1, WidthFactor)
      r == SubSeq(ps, WidthFactor + 1, 2 * WidthFactor)
  IN Result([leaves |-> Append([h.leaves EXCEPT ![n.id] = l], r),
             order |-> insertAfterLeafInOrder(h.order, new, n.id)],
            LeafNode(n.id, SumOf(PieceSizes(l))),
            <<LeafNode(new, SumOf(PieceSizes(r)))>>)

RECURSIVE LeafInsert(_, _, _, _)
LeafInsert(h, n, Offset, R) ==
  LET ps == h.leaves[n.id]
  IN IF ~isFull(ps)
       THEN Result([h EXCEPT !.leaves[n.id] = InsertAt(@, SlotAt(PieceSizes(ps), Offset), R)],
                   [n EXCEPT !.Size = @ + Len(R)], None)
       ELSE LET s == LeafHalves(h, n)
                l == s.node
                r == s.rhs[1]
            IN IF l.Size >= Offset
                 THEN LET t == LeafInsert(s.heap, l, Offset, R)
                      IN Result(t.heap, t.node, <<r>>)
                 ELSE LET t == LeafInsert(s.heap, r, Offset - l.Size, R)
                      IN Result(t.heap, l, <<t.node>>)

LeafSplit(h, n, Offset) ==
  LET ps == h.leaves[n.id]
      i == HolderOf(PieceSizes(ps), Offset)
      k == Offset - StartOf(PieceSizes(ps), i)
  IN IF Offset = 0 \/ Offset = n.Size \/ k = 0 THEN Result(h, n, None)
     ELSE LeafInsert([h EXCEPT !.leaves[n.id][i] = SubSeq(@, 1, k)],
                     [n EXCEPT !.Size = @ - (Len(ps[i]) - k)],
                     Offset, SubSeq(ps[i], k + 1, Len(ps[i])))

PieceWithout(p, n) == SubSeq(p, n + 1, Len(p))

(* Whole pieces go, and the start of the next one moves.                   *)
LeafErase(h, n, Offset, NumBytes) ==
  LET ps == h.leaves[n.id]
      sizes == PieceSizes(ps)
      i == SlotAt(sizes, Offset)
      covered == {k \in i..Len(ps) : StartOf(sizes, k + 1) <= Offset + NumBytes}
      e == IF covered = {} THEN i ELSE Max(covered) + 1
      left == Offset + NumBytes - StartOf(sizes, e)
      rest == SubSeq(ps, e, Len(ps))
  IN Result([h EXCEPT !.leaves[n.id] =
               SubSeq(ps, 1, i - 1)
               \o (IF left = 0 THEN rest
                   ELSE <<PieceWithout(Head(rest), left)>> \o Tail(rest))],
            [n EXCEPT !.Size = @ - NumBytes], None)

----------------------------------------------------------------------------
(* Interior nodes.                                                         *)

InteriorHalf(n, kids) == Interior(kids, SumOf(ChildSizes(kids)))

(* A child brought up a new right sibling.                                 *)
HandleChildPiece(n, i, r) ==
  LET all == InsertAt([n.kids EXCEPT ![i] = r.node], i + 1, r.rhs[1])
      mid == IF i <= WidthFactor THEN WidthFactor + 1 ELSE WidthFactor
  IN IF ~isFull(n.kids) THEN Result(r.heap, [n EXCEPT !.kids = all], None)
     ELSE Result(r.heap, InteriorHalf(n, SubSeq(all, 1, mid)),
                 <<InteriorHalf(n, SubSeq(all, mid + 1, Len(all)))>>)

(* What comes back from the i-th child goes into the node.                 *)
FromChild(n, i, r) ==
  IF r.rhs = None THEN Result(r.heap, [n EXCEPT !.kids[i] = r.node], None)
  ELSE HandleChildPiece(n, i, r)

RECURSIVE Split(_, _, _)
Split(h, n, Offset) ==
  IF n.leaf THEN LeafSplit(h, n, Offset)
  ELSE LET i == HolderOf(ChildSizes(n.kids), Offset)
           k == Offset - StartOf(ChildSizes(n.kids), i)
       IN IF Offset = 0 \/ Offset = n.Size \/ k = 0 THEN Result(h, n, None)
          ELSE FromChild(n, i, Split(h, n.kids[i], k))

RECURSIVE Insert(_, _, _, _)
Insert(h, n, Offset, R) ==
  IF n.leaf THEN LeafInsert(h, n, Offset, R)
  ELSE LET sizes == ChildSizes(n.kids)
           i == IF Offset = n.Size THEN Len(n.kids)
                ELSE Min({k \in 1..Len(n.kids) : Offset <= StartOf(sizes, k + 1)})
       IN FromChild([n EXCEPT !.Size = @ + Len(R)], i,
                    Insert(h, n.kids[i], Offset - StartOf(sizes, i), R))

(* A leaf takes itself out of the list when it is deleted.  An interior    *)
(* node has no destructor: its children are lost, the leaves under it stay *)
(* in the list.                                                            *)
Destroy(h, n) ==
  IF n.leaf THEN [leaves |-> [h.leaves EXCEPT ![n.id] = <<>>],
                  order |-> removeFromLeafInOrder(h.order, n.id)]
  ELSE h

(* The loop over the children that the erased range overlaps.              *)
RECURSIVE Erase(_, _, _, _), EraseKids(_, _, _, _, _)
EraseKids(h, n, i, Offset, NumBytes) ==
  IF NumBytes = 0 THEN Result(h, n, None)
  ELSE LET c == n.kids[i]
       IN IF Offset + NumBytes < c.Size
            THEN FromChild(n, i, Erase(h, c, Offset, NumBytes))
          ELSE IF Offset > 0
            THEN LET r == FromChild(n, i, Erase(h, c, Offset, c.Size - Offset))
                 IN EraseKids(r.heap, r.node, i + 1, 0, NumBytes - (c.Size - Offset))
          ELSE EraseKids(Destroy(h, c), [n EXCEPT !.kids = RemoveAt(@, i)],
                         i, 0, NumBytes - c.Size)

Erase(h, n, Offset, NumBytes) ==
  IF n.leaf THEN LeafErase(h, n, Offset, NumBytes)
  ELSE LET i == HolderOf(ChildSizes(n.kids), Offset)
       IN EraseKids(h, [n EXCEPT !.Size = @ - NumBytes], i,
                    Offset - StartOf(ChildSizes(n.kids), i), NumBytes)

----------------------------------------------------------------------------
(* The tree.                                                               *)

(* A rope is its tree and its heap.                                        *)
Rope(root, heap) == [Root |-> root, leaves |-> heap.leaves, order |-> heap.order]
HeapOf(rope) == [leaves |-> rope.leaves, order |-> rope.order]

(* A new root when the old one was split.                                  *)
GrownRoot(r) ==
  IF r.rhs = None THEN r.node
  ELSE Interior(<<r.node>> \o r.rhs, r.node.Size + r.rhs[1].Size)

assign(text) ==
  Rope(LeafNode(1, Len(text)), [leaves |-> <<<<text>>>>, order |-> <<1>>])

insert(rope, Offset, text) ==
  LET s == Split(HeapOf(rope), rope.Root, Offset)
      r == Insert(s.heap, GrownRoot(s), Offset, text)
  IN Rope(GrownRoot(r), r.heap)

erase(rope, Offset, NumBytes) ==
  LET s == Split(HeapOf(rope), rope.Root, Offset)
      r == Erase(s.heap, GrownRoot(s), Offset, NumBytes)
  IN Rope(GrownRoot(r), r.heap)

----------------------------------------------------------------------------
(* What a rope is.                                                         *)

RECURSIVE Concat(_)
Concat(s) == IF s = <<>> THEN <<>> ELSE Head(s) \o Concat(Tail(s))

RECURSIVE LeavesOf(_)
LeavesOf(n) ==
  IF n.leaf THEN <<n.id>>
  ELSE Concat([k \in 1..Len(n.kids) |-> LeavesOf(n.kids[k])])

RECURSIVE PiecesOf(_, _)
PiecesOf(leaves, ids) ==
  IF ids = <<>> THEN <<>> ELSE Concat(leaves[Head(ids)]) \o PiecesOf(leaves, Tail(ids))

TextOf(rope) == PiecesOf(rope.leaves, LeavesOf(rope.Root))

RECURSIVE Depths(_)
Depths(n) == IF n.leaf THEN {0}
             ELSE UNION {{d + 1 : d \in Depths(n.kids[k])} : k \in 1..Len(n.kids)}

RECURSIVE NodeSound(_, _, _)
NodeSound(leaves, n, isRoot) ==
  /\ n.Size = Len(PiecesOf(leaves, LeavesOf(n)))
  /\ isRoot \/ n.Size > 0
  /\ IF n.leaf THEN Len(leaves[n.id]) <= 2 * WidthFactor
     ELSE Len(n.kids) <= 2 * WidthFactor
  /\ \A k \in 1..Len(n.kids) : NodeSound(leaves, n.kids[k], FALSE)

(* Every node knows the size of its text, none but the root is empty or    *)
(* overfull, and the leaves are equally deep.                              *)
IsSound(rope) ==
  /\ NodeSound(rope.leaves, rope.Root, TRUE)
  /\ \A d, e \in Depths(rope.Root) : d = e

(* The text an iterator reads: from the leftmost leaf along the list.      *)
RECURSIVE Leftmost(_)
Leftmost(n) == IF n.leaf THEN n.id ELSE Leftmost(n.kids[1])

IteratedText(rope) ==
  LET k == SelectInSeq(rope.order, LAMBDA x : x = Leftmost(rope.Root))
  IN PiecesOf(rope.leaves, SubSeq(rope.order, k, Len(rope.order)))
=============================================================================

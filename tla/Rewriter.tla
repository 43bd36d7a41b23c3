------------------------------ MODULE Rewriter ------------------------------
(***************************************************************************)
(* A rewrite buffer (lib/Rewrite/Rewriter.cpp) as it is built: the text in *)
(* a rope (RewriteRope), the deltas in a tree (DeltaTree).  It implements  *)
(* RewriteBuffer, which has a flat string and a map.                       *)
(***************************************************************************)
EXTENDS Integers, Sequences, SequencesExt

CONSTANTS
  Clients,             \* as in RewriteBuffer
  MaxString,
  RopeWidth,           \* the WidthFactors
  DeltaWidth

ASSUME BufferAssumption ==
  /\ \A c \in Clients : {c.Size, c.MaxEdits} \subseteq Nat \ {0} /\ Len(c.plan) \in {0, c.MaxEdits}
  /\ {MaxString, RopeWidth, DeltaWidth} \subseteq Nat \ {0}

VARIABLES
  client,    \* constant during a behaviour
  Buffer,    \* the rope
  Deltas,    \* the root of the tree
  edits,     \* history: the edits that were made
  text, map  \* history: the string and the map that rope and tree stand for

vars == <<client, Buffer, Deltas, edits, text, map>>

Rope == INSTANCE RewriteRope WITH WidthFactor <- RopeWidth
Tree == INSTANCE DeltaTree WITH WidthFactor <- DeltaWidth

Size == client.Size
Offsets == 0..Size - 1
AllOffsets == UNION {0..c.Size - 1 : c \in Clients}

getMappedOffset(OrigOffset, AfterInserts) ==
  OrigOffset + Tree!getDeltaAt(Deltas, IF AfterInserts THEN OrigOffset + 1 ELSE OrigOffset)

(* Mutant: the end of the range is mapped to before the inserted text.     *)
getRangeSize_EndBefore(first, last) ==
  getMappedOffset(last, FALSE) + 1 - getMappedOffset(first, FALSE)

(* The size of the range from one token to another, both inclusive.        *)
getRangeSize(first, last) ==
  getMappedOffset(last, TRUE) + 1 - getMappedOffset(first, FALSE)

(* The string of an edit.                                                  *)
String(len) == [k \in 1..len |-> Size + Len(edits)]

AddDelta(OrigOffset, Change) == Deltas' = Tree!AddDelta(Deltas, OrigOffset, Change)

Log(op, first, last, len) ==
  /\ edits' = Append(edits, [op |-> op, first |-> first, last |-> last, len |-> len,
                             id |-> Size + Len(edits)])
  /\ text' = Rope!TextOf(Buffer')
  /\ map' = Tree!MapOf(Deltas', AllOffsets)
  /\ UNCHANGED client

Insertion(InsertAfter) == IF InsertAfter THEN "insert after" ELSE "insert before"
Insertions == {Insertion(after) : after \in BOOLEAN}

(* What was removed or replaced.                                           *)
Gone == UNION {edits[k].first..edits[k].last :
                 k \in {k \in 1..Len(edits) : edits[k].op \notin Insertions}}

----------------------------------------------------------------------------
(* Initialize: the rope is assigned the text of the file.                  *)
Init ==
  /\ client \in Clients
  /\ Buffer = Rope!assign([k \in 1..Size |-> k - 1])
  /\ Deltas = Tree!Leaf
  /\ edits = <<>>
  /\ text = Rope!TextOf(Buffer)
  /\ map = Tree!MapOf(Deltas, AllOffsets)

(* Mutant: InsertAfter makes no difference.                                *)
InsertText_Before(OrigOffset, len, InsertAfter) ==
  LET RealOffset == getMappedOffset(OrigOffset, FALSE) IN
  /\ RealOffset \in 0..Buffer.Root.Size
  /\ Buffer' = Rope!insert(Buffer, RealOffset, String(len))
  /\ AddDelta(OrigOffset, len)
  /\ Log(Insertion(InsertAfter), OrigOffset, OrigOffset, len)

InsertText(OrigOffset, len, InsertAfter) ==
  LET RealOffset == getMappedOffset(OrigOffset, InsertAfter) IN
  /\ RealOffset \in 0..Buffer.Root.Size
  /\ Buffer' = Rope!insert(Buffer, RealOffset, String(len))
  /\ AddDelta(OrigOffset, len)
  /\ Log(Insertion(InsertAfter), OrigOffset, OrigOffset, len)

(* RemoveText of a range that getRangeSize measured.                       *)
RemoveText(first, last) ==
  LET n == getRangeSize(first, last)
      RealOffset == getMappedOffset(first, TRUE) IN
  /\ (first..last) \cap Gone = {}
  /\ RealOffset + n < Buffer.Root.Size
  /\ Buffer' = Rope!erase(Buffer, RealOffset, n)
  /\ AddDelta(first, -n)
  /\ Log("remove", first, last, 0)

(* ReplaceStmt, and ReplaceText of a range that getRangeSize measured.     *)
(* The whole of a text that has grown a tree is not replaced: its root     *)
(* would be left an interior node without children to insert into.         *)
ReplaceText(first, last, len) ==
  LET n == getRangeSize(first, last)
      RealOffset == getMappedOffset(first, FALSE) IN
  /\ (first..last) \cap Gone = {}
  /\ n < Buffer.Root.Size \/ Buffer.Root.leaf
  /\ Buffer' = Rope!insert(Rope!erase(Buffer, RealOffset, n), RealOffset, String(len))
  /\ IF n # len THEN AddDelta(first, len - n) ELSE UNCHANGED Deltas
  /\ Log("replace", first, last, len)

AnyEdit ==
  \E first \in Offsets :
    \/ \E len \in 1..MaxString, after \in BOOLEAN : InsertText(first, len, after)
    \/ \E last \in first..Size - 1 :
         \/ RemoveText(first, last)
         \/ \E len \in 1..MaxString : ReplaceText(first, last, len)

Next ==
  /\ Len(edits) < client.MaxEdits
  /\ IF client.plan = <<>> THEN AnyEdit
     ELSE InsertText(client.plan[Len(edits) + 1], 1, TRUE)

Spec == Init /\ [][Next]_vars

----------------------------------------------------------------------------
(* Properties.                                                             *)

(* The delta tree is a B-tree whose nodes remember their full delta,       *)
(* whatever the order in which offsets were changed and nodes were split   *)
(* (VerifyTree).                                                           *)
TreeVerified == Tree!IsBTree(Deltas)

(* Every node of the rope knows the size of its text through all splits    *)
(* and erasures and the leaves are equally deep: the offsets that walk     *)
(* down the tree find their piece.                                         *)
RopeSound == Rope!IsSound(Buffer)

(* The rope's list of leaves has the tree's leaves, once each and in       *)
(* order, among those that an erasure lost.                                *)
LeafListInOrder ==
  LET ids == Rope!LeavesOf(Buffer.Root)
  IN SelectSeq(Buffer.order, LAMBDA x : x \in ToSet(ids)) = ids

(* Both B-trees and the list of leaves are sound after any edits: splits   *)
(* that percolate to the root and leaves that an erasure emptied included. *)
StructuresSound == TreeVerified /\ RopeSound /\ LeafListInOrder

Ideal == INSTANCE RewriteBuffer WITH Buffer <- text, deltas <- map

(* The text of the rope and the changes in the tree behave like a flat     *)
(* string and a map under the same edits: insertion and erasure at any     *)
(* offset, and the sums that getDeltaAt takes from full deltas on its way  *)
(* down.                                                                   *)
ImplementsRewriteBuffer == Ideal!Spec

InText == ToSet(text) \cap Offsets

(* The offset of a character of the file that is still there maps to that  *)
(* character: the next edit there finds its place.                         *)
OffsetsMapToTheirText ==
  \A o \in InText :
    LET r == getMappedOffset(o, TRUE) IN r \in 0..Len(text) - 1 /\ text[r + 1] = o

(* An edit removes the characters of its range.                            *)
RangesAreRemoved == InText \cap Gone = {}

(* "Remove the specified text region": what no edit removes stays.  The    *)
(* code breaks it.                                                         *)
OnlyTheRangeIsRemoved == Offsets \ Gone \subseteq InText

(* "The offset in the buffer is specified relative to the original         *)
(* SourceBuffer": the text of an edit lies between what is left of the     *)
(* file before its offset and what is left from its offset on.  The code   *)
(* breaks it.                                                              *)
IsInPlace(k) ==
  \A i, j \in 1..Len(text) :
    text[i] = edits[k].id /\ text[j] \in Offsets => (i < j <=> edits[k].first <= text[j])

EditsAreInPlace == \A k \in 1..Len(edits) : IsInPlace(k)

IsInsertion(k) == edits[k].op \in Insertions

(* A removal that begins where text had been inserted: its size counts     *)
(* that text, and it begins behind it.                                     *)
CountsInsertedText(k) ==
  /\ edits[k].op = "remove"
  /\ \E i \in 1..k - 1 : IsInsertion(i) /\ edits[i].first = edits[k].first

(* An insertion into a range removed or replaced before: its offset maps   *)
(* by the size of that range.                                              *)
LandsInRemoved(k) ==
  IsInsertion(k) /\ \E i \in 1..k - 1 : ~IsInsertion(i) /\ edits[k].first \in edits[i].first..edits[i].last

(* One that is not put before the first character of the range.            *)
LandsBehindRemoved(k) ==
  /\ IsInsertion(k)
  /\ \E i \in 1..k - 1 :
       /\ ~IsInsertion(i) /\ edits[k].first \in edits[i].first..edits[i].last
       /\ edits[k].first = edits[i].first => edits[k].op = Insertion(TRUE)

(* Edits that meet at one offset, in any order, with insertion before or   *)
(* after: each does what it says, where it says, and nothing else, with    *)
(* two exceptions.  A removal that counts inserted text may take           *)
(* characters more, and then those next behind its range.  An insertion    *)
(* into a removed range may land elsewhere, and if it is behind the first  *)
(* offset of the range, what comes after maps elsewhere too.  Edits other  *)
(* than such insertions stay in place even then.                           *)
EditsDoWhatTheySay ==
  /\ \A o \in Offsets \ (Gone \cup InText) :
       \E k \in 1..Len(edits) :
         CountsInsertedText(k) /\ edits[k].last < o /\ edits[k].last..o \cap InText = {}
  /\ \A k \in 1..Len(edits) : IsInPlace(k) \/ LandsInRemoved(k)
  /\ \/ \E k \in 1..Len(edits) : LandsBehindRemoved(k)
     \/ OffsetsMapToTheirText /\ RangesAreRemoved /\ EditsAreInPlace

(* "This class provides read-only forward iteration over bytes that are in *)
(* a RopePieceBTree": no erased text comes back.  The code breaks it.      *)
IterationReadsTheText == Rope!IteratedText(Buffer) = text
=============================================================================

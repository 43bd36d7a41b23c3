---------------------------- MODULE RewriteBuffer ----------------------------
(***************************************************************************)
(* A rewrite buffer (lib/Rewrite/Rewriter.cpp): the text of a file with    *)
(* the edits made so far, and the deltas that map offsets of the original  *)
(* file into it.  The text is a flat string here, and the deltas are a map *)
(* of offsets: what the rope and the tree of Rewriter are shown to be.     *)
(*                                                                         *)
(* A character of the file is its offset; those of the k-th edit's string  *)
(* are Size + k.  Tokens are single characters.  The edits are those of    *)
(* the clients: insertions, and removal or replacement of a range whose    *)
(* size getRangeSize measures.                                             *)
(***************************************************************************)
EXTENDS Integers, Sequences, FiniteSets

CONSTANTS
  Clients,      \* records of the size of a file, a bound on the number of
                \* edits, and the offsets of insertions to make or <<>>
  MaxString     \* a bound on the length of an edit's string

VARIABLES
  client,    \* constant during a behaviour
  Buffer,    \* the text
  deltas,    \* the map behind Deltas
  edits      \* history: the edits that were made

vars == <<client, Buffer, deltas, edits>>

Size == client.Size
Offsets == 0..Size - 1
AllOffsets == UNION {0..c.Size - 1 : c \in Clients}

Deltas == INSTANCE DeltaMap WITH
  Locs <- AllOffsets, Changes <- [o \in AllOffsets |-> Int]

getMappedOffset(OrigOffset, AfterInserts) ==
  OrigOffset + Deltas!getDeltaAt(IF AfterInserts THEN OrigOffset + 1 ELSE OrigOffset)

(* The size of the range from one token to another, both inclusive.        *)
getRangeSize(first, last) ==
  getMappedOffset(last, TRUE) + 1 - getMappedOffset(first, FALSE)

(* The string of an edit.                                                  *)
String(len) == [k \in 1..len |-> Size + Len(edits)]

(* erase and insert of the rope.                                           *)
Spliced(RealOffset, NumBytes, s) ==
  SubSeq(Buffer, 1, RealOffset) \o s \o SubSeq(Buffer, RealOffset + NumBytes + 1, Len(Buffer))

Log(op, first, last, len) ==
  /\ edits' = Append(edits, [op |-> op, first |-> first, last |-> last, len |-> len,
                             id |-> Size + Len(edits)])
  /\ UNCHANGED client

Insertion(InsertAfter) == IF InsertAfter THEN "insert after" ELSE "insert before"
Insertions == {Insertion(after) : after \in BOOLEAN}

(* What was removed or replaced.                                           *)
Gone == UNION {edits[k].first..edits[k].last :
                 k \in {k \in 1..Len(edits) : edits[k].op \notin Insertions}}

----------------------------------------------------------------------------
Init ==
  /\ client \in Clients
  /\ Buffer = [k \in 1..Size |-> k - 1]
  /\ Deltas!Init
  /\ edits = <<>>

InsertText(OrigOffset, len, InsertAfter) ==
  /\ Log(Insertion(InsertAfter), OrigOffset, OrigOffset, len)
  /\ getMappedOffset(OrigOffset, InsertAfter) \in 0..Len(Buffer)
  /\ Buffer' = Spliced(getMappedOffset(OrigOffset, InsertAfter), 0, String(len))
  /\ Deltas!AddDelta(OrigOffset, len)

(* RemoveText of a range that getRangeSize measured.                       *)
RemoveText(first, last) ==
  LET n == getRangeSize(first, last)
      RealOffset == getMappedOffset(first, TRUE)
  IN /\ Log("remove", first, last, 0)
     /\ (first..last) \cap Gone = {}
     /\ RealOffset + n < Len(Buffer)
     /\ Buffer' = Spliced(RealOffset, n, <<>>)
     /\ Deltas!AddDelta(first, -n)

(* ReplaceStmt, and ReplaceText of a range that getRangeSize measured.     *)
ReplaceText(first, last, len) ==
  LET n == getRangeSize(first, last)
      RealOffset == getMappedOffset(first, FALSE)
  IN /\ Log("replace", first, last, len)
     /\ (first..last) \cap Gone = {}
     /\ Buffer' = Spliced(RealOffset, n, String(len))
     /\ IF n # len THEN Deltas!AddDelta(first, len - n) ELSE UNCHANGED deltas

AnyEdit ==
  \E first \in Offsets :
    \/ \E len \in 1..MaxString, after \in BOOLEAN : InsertText(first, len, after)
    \/ \E last \in first..Size - 1 :
         \/ RemoveText(first, last)
         \/ \E len \in 1..MaxString : ReplaceText(first, last, len)

Next ==
  /\ Len(edits) < client.MaxEdits
  /\ IF client.plan = <<>> THEN AnyEdit
     ELSE InsertText(client.plan[Len(edits) + 1], 1, TRUE)

Spec == Init /\ [][Next]_vars
=============================================================================

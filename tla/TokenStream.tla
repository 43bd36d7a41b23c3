---------------------------- MODULE TokenStream ----------------------------
(***************************************************************************)
(* What the Preprocessor promises the parser about lookahead and tentative *)
(* parsing (the comments on LookAhead, EnableBacktrackAtThisPos, Backtrack *)
(* RevertCachedTokens, EnterToken and AnnotateCachedTokens): a stream that *)
(* remembers every token since the oldest backtrack position, except an    *)
(* eof it may lose.                                                        *)
(***************************************************************************)
EXTENDS Integers, SequencesExt

CONSTANTS
  Annot,   \* an annotation token
  Eof      \* the token that ends the stream

VARIABLES
  past,    \* the tokens lexed since the oldest backtrack position
  rest,    \* the tokens still to be lexed
  marks,   \* the backtrack positions, as lengths of past
  answer   \* the token last returned to the client

vars == <<past, rest, marks, answer>>

Init == past = <<>> /\ rest # <<>> /\ marks = <<>>

Lex ==
  /\ rest # <<>>
  /\ answer' = Head(rest)
  /\ rest' = Tail(rest)
  /\ past' = IF marks = <<>> THEN <<>> ELSE Append(past, Head(rest))
  /\ UNCHANGED marks

(* The one token the cache may forget: an eof lexed in a tentative parse   *)
(* is not among the tokens lexed, so going back does not bring it back.    *)
DropEof ==
  /\ marks # <<>> /\ rest = <<Eof>>
  /\ answer' = Eof
  /\ rest' = <<>>
  /\ UNCHANGED <<past, marks>>

LookAhead(N) ==
  /\ answer' = rest[N + 1]
  /\ UNCHANGED <<past, rest, marks>>

EnableBacktrackAtThisPos ==
  /\ marks' = Append(marks, Len(past))
  /\ UNCHANGED <<past, rest, answer>>

CommitBacktrackedTokens ==
  /\ marks # <<>>
  /\ marks' = Front(marks)
  /\ past' = IF marks' = <<>> THEN <<>> ELSE past
  /\ UNCHANGED <<rest, answer>>

(* The tokens after the first n of past are to be lexed again.             *)
RewindTo(n) ==
  /\ past' = SubSeq(past, 1, n)
  /\ rest' = SubSeq(past, n + 1, Len(past)) \o rest
  /\ UNCHANGED answer

Backtrack ==
  /\ marks # <<>>
  /\ marks' = Front(marks)
  /\ RewindTo(Last(marks))

RevertCachedTokens ==
  /\ marks # <<>>
  /\ \E n \in Last(marks)..Len(past) - 1 : RewindTo(n)
  /\ UNCHANGED marks

(* EnterToken and EnterTokenStream: tokens are put in front of the rest;   *)
(* a later Backtrack leaves them where they were inserted.                 *)
EnterTokens ==
  /\ rest' # rest
  /\ IsSuffix(rest, rest')
  /\ UNCHANGED <<past, marks, answer>>

(* The tokens lexed last, not reaching over a backtrack position, become   *)
(* one annotation token.                                                   *)
AnnotateCachedTokens ==
  /\ marks # <<>>
  /\ \E i \in Last(marks) + 1..Len(past) :
       past' = Append(SubSeq(past, 1, i - 1), Annot)
  /\ UNCHANGED <<rest, marks, answer>>

ReplaceLastTokenWithAnnotation ==
  /\ past # <<>>
  /\ past' = Append(Front(past), Annot)
  /\ UNCHANGED <<rest, marks, answer>>

Next ==
  \/ Lex
  \/ DropEof
  \/ \E N \in 0..Len(rest) - 1 : LookAhead(N)
  \/ EnableBacktrackAtThisPos
  \/ CommitBacktrackedTokens
  \/ Backtrack
  \/ RevertCachedTokens
  \/ EnterTokens
  \/ AnnotateCachedTokens
  \/ ReplaceLastTokenWithAnnotation

Spec == Init /\ [][Next]_vars
============================================================================

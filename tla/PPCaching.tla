----------------------------- MODULE PPCaching -----------------------------
(***************************************************************************)
(* The token cache of the Preprocessor (lib/Lex/PPCaching.cpp and the      *)
(* inline methods of Preprocessor.h): lookahead, nested tentative parsing, *)
(* tokens pushed back by the parser, and annotation tokens.                *)
(*                                                                         *)
(* The lexers, macro expanders and token streams on the include stack are  *)
(* one source of tokens, ended by eof.  What matters of the include stack  *)
(* is whether that source is the current lexer, is stacked under the       *)
(* caching level, or is gone after its eof.                                *)
(***************************************************************************)
EXTENDS Integers, SequencesExt

CONSTANTS
  Tokens,         \* ordinary tokens
  Eof,            \* the tok::eof token
  Annot,          \* an annotation token
  NoToken,        \* no token was returned yet
  Sources,        \* the token sequences considered as translation units
  MaxTokens,      \* bound on the tokens cached and to come
  MaxNesting,     \* bound on nested tentative parses
  MaxLookAhead    \* bound on the argument of LookAhead

AnyToken == Tokens \cup {Eof, Annot, NoToken}

ASSUME TokensAssumption ==
  /\ Eof \notin Tokens /\ Annot \notin Tokens /\ NoToken \notin Tokens
  /\ Eof # Annot /\ Eof # NoToken /\ Annot # NoToken

ASSUME SourcesAssumption == Sources \subseteq Seq(Tokens)

ASSUME BoundsAssumption ==
  MaxTokens \in Nat /\ MaxNesting \in Nat /\ MaxLookAhead \in Nat

VARIABLES
  source,              \* what the lexers will deliver, eof included
  lexer,               \* "current", "stacked" or "gone"
  CachedTokens,
  CachedLexPos,        \* the number of cached tokens already lexed
  BacktrackPositions,
  peek,                \* iterations PeekAhead's loop has left, 0 outside
  answer,              \* the token last returned by Lex or LookAhead
  client,              \* "atEof" while the client's current token is eof
  eofDropped           \* history: the eof was lexed and is kept nowhere

vars == <<source, lexer, CachedTokens, CachedLexPos, BacktrackPositions, peek,
          answer, client, eofDropped>>

-----------------------------------------------------------------------------
isBacktrackEnabled == BacktrackPositions # <<>>

(* No lexer is current: also true once the top-level file has ended.       *)
InCachingLexMode(lx) == lx # "current"

EnterCachingLexMode(lx) == IF InCachingLexMode(lx) THEN lx ELSE "stacked"

(* ExitCachingLexMode pops the include stack (RemoveTopOfLexerStack), which *)
(* must not be empty.                                                      *)
CanExitCachingLexMode == InCachingLexMode(lexer) => lexer = "stacked"

(* The lexers after one token was lexed from them: at the eof of the       *)
(* top-level file HandleEndOfFile resets the current lexer.                *)
AfterLex == IF Head(source) = Eof THEN "gone" ELSE "current"

Cached == CachedLexPos < Len(CachedTokens)

Rest == SubSeq(CachedTokens, CachedLexPos + 1, Len(CachedTokens)) \o source

(* The client, given a token.                                              *)
Given(Tok) == IF Tok = Eof THEN "atEof" ELSE "reading"

(* The client may call the Preprocessor; it lexes nothing after the eof.   *)
Idle == peek = 0
Reading == Idle /\ client = "reading"

-----------------------------------------------------------------------------
(* Lex                                                                     *)

LexCurrent ==
  /\ Reading /\ lexer = "current"
  /\ answer' = Head(source)
  /\ source' = Tail(source)
  /\ lexer' = AfterLex
  /\ client' = Given(Head(source))
  /\ UNCHANGED <<CachedTokens, CachedLexPos, BacktrackPositions, peek, eofDropped>>

(* CachingLex, a cached token.                                             *)
LexCached ==
  /\ Reading /\ InCachingLexMode(lexer) /\ Cached
  /\ answer' = CachedTokens[CachedLexPos + 1]
  /\ CachedLexPos' = CachedLexPos + 1
  /\ client' = Given(CachedTokens[CachedLexPos + 1])
  /\ UNCHANGED <<source, lexer, CachedTokens, BacktrackPositions, peek, eofDropped>>

CachingLexMiss ==
  /\ Reading /\ InCachingLexMode(lexer) /\ ~Cached
  /\ CanExitCachingLexMode
  /\ answer' = Head(source)
  /\ source' = Tail(source)
  /\ client' = Given(Head(source))
  /\ UNCHANGED <<BacktrackPositions, peek>>

(* CachingLex, all cached tokens consumed and none to be kept.             *)
LexAndClear ==
  /\ ~isBacktrackEnabled
  /\ CachingLexMiss
  /\ CachedTokens' = <<>>
  /\ CachedLexPos' = 0
  /\ lexer' = AfterLex
  /\ UNCHANGED eofDropped

(* CachingLex while backtracking is enabled: the token is kept, unless it  *)
(* is the eof, which nothing will deliver again.                           *)
LexAndCache ==
  /\ isBacktrackEnabled
  /\ CachingLexMiss
  /\ lexer' = EnterCachingLexMode(AfterLex)
  /\ eofDropped' = (Head(source) = Eof)
  /\ IF Head(source) # Eof
       THEN /\ CachedTokens' = Append(CachedTokens, Head(source))
            /\ CachedLexPos' = CachedLexPos + 1
       ELSE UNCHANGED <<CachedTokens, CachedLexPos>>

-----------------------------------------------------------------------------
(* LookAhead.  The client looks no further than the eof.                   *)

LookAheadCached(N) ==
  /\ Idle /\ CachedLexPos + N < Len(CachedTokens)
  /\ answer' = CachedTokens[CachedLexPos + N + 1]
  /\ UNCHANGED <<source, lexer, CachedTokens, CachedLexPos,
                 BacktrackPositions, peek, client, eofDropped>>

PeekAhead(N) ==
  /\ Reading
  /\ CachedLexPos + N >= Len(CachedTokens) + 1
  /\ N <= Len(Rest)
  /\ CanExitCachingLexMode
  /\ lexer' = "current"
  /\ peek' = CachedLexPos + N - Len(CachedTokens)
  /\ UNCHANGED <<source, CachedTokens, CachedLexPos, BacktrackPositions,
                 answer, client, eofDropped>>

LookAhead(N) == LookAheadCached(N) \/ PeekAhead(N + 1)

(* Mutant: PeekAhead, like CachingLex, does not cache the eof.             *)
PeekStep_DropsEof ==
  /\ peek > 0
  /\ source' = Tail(source)
  /\ CachedTokens' = IF Head(source) = Eof THEN CachedTokens
                     ELSE Append(CachedTokens, Head(source))
  /\ peek' = peek - 1
  /\ lexer' = IF peek = 1 THEN EnterCachingLexMode(AfterLex) ELSE AfterLex
  /\ answer' = IF peek = 1 THEN Head(source) ELSE answer
  /\ UNCHANGED <<CachedLexPos, BacktrackPositions, client, eofDropped>>

(* One iteration of PeekAhead's loop; after the last one the caching mode  *)
(* is entered and the last cached token is returned.                       *)
PeekStep ==
  /\ peek > 0
  /\ source' = Tail(source)
  /\ CachedTokens' = Append(CachedTokens, Head(source))
  /\ peek' = peek - 1
  /\ lexer' = IF peek = 1 THEN EnterCachingLexMode(AfterLex) ELSE AfterLex
  /\ answer' = IF peek = 1 THEN Head(source) ELSE answer
  /\ UNCHANGED <<CachedLexPos, BacktrackPositions, client, eofDropped>>

-----------------------------------------------------------------------------
(* Tentative parsing                                                       *)

EnableBacktrackAtThisPos ==
  /\ Reading
  /\ Len(BacktrackPositions) < MaxNesting
  /\ BacktrackPositions' = Append(BacktrackPositions, CachedLexPos)
  /\ lexer' = EnterCachingLexMode(lexer)
  /\ UNCHANGED <<source, CachedTokens, CachedLexPos, peek, answer, client,
                 eofDropped>>

CommitBacktrackedTokens ==
  /\ Idle /\ isBacktrackEnabled
  /\ BacktrackPositions' = Front(BacktrackPositions)
  /\ UNCHANGED <<source, lexer, CachedTokens, CachedLexPos, peek, answer,
                 client, eofDropped>>

(* TentativeParsingAction::Revert also restores the parser's token.        *)
Backtrack ==
  /\ Idle /\ isBacktrackEnabled
  /\ CachedLexPos' = Last(BacktrackPositions)
  /\ BacktrackPositions' = Front(BacktrackPositions)
  /\ client' = "reading"
  /\ UNCHANGED <<source, lexer, CachedTokens, peek, answer, eofDropped>>

(* The assertions of RevertCachedTokens are its guard.                     *)
RevertCachedTokens(N) ==
  /\ Idle /\ isBacktrackEnabled
  /\ CachedLexPos - N >= Last(BacktrackPositions)
  /\ CachedLexPos' = CachedLexPos - N
  /\ client' = "reading"
  /\ UNCHANGED <<source, lexer, CachedTokens, BacktrackPositions, peek, answer,
                 eofDropped>>

-----------------------------------------------------------------------------
(* Tokens from the client                                                  *)

HasRoom(n) == Len(CachedTokens) + Len(source) + n <= MaxTokens

(* Mutant: the token is put behind the cached ones.                        *)
EnterToken_Behind(Tok) ==
  /\ Idle /\ HasRoom(1)
  /\ IF client = "atEof" THEN Tok = Eof /\ ~isBacktrackEnabled ELSE Tok \in Tokens
  /\ lexer' = EnterCachingLexMode(lexer)
  /\ CachedTokens' = Append(CachedTokens, Tok)
  /\ client' = "reading"
  /\ eofDropped' = (eofDropped /\ Tok # Eof)
  /\ UNCHANGED <<source, CachedLexPos, BacktrackPositions, peek, answer>>

(* The parser pushes its current token back (while parsing tentatively it  *)
(* reverts it instead); only when that is the eof may it be an eof.        *)
EnterToken(Tok) ==
  /\ Idle /\ HasRoom(1)
  /\ IF client = "atEof" THEN Tok = Eof /\ ~isBacktrackEnabled ELSE Tok \in Tokens
  /\ lexer' = EnterCachingLexMode(lexer)
  /\ CachedTokens' = InsertAt(CachedTokens, CachedLexPos + 1, Tok)
  /\ client' = "reading"
  /\ eofDropped' = (eofDropped /\ Tok # Eof)
  /\ UNCHANGED <<source, CachedLexPos, BacktrackPositions, peek, answer>>

(* The parser enters the tokens of a delayed method body with its current  *)
(* token at their end, when it is not in caching mode.                     *)
EnterTokenStream(Toks) ==
  /\ Reading /\ HasRoom(Len(Toks))
  /\ ~InCachingLexMode(lexer)
  /\ source' = Toks \o source
  /\ UNCHANGED <<lexer, CachedTokens, CachedLexPos, BacktrackPositions, peek,
                 answer, client, eofDropped>>

(* The cached tokens from the i-th to the one lexed last are replaced; the *)
(* assertions of AnnotatePreviousCachedTokens are the guard.               *)
AnnotateCachedTokens(i) ==
  /\ Reading /\ isBacktrackEnabled
  /\ Last(BacktrackPositions) < i /\ i <= CachedLexPos
  /\ CachedTokens' =
       SubSeq(CachedTokens, 1, i - 1) \o <<Annot>>
         \o SubSeq(CachedTokens, CachedLexPos + 1, Len(CachedTokens))
  /\ CachedLexPos' = i
  /\ UNCHANGED <<source, lexer, BacktrackPositions, peek, answer, client,
                 eofDropped>>

ReplaceLastTokenWithAnnotation ==
  /\ Reading /\ CachedLexPos # 0 /\ isBacktrackEnabled
  /\ CachedTokens' = ReplaceAt(CachedTokens, CachedLexPos, Annot)
  /\ UNCHANGED <<source, lexer, CachedLexPos, BacktrackPositions, peek, answer,
                 client, eofDropped>>

-----------------------------------------------------------------------------
Init ==
  /\ source \in {Append(s, Eof) : s \in Sources}
  /\ lexer = "current"
  /\ CachedTokens = <<>>
  /\ CachedLexPos = 0
  /\ BacktrackPositions = <<>>
  /\ peek = 0
  /\ answer = NoToken
  /\ client = "reading"
  /\ eofDropped = FALSE

Terminated == client = "atEof" /\ ~isBacktrackEnabled /\ UNCHANGED vars

Next ==
  \/ LexCurrent
  \/ LexCached
  \/ LexAndClear
  \/ LexAndCache
  \/ \E N \in 0..MaxLookAhead : LookAhead(N)
  \/ PeekStep
  \/ EnableBacktrackAtThisPos
  \/ CommitBacktrackedTokens
  \/ Backtrack
  \/ \E N \in 1..CachedLexPos : RevertCachedTokens(N)
  \/ \E Tok \in Tokens \cup {Eof} : EnterToken(Tok)
  \/ \E Toks \in Sources : EnterTokenStream(Toks)
  \/ \E i \in 1..CachedLexPos : AnnotateCachedTokens(i)
  \/ ReplaceLastTokenWithAnnotation
  \/ Terminated

Spec == Init /\ [][Next]_vars

-----------------------------------------------------------------------------
(* Properties                                                              *)

(* Every variable holds a value of its type; the read position is inside   *)
(* the cache, and the backtrack positions are stacked in the order of the  *)
(* stream behind it.                                                       *)
TypeOK ==
  /\ source \in Seq(AnyToken)
  /\ lexer \in {"current", "stacked", "gone"}
  /\ CachedTokens \in Seq(AnyToken)
  /\ CachedLexPos \in 0..Len(CachedTokens)
  /\ BacktrackPositions \in Seq(Nat)
  /\ \A i \in DOMAIN BacktrackPositions :
       /\ BacktrackPositions[i] <= CachedLexPos
       /\ \A j \in 1..i : BacktrackPositions[j] <= BacktrackPositions[i]
  /\ peek \in Nat
  /\ answer \in AnyToken
  /\ client \in {"reading", "atEof"}
  /\ eofDropped \in BOOLEAN

(* As long as the client has not been given the eof, the next token is     *)
(* cached or there is a lexer to take it from: ExitCachingLexMode never    *)
(* pops an empty include stack (assert in RemoveTopOfLexerStack, "Ran out  *)
(* of stack entries to load").  The code breaks it: an eof lexed in a      *)
(* tentative parse is not cached, and after Backtrack nothing delivers it. *)
StackEntryToLoad == Reading => Cached \/ lexer # "gone"

(* That is the only way to run out of entries: a client that is reading    *)
(* and has not lost its eof in a tentative parse has one ahead of it, as   *)
(* the last token, however it looked ahead, backtracked, reverted, pushed  *)
(* back and annotated.                                                     *)
EofAheadUnlessDropped ==
  Reading /\ ~eofDropped => /\ Rest # <<>> /\ Last(Rest) = Eof
                            /\ Cached \/ lexer # "gone"

(* The cache is invisible: lookahead, nested backtracking, reverted and    *)
(* pushed back tokens and annotations behave as the token stream, whose    *)
(* one defect is an eof lexed in a tentative parse (DropEof).              *)
Stream == INSTANCE TokenStream WITH
  past <- IF isBacktrackEnabled
            THEN SubSeq(CachedTokens, BacktrackPositions[1] + 1, CachedLexPos)
            ELSE <<>>,
  rest <- Rest,
  marks <- [i \in DOMAIN BacktrackPositions |->
              BacktrackPositions[i] - BacktrackPositions[1]]

ImplementsTokenStream == Stream!Spec
============================================================================

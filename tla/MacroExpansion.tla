---------------------------- MODULE MacroExpansion ----------------------------
(***************************************************************************)
(* Macro expansion (lib/Lex/PPMacroExpansion.cpp, TokenLexer.cpp and       *)
(* MacroArgs.cpp): a stack of token lexers, the file at the bottom.  A     *)
(* macro is disabled from when its expansion is entered until the end of   *)
(* that expansion is lexed, and a name found while its macro is disabled   *)
(* is painted, so that it never is expanded later.  The arguments of an    *)
(* invocation are read unexpanded from the same stack, which may pop       *)
(* expansions; they are expanded by lexing them from a stream of their     *)
(* own, before the macro is disabled.                                      *)
(*                                                                         *)
(* A token is its spelling and whether it is painted; locations, spaces    *)
(* and comments are left out.  A program is the table of the macros it     *)
(* defines, the text of a file, and what is left of the file that includes *)
(* it.                                                                     *)
(***************************************************************************)
EXTENDS Integers, Sequences, FiniteSets, TLC

CONSTANTS
  Tables,     \* the tables of macros: a function to functions from names
  Keywords,   \* the names that are no identifiers
  Programs    \* records [table, text, includer]

(* A macro has parameters, each of its own name, only when function-like.  *)
ASSUME TablesAssumption ==
  \A t \in DOMAIN Tables : \A m \in DOMAIN Tables[t] :
    LET MI == Tables[t][m] IN
    /\ ~MI.isFunctionLike => MI.params = <<>> /\ ~MI.isVariadic
    /\ MI.isVariadic => MI.params # <<>>
    /\ \A i, j \in DOMAIN MI.params : MI.params[i] = MI.params[j] => i = j

VARIABLES
  program,     \* the program; never changes
  stack,       \* the lexers, the current one first
  disabled,    \* the macros that are disabled
  reading,     \* the invocation whose arguments are being read: none or one
  frames,      \* the expansions being substituted, the innermost first
  output,      \* the tokens that Lex returned to the client
  errors,      \* the diagnostics
  CounterValue \* of __COUNTER__

vars == <<program, stack, disabled, reading, frames, output, errors, CounterValue>>

(***************************************************************************)
(* Tokens and macros.                                                      *)
(***************************************************************************)
Token(id) == [id |-> id, DisableExpand |-> FALSE]
TokensOf(ids) == [i \in DOMAIN ids |-> Token(ids[i])]
Spellings(toks) == [i \in DOMAIN toks |-> toks[i].id]

eof == "eof"
Punctuators == {"(", ")", ",", "+", "/", "#", "##", "unknown", eof}

Macros == Tables[program.table]
getMacroInfo(id) == Macros[id]
HasMacro(id) == id \in DOMAIN Macros
isEnabled(id) == HasMacro(id) /\ id \notin disabled

getArgumentNum(MI, id) ==
  IF \E i \in DOMAIN MI.params : MI.params[i] = id
  THEN CHOOSE i \in DOMAIN MI.params : MI.params[i] = id ELSE 0

(* What the lexer makes of two spellings put together: one token, or the   *)
(* first of several; "//" begins a comment and gives no token at all.      *)
Glued(l, r) ==
  IF l \notin Punctuators /\ r \notin Punctuators THEN [id |-> l \o r, valid |-> TRUE]
  ELSE IF l = "#" /\ r = "#" THEN [id |-> "unknown", valid |-> TRUE]
  ELSE [id |-> IF l = "/" /\ r = "/" THEN eof ELSE l, valid |-> FALSE]

(***************************************************************************)
(* Lexing a token: the tokens of the current lexer with the first of them  *)
(* pasted.  A file is not pasted.                                          *)
(***************************************************************************)
Current == stack[1]
IsFile(L) == L.of = "a file"
isAtEnd(L) == L.toks = <<>>

RECURSIVE PasteTokens(_, _)
PasteTokens(toks, ok) ==
  IF Len(toks) < 3 \/ toks[2].id # "##" THEN [toks |-> toks, ok |-> ok]
  ELSE LET g == Glued(toks[1].id, toks[3].id) IN
       PasteTokens(<<Token(g.id)>> \o SubSeq(toks, IF g.valid THEN 4 ELSE 3, Len(toks)),
                   ok /\ g.valid)

Lexed == IF IsFile(Current) THEN [toks |-> Current.toks, ok |-> TRUE]
         ELSE PasteTokens(Current.toks, TRUE)
Tok == Lexed.toks[1]
AfterTok == [stack EXCEPT ![1].toks = Tail(Lexed.toks)]

PasteDiag == IF Lexed.ok THEN errors ELSE errors \cup {"err_pp_bad_paste"}

(* Is the next token a parenthesis?  Expansions that are at their end are  *)
(* looked through, the end of a file is not.                               *)
isNextPPTokenLParen ==
  LET rest == AfterTok
      Open == {i \in DOMAIN rest : IsFile(rest[i]) \/ ~isAtEnd(rest[i])}
      first == CHOOSE i \in Open : \A j \in Open : i <= j IN
  ~isAtEnd(rest[first]) /\ rest[first].toks[1].id = "("

(***************************************************************************)
(* What the preprocessor is doing: reading the arguments of an invocation, *)
(* substituting arguments, or lexing a token for the client or for the     *)
(* expansion of an argument.                                               *)
(***************************************************************************)
Done == output # <<>> /\ output[Len(output)].id = eof
ReadingArgs == reading # <<>>
Substituting == ~ReadingArgs /\ frames # <<>> /\ frames[1].arg = 0
Lexing == ~ReadingArgs /\ ~Substituting /\ ~Done

(* Lex returns a token to the client, or to getPreExpArgument, which takes *)
(* tokens until the end of the argument and then removes the stream.       *)
Return(tok, st) ==
  IF frames = <<>>
  THEN output' = Append(output, tok) /\ stack' = st /\ UNCHANGED frames
  ELSE /\ UNCHANGED output
       /\ IF tok.id = eof
          THEN stack' = Tail(st) /\ frames' = [frames EXCEPT ![1].arg = 0]
          ELSE /\ stack' = st
               /\ frames' = [frames EXCEPT ![1].PreExp[frames[1].arg] = Append(@, tok)]

(* HandleEndOfTokenLexer, and the end of an included file.                 *)
HandleEndOfTokenLexer ==
  /\ (Lexing \/ ReadingArgs) /\ isAtEnd(Current)
  /\ stack' = Tail(stack)
  /\ disabled' = disabled \ {Current.of}
  /\ UNCHANGED <<program, reading, frames, output, errors, CounterValue>>

(***************************************************************************)
(* Expanding a macro once its arguments are known.                         *)
(***************************************************************************)
isTrivialSingleTokenExpansion(m) ==
  LET MI == getMacroInfo(m) IN
  /\ Len(MI.body) = 1
  /\ isEnabled(MI.body[1]) => MI.body[1] = m
  /\ getArgumentNum(MI, MI.body[1]) = 0

(* A macro with parameters has its arguments substituted first.            *)
EnterMacro(m, Args, elided, st) ==
  LET MI == getMacroInfo(m) IN
  IF MI.params # <<>>
  THEN /\ frames' = <<[macro |-> m, Args |-> Args, elided |-> elided, arg |-> 0,
                       PreExp |-> [n \in DOMAIN MI.params |-> <<>>],
                       expanded |-> {}, rest |-> TokensOf(MI.body),
                       ResultToks |-> <<>>]>> \o frames
       /\ stack' = st /\ UNCHANGED disabled
  ELSE /\ stack' = <<[of |-> m, toks |-> TokensOf(MI.body)]>> \o st
       /\ disabled' = disabled \cup {m}
       /\ UNCHANGED frames

(* HandleMacroExpandedIdentifier from where the arguments were read.       *)
ExpandMacro(m, Args, elided, st) ==
  LET MI == getMacroInfo(m) IN
  IF MI.body = <<>> THEN stack' = st /\ UNCHANGED <<disabled, frames, output>>
  ELSE IF isTrivialSingleTokenExpansion(m)
  THEN /\ Return([id |-> MI.body[1], DisableExpand |-> MI.body[1] = m], st)
       /\ UNCHANGED disabled
  ELSE EnterMacro(m, Args, elided, st) /\ UNCHANGED output

(***************************************************************************)
(* HandleIdentifier, on the token that was lexed.                          *)
(***************************************************************************)
LexToken == Lexing /\ ~isAtEnd(Current)

(* A token that is no macro to expand; a name found while its macro is     *)
(* disabled is painted.                                                    *)
LexUnexpandable ==
  /\ LexToken
  /\ isEnabled(Tok.id) => Tok.DisableExpand
  /\ Return([Tok EXCEPT !.DisableExpand = @ \/ HasMacro(Tok.id)], AfterTok)
  /\ errors' = PasteDiag
  /\ UNCHANGED <<program, disabled, reading, CounterValue>>

Expandable == LexToken /\ ~Tok.DisableExpand /\ isEnabled(Tok.id)

ExpandBuiltinMacro ==
  /\ Expandable /\ getMacroInfo(Tok.id).isBuiltin
  /\ Return(Token(ToString(CounterValue)), AfterTok)
  /\ CounterValue' = CounterValue + 1
  /\ errors' = PasteDiag
  /\ UNCHANGED <<program, disabled, reading>>

ExpandObjectLike ==
  /\ Expandable /\ ~getMacroInfo(Tok.id).isBuiltin /\ ~getMacroInfo(Tok.id).isFunctionLike
  /\ ExpandMacro(Tok.id, <<>>, FALSE, AfterTok)
  /\ errors' = PasteDiag
  /\ UNCHANGED <<program, reading, CounterValue>>

LexFunctionName ==
  /\ Expandable /\ getMacroInfo(Tok.id).isFunctionLike /\ ~isNextPPTokenLParen
  /\ Return(Tok, AfterTok)
  /\ errors' = PasteDiag
  /\ UNCHANGED <<program, disabled, reading, CounterValue>>

(* ReadFunctionLikeMacroArgs begins; the number of arguments that are      *)
(* still expected is unsigned, so it never is 0 for a macro without any.   *)
InvokeFunctionLike ==
  /\ Expandable /\ getMacroInfo(Tok.id).isFunctionLike /\ isNextPPTokenLParen
  /\ reading' = << [macro |-> Tok, open |-> FALSE, NumParens |-> 0, Args |-> << <<>> >>,
                    NumFixedArgsLeft |-> Len(getMacroInfo(Tok.id).params) - 1] >>
  /\ stack' = AfterTok
  /\ errors' = PasteDiag
  /\ UNCHANGED <<program, disabled, frames, output, CounterValue>>

(***************************************************************************)
(* ReadFunctionLikeMacroArgs, one token at a time.                         *)
(***************************************************************************)
ReadToken == ReadingArgs /\ ~isAtEnd(Current)
call == reading[1]
callee == getMacroInfo(call.macro.id)
EndsArgument == Tok.id = "," /\ call.NumParens = 0 /\ call.NumFixedArgsLeft # 0

ReadLParen ==
  /\ ReadToken /\ ~call.open
  /\ reading' = [reading EXCEPT ![1].open = TRUE]
  /\ stack' = AfterTok
  /\ UNCHANGED <<program, disabled, frames, output, errors, CounterValue>>

ReadArgument == ReadToken /\ call.open

(* Mutant: the end of the file is skipped while arguments are read.        *)
UnterminatedInvocation_SkipsEof ==
  /\ ReadArgument /\ Tok.id = eof
  /\ UNCHANGED vars

(* The end of the file, or of the argument that is being expanded, is      *)
(* returned in place of the macro's name.                                  *)
UnterminatedInvocation ==
  /\ ReadArgument /\ Tok.id = eof
  /\ reading' = <<>>
  /\ Return(Tok, AfterTok)
  /\ errors' = PasteDiag \cup {"err_unterm_macro_invoc"}
  /\ UNCHANGED <<program, disabled, CounterValue>>

NextArgument ==
  /\ ReadArgument /\ EndsArgument
  /\ reading' = [reading EXCEPT ![1].Args = Append(@, <<>>), ![1].NumFixedArgsLeft = @ - 1]
  /\ stack' = AfterTok
  /\ errors' = PasteDiag
  /\ UNCHANGED <<program, disabled, frames, output, CounterValue>>

(* The name is returned as it is; what is left of the arguments follows.   *)
TooManyArguments ==
  /\ ReadArgument /\ Tok.id = "," /\ call.NumParens = 0 /\ call.NumFixedArgsLeft = 0
  /\ ~callee.isVariadic
  /\ reading' = <<>>
  /\ Return(call.macro, AfterTok)
  /\ errors' = PasteDiag \cup {"err_too_many_args_in_macro_invoc"}
  /\ UNCHANGED <<program, disabled, CounterValue>>

(* Mutant: a name whose macro is disabled is not painted in an argument.   *)
ArgumentToken_NotPainted == Tok

(* Reading past the end of an expansion enables its macro, so the names    *)
(* that are found before that are painted now; a keyword that names a      *)
(* macro is not.                                                           *)
ArgumentToken ==
  LET identifier == HasMacro(Tok.id) /\ Tok.id \notin Keywords IN
  [Tok EXCEPT !.DisableExpand = @ \/ (identifier /\ ~isEnabled(Tok.id))]

ReadArgumentToken ==
  /\ ReadArgument /\ ~EndsArgument
  /\ Tok.id # eof
  /\ ~(Tok.id = ")" /\ call.NumParens = 0)
  /\ Tok.id = "," /\ call.NumParens = 0 => callee.isVariadic
  /\ reading' = [reading EXCEPT
       ![1].Args[Len(call.Args)] = Append(@, ArgumentToken),
       ![1].NumParens = CASE Tok.id = "(" -> @ + 1 [] Tok.id = ")" -> @ - 1 [] OTHER -> @]
  /\ stack' = AfterTok
  /\ errors' = PasteDiag
  /\ UNCHANGED <<program, disabled, frames, output, CounterValue>>

ClosesInvocation == ReadArgument /\ Tok.id = ")" /\ call.NumParens = 0

(* Only the variable arguments may be missing.                             *)
MissingVarargs == callee.isVariadic /\ Len(call.Args) + 1 = Len(callee.params)

TooFewArguments ==
  /\ ClosesInvocation
  /\ Len(call.Args) < Len(callee.params) /\ ~MissingVarargs
  /\ reading' = <<>>
  /\ Return(call.macro, AfterTok)
  /\ errors' = PasteDiag \cup {"err_too_few_args_in_macro_invoc"}
  /\ UNCHANGED <<program, disabled, CounterValue>>

isVarargsElided ==
  \/ MissingVarargs /\ Len(callee.params) > 1
  \/ callee.isVariadic /\ Len(callee.params) = 1 /\ call.Args = << <<>> >>

CompleteInvocation ==
  /\ ClosesInvocation
  /\ Len(call.Args) < Len(callee.params) => MissingVarargs
  /\ reading' = <<>>
  /\ ExpandMacro(call.macro.id, IF MissingVarargs THEN Append(call.Args, <<>>) ELSE call.Args,
                 isVarargsElided, AfterTok)
  /\ errors' = PasteDiag
  /\ UNCHANGED <<program, CounterValue>>

(***************************************************************************)
(* ExpandFunctionArguments, one token of the macro's body at a time.       *)
(***************************************************************************)
top == frames[1]
MI_ == getMacroInfo(top.macro)
CurTok == top.rest[1]
ArgNo == getArgumentNum(MI_, CurTok.id)
Arg == top.Args[ArgNo]
Body == Substituting /\ top.rest # <<>>

PasteAfter == Len(top.rest) > 1 /\ top.rest[2].id = "##"
PasteBefore == top.ResultToks # <<>> /\ top.ResultToks[Len(top.ResultToks)].id = "##"

DropLast(s, n) == SubSeq(s, 1, Len(s) - n)
EndsWithComma(toks) == toks # <<>> /\ toks[Len(toks)].id = ","
isVarArg == MI_.isVariadic /\ ArgNo = Len(MI_.params)

(* The result so far, and how many tokens of the body were used.           *)
Substitute(result, used) ==
  /\ frames' = [frames EXCEPT ![1].ResultToks = result,
                              ![1].rest = SubSeq(@, used + 1, Len(@))]
  /\ UNCHANGED <<program, stack, disabled, reading, output, errors, CounterValue>>

RECURSIVE Text(_)
Text(toks) == IF toks = <<>> THEN "" ELSE toks[1].id \o Text(Tail(toks))
StringifyArgument(toks) == Token("'" \o Text(toks) \o "'")

SubstituteStringified ==
  /\ Body /\ CurTok.id = "#"
  /\ Substitute(Append(top.ResultToks,
                       StringifyArgument(top.Args[getArgumentNum(MI_, top.rest[2].id)])), 2)

CopyBodyToken ==
  /\ Body /\ CurTok.id # "#" /\ ArgNo = 0
  /\ Substitute(Append(top.ResultToks, CurTok), 1)

UseArgument == Body /\ CurTok.id # "#" /\ ArgNo # 0

ArgNeedsPreexpansion(toks) == \E i \in DOMAIN toks : isEnabled(toks[i].id)

AlreadyExpanded == ArgNo \in top.expanded

(* getPreExpArgument: the argument is lexed from a stream of its own.      *)
PreExpandArgument ==
  /\ UseArgument /\ ~PasteBefore /\ ~PasteAfter
  /\ ArgNeedsPreexpansion(Arg) /\ ~AlreadyExpanded
  /\ frames' = [frames EXCEPT ![1].arg = ArgNo, ![1].expanded = @ \cup {ArgNo}]
  /\ stack' = <<[of |-> "an argument", toks |-> Append(Arg, Token(eof))]>> \o stack
  /\ UNCHANGED <<program, disabled, reading, output, errors, CounterValue>>

(* Mutant: what the argument expanded to is not kept for its next use.     *)
SubstituteExpanded_Forgets ==
  /\ UseArgument /\ ~PasteBefore /\ ~PasteAfter
  /\ ArgNeedsPreexpansion(Arg) => AlreadyExpanded
  /\ frames' = [frames EXCEPT
       ![1].ResultToks = @ \o IF ArgNeedsPreexpansion(Arg) THEN top.PreExp[ArgNo] ELSE Arg,
       ![1].rest = Tail(@), ![1].expanded = {}, ![1].PreExp[ArgNo] = <<>>]
  /\ UNCHANGED <<program, stack, disabled, reading, output, errors, CounterValue>>

SubstituteExpanded ==
  /\ UseArgument /\ ~PasteBefore /\ ~PasteAfter
  /\ ArgNeedsPreexpansion(Arg) => AlreadyExpanded
  /\ Substitute(top.ResultToks \o
       (IF ArgNeedsPreexpansion(Arg) THEN top.PreExp[ArgNo] ELSE Arg), 1)

(* An operand of ## is substituted as it is; "## __VA_ARGS__" after a      *)
(* comma is no paste.                                                      *)
SubstituteOperand ==
  /\ UseArgument /\ Arg # <<>>
  /\ ~PasteBefore => PasteAfter
  /\ LET commaPaste == PasteBefore /\ isVarArg /\ EndsWithComma(DropLast(top.ResultToks, 1)) IN
     Substitute((IF commaPaste THEN DropLast(top.ResultToks, 1) ELSE top.ResultToks) \o Arg, 1)

(* An empty operand takes the ## with it.                                  *)
SkipEmptyLHS ==
  /\ UseArgument /\ Arg = <<>> /\ PasteAfter
  /\ Substitute(top.ResultToks, 2)

WithoutEmptyRHS ==
  LET kept == DropLast(top.ResultToks, 1) IN
  IF isVarArg /\ top.elided /\ EndsWithComma(kept) THEN DropLast(kept, 1) ELSE kept

SkipEmptyRHS ==
  /\ UseArgument /\ Arg = <<>> /\ PasteBefore /\ ~PasteAfter
  /\ Substitute(WithoutEmptyRHS, 1)

(* Init ends: the macro is disabled and its expansion is the lexer.        *)
FinishSubstitution ==
  /\ Substituting /\ top.rest = <<>>
  /\ frames' = Tail(frames)
  /\ stack' = <<[of |-> top.macro, toks |-> top.ResultToks]>> \o stack
  /\ disabled' = disabled \cup {top.macro}
  /\ UNCHANGED <<program, reading, output, errors, CounterValue>>

(***************************************************************************)
(* The specification.                                                      *)
(***************************************************************************)
AFile(toks) == [of |-> "a file", toks |-> toks]

Init ==
  /\ program \in Programs
  /\ stack = LET main == AFile(Append(TokensOf(program.includer), Token(eof))) IN
             IF program.text = <<>> THEN <<main>>
             ELSE <<AFile(TokensOf(program.text)), main>>
  /\ disabled = {} /\ reading = <<>> /\ frames = <<>>
  /\ output = <<>> /\ errors = {} /\ CounterValue = 0

Next ==
  \/ HandleEndOfTokenLexer
  \/ LexUnexpandable
  \/ ExpandBuiltinMacro
  \/ ExpandObjectLike
  \/ LexFunctionName
  \/ InvokeFunctionLike
  \/ ReadLParen
  \/ UnterminatedInvocation
  \/ NextArgument
  \/ TooManyArguments
  \/ ReadArgumentToken
  \/ TooFewArguments
  \/ CompleteInvocation
  \/ SubstituteStringified
  \/ CopyBodyToken
  \/ PreExpandArgument
  \/ SubstituteExpanded
  \/ SubstituteOperand
  \/ SkipEmptyLHS
  \/ SkipEmptyRHS
  \/ FinishSubstitution

Spec == Init /\ [][Next]_vars /\ WF_vars(Next)

(***************************************************************************)
(* Properties.                                                             *)
(***************************************************************************)
GluedSpelling(l, r) == Glued(l, r).id
Standard == INSTANCE MacroReference WITH Glue <- GluedSpelling

(* The state has its types; what a frame expands next are known parameters.*)
TypeOK ==
  /\ program.table \in DOMAIN Tables
  /\ disabled \subseteq DOMAIN Macros
  /\ stack # <<>> /\ IsFile(stack[Len(stack)])
  /\ Len(reading) <= 1
  /\ ReadingArgs => getMacroInfo(call.macro.id).isFunctionLike
  /\ \A i \in DOMAIN frames :
       /\ getMacroInfo(frames[i].macro).params # <<>>
       /\ frames[i].expanded \subseteq DOMAIN frames[i].PreExp
       /\ i > 1 => frames[i].arg # 0
  /\ CounterValue \in Nat

(* The asserts of EnableMacro and DisableMacro (MacroInfo.h:196): the      *)
(* macros that are disabled are those whose expansion is on the stack, and *)
(* none is there twice, whatever arguments were read past the end of       *)
(* expansions or expanded in between.                                      *)
DisabledAreThoseOnTheStack ==
  LET expansions == {i \in DOMAIN stack : HasMacro(stack[i].of)} IN
  /\ disabled = {stack[i].of : i \in expansions}
  /\ \A i, j \in expansions : stack[i].of = stack[j].of => i = j

(* What the client got is what the standard says the text expands to,      *)
(* when there was no error and no builtin macro (the file that is included *)
(* on its own: C99 5.1.1.2p4, quoted by isNextPPTokenLParen).              *)
ExpandsAsTheStandardSays ==
  Done /\ errors = {} /\ (\A m \in DOMAIN Macros : ~getMacroInfo(m).isBuiltin) =>
    Spellings(DropLast(output, 1)) =
      Standard!Expansion(Macros, program.text)
        \o Standard!Expansion(Macros, program.includer)

Occurrences(id, ids) == Cardinality({i \in DOMAIN ids : ids[i] = id})

(* getPreExpArgument keeps what it computed: however often a body uses an  *)
(* argument, __COUNTER__ in it counts once (in programs whose macros do    *)
(* not use __COUNTER__ themselves).                                        *)
ArgumentsAreExpandedOnce ==
  CounterValue <= Occurrences("__COUNTER__", program.text \o program.includer)

(* Expansion ends, for macros that use themselves and each other.          *)
Terminates == <>Done

(* The assert of PasteTokens (TokenLexer.cpp:363): a ## has a token behind *)
(* it in the expansion it is in.                                           *)
PasteHasRHS ==
  \A i \in DOMAIN stack :
    ~IsFile(stack[i]) /\ Len(stack[i].toks) > 1 =>
      stack[i].toks[Len(stack[i].toks)].id # "##"

(* PasteTokens (TokenLexer.cpp:435): a paste that gives no token leaves    *)
(* both, so that the end of the file is returned at the end of the file.   *)
EofIsTheEndOfTheFile ==
  Done => Len(stack) = 1 /\ isAtEnd(Current)

(* ReadFunctionLikeMacroArgs (PPMacroExpansion.cpp:329): an invocation of  *)
(* a macro that is not variadic never reads more arguments than it has     *)
(* parameters, but for the empty argument of one that has none.            *)
NoMoreArgumentsThanParameters ==
  ReadingArgs /\ ~callee.isVariadic =>
    \/ Len(call.Args) <= Len(callee.params)
    \/ call.Args = << <<>> >>
=============================================================================

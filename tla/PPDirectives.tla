--------------------------- MODULE PPDirectives ---------------------------
(***************************************************************************)
(* Directive handling of the preprocessor: the conditional stack of each   *)
(* lexer (#if/#ifdef/#ifndef/#elif/#else/#endif and the loop that skips    *)
(* excluded blocks), #define/#undef, #include/#import/#pragma once with    *)
(* the include stack and the per-file information of HeaderSearch, and the *)
(* multiple-include optimisation.                                          *)
(*                                                                         *)
(* A file is a sequence of logical lines; one step consumes one line (or   *)
(* reaches the end of a file).  The text of a line is abstracted to what   *)
(* the directive handlers tell apart.                                      *)
(***************************************************************************)
EXTENDS Integers, SequencesExt, MultipleIncludeOpt

CONSTANTS
  Files,       \* files with a FileEntry: the main file and the headers
  MainFile,    \* the file given to EnterMainSourceFile
  Predefines,  \* the <built-in> buffer: a FileID without a FileEntry
  NoFile,      \* a header name LookupFile does not find
  Bodies,      \* the replacement lists, each read as a condition
  NoBody,      \* the null MacroInfo pointer
  Contents,    \* the texts considered: functions from buffers to lines
  MaxAllowedIncludeStackDepth

-----------------------------------------------------------------------------
(* Lines                                                                   *)

Buffers == Files \cup {Predefines}

(* "lit" is a constant or malformed expression; "macro" is an object-like  *)
(* macro name standing for the whole expression.                           *)
PlainCond == [op : {"lit"}, val : BOOLEAN]
             \cup [op : {"defined", "notdefined"}, macro : Macros]

Cond == PlainCond \cup [op : {"macro"}, macro : Macros]

(* "token": tokens that are no macro names; "use": a macro name in text;   *)
(* "other": directives that change none of the state below (#line, #error, *)
(* #ident, malformed and null directives).  NoMacro as the name of an      *)
(* #ifdef/#ifndef is a missing or invalid macro name.                      *)
Line == [op : {"token", "else", "endif", "pragma_once", "other"}]
        \cup [op : {"use", "undef"}, macro : Macros]
        \cup [op : {"define"}, macro : Macros, body : Bodies]
        \cup [op : {"ifdef", "ifndef"}, macro : Macros \cup {NoMacro}]
        \cup [op : {"if", "elif"}, cond : Cond]
        \cup [op : {"include", "import"}, file : Files \cup {NoFile}]

ASSUME FilesAssumption ==
  /\ MainFile \in Files
  /\ Predefines \notin Files
  /\ NoFile \notin Files

ASSUME BodiesAssumption == Bodies \subseteq PlainCond /\ NoBody \notin Bodies

ASSUME ContentsAssumption ==
  \A c \in Contents :
    /\ c \in [Buffers -> Seq(Line)]
    /\ \A i \in DOMAIN c[Predefines] : c[Predefines][i].op # "pragma_once"

ASSUME DepthAssumption == MaxAllowedIncludeStackDepth \in Nat \ {0, 1}

VARIABLES
  content,            \* rigid: the text of every buffer
  CurPPLexer,         \* the lexer of the buffer being read
  IncludeMacroStack,  \* the suspended lexers of the #includers
  macros,             \* the definition of every identifier, or NoBody
  FileInfo,           \* HeaderSearch::FileInfo
  eof,                \* the end of the main file was returned to the client
  entered             \* history: how often each file was entered

vars == <<content, CurPPLexer, IncludeMacroStack, macros, FileInfo, eof,
          entered>>

-----------------------------------------------------------------------------
Definitions == [Macros -> Bodies \cup {NoBody}]

hasMacroDefinition(m, defs) == defs[m] # NoBody

(* A lexer: its buffer and position, conditional stack and mode.  "env" is *)
(* history: the definitions in force when each line so far was read.       *)

CondInfo == [IfLoc : Nat, WasSkipping : BOOLEAN, FoundNonSkip : BOOLEAN,
             FoundElse : BOOLEAN]

Lexer == [file : Buffers, pos : Nat, ConditionalStack : Seq(CondInfo),
          LexingRawMode : BOOLEAN, MIOpt : MIOptState,
          env : Seq(Definitions)]

NewLexer(f) ==
  [file |-> f, pos |-> 0, ConditionalStack |-> <<>>, LexingRawMode |-> FALSE,
   MIOpt |-> InitialMIOpt, env |-> <<>>]

(* NumIncludes is an unsigned short.                                       *)
NumIncludesModulus == 65536

PerFileInfo == [isImport : BOOLEAN, NumIncludes : 0..NumIncludesModulus - 1,
                ControllingMacro : Macros \cup {NoMacro}]

text == content[CurPPLexer.file]
AtEnd == CurPPLexer.pos = Len(text)
line == text[CurPPLexer.pos + 1]
depth == Len(CurPPLexer.ConditionalStack)

Live(ops) == ~eof /\ ~AtEnd /\ ~CurPPLexer.LexingRawMode /\ line.op \in ops
Skipping(ops) == ~eof /\ ~AtEnd /\ CurPPLexer.LexingRawMode /\ line.op \in ops

(* The current lexer after all tokens of the line, its eom included, were  *)
(* lexed: each of them is reported to MIOpt, in raw mode too.              *)
LineRead == [CurPPLexer EXCEPT !.pos = @ + 1,
                               !.MIOpt = ReadToken(@),
                               !.env = Append(@, macros)]

TellMIOpt(lx, mi) == [lx EXCEPT !.MIOpt = mi]

IfExpanded(lx, yes) ==
  IF yes THEN TellMIOpt(lx, ExpandedMacro(lx.MIOpt)) ELSE lx

pushConditionalLevel(lx, loc, skipping, nonskip, fndelse) ==
  [lx EXCEPT !.ConditionalStack =
     Append(@, [IfLoc |-> loc, WasSkipping |-> skipping,
                FoundNonSkip |-> nonskip, FoundElse |-> fndelse])]

popConditionalLevel(lx) ==
  [lx EXCEPT !.ConditionalStack = Front(@)]

peekConditionalLevel(lx) == Last(lx.ConditionalStack)

(* The entry half of SkipExcludedConditionalBlock; its loop is the Skip*   *)
(* actions.                                                                *)
SkipExcludedConditionalBlock(lx, loc, nonskip, fndelse) ==
  [pushConditionalLevel(lx, loc, FALSE, nonskip, fndelse)
     EXCEPT !.LexingRawMode = TRUE]

(* Only the current lexer changes.                                         *)
SetLexer(lx) ==
  /\ CurPPLexer' = lx
  /\ UNCHANGED <<content, IncludeMacroStack, macros, FileInfo, eof, entered>>

-----------------------------------------------------------------------------
(* Conditions                                                              *)

Expansion(c, defs) ==
  IF c.op # "macro" THEN c
  ELSE IF hasMacroDefinition(c.macro, defs) THEN defs[c.macro]
  ELSE [op |-> "lit", val |-> FALSE]

Value(c, defs) ==
  CASE c.op = "lit"        -> c.val
    [] c.op = "defined"    -> hasMacroDefinition(c.macro, defs)
    [] c.op = "notdefined" -> ~hasMacroDefinition(c.macro, defs)

EvaluateDirectiveExpression(c, defs) ==
  LET e == Expansion(c, defs)
  IN  [ConditionalTrue |-> Value(e, defs),
       IfNDefMacro |-> IF e.op = "notdefined" THEN e.macro ELSE NoMacro,
       expanded |-> c.op = "macro" /\ hasMacroDefinition(c.macro, defs)]

-----------------------------------------------------------------------------
(* Text and directives outside skipped blocks                              *)

LexToken == Live({"token"}) /\ SetLexer(LineRead)

LexMacroUse ==
  /\ Live({"use"})
  /\ SetLexer(IfExpanded(LineRead, hasMacroDefinition(line.macro, macros)))

HandleOtherDirective == Live({"other"}) /\ SetLexer(LineRead)

HandleDefineDirective ==
  /\ Live({"define"})
  /\ CurPPLexer' = LineRead
  /\ macros' = [macros EXCEPT ![line.macro] = line.body]
  /\ UNCHANGED <<content, IncludeMacroStack, FileInfo, eof, entered>>

HandleUndefDirective ==
  /\ Live({"undef"})
  /\ CurPPLexer' = LineRead
  /\ macros' = [macros EXCEPT ![line.macro] = NoBody]
  /\ UNCHANGED <<content, IncludeMacroStack, FileInfo, eof, entered>>

(* Enter the block of a #if-like directive, or start to skip it.           *)
OpenConditional(lx, enter) ==
  IF enter THEN pushConditionalLevel(lx, lx.pos, FALSE, TRUE, FALSE)
           ELSE SkipExcludedConditionalBlock(lx, lx.pos, FALSE, FALSE)

HandleIfdefDirective ==
  /\ Live({"ifdef", "ifndef"})
  /\ LET isIfndef == line.op = "ifndef"
         ReadAnyTokensBeforeDirective ==
           isIfndef => CurPPLexer.MIOpt.ReadAnyTokens
         told == IF ReadAnyTokensBeforeDirective
                   THEN EnterTopLevelConditional(LineRead.MIOpt)
                   ELSE EnterTopLevelIFNDEF(LineRead.MIOpt, line.macro)
         informed == IF depth = 0 THEN TellMIOpt(LineRead, told) ELSE LineRead
     IN  SetLexer(IF line.macro = NoMacro
                    THEN SkipExcludedConditionalBlock(
                           LineRead, LineRead.pos, FALSE, FALSE)
                    ELSE OpenConditional(
                           informed,
                           hasMacroDefinition(line.macro, macros) # isIfndef))

HandleIfDirective ==
  /\ Live({"if"})
  /\ LET result == EvaluateDirectiveExpression(line.cond, macros)
         read == IfExpanded(LineRead, result.expanded)
         told == IF CurPPLexer.MIOpt.ReadAnyTokens
                      \/ result.IfNDefMacro = NoMacro
                   THEN EnterTopLevelConditional(read.MIOpt)
                   ELSE EnterTopLevelIFNDEF(read.MIOpt, result.IfNDefMacro)
         informed == IF depth = 0 THEN TellMIOpt(read, told) ELSE read
     IN  SetLexer(OpenConditional(informed, result.ConditionalTrue))

HandleEndifDirective ==
  /\ Live({"endif"})
  /\ LET popped == popConditionalLevel(LineRead)
     IN  SetLexer(CASE depth = 0 -> LineRead  \* err_pp_endif_without_if
                    [] depth = 1 ->
                         TellMIOpt(popped,
                                   ExitTopLevelConditional(popped.MIOpt))
                    [] depth > 1 -> popped)

(* The block before a live #else or #elif was entered: skip the rest.      *)
SkipRestOfConditional(fndelse) ==
  LET CI == peekConditionalLevel(CurPPLexer)
      popped == popConditionalLevel(LineRead)
      informed ==
        IF depth = 1
          THEN TellMIOpt(popped, EnterTopLevelConditional(popped.MIOpt))
          ELSE popped
  IN  SkipExcludedConditionalBlock(informed, CI.IfLoc, TRUE, fndelse)

HandleElseDirective ==
  /\ Live({"else"})
  /\ SetLexer(IF depth = 0 THEN LineRead      \* pp_err_else_without_if
                           ELSE SkipRestOfConditional(TRUE))

HandleElifDirective ==
  /\ Live({"elif"})
  /\ SetLexer(IF depth = 0
                THEN LineRead                 \* pp_err_elif_without_if
                ELSE SkipRestOfConditional(
                       peekConditionalLevel(CurPPLexer).FoundElse))

-----------------------------------------------------------------------------
(* The loop of SkipExcludedConditionalBlock                                *)

top == peekConditionalLevel(CurPPLexer)

SetTop(lx, info) ==
  [lx EXCEPT !.ConditionalStack = Append(Front(@), info)]

SkipLine ==
  /\ Skipping({"token", "use", "other", "define", "undef", "include",
               "import", "pragma_once"})
  /\ SetLexer(LineRead)

(* Mutant: a nested #if is pushed as if it were entered while live.        *)
SkipNestedIf_PushedAsLive ==
  /\ Skipping({"if", "ifdef", "ifndef"})
  /\ SetLexer(pushConditionalLevel(LineRead, LineRead.pos, FALSE, FALSE, FALSE))

SkipNestedIf ==
  /\ Skipping({"if", "ifdef", "ifndef"})
  /\ SetLexer(pushConditionalLevel(LineRead, LineRead.pos, TRUE, FALSE, FALSE))

SkipEndif ==
  /\ Skipping({"endif"})
  /\ SetLexer([popConditionalLevel(LineRead)
                 EXCEPT !.LexingRawMode = top.WasSkipping])

(* Mutant: an #else is entered although an earlier block was.              *)
SkipElse_EntersSecondBlock ==
  /\ Skipping({"else"})
  /\ SetLexer([SetTop(LineRead, [top EXCEPT !.FoundElse = TRUE,
                                            !.FoundNonSkip = TRUE])
                 EXCEPT !.LexingRawMode = top.WasSkipping])

SkipElse ==
  /\ Skipping({"else"})
  /\ LET enter == ~top.WasSkipping /\ ~top.FoundNonSkip
     IN  SetLexer([SetTop(LineRead,
                          [top EXCEPT !.FoundElse = TRUE,
                                      !.FoundNonSkip = @ \/ enter])
                     EXCEPT !.LexingRawMode = ~enter])

SkipElif ==
  /\ Skipping({"elif"})
  /\ LET examined == ~top.WasSkipping /\ ~top.FoundNonSkip
         result == EvaluateDirectiveExpression(line.cond, macros)
         ShouldEnter == examined /\ result.ConditionalTrue
     IN  SetLexer([SetTop(IfExpanded(LineRead, examined /\ result.expanded),
                          [top EXCEPT !.FoundNonSkip = @ \/ ShouldEnter])
                     EXCEPT !.LexingRawMode = ~ShouldEnter])

(* Mutant: raw mode is left on.                                            *)
SkipEndOfFile_StaysRaw ==
  /\ ~eof /\ AtEnd /\ CurPPLexer.LexingRawMode
  /\ SetLexer([CurPPLexer EXCEPT !.ConditionalStack = <<>>])

(* The end of the buffer inside a skipped block: every open conditional is *)
(* reported as unterminated and popped.                                    *)
SkipEndOfFile ==
  /\ ~eof /\ AtEnd /\ CurPPLexer.LexingRawMode
  /\ SetLexer([CurPPLexer EXCEPT !.ConditionalStack = <<>>,
                                 !.LexingRawMode = FALSE])

-----------------------------------------------------------------------------
(* Inclusion                                                               *)

(* Mutant: only #import asks whether the file was seen before.             *)
ShouldEnterIncludeFile_ForgetsImport(info, isImport) ==
  LET marked == [info EXCEPT !.isImport = @ \/ isImport]
      refused == \/ isImport /\ info.NumIncludes # 0
                 \/ /\ info.ControllingMacro # NoMacro
                    /\ hasMacroDefinition(info.ControllingMacro, macros)
  IN  [enter |-> ~refused,
       info |-> IF refused THEN marked
                ELSE [marked EXCEPT
                        !.NumIncludes = (@ + 1) % NumIncludesModulus]]

(* What ShouldEnterIncludeFile answers and what it leaves in FileInfo.     *)
ShouldEnterIncludeFile(info, isImport) ==
  LET marked == [info EXCEPT !.isImport = @ \/ isImport]
      refused == \/ IF isImport THEN info.NumIncludes # 0 ELSE info.isImport
                 \/ /\ info.ControllingMacro # NoMacro
                    /\ hasMacroDefinition(info.ControllingMacro, macros)
  IN  [enter |-> ~refused,
       info |-> IF refused THEN marked
                ELSE [marked EXCEPT
                        !.NumIncludes = (@ + 1) % NumIncludesModulus]]

EnterSourceFile(f, includer) ==
  /\ IncludeMacroStack' = Append(IncludeMacroStack, includer)
  /\ CurPPLexer' = NewLexer(f)
  /\ entered' = [entered EXCEPT ![f] = @ + 1]

(* Mutant: the limit is off by one.                                        *)
IncludeRefused_OneTooMany ==
  \/ Len(IncludeMacroStack) = MaxAllowedIncludeStackDepth
  \/ line.file \notin Files

(* err_pp_include_too_deep, and err_pp_file_not_found                      *)
IncludeRefused ==
  \/ Len(IncludeMacroStack) = MaxAllowedIncludeStackDepth - 1
  \/ line.file \notin Files

(* The FileID made for a file that was found is never the invalid one: that *)
(* is the first entry of the source manager, which is a dummy.             *)
HandleIncludeDirective(isImport) ==
  /\ Live(IF isImport THEN {"import"} ELSE {"include"})
  /\ \/ IncludeRefused /\ SetLexer(LineRead)
     \/ /\ ~IncludeRefused
        /\ LET answer == ShouldEnterIncludeFile(FileInfo[line.file], isImport)
           IN  /\ FileInfo' = [FileInfo EXCEPT ![line.file] = answer.info]
               /\ \/ /\ answer.enter
                     /\ EnterSourceFile(line.file, LineRead)
                  \/ /\ ~answer.enter
                     /\ CurPPLexer' = LineRead
                     /\ UNCHANGED <<IncludeMacroStack, entered>>
        /\ UNCHANGED <<content, macros, eof>>

HandleImportDirective == HandleIncludeDirective(TRUE)

isInPrimaryFile == IncludeMacroStack = <<>>

HandlePragmaOnce ==
  /\ Live({"pragma_once"})
  /\ CurPPLexer' = LineRead
  /\ FileInfo' = IF isInPrimaryFile THEN FileInfo
                 ELSE [FileInfo EXCEPT ![CurPPLexer.file].isImport = TRUE]
  /\ UNCHANGED <<content, IncludeMacroStack, macros, eof, entered>>

(* LexEndOfFile drops the open conditionals, HandleEndOfFile records the   *)
(* controlling macro and returns to the #includer or ends the translation  *)
(* unit.                                                                   *)
HandleEndOfFile ==
  /\ ~eof /\ AtEnd /\ ~CurPPLexer.LexingRawMode
  /\ LET macro == GetControllingMacroAtEndOfFile(CurPPLexer.MIOpt)
     IN  FileInfo' =
           IF macro # NoMacro /\ CurPPLexer.file \in Files
             THEN [FileInfo EXCEPT ![CurPPLexer.file].ControllingMacro = macro]
             ELSE FileInfo
  /\ IF IncludeMacroStack # <<>>
       THEN /\ CurPPLexer' = Last(IncludeMacroStack)
            /\ IncludeMacroStack' = Front(IncludeMacroStack)
            /\ UNCHANGED eof
       ELSE /\ eof' = TRUE
            /\ CurPPLexer' = [CurPPLexer EXCEPT !.ConditionalStack = <<>>]
            /\ UNCHANGED IncludeMacroStack
  /\ UNCHANGED <<content, macros, entered>>

-----------------------------------------------------------------------------
(* EnterMainSourceFile: the main file is entered and counted as included,  *)
(* then the predefines buffer is entered on top of it.                     *)
Init ==
  /\ content \in Contents
  /\ CurPPLexer = NewLexer(Predefines)
  /\ IncludeMacroStack = <<NewLexer(MainFile)>>
  /\ macros = [m \in Macros |-> NoBody]
  /\ FileInfo = [f \in Files |->
                   [isImport |-> FALSE,
                    NumIncludes |-> IF f = MainFile THEN 1 ELSE 0,
                    ControllingMacro |-> NoMacro]]
  /\ eof = FALSE
  /\ entered = [f \in Files |-> IF f = MainFile THEN 1 ELSE 0]

Terminated == eof /\ UNCHANGED vars

Next ==
  \/ LexToken
  \/ LexMacroUse
  \/ HandleOtherDirective
  \/ HandleDefineDirective
  \/ HandleUndefDirective
  \/ HandleIfdefDirective
  \/ HandleIfDirective
  \/ HandleEndifDirective
  \/ HandleElseDirective
  \/ HandleElifDirective
  \/ SkipLine
  \/ SkipNestedIf
  \/ SkipEndif
  \/ SkipElse
  \/ SkipElif
  \/ SkipEndOfFile
  \/ HandleIncludeDirective(FALSE)
  \/ HandleImportDirective
  \/ HandlePragmaOnce
  \/ HandleEndOfFile
  \/ Terminated

Spec == Init /\ [][Next]_vars

(* The client calls Preprocessor::Lex until it is given the eof token.     *)
FairSpec == Spec /\ WF_vars(Next)

-----------------------------------------------------------------------------
(* The reference: C99 6.10.1 group selection, stated on the whole text c   *)
(* of a buffer, when line i was read with the macros env[i] defined.       *)

Openers == {"if", "ifdef", "ifndef"}

Balance(c, from, to) ==
  Cardinality({i \in from..to : c[i].op \in Openers})
    - Cardinality({i \in from..to : c[i].op = "endif"})

(* The #if on line o has no matching #endif before line i.                 *)
Encloses(c, o, i) ==
  /\ c[o].op \in Openers
  /\ \A k \in o..i - 1 : Balance(c, o, k) > 0

EnclosingOpeners(c, i) == {o \in 1..i - 1 : Encloses(c, o, i)}

(* The #if on line o and its #elif and #else lines before line i.          *)
GroupHeads(c, o, i) ==
  {o} \cup {j \in o + 1..i - 1 : /\ c[j].op \in {"elif", "else"}
                                /\ Encloses(c, o, j)
                                /\ Balance(c, o, j - 1) = 1}

HeadIsTrue(l, defs) ==
  CASE l.op = "else" -> TRUE
    [] l.op \in {"if", "elif"} -> Value(Expansion(l.cond, defs), defs)
    [] l.op = "ifdef" -> l.macro # NoMacro /\ hasMacroDefinition(l.macro, defs)
    [] l.op = "ifndef" -> l.macro # NoMacro /\ ~hasMacroDefinition(l.macro, defs)

(* Line i is in the first true group of every #if section around it.       *)
IsActive(c, env, i) ==
  \A o \in EnclosingOpeners(c, i) :
    LET heads == GroupHeads(c, o, i)
    IN  \A j \in heads : HeadIsTrue(c[j], env[j]) = (j = Max(heads))

(* Line i has an effect on the translation when it is active.              *)
HasEffect(l) == l.op \notin Openers \cup {"elif", "else", "endif"}

(* Including the text c while the definitions are defs has an effect.      *)
IncludeHasEffect(c, defs) ==
  \E i \in DOMAIN c : HasEffect(c[i]) /\ IsActive(c, [j \in DOMAIN c |-> defs], i)

-----------------------------------------------------------------------------
(* Properties                                                              *)

Lexers == {CurPPLexer} \cup {IncludeMacroStack[i] : i \in DOMAIN IncludeMacroStack}

InsideBuffer(lx) == lx.pos <= Len(content[lx.file]) /\ Len(lx.env) = lx.pos

(* Every variable holds a value of its type; the position of every lexer   *)
(* stays inside its buffer.                                                *)
TypeOK ==
  /\ content \in [Buffers -> Seq(Line)]
  /\ CurPPLexer \in Lexer
  /\ IncludeMacroStack \in Seq(Lexer)
  /\ macros \in Definitions
  /\ FileInfo \in [Files -> PerFileInfo]
  /\ eof \in BOOLEAN
  /\ entered \in [Files -> Nat]
  /\ \A lx \in Lexers : InsideBuffer(lx)

(* The shape of a conditional stack that every assertion of the skipping   *)
(* code relies on.  While skipping there is one entry whose block is the   *)
(* outermost skipped one: below it every block was entered, above it every *)
(* entry was pushed while skipping.  When not skipping every entry has an  *)
(* entered block.  (assert in popConditionalLevel's callers: "Can't be     *)
(* skipping if not in a conditional!", "No conditionals active!", "This    *)
(* code should only be reachable in the non-skipping case!")               *)
Entered(info) == ~info.WasSkipping /\ info.FoundNonSkip

WellNested(lx) ==
  LET cs == lx.ConditionalStack
  IN  IF lx.LexingRawMode
        THEN \E k \in DOMAIN cs :
               /\ ~cs[k].WasSkipping
               /\ \A j \in DOMAIN cs : /\ j < k => Entered(cs[j])
                                       /\ j > k => cs[j].WasSkipping
        ELSE \A j \in DOMAIN cs : Entered(cs[j])

SkipStateConsistent ==
  /\ WellNested(CurPPLexer)
  /\ \A i \in DOMAIN IncludeMacroStack :
       WellNested(IncludeMacroStack[i]) /\ ~IncludeMacroStack[i].LexingRawMode

(* A line is skipped exactly when C99 group selection excludes it, however *)
(* conditionals nest, however the macros changed on the way and whatever   *)
(* stray #else, #elif or #endif came before.                               *)
SkipsExactlyTheExcludedLines ==
  (~eof /\ ~AtEnd) =>
    CurPPLexer.LexingRawMode =
      ~IsActive(text, CurPPLexer.env, CurPPLexer.pos + 1)

(* The conditional stack lists, in order, exactly the #if lines still open *)
(* (so an unterminated-conditional error names the right line), and knows  *)
(* for each whether its #else was seen (so a second #else or a late #elif  *)
(* is diagnosed), in skipped blocks too.                                   *)
StackMatchesOpenConditionals ==
  (~eof /\ ~AtEnd) =>
    LET cs == CurPPLexer.ConditionalStack
        here == CurPPLexer.pos + 1
    IN  /\ {cs[k].IfLoc : k \in DOMAIN cs} = EnclosingOpeners(text, here)
        /\ \A k \in DOMAIN cs :
             /\ k > 1 => cs[k - 1].IfLoc < cs[k].IfLoc
             /\ cs[k].FoundElse =
                  \E j \in GroupHeads(text, cs[k].IfLoc, here) :
                    text[j].op = "else"

(* Whatever mix of nested, stray and repeated #if, #elif, #else and #endif *)
(* lines a file has: the live handlers and the skipping loop, which share  *)
(* the conditional stack, enter the right groups and keep the right stack. *)
SkippingFollowsTheText == SkipsExactlyTheExcludedLines /\ StackMatchesOpenConditionals

(* The optimisation is sound: while the recorded controlling macro of a    *)
(* file is defined, including the file has no effect (the comment on       *)
(* HeaderSearch::ShouldEnterIncludeFile).                                  *)
GuardedFile(f) ==
  FileInfo[f].ControllingMacro # NoMacro =>
    \A defs \in Definitions :
      hasMacroDefinition(FileInfo[f].ControllingMacro, defs) =>
        ~IncludeHasEffect(content[f], defs)

ControllingMacroSound == \A f \in Files : GuardedFile(f)

(* The same for files without an #else or #elif of a top-level #if.        *)
HasTopLevelElse(c) ==
  \E j \in DOMAIN c : /\ c[j].op \in {"elif", "else"}
                       /\ Cardinality(EnclosingOpeners(c, j)) = 1

ControllingMacroSoundWithoutElse ==
  \A f \in Files : HasTopLevelElse(content[f]) \/ GuardedFile(f)

(* A file that was #imported, or that said #pragma once, is not entered a  *)
(* second time by any later #include or #import, as long as the 16-bit     *)
(* include count of the file has not wrapped.                              *)
ImportedOnce ==
  [][\A f \in Files :
       FileInfo[f].isImport /\ entered[f] \in 1..NumIncludesModulus - 1
         => entered'[f] = entered[f]]_vars

(* However headers include each other, the include stack stays below the   *)
(* limit (the test in HandleIncludeDirective is an equality, so a stack    *)
(* that ever passed it would grow without bound).                          *)
IncludeDepthBounded == Len(IncludeMacroStack) < MaxAllowedIncludeStackDepth

(* Preprocessing ends, although headers may include each other and         *)
(* themselves.                                                             *)
PreprocessingTerminates == <>eof
============================================================================

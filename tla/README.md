# A TLA+ verification of clang

This directory holds TLA+ models of parts of clang at one revision of the
repository, the TLC configurations that check them on small instances, and
proofs, checked by TLAPS, of properties that hold for every instance. It states
what the code does, not what the documents say: every definition is translated
from the source, and `PROJECT.json` ("map") names the lines.

## 1. The system and its parts

clang is a front end: characters are lexed, preprocessed, parsed, analysed and
translated; around it are a driver, rewriting tools, a static analyser and a
test harness. Most of it is sequential recursion over trees. The parts that
keep state across calls, and in which a fault needs a long sequence of legal
steps to show, are these.

| part | state | operations | interacts with |
|---|---|---|---|
| Directives and conditionals (`lib/Lex/PPDirectives.cpp`) | per lexer: `ConditionalStack`, `LexingRawMode`; global: macro definitions | `#if` family, skipping loop, `#define`, `#undef`, `#include`, `#import` | called by the Lexer at `#`; pushes lexers; calls MIOpt and HeaderSearch |
| Multiple-include optimisation (`MultipleIncludeOpt.h`) | `ReadAnyTokens`, `DidMacroExpansion`, `TheMacro` | eight methods | told of tokens by the Lexer, of conditionals by the handlers, of expansions by macro expansion; asked at the end of a file |
| Include stack (`PPLexerChange.cpp`) | `CurPPLexer`, `IncludeMacroStack` | enter a file, a macro, a token stream; end of file | all lexers |
| Per-file information (`HeaderSearch`) | `isImport`, `NumIncludes`, `ControllingMacro` per file | `ShouldEnterIncludeFile`, `MarkFileIncludeOnce`, ... | directives, end of file |
| Header lookup (`HeaderSearch.cpp`, `DirectoryLookup.h`) | `LookupFileCache`, `FrameworkMap`, `DirInfo` per file, `CurDirLookup` per lexer | `LookupFile`, `LookupSubframeworkHeader`, `#include_next`, `#pragma GCC dependency`, `system_header` | directives, include stack, file manager |
| Token cache (`PPCaching.cpp`, `Preprocessor.h`) | `CachedTokens`, `CachedLexPos`, `BacktrackPositions` | `Lex`, `LookAhead`, tentative parsing, push back, annotate | parser above, include stack below |
| Macro expansion (`PPMacroExpansion.cpp`, `TokenLexer.cpp`, `MacroArgs.cpp`) | stack of token lexers, disabled macros, argument buffers | enter a macro, read arguments, pre-expand, substitute, paste, stringify | include stack, diagnostics |
| Diagnostics engine (`Diagnostic.cpp`, `Warnings.cpp`, `FixItRewriter.cpp`) | option flags, mappings, last level, fatal flag, counts | process options, `Report`, `ProcessDiag`, `__extension__` | everything; the fix-it client reports in turn |
| Rewriter (`DeltaTree.cpp`, `RewriteRope.cpp`, `Rewriter.cpp`) | two B+ trees: deltas and text | insert, remove, replace, map an offset | rewriting tools |
| Data-flow analyses (`DataflowSolver.h`, `LiveVariables.cpp`, `UninitializedValues.cpp`, `CheckDeadStores.cpp`) | worklist, edge and block values | process a block, merge, transfer, observe | CFG, checkers |
| Cleanups in code generation (`CodeGenFunction.cpp`, `CGStmt.cpp`) | stack of cleanup entries, branch fixups, map of block scopes | open and close scopes, declare, label, goto, return, pop a cleanup | Sema's check of jumps into scopes |
| Overload resolution (`SemaOverload.cpp`, `SemaDeclCXX.cpp`) | candidate set, best candidate | add candidates, rank conversions, find the best, bind references | declarations, classes |
| Driver (`Driver.cpp`, `Compilation.cpp`, `Tools.cpp`) | actions, jobs, temporary and result files | build actions and jobs, execute, clean up | operating system |
| Test runner (`MultiTestRunner.py`, `TestRunner.py`) | provider, two locks, directories, results | threads take tests, run scripts, report, summarise | operating system |
| Parser, rest of Sema, AST, CodeGen, path-sensitive analyser, PCH, PTH, source manager | trees, tables | recursive descent, serialisation | not modelled (section 7) |

Only the test runner is parallel. The hard behaviours of the rest are long
legal call sequences over shared state: a conditional is opened by one function
and closed, lines later, by another; a controlling macro is recorded under one
set of definitions and believed under another; a saved backtrack position is an
index into a vector that later calls change; the code of a cleanup is shared by
every path through it; a block's value is merged from edges that were computed
at different times. `PROJECT.json` lists the hazards with their lines, and the
properties that each of them is covered by.

What makes each modelled part correct:

* conditionals: exactly the lines that C99 6.10.1 excludes are skipped, and
  the stack holds exactly the open `#if`s;
* the optimisation: a file is passed over only when including it does nothing;
* inclusion: recursion is bounded, imports happen once, preprocessing ends;
* header lookup: the cache changes no answer, the same request is answered
  alike throughout a translation, `#include_next` moves on;
* the token cache: the parser cannot tell it from an ideal stream, and it has the
  eof ahead of it until it is given one;
* macros: the expansion is the one the standard describes, and it ends;
* diagnostics: notes share the fate of their diagnostic, nothing follows a
  fatal error, counts are those of what was shown, the last option decides, and
  no file is written with half of a fix in it;
* rewriting: the trees behave like a flat string and a map, an edit lands where
  its offset in the original file is, and no other text is touched;
* analyses: the solution solves the equations, it says what the paths say, and the
  checkers neither invent dead stores nor miss uninitialized reads;
* cleanups: each variable is cleaned up once, on every path, and jumps arrive;
* overloads: the function found is better than every other one;
* driver: nothing partial is used or left, inputs are untouched, success means
  that every input went through its phases;
* test runner: each test runs once, reports are whole, the summary is complete.

## 2. Modules

    MultipleIncludeOpt --> PPDirectives --> MCPPDirectives, PPDirectivesProofs
    TokenStream <== PPCaching ------------> MCPPCaching, PPCachingProofs
    HeaderLookup -------------------------> MCHeaderLookup, HeaderLookupProofs
    MacroReference <== MacroExpansion ----> MCMacroExpansion
    DiagnosticEngine ---------------------> MCDiagnosticEngine, DiagnosticEngineProofs
    DriverCompilation --------------------> MCDriverCompilation, DriverCompilationProofs
    MultiTestRunner ----------------------> MCMultiTestRunner, MultiTestRunnerProofs
    DeltaMap --> RewriteBuffer <== Rewriter (DeltaTree, RewriteRope) --> MCRewriter
    CodeGenCleanups
    LiveVariables, UninitializedValues, DataflowSolver --> FlowAnalyses
                                          --> MCFlowAnalyses, FlowAnalysesProofs
    StandardConversions --> ImplicitConversions, BestViableFunction
                        --> OverloadResolution --> MCOverloadResolution
                        BestViableFunction --> BestViableFunctionProofs

`<==` is a refinement, or a comparison with a reference definition, checked as
a property of the detailed module.

### MultipleIncludeOpt

The class as pure operators: `EnterTopLevelIFNDEF(mi, m)` is the object after
the call. It is extended by PPDirectives, which keeps one such object per lexer
and calls the operators where the C++ calls the methods.

### PPDirectives

A buffer is a sequence of logical lines and one step handles one line, because
the handlers read to the end of their directive. A line keeps what the
handlers distinguish: its directive, the macro, the file and, for `#if` and
`#elif`, a condition that is a constant, `defined(X)`, `!defined(X)`, or a
macro that expands to one of these (that case is needed: an include guard
hidden in an expansion must not be trusted). A missing or invalid macro name
after `#ifdef` is `NoMacro`. Directives without effect on this state (`#line`,
`#error`, `#ident`, `#warning`, unknown or null directives) are "other".

| variable | code |
|---|---|
| `content` | the text of every buffer, constant during a behaviour |
| `CurPPLexer` | the current lexer: file, position, `ConditionalStack`, `LexingRawMode`, `MIOpt` |
| `IncludeMacroStack` | the suspended lexers |
| `macros` | the definition of each identifier |
| `FileInfo` | `HeaderSearch::FileInfo` |
| `eof` | the client was given `tok::eof` |
| `entered`, `env` in a lexer | history used by properties only |

Every handler is one action; the loop of `SkipExcludedConditionalBlock` is one
action per kind of line it meets (`SkipLine`, `SkipNestedIf`, `SkipEndif`,
`SkipElse`, `SkipElif`, `SkipEndOfFile`), which are enabled while
`LexingRawMode` is set. `LineRead` is the lexer after the line's tokens were
lexed: each of them, and the end-of-directive token, reports to MIOpt, also in
raw mode. The order matters and is kept: `#ifndef` looks at the value MIOpt
had *before* the directive's own tokens; `#endif` resets it *after* them.

`NumIncludes` is kept modulo 2^16. `Init` is the state after
`EnterMainSourceFile`: the main file is on the stack, counted as included, and
the predefines buffer, which has no `FileEntry`, is current. The check for an
invalid FileID in `HandleIncludeDirective` has no action: it is never true, since
`createFileID` returns the number of an entry that it has just added behind the
source manager's dummy entry 0.

The reference for conditionals (`IsActive`) is written on the whole text with
no stack: a line is active when it lies in the first true group of each `#if`
section around it. Sections are found by counting openers and `#endif`s, and
each group's head is evaluated with the definitions that were in force when the
line was read (`env`).

### TokenStream and PPCaching

TokenStream is what the comments in `Preprocessor.h` promise: a stream with a
remembered past, where `Backtrack` and `RevertCachedTokens` move tokens from the
past to the rest, `EnterToken` puts tokens in front of the rest and annotations
replace the end of the past. It has the one defect of the code, which is named:
an eof taken in a tentative parse is in no past (`DropEof`, section 6, item 2).

PPCaching is the code: the vector, the index and the stack of indices. All
lexers below the caching level are one `source` of tokens ended by the eof;
`lexer` tells whether that source is current, stacked under the caching level,
or gone after the eof (`HandleEndOfFile` then resets it, and
`InCachingLexMode()` is true although nothing is cached). `PeekAhead`'s loop is
one step per token. The refinement mapping takes `past` from the cached tokens
between the oldest backtrack position and the read position, and `rest` from
the unread cached tokens followed by `source`.

The environment is the parser, and three of its habits are guards here:
it asks for no token after the eof it was given; it looks no further than the
eof (`PeekAhead`); it enters token streams only outside caching mode
(`ParseCXXInlineMethods.cpp`). Annotating and reverting happen under the
conditions the code asserts. The eof may be lexed in a tentative parse, as the
code allows; `LexAndCache` then keeps no token, and `eofDropped`, which is
history, remembers it. From there the client may backtrack, and what it can do
next is again only what the code can do: `ExitCachingLexMode` must find an entry
to pop (`CanExitCachingLexMode`).

### HeaderLookup

What PPDirectives takes as given (a header name is found or not) is modelled
here: from a name to a file. The file system `fs` is constant during a behaviour
and tells which file a search directory, the includer's directory or a
subframework gives for a name; the search path is a constant. The variables are
`LookupFileCache` (for each name the start + 1 and the result of its last
search), `FrameworkMap`, `DirInfo`, and the lexers with their `CurDirLookup` and
the characteristic of their FileID. `answers` and `homes` are history.

The loop over `SearchDirs` is `SearchStop`, the smallest index that has the
file, and `MapAfterSearch`, what the loop records on its way; a search resumed
from the cache is the same loop with another start, as in the code. The five
actions below `LookupFile` are the five ways a lookup ends (absolute name,
beside the includer, search path, subframework of an includer, nowhere), each
with all it writes. `#include`, `#include_next` and `#pragma GCC dependency` use
them with their own start directory. Which request comes next, and whether
`ShouldEnterIncludeFile` lets the file in, is arbitrary: PPDirectives has the
rules. The entries of the search path are taken to be different directories
(`InitHeaderSearch` removes duplicates), GNU line markers, which also change a
characteristic, are left out, and `#import` is an `#include` here.

### MacroExpansion and MacroReference

`stack` is the stack of token lexers, the file at the bottom; `disabled` the
macros whose expansion was entered and not yet lexed to its end; `reading` the
invocation whose arguments are being collected; `frames` the expansions whose
arguments are being pre-expanded. A name found while its macro is disabled is
painted for good. Arguments are read unexpanded from the same stack, which may
pop expansions on the way, and are expanded by lexing them from a stream of
their own before the macro is disabled, as `MacroArgs::getPreExpArgument` does.
Of the names in an argument only identifiers are painted; `Keywords` are the
names of macros that are none.
Substitution keeps the rules for `#`, `##`, empty operands and the comma before
`__VA_ARGS__`. MacroReference is C99 6.10.3 written as recursion with hide
sets, without stack or state; `ExpandsAsTheStandardSays` compares the two where
they should agree.

### DiagnosticEngine

The options are processed one per step in the order of the command line
(`ProcessWarningOptions`), then the environment reports diagnostics and enters
and leaves `__extension__` blocks. `Report` is the whole of `ProcessDiag`: the
level from class, mapping and flags, the state written before and after its
early returns, and what the fix-it client reports in turn (up to two notes per
diagnostic). `log` is history: what was reported, at which level, whether it was
shown, and whether its hints were tried, applied or failed. Every client counts
(`IncludeInDiagnosticCounts` is true for every client of the repository: the one
override, `FixItRewriter`'s, asks the client beneath), so the counters are written
whenever a diagnostic is shown. `AllExtensionsSilenced` is kept modulo 256.

### DriverCompilation

Each step is one round of one of the driver's loops; `pc` names the loop, `next`
and `step` how far it has come.

| action | code |
|---|---|
| `BuildAction`, `ActionsBuilt` | the loops of `BuildActions`: an input gets its pipeline of phases (`Pipeline`, cut off at the final phase), which ends at the top level (`actions`) or at the linker (`LinkerInputs`) |
| `BuildJobs` | its check of `-o` with several outputs |
| `BuildJobsForTool`, `PipelineBuilt`, `BuildLinkJob` | `BuildJobsForAction`, whose recursion goes down to an input first and so chooses tools from the input to the end of a pipeline, and the linker behind all that it reads: the integrated preprocessor takes over a phase (`ToolSteps`), the output is a pipe, temporary, derived or `-o` (`AddTool`), and `Result` is what the next tool reads |
| `Execute`, `CommandSucceeds`, `CommandFails`, `AllRun` | `Execute`: one command per step, each of which may fail and leave nothing, its old or part of its output |
| `Cleanup` | both calls of `CleanupFileList` |

The contents of a file are the input it comes from and the phases it went
through, so that what a command makes of its inputs can be compared with what
should become of them. A file is its directory, base and suffixes, the n-th
temporary file has the base n and a directory no input has: `makeUnique` is
taken to give a new name. `NamesApart`, under which `SourcesSurvive` and
`SuccessIsComplete` are stated, is a condition on what the user typed: the driver
derives the name of an output from that of its input and overwrites what is
there, so with two inputs of the same base, or an input that is called like an
output, both properties are false of the code.

### MultiTestRunner

Every step of a thread between two points where Python may switch threads is an
action: the two locks, the take of a test in two steps (read the item, advance
the index), `mkdir_p` with its recursion and the race with `os.mkdir`, the run of
the script, the store of the result without a lock, progress and the report in
two parts under the display's lock. Scripts may raise an exception, which kills
the thread, and so may a report, before or after its first lines
(`HandleUpdateRaises`): the `finally` of `update` then releases the display's
lock and the thread dies. `timeUp` may become true at any time.

### RewriteBuffer, Rewriter, DeltaTree, RewriteRope

RewriteBuffer is the ideal buffer: a flat string of characters of the file and
of the edits, and a map of deltas (DeltaMap). Rewriter is the code: the text in
a B+ tree of rope pieces, the deltas in a B+ tree whose nodes cache the sum
below them. Both trees have their node widths as constants; insertion and its
splits, erasure with the removal of emptied leaves, and the iteration over the
list of leaves are the code's recursion. Edits may meet at one offset in any
order; `edits` is their history, from which the properties say what should be
left of the file and where the text of each edit should be.

### CodeGenCleanups

A function is emitted statement by statement (`source` is what the source says
so far, `f` the blocks and cleanup entries of `CodeGenFunction`) and then run.
`PopCleanupBlock` sends each branch fixup through the cleanup, with a switch
behind it on what the branch stored, and pads where it has to go through outer
cleanups too. Which gotos are accepted is Sema's check of jump scopes.

### DataflowSolver, LiveVariables, UninitializedValues, FlowAnalyses

The solver takes any block of the worklist, merges the values of the edges into
it, transfers the value and enqueues the targets whose edge value changed. Live
variables (backward) and uninitialized values (forward) give it their transfer
functions, merges and initial values; the observers (dead stores, uninitialized
reads) look at the solution statement by statement. What a solution should be
is stated on the paths of the graph, without values.

### StandardConversions, ImplicitConversions, BestViableFunction, OverloadResolution

StandardConversions has the three standard conversions and the ranking of
sequences and candidates as operators; ImplicitConversions adds user-defined
conversions and reference binding, which are recursive; BestViableFunction is
the two-pass choice of the best of the candidates that `CandidateFor` yields;
OverloadResolution says what these are for a call (`OverloadCandidates`).
`IsSequence` and `AreComparable` are the contract between the two halves: a
class is copied or bound as itself or a base, anything else is bound as what it
is or is a standard conversion; two viable candidates of a call have equally
many sequences, as `isBetterOverloadCandidate` asserts, and sequences that are
ranked by the standard rules are of one argument. That derivation is transitive
and irreflexive is all that is known of the classes (`DerivationsAssumption`).
`Copy = "uninitialized"` is the field that reference binding does not set: such
a sequence may be either.

A type is a base, the way to it through pointers and pointers to members, and the
qualifiers at each level; `AreSimilar` says that two types differ in qualifiers
only. A conversion of pointers to members changes the class and keeps the type of
the member, and qualification conversions and their ranking unwrap both kinds of
pointers together, as `UnwrapSimilarPointerTypes` does.

## 3. What the runs check

| run | instance | shows |
|---|---|---|
| `directives` | every header of four lines over eight kinds, behind one of four beginnings, included twice under two main files; all pairs of short headers that include, import, guard and `#pragma once` themselves, each other and the main file; depth limit 4 | `SkipStateConsistent`, `SkippingFollowsTheText`, `ControllingMacroSoundWithoutElse`, `IncludeDepthBounded`, `ImportedOnce`, `PreprocessingTerminates` |
| `token_cache` | every translation unit of up to 3 tokens, at most 6 tokens alive, 3 nested tentative parses, lookahead up to 2; the eof is lexed in and outside tentative parses | `EofAheadUnlessDropped`, `ImplementsTokenStream` |
| `header_lookup` | a plain header in 2 of 4 search directories and beside the includer, an absolute name, a framework in 0, 1 or 2 framework directories or in a subframework: eleven file systems; depth limit 3 | `CacheTransparent`, `FrameworkFoundInOneDir`, `IncludeNextAdvances`, `AnswersStable` |
| `macros` | all short texts over tables of macros that use each other and themselves, paste, stringify, take variable arguments, end inside each other's invocations or in an included file | `ExpandsAsTheStandardSays`, `ArgumentsAreExpandedOnce`, `Terminates` |
| `diagnostics` | sequences of three reports of any diagnostic, in and outside system headers and `__extension__`, under combinations of `-W` options, with and without the fix-it client | `ShownWithNotesAndCounted`, `OptionsHonoured`, `FixedFileOnlyIfFixed` |
| `driver` | eight lists of inputs, seven modes, all combinations of `-o`, `-save-temps`, `-no-integrated-cpp`, `-emit-llvm`; any command fails; two files cannot be removed | `FailuresAreContained`, `SourcesSurvive`, `SuccessIsComplete` |
| `test_runner` | three threads, three tests in two directories with one parent, failures, exceptions of scripts and of reports, a time limit | `OneTesterPerTest`, `OutputDirReady`, `ReportsAreRight`, `HarnessEnds` |
| `rewriter` | every three edits of a file of four tokens, every four of one of three, insertions at every offset of one of ten in ten orders, edits that meet at an offset included; narrow nodes | `StructuresSound`, `EditsDoWhatTheySay`, `ImplementsRewriteBuffer` |
| `cleanups` | every function of up to three variables, two compounds and two jumps, on every path | `CleanupsNest`, `LiveAreThoseInScope`, `JumpsArrive` |
| `dataflow` | graphs of three blocks, loops included, bodies of up to four statements, the worklist in every order | `LiveIffReadBehind`, `DeadStoresAreNeverRead`, `NoUninitializedReadIsMissed`, `Terminates` |
| `overloads` | about a thousand calls of three functions with numbers, pointers, strings, objects, pointers to members (of const, char and pointer type) and methods, and of three functions that are better than one another in a circle (item 25 of section 6) | `BestIsFound`, `ComparisonIsAntisymmetric`, `BetterIsAcyclic`, `StoresStaySound` |

`EditsDoWhatTheySay` names the two meetings of edits that the code gets wrong
(items 13 and 14 of section 6) and says how far each reaches. A removal where text
was inserted may take characters more, and only those next behind its range. An
insertion into a removed range may land elsewhere, and if it is behind the first
offset of the range, offsets may map elsewhere from then on; every other edit is
where it should be all the same, and no character is lost but by a removal of the
first kind. `EofAheadUnlessDropped` likewise allows a reading client without an
eof ahead only if the eof was dropped in a tentative parse (item 2).

All these properties hold. Each has a mutant in `PROJECT.json`, a plausible error in
the code (an `#else` entered twice, an off-by-one depth limit, an eof dropped by
`PeekAhead`, a lock not waited for, a fixup left to the outermost scope, targets
enqueued whether or not their edge changed, ...) that TLC finds with the run's
own configuration.

A further run, `token_cache_eof`, checks `StackEntryToLoad`, which
`RemoveTopOfLexerStack` asserts, on the instance of `token_cache`. It ends with a
violation: a tentative parse lexes the eof, which is not cached, and backtracks
(item 2). The other items of section 6 need a change to a configuration, given there.

Bounds. Four lines behind a beginning hold an `#if` with a second head around
or beside a nested `#if`, a repeated `#else`, a stray `#endif`, an unterminated
section, a guard, its body and a second conditional before or after it. The
depth limit of 4 (200 in the code) is reached by the recursive headers; nothing
in the code depends on its value, and the theorem removes it. For the cache,
three tokens and the eof with three nested parses reach every pair of a push, an
annotation and a backtrack over a non-empty past. For header lookup, four
directories give a quoted-only one, one of each kind behind `SystemDirIdx` and a
second framework directory, so that every start meets a cached answer of every
other. Three threads are the least with which one holds a lock, one waits and
one dies; three reports the least for a diagnostic, a diagnostic between, and a
note. The rope's nodes have at most two pieces and those of the delta tree at
most three values, so that three edits split a leaf and ten an interior node.
Three blocks hold a loop, a branch and a join; the theorems remove this bound.
Bounds on the environment in guards are `MaxTokens`, `MaxNesting`,
`MaxLookAhead`, `MaxReports`, `MaxExtensionDepth`, `MaxVars`, `MaxJumps`,
`MaxScopes`, `MaxEdits` and `MaxString`.

Deadlock is checked in the runs of PPDirectives, PPCaching, HeaderLookup, the
driver and the test runner, whose final states have a stuttering step; the other
runs stop where the environment or the algorithm is done.

Fairness. PPDirectives: weak fairness of `Next`, because the client calls
`Preprocessor::Lex` until it is given the eof (`Parser::ParseTranslationUnit`,
the `-E` printer) and each call is sequential code that runs on. MacroExpansion,
DataflowSolver and BestViableFunction: the same, for one function that is called
and runs to its end. MultiTestRunner: weak fairness of each thread and of the
main thread, since the operating system runs every thread that can run and
scripts end; nothing is assumed about the clock or about who gets a lock.

## 4. What is proved

For every value of the constants, without bounds on files, lines, macros,
nesting, tokens, threads, tests, reports, options, blocks, statements, inputs or
commands. The
assumptions are the named ones in the modules (`FilesAssumption`,
`BodiesAssumption`, `ContentsAssumption`, `DepthAssumption`,
`NoMacroAssumption`, `SearchPathAssumption`, `NamesAssumption`,
`FileSystemsAssumption`, `TokensAssumption`, `SourcesAssumption`,
`EnvironmentAssumption`, `BoundsAssumption`, `DiagnosticsAssumption`,
`GroupsAssumption`, `DirsAssumption`, `TestsAssumption`, `TestersAssumption`,
`OptionsAssumption`, `BlocksAssumption`, `StorageAssumption`,
`ProblemsAssumption`, `DerivationsAssumption`, `CandidatesAssumption`,
`CommandLinesAssumption`); TLC evaluates them in each run.

### PPDirectivesProofs

* `TypeCorrect`, `SkipStateCorrect`: `TypeOK` and `SkipStateConsistent`, with
  `content \in Contents`. `WellNested` is inductive as it stands: while skipping
  there is one entry, the outermost skipped block, below which all blocks were
  entered and above which all were pushed while skipping. Each handler's case
  shows how it moves that entry.
* `IncludeDepthCorrect`: the test in the code is an equality; the invariant shows
  that it is enough because every push passes the test.
* `ImportedOnceCorrect`: needs that `NumIncludes` is the number of entries modulo
  2^16 (`CountsInclusions`).
* `SkippingFollowsTheTextCorrect`: the conditional stack and the raw mode of
  every lexer, suspended ones included, are those the text calls for
  (`AllFollowTheText`). `Tracks` relates the stack to the open `#if`s and the
  heads of their sections; `Decides` relates `WasSkipping`, `FoundNonSkip` and
  the raw mode to which group of each section was chosen. The reference counts
  lines with cardinalities over the whole text, so the proof first shows what
  one more line does to `Balance`, `Encloses`, `EnclosingOpeners` and
  `GroupHeads` (`BalanceStep` ... `HeadsStep`), then what the four kinds of
  lines do to the two relations (`QuietLine`, `OpeningLine`, `ClosingLine`,
  `NextGroup`), and then has one lemma per action.
* `ControllingMacroSoundWithoutElseCorrect`: the invariant `AllGuardsKnown` says,
  for every text without an `#else` or `#elif` of a top-level `#if`, what it means
  that MIOpt holds a macro: the first line tests it, its section has one group,
  and while `ReadAnyTokens` is false everything with an effect lies inside that
  section (`Known`); and where the lexer can be then: inside the section, or
  behind it with no open top-level section MIOpt was not told of (`Position`).
  Without `Position` the invariant is not inductive, because `#endif` resets
  `ReadAnyTokens` whatever was read before the section. At the end of the file
  `KnownIsSound` turns `Known` into the property.

### PPCachingProofs

* `CacheTypeCorrect`, `OnlyADroppedEofIsMissed`: the eof that is lexed in a
  tentative parse is the only way to run out of entries. The invariant `CInv` adds
  to the type invariant when the lexers are current, stacked or gone
  (`ModesConsistent`), and where the eof is once it was taken from them: it is the
  last cached token, behind every backtrack position, unless the client consumed
  it with no tentative parse open or it was dropped (`EofCached`). Without
  `EofCached` the property is not inductive: a backtrack could lead behind an eof
  that was never cached.
* `ImplementsTokenStreamTheorem`: PPCaching implements TokenStream under the
  refinement mapping. One lemma per action; the steps of `PeekAhead`, and the
  caching of a token before the oldest mark, are stutters.

### HeaderLookupProofs

* `CacheTransparentCorrect`, `AnswersStableCorrect`,
  `FrameworkFoundInOneDirCorrect`, `IncludeNextAdvancesCorrect`,
  `LookupTypeCorrect`: for every search path, file system and order of requests.
  `CacheTransparent` is not inductive, because a framework recorded by a later
  lookup may change what a search finds. The invariant `LookupInv` adds that
  every search ever answered is *settled*: if its framework is still unknown, no
  directory it went through has that framework. Then no later record can point
  into the part that was searched (`SettledStaysSettled`), a search always ends
  settled (`LearnSettles`), and one resumed from the cache stops where it resumed
  (`Resume`).

### MultiTestRunnerProofs

* `TypeCorrect`, `OneTesterPerTestTheorem`, `OutputDirReadyTheorem`,
  `ReportsAreRightTheorem`. The invariant has: who holds which lock at which
  label, that the item of a thread lies below the index and is its alone, that
  the directories a thread still has to make form a chain to the directory of
  its test and that what is made has its parents, that the screen is a sequence
  of whole reports with at most one half at the end (by the holder of the
  display's lock) or where a report raised, and how `results`, `code` and the threads' labels account for
  every test.

### DiagnosticEngineProofs

* `TypeCorrect`, `ShownWithNotesAndCountedTheorem`, `OptionsHonouredTheorem`,
  `FixedFileOnlyIfFixedTheorem`. `Accounts` relates the state of `ProcessDiag` to
  the history of reports: the last level is that of the last diagnostic that is
  no note, or "Ignored" if it was not shown (`LastRemembered`), a fatal error
  stays fatal (`FatalRemembered`), and the counts are those of what was shown
  (`Counted`). The lemma `OneMore` says that one report keeps it, and is applied
  up to three times per step, because the fix-it client reports notes in the
  midst of a report. For the fixed file the invariant adds that `NumFailures`
  is 0 only while no hint of a diagnostic of any level failed and every error
  shown was fixed. `MappingsFollowOptions` says that the mapping of a
  diagnostic is that of the last processed option about it, in any order of
  groups and subgroups.

### FlowAnalysesProofs

* `FixpointTheorem`: whatever the order of the worklist, the equations of all
  blocks hold when it is empty. `IInv`: edges lead from blocks to their targets,
  and every block that is not waiting is `Stable`. Nothing is used of the merge
  and the transfer, which stay hidden, and of the targets only that they are
  blocks.
* `LiveIffReadBehindTheorem`, `DeadStoresAreNeverReadTheorem`: the paths and the
  values agree. `LiveBeforeMeans` says what the transfer functions do to one
  variable in one block (by induction over its statements, on sets of positions,
  as the library's induction theorems cannot be instantiated). That what is read
  behind a block is live there follows along the path (`FlowsAlong`). The
  converse does not follow from the equations, which a loop can satisfy with a
  variable that nothing reads: `LivesJustified` has to say of every value that
  was ever computed, also before the equations hold, that each of its locals is
  read on some way. `ReadFromMeans` cuts that way short where it returns to its
  first block, because `Ways` has no block twice.
* `NoUninitializedReadIsMissedTheorem`: likewise forward; only the first
  direction, as the other one is broken by the code (item 22 of section 6).

### BestViableFunctionProofs

For any classes, types of any number of levels and any number of candidates. What
is assumed of the candidates is `CandidatesAssumption`, that they keep the
contract above; that the recursive search for conversions keeps it is evaluated
by TLC for every call of the `overloads` run before the run begins.

* `ComparisonIsAntisymmetricTheorem`: each rule gives the opposite verdict when
  the sequences change places, and so does the first one that decides
  (`FirstOfOpposite`). One rule is not symmetric by itself:
  `CompareDerivedToBaseConversions` looks for a derived-to-base conversion in the
  first sequence only. `DerivedToBaseOpposite` shows that this does not matter:
  from or to the same class the other sequence is the identity, which is part of
  the first, and an earlier rule has decided. This is where the contract is needed.
* `BestIsFoundTheorem`: the two passes end with a viable function exactly if it
  is better than every other viable one, with "ambiguous" exactly if there is
  none but some function is viable, and with "no viable function" otherwise. In
  the first pass the winner displaces the best one so far and is not displaced,
  because of two candidates one at most is better (`OneIsBetter`). Transitivity,
  which does not hold, is not needed.
* `StoresStaySoundTheorem`: a second conversion between types of equally many
  levels keeps the qualifiers of all levels but the first (`SecondConversionKeeps`;
  a pointer to a member goes to another class, a pointer to void or to a base has
  two levels), a qualification conversion drops none, and beneath a level without
  const it changes nothing (`QualificationKeeps`), so that nothing const becomes
  writable and the same can be stored.
* `BetterIsAcyclicTheorem`: of the sequences of an argument no three are each
  better than the next, but for those of item 25 of section 6. "Better" is not
  transitive and there is no order that the rules embed in. The proof takes the
  rules in turn. Rank never falls along the circle, so it is the same all round;
  then so is whether a pointer becomes a bool, a void pointer, or is qualified
  (`EdgesAreTied`; pointers to members that become a bool are told from others by
  the rule of rvalue references only, `MemberConversions`, which cannot lead round). If derivation decides one edge it applies to the other two
  (`AppliesOn`), which keep the target or leave an rvalue reference, and that can
  happen once only (`NoNearer`). Qualifiers behind a pointer grow along an edge
  they decide, and no other edge takes them back (`NoQualification`). What is
  left are references, ordered by their kind and qualifiers (`NoCircle`). A
  sequence whose `Copy` is uninitialized and that binds a reference is taken for
  no copy here.

### DriverCompilationProofs

For every command line of any number of inputs, of any type and existing or not,
and any set of files that cannot be removed. The assumption is
`CommandLinesAssumption`, the types of what a command line has.

* `DriverTypeCorrect`, and `BaseTheorem`: the pipelines are those of the inputs seen, in
  their order, without an error all inputs are there and `-o` has one output, and
  the loops over tools stay inside the pipelines. What every type and mode make of
  a pipeline and its tools is found by cases (`ToolsOfPipeline`).
* `FailuresAreContainedTheorem`: needs that each command reads only sources and
  what commands before it write (`InputsInv`), also while the jobs are built and
  the reader is still to come, and that until a command fails the files on the
  disk are those and whole (`DiskInv`).
* `SourcesSurviveTheorem`: every name given is a temporary one, derived from an
  input by a tool that was added, that of `-o` or the default image (`NamesInv`);
  under `NamesApart` none of them is that of an input. The case that takes
  thought is an intermediate file kept by `-save-temps`: it differs from its own
  input because no tool gives its output a suffix that stands for the type of the
  input (`ToolTypes`).
* `SuccessIsCompleteTheorem`: no invariant on the disk is enough, since what a
  file will hold is settled while the jobs are built, long before there is a
  file. `PlanInv` says that there is a plan of all contents, in which every
  command's output is its product, the input of the next tool has gone through
  the phases before it, and every finished pipeline and the image deliver what is
  wanted. A new command extends the plan (`PlanExtended`), because its output is
  a name that was not given before (`NewNameIsFresh`): temporary names are new,
  derived ones differ in base or suffix, and `-o` is given once. `DiskIsPlanned`
  says that execution follows every plan, and `FinishedInv` that only temporary
  files go.

The lemmas on `Append`, `Front` and `Tail` that several proof modules cite are
repeated in each.

## 5. What is only model-checked

* Liveness (`PreprocessingTerminates`, `Terminates`, `HarnessEnds`): the prover
  has no support for `ENABLED` and fairness.
* What needs an induction over data, because the operators are recursive or
  folds over sequences: `ExpandsAsTheStandardSays`, `ArgumentsAreExpandedOnce`
  (macro expansion is recursive), `StructuresSound`, `EditsDoWhatTheySay`,
  `ImplementsRewriteBuffer` (recursion over the nodes of the trees).
* `CleanupsNest`, `LiveAreThoseInScope`, `JumpsArrive`: recursive walks over the
  scopes of the program that was built. No proof was attempted.

## 6. Where the code and its comments disagree

Met while modelling. The models follow the code. Each item is
shown by making the change, if there is one, in a copy of the configuration,
leaving only the named property in it, and running TLC; item 2 has a configuration
of its own.

| # | where | code and comment | configuration | change | property |
|---|---|---|---|---|---|
| 1 | `PPDirectives.cpp:277`, `:304` | an `#else` or `#elif` that ends a skipped group does not tell MIOpt, so a file with a group for the other case keeps its controlling macro; `HeaderSearch.h:58` says including it again "would not have any effect" | Directives | - | `ControllingMacroSound` |
| 2 | `PPCaching.cpp:66` | an eof lexed in a tentative parse is not cached by the last path of `CachingLex`; a backtrack then reaches an empty include stack (`PPLexerChange.cpp:269` asserts it is not) | TokenCacheEof | none | `StackEntryToLoad` |
| 3 | `HeaderSearch.cpp:329` | "Some other location?": the framework's name is compared with a path, and only if both are equally long, which never holds; a header is taken from a subframework of an includer although its framework is recorded elsewhere | HeaderLookup | - | `FrameworkFoundInOnePlace` |
| 4 | `Pragma.cpp:252`, `:486` | `#pragma GCC system_header` "marks the current file as a system header, which silences warnings in it"; the FileID that warnings look at keeps its characteristic, and `DirInfo` is overwritten by the next lookup | HeaderLookup | - | `SystemHeaderPragmaMarksFile` |
| 5 | `Diagnostic.cpp:299` | an extension that is shown because of `-pedantic` is a warning whatever `-w` and `-Werror` say | Diagnostics | `CommandLines <- PedanticLines` | `WarningFlagsHonoured` |
| 6 | `Warnings.cpp:137` | `-Wno-error` without a name turns warnings into errors, as `-Werror` does | Diagnostics | `CommandLines <- NoErrorLines` | `NoErrorUndoesError` |
| 7 | `Diagnostic.cpp:169` | a custom warning under `-Werror` is mapped; "Can only map builtin diagnostics" (`Diagnostic.h:248`) | Diagnostics | - | `OnlyBuiltinMapped` |
| 8 | `Diagnostic.h:161` | `AllExtensionsSilenced` is an unsigned char, bumped for each nested `__extension__`; at 256 it is 0 and nothing is silenced | Diagnostics | `MaxExtensionDepth = 256`, `MaxReports = 1`, `CommandLines <- NoErrorLines` | `ExtensionsSilenced` |
| 9 | `Driver.cpp:789`, `:890` | "-save-temps inhibits pipes", and the warning says so; the assignment is `UsePipes = true` | Driver | `CommandLines <- PipeCommandLines`, `Stuck <- NoneStuck` | `SaveTempsInhibitsPipes` |
| 10 | `Driver.cpp:751` | a header given with `-fsyntax-only` is precompiled to a file; `DriverInternals.html:300` says there is no final output | Driver | `CommandLines <- HeaderCommandLines`, `Stuck <- NoneStuck` | `SyntaxOnlyHasNoOutput` |
| 11 | `RewriteRope.cpp:601` | destroying an interior node does not destroy its children, whose leaves stay in the list the iterator follows: erased text comes back | Rewriter | - | `IterationReadsTheText` |
| 12 | `RewriteRope.cpp:674` | erasing all the text under an interior root reads child 0 of a node without children | by reading; `ReplaceText` is guarded against it | | |
| 13 | `Rewriter.cpp:27`, `:91` | `RemoveText` removes as many characters as its range had, from behind what was inserted at its start, text inserted in the range included: other characters of the file may go | Rewriter | - | `OnlyTheRangeIsRemoved` |
| 14 | `Rewriter.cpp:43` | an insertion at an offset whose text was removed is mapped by deltas keyed by the start of the removal, and may land behind text that follows it in the file | Rewriter | - | `EditsAreInPlace` |
| 15 | `SemaDecl.cpp:2907` | the check of jumps into scopes ignores `__block` variables, which have a cleanup | Cleanups | `Kinds = {"attribute", "block"}` | `LiveAreThoseInScope` |
| 16 | `PPMacroExpansion.cpp:263` | the fast path paints a token expanded to its own macro only, not one expanded to the name of another macro that is disabled; it is expanded later | Macros | `Programs <- PaintedPrograms` | `ExpandsAsTheStandardSays` |
| 17 | `TokenLexer.cpp:163` | an operand of `##` behind an empty one is no operand of a paste any more, and is expanded first | Macros | `Programs <- EmptyOperandPrograms` | `ExpandsAsTheStandardSays` |
| 18 | `TokenLexer.cpp:466` | a paste that gives no token (`/ ## /`) replaces the left one by the eof it lexed; line 435 says "Return with Tok unmodified" | Macros | `Programs <- CommentPrograms` | `EofIsTheEndOfTheFile` |
| 19 | `TokenLexer.cpp:228`, `:363` | a `##` of an argument is taken for an operator; "No token on the RHS of a paste operator!" is asserted | Macros | `Programs <- ArgumentPastePrograms` | `PasteHasRHS` |
| 20 | `PPMacroExpansion.cpp:293` | for a macro without parameters the count of arguments left wraps below 0, and any number is read | Macros | `Programs <- NoParameterPrograms` | `NoMoreArgumentsThanParameters` |
| 21 | `DataflowValues.h:97`, `DataflowSolver.h:228` | block data is said to be for the end of a block in a forward analysis and the entry in a backward one; the solver stores what flows in, the opposite | by reading | | |
| 22 | `UninitializedValues.cpp:66` | a block nothing has flowed into yet starts with everything uninitialized; in a loop that is processed before the way to it this never leaves, and an initialized variable is reported | Dataflow | - | `OnlyPotentiallyUninitializedAreReported` |
| 23 | `SemaOverload.cpp:158`, `:1567` | a null pointer constant converted to `void*` counts as a conversion of a pointer; its source has no pointee to compare | Overloads | `Calls <- NullCalls` | `VoidPointersComeOfPointers` |
| 24 | `SemaOverload.cpp:150`, `:1523` | "a conversion ... of a pointer, or pointer to member, to bool" is worse; pointers to members are not looked at | Overloads | `Calls <- MemberCalls` | `PointersToBoolAreWorse` |
| 25 | `SemaOverload.cpp:1641` | sequences are ranked by qualifications though they do not "yield similar types"; from an rvalue `C*`, `B const volatile* const&`, `A const*` and `X const volatile*&&` (A a base of B, B of C, X unrelated to A and B) are then better than one another in a circle, and a call of the three is ambiguous | Overloads | `Calls <- UnrelatedCalls` | `OnlySimilarTypesByQualification` |
| 26 | `SemaOverload.cpp:649`, `:1254` | "top-level cv-qualification ... does not constitute a conversion", but makes a qualification conversion of a pointer | Overloads | `Calls <- TopLevelCalls` | `TopLevelQualifiersAreNoConversion` |
| 27 | `SemaDeclCXX.cpp:2103` | binding a reference leaves `CopyConstructor` uninitialized, and the comparison of sequences reads it | Overloads | `Calls <- CopyCalls` | `OnlyCopiesAreComparedAsCopies` |
| 28 | `SemaDeclCXX.cpp:2173` | "Expected a direct reference binding!" is asserted of a user-defined conversion whose last part need not bind directly | Overloads | `Calls <- BindingCalls` | `ExpectedADirectBinding` |
| 29 | `PPMacroExpansion.cpp:341` | "we record whether any identifiers we lex as macro arguments correspond to disabled macros" looks at `tok::identifier` only: a macro named like a keyword is not painted, and is expanded again inside its own expansion | Macros | `Programs <- KeywordPrograms` | `ExpandsAsTheStandardSays` |

Besides, `ImportedOnce` holds up to 65535 entries of a file, since
`NumIncludes` has 16 bits; `ImportedOnceCorrect` states that bound.

## 7. What is not modelled

Whole parts: header maps and the building of the search path, the lexer, `#if`
arithmetic, pre-tokenised headers, precompiled headers, the source manager, the
identifier table, the parser, the path-sensitive analyser, the printers and the
scripts. Most are recursion over trees or tables filled once; they are listed in
`PROJECT.json` with the reason.

In the parts that are modelled:

* preprocessor: the spelling of tokens, callbacks, `#__include_macros`, the mode
  for assembler sources;
* macros: directives inside of arguments, Microsoft's pasted comments, builtins
  other than `__COUNTER__`, spaces and locations, the null entry on the stack,
  the reuse of token lexers;
* diagnostics: their text; test runner: collecting the names, the keyboard
  interrupt;
* driver: more than one architecture, the parsing of arguments, `lipo`, Darwin's
  rule that `.s` is preprocessed;
* rewriter: the reference counts of the rope's strings, `clear()`, the
  replacement of the whole text once the tree has grown;
* cleanups: loops, `break` and `continue`, arrays of variable length, `@try`,
  indirect gotos, the shortcuts of `EmitReturnBlock`;
* analyses: escaped variables, the special cases of null pointers and the unused
  attribute, block-level expressions;
* overloads: Objective-C, blocks, complex numbers, bit-fields, functions,
  explicit conversions, overloading in C. An uninitialised `CopyConstructor` in a
  nested resolution counts as "no".

## 8. Plan

Next: a composition of HeaderLookup with PPDirectives, and models of the
expression evaluator of `#if`, the skipping over PTH tables and the exploded graph
of the path-sensitive analyser; then the scopes of CodeGenCleanups as recursive
functions, so that `CleanupsNest` can be proved.

## 9. Running

In this directory:

    tlc -workers 2 -config Directives.cfg MCPPDirectives
    tlc -workers 2 -config TokenCache.cfg MCPPCaching
    tlc -workers 2 -config TokenCacheEof.cfg MCPPCaching
    tlc -workers 2 -config HeaderLookup.cfg MCHeaderLookup
    tlc -workers 2 -config Macros.cfg MCMacroExpansion
    tlc -workers 2 -config Diagnostics.cfg MCDiagnosticEngine
    tlc -workers 2 -config Driver.cfg MCDriverCompilation
    tlc -workers 2 -config TestRunner.cfg MCMultiTestRunner
    tlc -workers 2 -config Rewriter.cfg MCRewriter
    tlc -workers 2 -config Cleanups.cfg CodeGenCleanups
    tlc -workers 2 -config Dataflow.cfg MCFlowAnalyses
    tlc -workers 2 -config Overloads.cfg MCOverloadResolution

    tlapm PPDirectivesProofs.tla       (about six minutes; the others one or two)

and `tlapm` likewise for DriverCompilationProofs, PPCachingProofs, HeaderLookupProofs,
MultiTestRunnerProofs, DiagnosticEngineProofs, FlowAnalysesProofs and
BestViableFunctionProofs.

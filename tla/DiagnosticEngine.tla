-------------------------- MODULE DiagnosticEngine --------------------------
(***************************************************************************)
(* How a diagnostic gets its level and whether it reaches the user         *)
(* (lib/Basic/Diagnostic.cpp), after the -W options were processed         *)
(* (tools/clang-cc/Warnings.cpp), with the fix-it client in front of the   *)
(* printer (lib/Frontend/FixItRewriter.cpp).                               *)
(*                                                                         *)
(* Messages, arguments and source positions are left out: of a location,   *)
(* only whether it lies in a system header matters here, and of its        *)
(* code modification hints, whether they can be applied.                   *)
(***************************************************************************)
EXTENDS Naturals, Sequences, FiniteSets

CONSTANTS
  Builtin,         \* the builtin diagnostics
  DiagClass,       \* their class
  DefaultMapping,  \* and default mapping
  NoChanges,       \* warn_fixit_no_changes, one of them
  Custom,          \* custom diagnostics a tool may create
  CustomLevel,     \* their level
  GroupMembers,    \* the -W groups: the members, those of subgroups included
  CommandLines,    \* the command lines considered
  MaxExtensionDepth, MaxReports  \* bounds on the environment

Level == {"Ignored", "Note", "Warning", "Error", "Fatal"}
Classes == {"note", "warning", "extension", "error"}
Mapping == {"ignore", "warning", "error", "fatal", "warning_no_werror"}
Groups == DOMAIN GroupMembers

(* A -W option: -W[no-]system-headers, -W[no-]error, -W[no-]error=g and    *)
(* -W[no-]g.                                                               *)
Option == [kind : {"system-headers", "error", "error=", "group"},
           positive : BOOLEAN, group : Groups]

(* "fixIt": the FixItRewriter is the client; "fixItAt": of hints at given  *)
(* places only.                                                            *)
CommandLine == [w : BOOLEAN, pedantic : BOOLEAN, pedanticErrors : BOOLEAN,
                W : Seq(Option), fixIt : BOOLEAN, fixItAt : BOOLEAN]

ASSUME DiagnosticsAssumption ==
  /\ DiagClass \in [Builtin -> Classes]
  /\ DefaultMapping \in [Builtin -> Mapping]
  /\ NoChanges \in Builtin /\ DiagClass[NoChanges] = "warning"
  /\ CustomLevel \in [Custom -> Level \ {"Ignored"}]
  /\ Custom \cap Builtin = {}
  /\ "note_fixit" \notin Builtin \cup Custom

ASSUME GroupsAssumption ==
  \A g \in Groups :
    GroupMembers[g] \subseteq {d \in Builtin : DiagClass[d] \in {"warning", "extension"}}

ASSUME EnvironmentAssumption ==
  /\ \A c \in CommandLines : c \in CommandLine
  /\ MaxExtensionDepth \in Nat /\ MaxReports \in Nat

VARIABLES
  commandLine,            \* constant during a behaviour
  nextOption,             \* the next option to process
  flags,                  \* IgnoreAllWarnings, WarningsAsErrors, ...
  DiagMappings,           \* for each builtin diagnostic its mapping or "unset",
                          \* and whether the user chose it
  AllExtensionsSilenced,  \* the unsigned char that __extension__ counts in
  Diags,                  \* the state of ProcessDiag
  customIDs,              \* the custom diagnostics created so far
  aborted,                \* an assertion failed
  NumFailures, written,   \* FixItRewriter
  extensionDepth,         \* history: the __extension__ blocks around
  log                     \* history: what was reported, and what became of it

vars == <<commandLine, nextOption, flags, DiagMappings, AllExtensionsSilenced,
          Diags, customIDs, aborted, NumFailures, written, extensionDepth, log>>

(* AllExtensionsSilenced is an unsigned char.                              *)
CounterModulus == 256

Rank == [Ignored |-> 0, Note |-> 1, Warning |-> 2, Error |-> 3, Fatal |-> 4]

----------------------------------------------------------------------------
(* The constructor, and the start of ProcessWarningOptions.                *)

Init ==
  /\ commandLine \in CommandLines
  /\ nextOption = 1
  /\ flags = [IgnoreAllWarnings |-> commandLine.w,
              WarningsAsErrors |-> FALSE,
              SuppressSystemWarnings |-> TRUE,
              ExtBehavior |-> IF commandLine.pedanticErrors THEN "Ext_Error"
                              ELSE IF commandLine.pedantic THEN "Ext_Warn"
                              ELSE "Ext_Ignore"]
  /\ DiagMappings = [d \in Builtin |-> [map |-> "unset", user |-> FALSE]]
  /\ AllExtensionsSilenced = 0
  /\ Diags = [ErrorOccurred |-> FALSE, FatalErrorOccurred |-> FALSE,
              LastDiagLevel |-> "Ignored", NumErrors |-> 0,
              NumDiagnostics |-> 0]
  /\ customIDs = {}
  /\ aborted = FALSE
  /\ NumFailures = 0
  /\ written = "no"
  /\ extensionDepth = 0
  /\ log = <<>>

Running == ~aborted /\ nextOption > Len(commandLine.W)

(* Mutant: -Wno-error=g maps the group to an ordinary warning.             *)
OptionMapping_PlainWarning(o) ==
  IF o.kind = "error="
    THEN (IF o.positive THEN "error" ELSE "warning")
    ELSE (IF o.positive THEN "warning" ELSE "ignore")

(* The mapping an option asks for.                                         *)
OptionMapping(o) ==
  IF o.kind = "error="
    THEN (IF o.positive THEN "error" ELSE "warning_no_werror")
    ELSE (IF o.positive THEN "warning" ELSE "ignore")

(* MapGroupMembers, with setDiagnosticMapping of each member.              *)
MapGroupMembers(g, m) ==
  DiagMappings' = [d \in Builtin |-> IF d \in GroupMembers[g]
                                       THEN [map |-> m, user |-> TRUE]
                                       ELSE DiagMappings[d]]

(* One turn of the loop over OptWarnings.                                  *)
ProcessWarningOption ==
  /\ ~aborted /\ nextOption <= Len(commandLine.W)
  /\ nextOption' = nextOption + 1
  /\ LET o == commandLine.W[nextOption]
     IN \/ /\ o.kind = "system-headers"
           /\ flags' = [flags EXCEPT !.SuppressSystemWarnings = ~o.positive]
           /\ UNCHANGED DiagMappings
        \/ /\ o.kind = "error"
           /\ flags' = [flags EXCEPT !.WarningsAsErrors = TRUE]
           /\ UNCHANGED DiagMappings
        \/ /\ o.kind \in {"error=", "group"}
           /\ MapGroupMembers(o.group, OptionMapping(o))
           /\ UNCHANGED flags
  /\ UNCHANGED <<commandLine, AllExtensionsSilenced, Diags, customIDs, aborted,
                 NumFailures, written, extensionDepth, log>>

----------------------------------------------------------------------------
(* ExtensionRAIIObject: an __extension__ block.                            *)
IncrementAllExtensionsSilenced ==
  /\ Running /\ extensionDepth < MaxExtensionDepth
  /\ AllExtensionsSilenced' = (AllExtensionsSilenced + 1) % CounterModulus
  /\ extensionDepth' = extensionDepth + 1
  /\ UNCHANGED <<commandLine, nextOption, flags, DiagMappings, Diags, customIDs,
                 aborted, NumFailures, written, log>>

DecrementAllExtensionsSilenced ==
  /\ Running /\ extensionDepth > 0
  /\ AllExtensionsSilenced' = (AllExtensionsSilenced + CounterModulus - 1)
                                % CounterModulus
  /\ extensionDepth' = extensionDepth - 1
  /\ UNCHANGED <<commandLine, nextOption, flags, DiagMappings, Diags, customIDs,
                 aborted, NumFailures, written, log>>

(* getCustomDiagID.  Under -Werror a new warning is also mapped, and       *)
(* setDiagnosticMapping asserts that only builtin diagnostics are.         *)
GetCustomDiagID(c) ==
  /\ Running /\ c \notin customIDs
  /\ customIDs' = customIDs \cup {c}
  /\ aborted' = (CustomLevel[c] = "Warning" /\ flags.WarningsAsErrors)
  /\ UNCHANGED <<commandLine, nextOption, flags, DiagMappings,
                 AllExtensionsSilenced, Diags, NumFailures, written,
                 extensionDepth, log>>

----------------------------------------------------------------------------
(* The level of a builtin diagnostic.                                      *)

(* The mapping information, computed lazily.                               *)
MappingInfo(d) == IF DiagMappings[d].map = "unset"
                    THEN [map |-> DefaultMapping[d], user |-> FALSE]
                    ELSE DiagMappings[d]

isExtension(d) == DiagClass[d] = "extension"

getDiagnosticLevel(d) ==
  LET info == MappingInfo(d)
      pedanticError == flags.ExtBehavior = "Ext_Error" /\ isExtension(d)
                         /\ ~info.user
      mapped ==
        CASE info.map = "ignore" ->
               IF ~isExtension(d) \/ flags.ExtBehavior = "Ext_Ignore" \/ info.user
                 THEN "Ignored"
                 ELSE IF flags.ExtBehavior = "Ext_Error" THEN "Error" ELSE "Warning"
          [] info.map = "error" -> "Error"
          [] info.map = "fatal" -> "Fatal"
          [] info.map = "warning" ->
               IF flags.IgnoreAllWarnings THEN "Ignored"
               ELSE IF pedanticError \/ flags.WarningsAsErrors THEN "Error"
               ELSE "Warning"
          [] info.map = "warning_no_werror" ->
               IF flags.IgnoreAllWarnings THEN "Ignored" ELSE "Warning"
  IN IF AllExtensionsSilenced # 0 /\ isExtension(d) THEN "Ignored" ELSE mapped

(* A diagnostic with its level, as ProcessDiag first computes it; custom   *)
(* diagnostics cannot be mapped.                                           *)
Classified(d, inSystemHeader) ==
  [id |-> d, inSystemHeader |-> inSystemHeader,
   level |-> IF d \in Custom THEN CustomLevel[d]
             ELSE IF DiagClass[d] = "note" THEN "Note"
             ELSE getDiagnosticLevel(d),
   ShouldEmitInSystemHeader |-> d \in Custom \/ DiagClass[d] = "error"]

----------------------------------------------------------------------------
(* ProcessDiag: the state s and the diagnostic c give the next state and   *)
(* tell whether the client is called.                                      *)

(* The level that the notes which follow will be judged by.                *)
Remember(s, c) ==
  IF c.level = "Note" THEN s
  ELSE [s EXCEPT !.FatalErrorOccurred = @ \/ s.LastDiagLevel = "Fatal",
                 !.LastDiagLevel = c.level]

SuppressedInSystemHeader(s, c) ==
  /\ flags.SuppressSystemWarnings
  /\ ~c.ShouldEmitInSystemHeader
  /\ c.inSystemHeader
  /\ c.level # "Note" \/ s.LastDiagLevel = "Ignored"

Delivered(s, c) ==
  /\ ~s.FatalErrorOccurred
  /\ c.level # "Ignored"
  /\ ~(c.level = "Note" /\ s.LastDiagLevel = "Ignored")
  /\ ~SuppressedInSystemHeader(s, c)

(* Mutant: a warning suppressed in a system header is still remembered.    *)
ProcessDiag_ForgetsSuppressed(old, c) ==
  LET s == Remember(old, c)
  IN IF Delivered(s, c)
       THEN [s EXCEPT !.ErrorOccurred = @ \/ Rank[c.level] >= Rank["Error"],
                      !.NumErrors = IF Rank[c.level] >= Rank["Error"] THEN @ + 1
                                                                     ELSE @,
                      !.NumDiagnostics = @ + 1]
       ELSE s

ProcessDiag(old, c) ==
  LET s == Remember(old, c)
  IN IF Delivered(s, c)
       THEN [s EXCEPT !.ErrorOccurred = @ \/ Rank[c.level] >= Rank["Error"],
                      !.NumErrors = IF Rank[c.level] >= Rank["Error"] THEN @ + 1
                                                                     ELSE @,
                      !.NumDiagnostics = @ + 1]
     ELSE IF ~s.FatalErrorOccurred /\ c.level # "Ignored" /\ c.level # "Note"
       THEN [s EXCEPT !.LastDiagLevel = "Ignored"]
     ELSE s

(* fix: what became of its hints, "none" when they were not tried.         *)
LogEntry(s, c, fix) ==
  [id |-> c.id, level |-> c.level, delivered |-> Delivered(Remember(s, c), c),
   silenced |-> extensionDepth > 0, fix |-> fix]

----------------------------------------------------------------------------
(* FixItRewriter::HandleDiagnostic.  "hints": the diagnostic has none, or  *)
(* hints that cannot be rewritten, that are tried and fail (some of their  *)
(* edits may have been made by then), or that can be applied.              *)
Hints == {"none", "unrewritable", "fails", "applies"}

IsError(c) == c.level \in {"Error", "Fatal"}

(* Does the rewriter look at this diagnostic?                              *)
Considered(hints, here) == commandLine.fixItAt => hints # "none" /\ here

(* Mutant: hints that could not be applied do not count as a failure.      *)
IsFailure_OnlyErrors(c, hints) == hints \in {"none", "unrewritable"} /\ IsError(c)

IsFailure(c, hints) == \/ hints \in {"none", "unrewritable"} /\ IsError(c)
                       \/ hints = "fails"

(* The hints that were tried, and with what result.                        *)
Tried(considered, hints) ==
  IF considered /\ hints \in {"fails", "applies"} THEN hints ELSE "none"

(* The notes the rewriter adds: in_macro, unfixed_error, failed, applied.  *)
NumNotes(c, hints) ==
  CASE hints \in {"none", "unrewritable"} ->
         (IF hints = "unrewritable" THEN 1 ELSE 0)
         + (IF IsError(c) /\ NumFailures = 0 THEN 1 ELSE 0)
    [] OTHER -> 1

(* Such a note is reported, at the same place, while the diagnostic that   *)
(* caused it is still being handled.                                       *)
NestedNote(inSystemHeader) ==
  [id |-> "note_fixit", inSystemHeader |-> inSystemHeader, level |-> "Note",
   ShouldEmitInSystemHeader |-> FALSE]

(* Report and the destruction of the DiagnosticBuilder: ProcessDiag, which *)
(* calls the client, which may report notes in turn.  Every client of the  *)
(* repository is counted: IncludeInDiagnosticCounts is true by default and *)
(* the fix-it client asks its own client.                                  *)
Report(d, inSystemHeader, hints, here) ==
  LET c == Classified(d, inSystemHeader)
      own == ProcessDiag(Diags, c)
      delivered == LogEntry(Diags, c, "none").delivered
      considered == commandLine.fixIt /\ delivered /\ Considered(hints, here)
      note == NestedNote(inSystemHeader)
      notes == IF considered THEN NumNotes(c, hints) ELSE 0
      one == ProcessDiag(own, note)
      two == ProcessDiag(one, note)
  IN /\ Running /\ written = "no" /\ Len(log) < MaxReports
     /\ d \in Custom => d \in customIDs
     /\ Diags' = IF notes = 0 THEN own ELSE IF notes = 1 THEN one ELSE two
     /\ NumFailures' = IF considered /\ IsFailure(c, hints) THEN NumFailures + 1
                                                           ELSE NumFailures
     /\ DiagMappings' = IF d \in Builtin /\ DiagClass[d] # "note"
                          THEN [DiagMappings EXCEPT ![d] = MappingInfo(d)]
                          ELSE DiagMappings
     /\ log' = log
               \o <<LogEntry(Diags, c, Tried(considered, hints))>>
               \o (IF notes >= 1 THEN <<LogEntry(own, note, "none")>> ELSE <<>>)
               \o (IF notes = 2 THEN <<LogEntry(one, note, "none")>> ELSE <<>>)
     /\ UNCHANGED <<commandLine, nextOption, flags, AllExtensionsSilenced,
                    customIDs, aborted, written, extensionDepth>>

(* FixItRewriter::WriteFixedFile, after the translation unit.              *)
WriteFixedFile ==
  /\ commandLine.fixIt /\ Running /\ written = "no" /\ extensionDepth = 0
  /\ IF NumFailures > 0
       THEN LET c == Classified(NoChanges, FALSE)
            IN /\ Len(log) < MaxReports
               /\ Diags' = ProcessDiag(Diags, c)
               /\ log' = Append(log, LogEntry(Diags, c, "none"))
               /\ DiagMappings' = [DiagMappings EXCEPT
                                     ![NoChanges] = MappingInfo(NoChanges)]
               /\ written' = "refused"
       ELSE written' = "yes" /\ UNCHANGED <<Diags, log, DiagMappings>>
  /\ UNCHANGED <<commandLine, nextOption, flags, AllExtensionsSilenced,
                 customIDs, aborted, NumFailures, extensionDepth>>

Next ==
  \/ ProcessWarningOption
  \/ IncrementAllExtensionsSilenced
  \/ DecrementAllExtensionsSilenced
  \/ \E c \in Custom : GetCustomDiagID(c)
  \/ \E d \in Builtin \cup Custom, inSystemHeader \in BOOLEAN,
        hints \in (IF commandLine.fixIt THEN Hints ELSE {"none"}),
        here \in {TRUE, ~commandLine.fixItAt} :
       Report(d, inSystemHeader, hints, here)
  \/ WriteFixedFile

Spec == Init /\ [][Next]_vars

----------------------------------------------------------------------------
(* Properties.                                                             *)

MappingEntry == [map : Mapping \cup {"unset"}, user : BOOLEAN]

(* The variables of the engine have their types; a user's mapping is       *)
(* never unset again by the lazily computed default.                       *)
TypeOK ==
  /\ commandLine \in CommandLine
  /\ nextOption \in 1..Len(commandLine.W) + 1
  /\ flags \in [IgnoreAllWarnings : BOOLEAN, WarningsAsErrors : BOOLEAN,
                SuppressSystemWarnings : BOOLEAN,
                ExtBehavior : {"Ext_Ignore", "Ext_Warn", "Ext_Error"}]
  /\ DiagMappings \in [Builtin -> MappingEntry]
  /\ \A d \in Builtin : DiagMappings[d].user => DiagMappings[d].map # "unset"
  /\ AllExtensionsSilenced \in 0..CounterModulus - 1
  /\ Diags \in [ErrorOccurred : BOOLEAN, FatalErrorOccurred : BOOLEAN,
                LastDiagLevel : Level \ {"Note"}, NumErrors : Nat,
                NumDiagnostics : Nat]
  /\ customIDs \subseteq Custom
  /\ aborted \in BOOLEAN
  /\ NumFailures \in Nat
  /\ written \in {"no", "yes", "refused"}
  /\ extensionDepth \in 0..MaxExtensionDepth

(* The last diagnostic before the k-th that is not a note.                 *)
Before(k) == {j \in 1..k - 1 : log[j].level # "Note"}
Latest(S) == CHOOSE j \in S : \A i \in S : i <= j

(* A note is shown exactly when the diagnostic it belongs to, the last one *)
(* that is not a note, was shown: whatever was ignored, suppressed in a    *)
(* system header, silenced or fatal in between, and for the notes the      *)
(* fix-it client adds as well.                                             *)
NotesFollowTheirDiagnostic ==
  \A k \in 1..Len(log) :
    log[k].level = "Note" =>
      (log[k].delivered <=> Before(k) # {} /\ log[Latest(Before(k))].delivered)

(* After a fatal error only its own notes are shown.                       *)
SilentAfterFatal ==
  \A j, k \in 1..Len(log) :
    /\ j < k
    /\ log[j].delivered /\ log[j].level = "Fatal"
    /\ log[k].delivered
    => \A i \in j + 1..k : log[i].level = "Note"

(* NumErrors counts the errors that were shown, and no others: the exit    *)
(* status of the compiler depends on it.                                   *)
ErrorsCounted ==
  LET shown == {k \in 1..Len(log) : log[k].delivered}
      errors == {k \in shown : Rank[log[k].level] >= Rank["Error"]}
  IN /\ Diags.NumErrors = Cardinality(errors)
     /\ Diags.NumDiagnostics = Cardinality(shown)
     /\ Diags.ErrorOccurred <=> errors # {}

(* Whatever is reported in whatever order, with the state ProcessDiag      *)
(* updates before and after its early returns: what is shown is shown with *)
(* its notes, nothing follows a fatal error, and the counts are right.     *)
ShownWithNotesAndCounted ==
  NotesFollowTheirDiagnostic /\ SilentAfterFatal /\ ErrorsCounted

(* The last option that names a diagnostic's group decides: -Wno-g hides   *)
(* it, -Werror=g shows it as an error, -Wno-error=g keeps it a warning and *)
(* -Wg keeps -pedantic-errors off it (test/Misc/diag-mapping.c).           *)
OptionsAbout(d) == {i \in 1..Len(commandLine.W) :
                      /\ commandLine.W[i].kind \in {"error=", "group"}
                      /\ d \in GroupMembers[commandLine.W[i].group]}

OptionsHonoured ==
  \A k \in 1..Len(log) :
    (log[k].delivered /\ OptionsAbout(log[k].id) # {}) =>
      LET o == commandLine.W[Latest(OptionsAbout(log[k].id))]
      IN CASE o.kind = "error=" /\ o.positive -> log[k].level = "Error"
           [] o.kind = "error=" /\ ~o.positive -> log[k].level = "Warning"
           [] o.kind = "group" /\ o.positive ->
                log[k].level = (IF flags.WarningsAsErrors THEN "Error" ELSE "Warning")
           [] OTHER -> FALSE

(* The fixed file is never written when hints were tried and failed, of a  *)
(* warning or a note as of an error and wherever fixes were asked for: the *)
(* buffer may hold a part of them.  And unless fixes at given places were  *)
(* asked for, it is written only when every error the user saw was fixed.  *)
FixedFileOnlyIfFixed ==
  written = "yes" =>
    \A k \in 1..Len(log) :
      /\ log[k].fix # "fails"
      /\ log[k].delivered /\ log[k].level \in {"Error", "Fatal"}
           => commandLine.fixItAt \/ log[k].fix = "applies"

----------------------------------------------------------------------------
(* What comments and tests of the code say, and the code does not do.      *)

(* Under -Werror every warning shown is an error unless -Wno-error=g says  *)
(* otherwise, and under -w none is shown ("If this and WarningsAsErrors    *)
(* are both set, then this one wins").                                     *)
WarningFlagsHonoured ==
  \A k \in 1..Len(log) :
    /\ log[k].delivered /\ log[k].level = "Warning"
    /\ log[k].id \in Builtin
    => /\ ~flags.IgnoreAllWarnings
       /\ flags.WarningsAsErrors =>
            \E i \in OptionsAbout(log[k].id) : commandLine.W[i].kind = "error="

(* "-Wno-error" is the negative form of -Werror.                           *)
NoErrorUndoesError ==
  nextOption > Len(commandLine.W) =>
    LET about == {i \in 1..Len(commandLine.W) : commandLine.W[i].kind = "error"}
    IN flags.WarningsAsErrors <=>
         about # {} /\ commandLine.W[Latest(about)].positive

(* "Can only map builtin diagnostics" (the assertion).                     *)
OnlyBuiltinMapped == ~aborted

(* "When non-zero, all extension diagnostics are entirely silenced", the   *)
(* counter being "bumped when an __extension__ block is encountered".      *)
ExtensionsSilenced ==
  \A k \in 1..Len(log) :
    /\ log[k].silenced
    /\ log[k].id \in Builtin /\ DiagClass[log[k].id] = "extension"
    => ~log[k].delivered
============================================================================

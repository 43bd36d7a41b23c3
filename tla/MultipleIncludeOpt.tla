------------------------ MODULE MultipleIncludeOpt ------------------------
(***************************************************************************)
(* The state machine a PreprocessorLexer runs to find out whether the file *)
(* it lexes is wrapped by one "#ifndef X ... #endif"                       *)
(* (include/clang/Lex/MultipleIncludeOpt.h).  Every method of the class is *)
(* an operator from the old value of the object to the new one.            *)
(***************************************************************************)
CONSTANTS
  Macros,   \* the identifiers that may be #defined
  NoMacro   \* the null IdentifierInfo pointer

ASSUME NoMacroAssumption == NoMacro \notin Macros

MIOptState == [ReadAnyTokens : BOOLEAN, DidMacroExpansion : BOOLEAN,
               TheMacro : Macros \cup {NoMacro}]

InitialMIOpt == [ReadAnyTokens |-> FALSE, DidMacroExpansion |-> FALSE,
                 TheMacro |-> NoMacro]

Invalidate(mi) == [mi EXCEPT !.ReadAnyTokens = TRUE, !.TheMacro = NoMacro]

ReadToken(mi) == [mi EXCEPT !.ReadAnyTokens = TRUE]

ExpandedMacro(mi) == [mi EXCEPT !.DidMacroExpansion = TRUE]

(* Mutant: a second top-level #ifndef replaces the first guard.            *)
EnterTopLevelIFNDEF_Again(mi, m) ==
  IF mi.DidMacroExpansion
    THEN Invalidate(mi)
    ELSE [mi EXCEPT !.ReadAnyTokens = TRUE, !.TheMacro = m]

EnterTopLevelIFNDEF(mi, m) ==
  IF mi.TheMacro # NoMacro \/ mi.DidMacroExpansion
    THEN Invalidate(mi)
    ELSE [mi EXCEPT !.ReadAnyTokens = TRUE, !.TheMacro = m]

EnterTopLevelConditional(mi) == Invalidate(mi)

ExitTopLevelConditional(mi) ==
  IF mi.TheMacro = NoMacro THEN Invalidate(mi)
                           ELSE [mi EXCEPT !.ReadAnyTokens = FALSE]

GetControllingMacroAtEndOfFile(mi) ==
  IF mi.ReadAnyTokens THEN NoMacro ELSE mi.TheMacro
============================================================================

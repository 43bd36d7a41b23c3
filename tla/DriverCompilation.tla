------------------------- MODULE DriverCompilation --------------------------
(***************************************************************************)
(* One run of the driver: from the inputs on the command line to actions   *)
(* (Driver::BuildActions), from actions to commands with named inputs and  *)
(* outputs (Driver::BuildJobs), and the execution of the commands with     *)
(* the removal of files afterwards (Compilation::Execute).  A step is one  *)
(* round of one of the driver's loops.                                     *)
(*                                                                         *)
(* One architecture and no lipo.  The arguments the tools construct are    *)
(* left out: a command is the phases it performs, its inputs and its       *)
(* output.  A file is <<directory, base, suffixes>>, and its contents are  *)
(* the input it comes from with the phases performed on it.                *)
(***************************************************************************)
EXTENDS Naturals, Sequences, FiniteSets

CONSTANTS
  CommandLines,   \* the command lines considered
  Stuck           \* files that cannot be removed

(* Types.def: the type after preprocessing, the suffix of files the driver *)
(* names, and the flags.                                                   *)
PreprocessedType == [C |-> "PP_C", CHeader |-> "PP_CHeader", Asm |-> "PP_Asm"]
TempSuffix == [PP_C |-> "i", PP_CHeader |-> "i", PP_Asm |-> "s",
               LLVMAsm |-> "s", LLVMBC |-> "o", Object |-> "o",
               Plist |-> "plist", PCH |-> "gch", Dependencies |-> "d"]
OnlyAssemble == {"PP_Asm", "Asm"}
OnlyPrecompile == {"CHeader", "PP_CHeader"}
InputTypes == {"C", "PP_C", "CHeader", "Asm", "PP_Asm", "Object"}

(* The type a suffix says, which -x overrides: any other is an object.     *)
TypeForExtension(s) == CASE s = "c" -> "C" [] s = "i" -> "PP_C" [] s = "h" -> "CHeader"
                         [] s = "S" -> "Asm" [] s = "s" -> "PP_Asm"
                         [] OTHER -> "Object"

PhaseNumber == [Preprocess |-> 1, Precompile |-> 2, Compile |-> 3, Assemble |-> 4,
                Link |-> 5]
Phases == DOMAIN PhaseNumber

Mode == {"E", "M", "fsyntax-only", "analyze", "S", "c", "link"}
Flags == [o : BOOLEAN, save_temps : BOOLEAN, no_integrated_cpp : BOOLEAN,
          emit_llvm : BOOLEAN, pipe : BOOLEAN, hashes : BOOLEAN,
          print_bindings : BOOLEAN]

(* GetTemporaryPath's makeUnique is taken to give a new name: the n-th one *)
(* is <<TempDir, n, ...>>, and no input has its directory.                 *)
TempDir == "/tmp"
Input == [file : (STRING \ {TempDir}) \X STRING \X Seq(STRING),
          type : InputTypes, exists : BOOLEAN]

ASSUME CommandLinesAssumption ==
  \A c \in CommandLines : c \in [inputs : Seq(Input), mode : Mode, flags : Flags]

VARIABLES
  args,         \* the command line, constant during a behaviour
  pc,           \* "actions", "jobs", "tools", "execute", "running", "cleanup",
                \* "done", or "quit" before running anything
  NumErrors,    \* errors reported so far
  next,         \* the input, action or command a loop has come to
  actions,      \* the pipelines that end at the top level
  LinkerInputs, \* those that end at the linker
  step,         \* the next tool of the pipeline
  Result,       \* what the last tool writes
  InputInfos,   \* what the linker will read
  commands,     \* the job list
  bindings,     \* what -ccc-print-bindings prints
  TempFiles, ResultFiles,
  disk,         \* the contents of the files there are
  stdout,       \* what commands wrote to the standard output
  Res           \* the exit status

buildVars == <<actions, LinkerInputs>>
jobVars == <<step, Result, InputInfos, commands, bindings, TempFiles, ResultFiles>>
runVars == <<disk, stdout, Res>>
vars == <<args, pc, NumErrors, next, buildVars, jobVars, runVars>>

NumInputs == Len(args.inputs)
Sources == {i \in 1..NumInputs : args.inputs[i].exists}
Source(i) == [source |-> i, phases |-> <<>>]

(* Nothing is written, or it goes to the next command or standard output.  *)
Nowhere == <<"nothing">>
Pipe == <<"pipe">>
IsFile(f) == f \notin {Nowhere, Pipe}

Init ==
  /\ args \in CommandLines
  /\ pc = "actions"
  /\ NumErrors = 0
  /\ next = 1
  /\ actions = <<>> /\ LinkerInputs = <<>>
  /\ step = 1 /\ Result = Nowhere /\ InputInfos = <<>>
  /\ commands = <<>> /\ bindings = <<>>
  /\ TempFiles = <<>> /\ ResultFiles = <<>>
  /\ disk = [f \in {args.inputs[i].file : i \in Sources} |->
               Source(CHOOSE i \in Sources : args.inputs[i].file = f)]
  /\ stdout = <<>>
  /\ Res = 0

----------------------------------------------------------------------------
(* Driver::BuildActions.                                                   *)

FinalPhase == CASE args.mode \in {"E", "M"} -> "Preprocess"
                [] args.mode \in {"fsyntax-only", "analyze", "S"} -> "Compile"
                [] args.mode = "c" -> "Assemble"
                [] args.mode = "link" -> "Link"

IsRequested(phase) == PhaseNumber[phase] <= PhaseNumber[FinalPhase]

(* getNumCompilationPhases and getCompilationPhase.                        *)
CompilationPhases(type) ==
  IF type = "Object" THEN <<"Link">>
  ELSE (IF type \in DOMAIN PreprocessedType THEN <<"Preprocess">> ELSE <<>>)
       \o (IF type \in OnlyAssemble THEN <<"Assemble", "Link">>
           ELSE IF type \in OnlyPrecompile THEN <<"Precompile">>
           ELSE <<"Compile", "Assemble", "Link">>)

(* ConstructPhaseAction: the type of the output of a phase.                *)
OutputType(phase, type) ==
  CASE phase = "Preprocess" -> IF args.mode = "M" THEN "Dependencies"
                                                  ELSE PreprocessedType[type]
    [] phase = "Precompile" -> "PCH"
    [] phase = "Compile" -> (CASE args.mode = "fsyntax-only" -> "Nothing"
                               [] args.mode = "analyze" -> "Plist"
                               [] args.mode = "S" -> IF args.flags.emit_llvm THEN "LLVMAsm"
                                                                             ELSE "PP_Asm"
                               [] OTHER -> IF args.flags.emit_llvm THEN "LLVMBC" ELSE "PP_Asm")
    [] phase = "Assemble" -> "Object"

(* The pipeline of an input: its steps, the type they lead to, and whether *)
(* the result goes to the linker.                                          *)
AddPhase(p, phase) ==
  IF p.ended \/ ~IsRequested(phase) THEN [p EXCEPT !.ended = TRUE]
  ELSE IF phase = "Link" THEN [p EXCEPT !.ended = TRUE, !.link = TRUE]
  ELSE IF phase = "Assemble" /\ p.type # "PP_Asm" THEN p
  ELSE LET out == OutputType(phase, p.type)
       IN [p EXCEPT !.type = out, !.ended = (out = "Nothing"),
                    !.steps = Append(p.steps, [phase |-> phase, type |-> out])]

(* No type has more than four phases.                                      *)
Pipeline(i) ==
  LET type == args.inputs[i].type
      phases == CompilationPhases(type)
      Add(p, k) == IF k <= Len(phases) THEN AddPhase(p, phases[k]) ELSE p
      start == [input |-> i, type |-> type, steps |-> <<>>, link |-> FALSE, ended |-> FALSE]
  IN Add(Add(Add(Add(start, 1), 2), 3), 4)

(* An input whose first phase comes after the final one is not used.       *)
Used(i) == /\ args.inputs[i].exists
           /\ IsRequested(CompilationPhases(args.inputs[i].type)[1])

BuildAction ==
  /\ pc = "actions" /\ next <= NumInputs
  /\ next' = next + 1
  /\ NumErrors' = IF args.inputs[next].exists THEN NumErrors ELSE NumErrors + 1
  /\ LET p == Pipeline(next)
     IN /\ actions' = IF Used(next) /\ ~p.link THEN Append(actions, p) ELSE actions
        /\ LinkerInputs' = IF Used(next) /\ p.link THEN Append(LinkerInputs, p)
                                                   ELSE LinkerInputs
  /\ UNCHANGED <<args, pc, jobVars, runVars>>

ActionsBuilt ==
  /\ pc = "actions" /\ next > NumInputs
  /\ pc' = "jobs"
  /\ NumErrors' = IF Sources = {} THEN NumErrors + 1 ELSE NumErrors
  /\ UNCHANGED <<args, next, buildVars, jobVars, runVars>>

----------------------------------------------------------------------------
(* Driver::BuildJobs.                                                      *)

NumOutputs == Cardinality({k \in 1..Len(actions) : actions[k].type # "Nothing"})
                + (IF LinkerInputs = <<>> THEN 0 ELSE 1)

(* Mutant: -o with several outputs is accepted.                            *)
OutputErrors_None == 0

OutputErrors == IF args.flags.o /\ NumOutputs > 1 THEN 1 ELSE 0

BuildJobs ==
  /\ pc = "jobs"
  /\ pc' = "tools"
  /\ next' = 1
  /\ NumErrors' = NumErrors + OutputErrors
  /\ UNCHANGED <<args, buildVars, jobVars, runVars>>

(* The tools: clang, and gcc for assembling and linking.                   *)
hasIntegratedCPP(phase) == phase \in {"Precompile", "Compile"}
acceptsPipedInput(phase) == phase # "Link"
canPipeOutput(phase) == phase \in {"Preprocess", "Precompile", "Compile"}

(* Pipes are disabled unless bindings are only printed.                    *)
UsePipes == args.flags.pipe /\ args.flags.print_bindings

(* A pipeline's steps, a preprocessing step having been taken over by the  *)
(* integrated preprocessor of the tool after it.                           *)
UseIntegratedCPP(steps) ==
  /\ Len(steps) >= 2 /\ steps[1].phase = "Preprocess"
  /\ hasIntegratedCPP(steps[2].phase)
  /\ ~args.flags.no_integrated_cpp /\ ~args.flags.save_temps

ToolSteps(steps) ==
  LET Of(s) == [phases |-> <<s.phase>>, type |-> s.type]
      both == [phases |-> <<steps[1].phase, steps[2].phase>>, type |-> steps[2].type]
  IN IF UseIntegratedCPP(steps)
       THEN [k \in 1..Len(steps) - 1 |-> IF k = 1 THEN both ELSE Of(steps[k + 1])]
       ELSE [k \in 1..Len(steps) |-> Of(steps[k])]

(* GetNamedOutputPath.                                                     *)
OutFile == <<"", "out", <<"arg">>>>
DefaultImage == <<"", "a", <<"out">>>>

NewTemp(type) == <<TempDir, Len(TempFiles) + 1, <<TempSuffix[type]>>>>

(* Mutant: the suffix of the input is kept.                                *)
DerivedName_KeepsSuffix(type, base) ==
  CASE type = "Image" -> DefaultImage
    [] type = "PCH" -> <<base[1], base[2], Append(base[3], "gch")>>
    [] OTHER -> <<"", base[2], base[3]>>

DerivedName(type, base) ==
  CASE type = "Image" -> DefaultImage
    [] type = "PCH" -> <<base[1], base[2], Append(base[3], "gch")>>
    [] OTHER -> <<"", base[2], <<TempSuffix[type]>>>>

IsTemporary(atTopLevel) == ~atTopLevel /\ ~args.flags.save_temps

GetNamedOutputPath(type, base, atTopLevel) ==
  IF atTopLevel /\ args.flags.o THEN OutFile
  ELSE IF IsTemporary(atTopLevel) THEN NewTemp(type)
  ELSE DerivedName(type, base)

OutputToPipe(phase, atTopLevel, canAcceptPipe) ==
  /\ canAcceptPipe /\ canPipeOutput(phase)
  /\ IF atTopLevel THEN phase = "Preprocess" /\ ~args.flags.o ELSE UsePipes

(* BuildJobsForAction for one tool: choose the output, add the command.    *)
AddTool(tool, inputs, base, atTopLevel, canAcceptPipe) ==
  LET toPipe == OutputToPipe(tool.phases[Len(tool.phases)], atTopLevel, canAcceptPipe)
      named == tool.type # "Nothing" /\ ~toPipe
      file == GetNamedOutputPath(tool.type, base, atTopLevel)
      output == IF named THEN file ELSE IF tool.type = "Nothing" THEN Nowhere ELSE Pipe
      command == [phases |-> tool.phases, inputs |-> inputs, output |-> output]
  IN /\ Result' = output
     /\ TempFiles' = IF named /\ IsTemporary(atTopLevel) THEN Append(TempFiles, file)
                                                         ELSE TempFiles
     /\ ResultFiles' = IF named /\ ~IsTemporary(atTopLevel) THEN Append(ResultFiles, file)
                                                            ELSE ResultFiles
     /\ bindings' = IF args.flags.print_bindings THEN Append(bindings, command) ELSE bindings
     /\ commands' = IF args.flags.print_bindings THEN commands ELSE Append(commands, command)

(* The top level pipelines come first, those behind the linker after them. *)
NumPipelines == Len(actions) + Len(LinkerInputs)
PipelineAt(k) == IF k <= Len(actions) THEN actions[k] ELSE LinkerInputs[k - Len(actions)]
Current == PipelineAt(next)
Tools(p) == ToolSteps(p.steps)
Base(p) == args.inputs[p.input].file

(* What the next tool of the pipeline reads: the input, or what the tool   *)
(* before it wrote.                                                        *)
InputInfo == IF step = 1 THEN Base(Current) ELSE Result

BuildJobsForTool ==
  /\ pc = "tools" /\ next <= NumPipelines /\ step <= Len(Tools(Current))
  /\ LET isLast == step = Len(Tools(Current))
         atTopLevel == next <= Len(actions) /\ isLast
     IN AddTool(Tools(Current)[step], <<InputInfo>>, Base(Current), atTopLevel,
                IF isLast THEN atTopLevel \/ acceptsPipedInput("Link")
                ELSE acceptsPipedInput(Tools(Current)[step + 1].phases[1]))
  /\ step' = step + 1
  /\ UNCHANGED <<args, pc, NumErrors, next, buildVars, InputInfos, runVars>>

PipelineBuilt ==
  /\ pc = "tools" /\ next <= NumPipelines /\ step > Len(Tools(Current))
  /\ next' = next + 1
  /\ step' = 1
  /\ InputInfos' = IF next <= Len(actions) THEN InputInfos ELSE Append(InputInfos, InputInfo)
  /\ UNCHANGED <<args, pc, NumErrors, buildVars, Result, commands, bindings, TempFiles,
                 ResultFiles, runVars>>

(* The linker comes behind the pipelines whose results it reads.           *)
BuildLinkJob ==
  /\ pc = "tools" /\ next > NumPipelines
  /\ pc' = "execute"
  /\ IF LinkerInputs = <<>> THEN UNCHANGED jobVars
     ELSE /\ AddTool([phases |-> <<"Link">>, type |-> "Image"], InputInfos,
                     Base(LinkerInputs[1]), TRUE, TRUE)
          /\ UNCHANGED <<step, InputInfos>>
  /\ UNCHANGED <<args, NumErrors, next, buildVars, runVars>>

----------------------------------------------------------------------------
(* Compilation::Execute.                                                   *)

Execute ==
  /\ pc = "execute"
  /\ next' = 1
  /\ IF args.flags.hashes THEN pc' = "quit" /\ Res' = Res
     ELSE IF NumErrors > 0 THEN pc' = "quit" /\ Res' = 1
     ELSE pc' = "running" /\ Res' = Res
  /\ UNCHANGED <<args, NumErrors, buildVars, jobVars, disk, stdout>>

Partial == [partial |-> TRUE]

(* What a command makes of the contents of its inputs.                     *)
Product(contents, command) ==
  IF command.phases = <<"Link">>
    THEN [parts |-> [k \in 1..Len(command.inputs) |-> contents[command.inputs[k]]]]
  ELSE LET c == contents[command.inputs[1]]
       IN [source |-> c.source, phases |-> c.phases \o command.phases]

With(d, f, contents) == [g \in DOMAIN d \cup {f} |-> IF g = f THEN contents ELSE d[g]]
Without(d, files) == [g \in DOMAIN d \ files |-> d[g]]

Running == pc = "running" /\ next <= Len(commands)

(* ExecuteJob on the next command, which succeeds.                         *)
CommandSucceeds ==
  /\ Running
  /\ LET c == commands[next]
     IN /\ \A k \in 1..Len(c.inputs) : c.inputs[k] \in DOMAIN disk
        /\ disk' = IF IsFile(c.output) THEN With(disk, c.output, Product(disk, c)) ELSE disk
        /\ stdout' = IF c.output = Pipe THEN Append(stdout, Product(disk, c)) ELSE stdout
  /\ next' = next + 1
  /\ UNCHANGED <<args, pc, NumErrors, buildVars, jobVars, Res>>

(* It fails, and may leave part of its output or nothing: the job list is  *)
(* given up.                                                               *)
CommandFails ==
  /\ Running
  /\ pc' = "cleanup"
  /\ Res' = 1
  /\ LET f == commands[next].output
     IN disk' \in {disk} \cup (IF IsFile(f) THEN {With(disk, f, Partial), Without(disk, {f})}
                                            ELSE {})
  /\ UNCHANGED <<args, NumErrors, next, buildVars, jobVars, stdout>>

AllRun ==
  /\ pc = "running" /\ next > Len(commands)
  /\ pc' = "cleanup"
  /\ UNCHANGED <<args, NumErrors, next, buildVars, jobVars, runVars>>

Elements(s) == {s[k] : k \in 1..Len(s)}

(* Mutant: temporary files are removed only after success.                 *)
RemovedFiles_OnSuccess ==
  (IF Res = 0 THEN Elements(TempFiles) ELSE {})
  \cup (IF Res # 0 /\ ~args.flags.save_temps THEN Elements(ResultFiles) ELSE {})

RemovedFiles ==
  Elements(TempFiles)
  \cup (IF Res # 0 /\ ~args.flags.save_temps THEN Elements(ResultFiles) ELSE {})

(* CleanupFileList for both lists; a file that cannot be removed is left,  *)
(* and reported if it is a result.                                         *)
Cleanup ==
  /\ pc = "cleanup"
  /\ pc' = "done"
  /\ disk' = Without(disk, RemovedFiles \ Stuck)
  /\ NumErrors' = NumErrors + Cardinality(DOMAIN disk \cap RemovedFiles \cap Stuck
                                            \cap Elements(ResultFiles))
  /\ UNCHANGED <<args, next, buildVars, jobVars, stdout, Res>>

Done == pc \in {"done", "quit"} /\ UNCHANGED vars

Next == BuildAction \/ ActionsBuilt \/ BuildJobs \/ BuildJobsForTool \/ PipelineBuilt
        \/ BuildLinkJob \/ Execute \/ CommandSucceeds \/ CommandFails \/ AllRun
        \/ Cleanup \/ Done

Spec == Init /\ [][Next]_vars

----------------------------------------------------------------------------
(* Properties.                                                             *)

(* Each variable has its type.                                             *)
TypeOK ==
  /\ args \in CommandLines
  /\ pc \in {"actions", "jobs", "tools", "execute", "running", "cleanup", "done", "quit"}
  /\ NumErrors \in Nat
  /\ next \in Nat \ {0} /\ step \in Nat \ {0}
  /\ Res \in {0, 1}

(* No two inputs give rise to the same names, an input with a suffix that  *)
(* the driver gives to outputs has the type this suffix says (no -x that   *)
(* says otherwise), and none is called like a final output.                *)
NamesApart ==
  /\ \A i, j \in 1..NumInputs : i # j => args.inputs[i].file[2] # args.inputs[j].file[2]
  /\ \A i \in 1..NumInputs :
       /\ \A t \in DOMAIN TempSuffix :
            args.inputs[i].file[3] = <<TempSuffix[t]>>
              => args.inputs[i].type = TypeForExtension(TempSuffix[t])
       /\ args.inputs[i].file \notin {OutFile, DefaultImage}

(* However the run ends, no temporary file stays that could be removed,    *)
(* and after a failed command no result file either, unless -save-temps    *)
(* asked for it ("Add a file to remove on failure", Compilation.h).        *)
NothingLeftBehind ==
  pc = "done" =>
    /\ Elements(TempFiles) \cap DOMAIN disk \subseteq Stuck
    /\ Res # 0 /\ ~args.flags.save_temps =>
         Elements(ResultFiles) \cap DOMAIN disk \subseteq Stuck

(* A command runs only on files that hold what the commands before it, all *)
(* of them successful, made.                                               *)
InputsUpToDate ==
  Running =>
    \A k \in 1..Len(commands[next].inputs) :
      /\ commands[next].inputs[k] \in DOMAIN disk
      /\ disk[commands[next].inputs[k]] # Partial

(* Wherever a command of the job list fails, whatever it leaves and        *)
(* whatever cannot be removed: nothing partial is used or left.            *)
FailuresAreContained == NothingLeftBehind /\ InputsUpToDate

(* The user's inputs are never changed or removed, whatever fails, as long *)
(* as no derived name is that of an input.                                 *)
SourcesSurvive ==
  NamesApart =>
    \A i \in Sources :
      /\ args.inputs[i].file \in DOMAIN disk
      /\ disk[args.inputs[i].file] = Source(i)

(* What an input should become: every phase up to the final one, once and  *)
(* in order; the assembler is left out behind LLVM output.                 *)
Wanted(i) ==
  LET type == args.inputs[i].type
      Performed(p) ==
        IF /\ p \in Elements(CompilationPhases(type)) /\ IsRequested(p)
           /\ p = "Assemble" /\ type \in {"C", "PP_C"} => ~args.flags.emit_llvm
          THEN <<p>> ELSE <<>>
  IN [source |-> i, phases |-> Performed("Preprocess") \o Performed("Precompile")
                                 \o Performed("Compile") \o Performed("Assemble")]

Linked == {i \in 1..NumInputs :
             FinalPhase = "Link" /\ args.inputs[i].type \notin OnlyPrecompile}

(* The image of everything that is to be linked, in the order given.       *)
IsImage(c) ==
  /\ DOMAIN c = {"parts"}
  /\ {c.parts[k] : k \in 1..Len(c.parts)} = {Wanted(i) : i \in Linked}
  /\ \A k, l \in 1..Len(c.parts) : k < l => c.parts[k].source < c.parts[l].source

(* If the driver reports success after running its commands, every input   *)
(* was taken through its phases into a file or the standard output, and    *)
(* all that are linked, in the order given, into one image.                *)
SuccessIsComplete ==
  (pc = "done" /\ Res = 0 /\ ~args.flags.print_bindings /\ NamesApart) =>
    LET contents == {disk[f] : f \in DOMAIN disk} \cup Elements(stdout)
    IN /\ Sources = 1..NumInputs
       /\ \A i \in Sources :
            (Used(i) /\ i \notin Linked /\ args.mode # "fsyntax-only") => Wanted(i) \in contents
       /\ Linked # {} => \E c \in contents : IsImage(c)

----------------------------------------------------------------------------
(* What comments and documents say, and the code does not do.              *)

(* "-pipe ignored because -save-temps specified".                          *)
SaveTempsInhibitsPipes ==
  args.flags.save_temps =>
    \A k \in 1..Len(bindings) : Pipe \notin Elements(bindings[k].inputs)

(* "in some cases, like -fsyntax-only, there is no "real" final output".   *)
SyntaxOnlyHasNoOutput ==
  args.mode = "fsyntax-only" => ResultFiles = <<>>
=============================================================================

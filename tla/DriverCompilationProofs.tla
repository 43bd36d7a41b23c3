---------------------- MODULE DriverCompilationProofs -----------------------
(***************************************************************************)
(* What holds of the driver for every command line, of any number of       *)
(* inputs, and every set of files that cannot be removed: failures are     *)
(* contained, inputs survive, and success means that all was made.         *)
(*                                                                         *)
(* None of the three is inductive.  BaseInv adds where the loops are and   *)
(* which pipelines there are; NamesInv where every name comes from;        *)
(* InputsInv and DiskInv that a command reads what commands before it      *)
(* wrote; and PlanInv that there is a plan of the final contents of every  *)
(* file, made while the jobs are built and followed while they run.        *)
(***************************************************************************)
EXTENDS DriverCompilation, FiniteSetTheorems, TLAPS

----------------------------------------------------------------------------
(* The inductive invariants.                                               *)

(* A sequence, of whatever elements.                                       *)
IsSeq(s) == \E S : s \in Seq(S)

(* Inputs the loop of BuildActions has seen.                               *)
Seen(i) == i \in 1..NumInputs /\ (pc = "actions" => i < next)

(* Nothing has been reported, or the commands were run all the same.       *)
BeforeRunning == pc \in {"actions", "jobs", "tools", "execute"}
NoErrors == (BeforeRunning /\ NumErrors = 0) \/ pc \in {"running", "cleanup", "done"}
ToolsStarted == pc \notin {"actions", "jobs"}

(* The types, and what has not begun is empty.                             *)
Types ==
  /\ args \in CommandLines
  /\ pc \in {"actions", "jobs", "tools", "execute", "running", "cleanup", "done", "quit"}
  /\ BeforeRunning => NumErrors \in Nat
  /\ next \in Nat \ {0} /\ step \in Nat \ {0}
  /\ Res \in {0, 1}
  /\ IsSeq(actions) /\ IsSeq(LinkerInputs) /\ IsSeq(InputInfos) /\ IsSeq(commands)
  /\ IsSeq(TempFiles) /\ IsSeq(ResultFiles) /\ IsSeq(stdout)
  /\ ~ToolsStarted => /\ InputInfos = <<>> /\ commands = <<>>
                      /\ TempFiles = <<>> /\ ResultFiles = <<>> /\ step = 1
  /\ args.flags.print_bindings => commands = <<>>

(* The pipelines are those of the inputs seen that are used, in order.     *)
ArePipelines(s, link) ==
  /\ \A k \in 1..Len(s) :
       /\ Seen(s[k].input) /\ Used(s[k].input)
       /\ s[k] = Pipeline(s[k].input) /\ s[k].link = link
  /\ \A k, l \in 1..Len(s) : k < l => s[k].input < s[l].input
  /\ \A i \in 1..NumInputs :
       Seen(i) /\ Used(i) /\ Pipeline(i).link = link => \E k \in 1..Len(s) : s[k].input = i

(* What BuildActions makes, and that all inputs are there if no error was  *)
(* reported.                                                               *)
ActionsInv ==
  /\ pc = "actions" => next <= NumInputs + 1
  /\ ArePipelines(actions, FALSE)
  /\ ArePipelines(LinkerInputs, TRUE)
  /\ NoErrors => /\ \A i \in 1..NumInputs : Seen(i) => args.inputs[i].exists
                 /\ ~(ToolsStarted /\ args.flags.o /\ NumOutputs > 1)

(* Where the loop over the tools is.                                       *)
LoopInv ==
  pc = "tools" =>
    /\ next <= NumPipelines + 1
    /\ step <= IF next <= NumPipelines THEN Len(Tools(Current)) + 1 ELSE 1
    /\ Len(InputInfos) = IF next <= Len(actions) THEN 0 ELSE next - 1 - Len(actions)

BaseInv == Types /\ ActionsInv /\ LoopInv

(* The tool s of the pipeline j has its command, and the linker has it.    *)
ToolAdded(j, s) ==
  /\ ToolsStarted
  /\ j \in 1..NumPipelines /\ s \in 1..Len(Tools(PipelineAt(j)))
  /\ pc = "tools" => j < next \/ (j = next /\ s < step)
LinkAdded == ToolsStarted /\ pc # "tools" /\ LinkerInputs # <<>>

(* The names that have been given.                                         *)
OutFileUsed ==
  \/ LinkAdded
  \/ \E j \in 1..Len(actions) : /\ ToolAdded(j, Len(Tools(PipelineAt(j))))
                                /\ PipelineAt(j).type # "Nothing"

(* A temporary name carries its number; a derived one is that of a tool;   *)
(* a result may also be called by -o or be the default image.              *)
IsTemp(f) == \E n \in 1..Len(TempFiles), e \in DOMAIN TempSuffix :
               f = <<TempDir, n, <<TempSuffix[e]>>>>

IsDerived(f) ==
  \E j \in 1..NumPipelines : \E s \in 1..Len(Tools(PipelineAt(j))) :
    /\ ToolAdded(j, s)
    /\ Tools(PipelineAt(j))[s].type # "Nothing"
    /\ f = DerivedName(Tools(PipelineAt(j))[s].type, Base(PipelineAt(j)))

IsResult(f) == \/ args.flags.o /\ OutFileUsed /\ f = OutFile
               \/ LinkAdded /\ f = DefaultImage
               \/ IsDerived(f)

(* Every name that was given is one of these.                              *)
NamesInv ==
  /\ \A k \in 1..Len(TempFiles) : IsTemp(TempFiles[k])
  /\ \A k \in 1..Len(ResultFiles) : IsResult(ResultFiles[k])
  /\ \A k \in 1..Len(commands) :
       IsFile(commands[k].output) => IsTemp(commands[k].output) \/ IsResult(commands[k].output)

(* The files there are before the n-th command, if all are there that the  *)
(* commands before it write.                                               *)
SourceFiles == {args.inputs[i].file : i \in Sources}
OutputsBefore(n) ==
  {commands[k].output : k \in {m \in 1..Len(commands) : m < n /\ IsFile(commands[m].output)}}
FilesBefore(n) == SourceFiles \cup OutputsBefore(n)
AllFiles == FilesBefore(Len(commands) + 1)

(* The result of the last tool is going to be read.                        *)
ResultIsRead == /\ pc = "tools" /\ next <= NumPipelines
                /\ step <= Len(Tools(Current)) \/ next > Len(actions)

(* A command reads sources and what commands before it write.              *)
InputsInv ==
  /\ \A k \in 1..Len(commands) : \A m \in 1..Len(commands[k].inputs) :
       commands[k].inputs[m] \in FilesBefore(k)
  /\ ~args.flags.print_bindings =>
       /\ \A m \in 1..Len(InputInfos) : InputInfos[m] \in AllFiles
       /\ ResultIsRead => InputInfo \in AllFiles

(* Until a command fails, the files are the sources and what commands      *)
(* wrote, and all are whole.                                               *)
DiskInv ==
  /\ BeforeRunning => DOMAIN disk = SourceFiles
  /\ pc = "running" => DOMAIN disk = FilesBefore(next) /\ next <= Len(commands) + 1
  /\ BeforeRunning \/ pc = "running" => \A f \in DOMAIN disk : "partial" \notin DOMAIN disk[f]

(* The phases the first n tools of a pipeline perform.                     *)
PhasesSoFar(t, n) ==
  IF n = 0 THEN <<>> ELSE IF n = 1 THEN t[1].phases
  ELSE IF n = 2 THEN t[1].phases \o t[2].phases
  ELSE t[1].phases \o t[2].phases \o t[3].phases

(* C says what every file is going to contain.                             *)
IsPlan(C) ==
  /\ C = [f \in AllFiles |-> C[f]]
  /\ \A i \in Sources : C[args.inputs[i].file] = Source(i)
  /\ \A k \in 1..Len(commands) :
       IsFile(commands[k].output) => C[commands[k].output] = Product(C, commands[k])

(* A command has these contents as its product, and it will stay.          *)
Delivered(C, contents) ==
  \E k \in 1..Len(commands) :
    /\ Product(C, commands[k]) = contents
    /\ commands[k].output # Nowhere
    /\ commands[k].output \notin Elements(TempFiles)

(* What the image is to consist of.                                        *)
LinkedParts == [parts |-> [m \in 1..Len(LinkerInputs) |-> Wanted(LinkerInputs[m].input)]]

(* The plan leads to what is wanted: the input of the next tool went       *)
(* through the phases before it, what the linker is going to read is what  *)
(* it should be, and every finished pipeline delivers.                     *)
IsPromising(C) ==
  /\ ResultIsRead => C[InputInfo] = [source |-> Current.input,
                                     phases |-> PhasesSoFar(Tools(Current), step - 1)]
  /\ \A m \in 1..Len(InputInfos) : C[InputInfos[m]] = Wanted(LinkerInputs[m].input)
  /\ \A j \in 1..Len(actions) :
       ToolAdded(j, Len(Tools(PipelineAt(j)))) /\ PipelineAt(j).type # "Nothing"
         => Delivered(C, Wanted(PipelineAt(j).input))
  /\ LinkAdded => Delivered(C, LinkedParts)

(* If all goes well, there is a plan.                                      *)
PlanInv ==
  NoErrors /\ NamesApart /\ ~args.flags.print_bindings => \E C : IsPlan(C) /\ IsPromising(C)

(* As long as no command fails, the files contain what is planned.         *)
DiskIsPlanned ==
  NamesApart /\ (pc = "running" \/ (pc \in {"cleanup", "done"} /\ Res = 0)) =>
    \A C : IsPlan(C) =>
      /\ \A f \in DOMAIN disk : disk[f] = C[f]
      /\ \A k \in 1..Len(commands) :
           commands[k].output = Pipe /\ k < next => Product(C, commands[k]) \in Elements(stdout)

(* After success all commands have run and only temporary files went.      *)
FinishedInv ==
  pc \in {"cleanup", "done"} /\ Res = 0 =>
    /\ next > Len(commands)
    /\ AllFiles \ (IF pc = "done" THEN Elements(TempFiles) ELSE {}) \subseteq DOMAIN disk

----------------------------------------------------------------------------
(* Sequences.                                                              *)

(* A sequence with one element more.                                       *)
LEMMA Appending ==
  ASSUME NEW s, NEW e, IsSeq(s)
  PROVE  /\ IsSeq(Append(s, e)) /\ Len(s) \in Nat /\ Len(Append(s, e)) = Len(s) + 1
         /\ \A k \in 1..Len(s) : Append(s, e)[k] = s[k]
         /\ Append(s, e)[Len(s) + 1] = e
<1>1. PICK S : s \in Seq(S) BY DEF IsSeq
<1>2. s \in Seq(S \cup {e}) BY <1>1
<1>3. Append(s, e) \in Seq(S \cup {e}) BY <1>2
<1> QED BY <1>2, <1>3 DEF IsSeq

(* The empty sequence.                                                     *)
LEMMA EmptySeq ==
  IsSeq(<<>>) /\ Len(<<>>) = 0
<1>1. <<>> \in Seq({}) OBVIOUS
<1> QED BY <1>1 DEF IsSeq

(* A sequence is empty just if its length is 0.                            *)
LEMMA EmptyIff ==
  ASSUME NEW s, IsSeq(s)
  PROVE  Len(s) \in Nat /\ (s = <<>> <=> Len(s) = 0)
BY DEF IsSeq

----------------------------------------------------------------------------
(* The pipelines.                                                          *)

(* The types of what a command line has.                                   *)
LEMMA ArgsType ==
  ASSUME args \in CommandLines
  PROVE  /\ args.inputs \in Seq(Input)
         /\ args.mode \in Mode
         /\ args.flags \in Flags
         /\ args.flags.o \in BOOLEAN /\ args.flags.emit_llvm \in BOOLEAN
         /\ NumInputs \in Nat
         /\ \A i \in 1..NumInputs :
              /\ args.inputs[i] \in Input
              /\ args.inputs[i].type \in InputTypes
              /\ args.inputs[i].exists \in BOOLEAN
<1>1. args \in [inputs : Seq(Input), mode : Mode, flags : Flags]
  BY CommandLinesAssumption
<1>2. args.inputs \in Seq(Input) /\ args.mode \in Mode /\ args.flags \in Flags
  BY <1>1
<1>3. args.flags.o \in BOOLEAN /\ args.flags.emit_llvm \in BOOLEAN
  BY <1>2 DEF Flags
<1>4. NumInputs \in Nat /\ \A i \in 1..NumInputs : args.inputs[i] \in Input
  BY <1>2 DEF NumInputs
<1>5. ASSUME NEW i \in 1..NumInputs
      PROVE  args.inputs[i].type \in InputTypes /\ args.inputs[i].exists \in BOOLEAN
  BY <1>4 DEF Input
<1> QED BY <1>2, <1>3, <1>4, <1>5

(* The order of the phases.                                                *)
LEMMA PhaseNumbers ==
  /\ PhaseNumber["Preprocess"] = 1 /\ PhaseNumber["Precompile"] = 2
  /\ PhaseNumber["Compile"] = 3 /\ PhaseNumber["Assemble"] = 4 /\ PhaseNumber["Link"] = 5
BY DEF PhaseNumber

(* Sequences with the same elements are equal.                             *)
LEMMA SeqEq ==
  ASSUME NEW S, NEW p \in Seq(S), NEW q \in Seq(S), Len(p) = Len(q),
         \A k \in 1..Len(p) : p[k] = q[k]
  PROVE  p = q
OBVIOUS

(* What Append makes of the short sequences of steps there are.            *)
LEMMA Appended ==
  ASSUME NEW a, NEW b, NEW c
  PROVE  /\ Append(<<>>, a) = <<a>>
         /\ Append(<<a>>, b) = <<a, b>>
         /\ Append(<<a, b>>, c) = <<a, b, c>>
<1> DEFINE S == {a, b, c}
           s == Append(<<>>, a)
           t == Append(<<a>>, b)
           u == Append(<<a, b>>, c)
<1>1. <<>> \in Seq(S) /\ <<a>> \in Seq(S) /\ <<a, b>> \in Seq(S) /\ <<a, b, c>> \in Seq(S)
  OBVIOUS
<1>2. s \in Seq(S) /\ Len(s) = 1 /\ s[1] = a BY <1>1
<1>3. t \in Seq(S) /\ Len(t) = 2 /\ t[1] = a /\ t[2] = b BY <1>1
<1>4. u \in Seq(S) /\ Len(u) = 3 /\ u[1] = a /\ u[2] = b /\ u[3] = c BY <1>1
<1>5. s = <<a>> BY <1>1, <1>2, SeqEq
<1>6. \A k \in 1..2 : t[k] = <<a, b>>[k] BY <1>3
<1>7. \A k \in 1..3 : u[k] = <<a, b, c>>[k] BY <1>4
<1>8. t = <<a, b>> BY <1>1, <1>3, <1>6, SeqEq
<1>9. u = <<a, b, c>> BY <1>1, <1>4, <1>7, SeqEq
<1> QED BY <1>5, <1>8, <1>9

(* What concatenation makes of them.                                       *)
LEMMA Concat ==
  ASSUME NEW a, NEW b, NEW c
  PROVE  /\ <<>> \o <<>> = <<>> /\ <<>> \o <<a>> = <<a>> /\ <<a>> \o <<>> = <<a>>
         /\ <<>> \o <<a, b>> = <<a, b>> /\ <<a, b>> \o <<>> = <<a, b>>
         /\ <<>> \o <<a, b, c>> = <<a, b, c>> /\ <<a, b, c>> \o <<>> = <<a, b, c>>
         /\ <<a>> \o <<b>> = <<a, b>>
         /\ <<a>> \o <<b, c>> = <<a, b, c>>
         /\ <<a, b>> \o <<c>> = <<a, b, c>>
<1> DEFINE S == {a, b, c}
<1>1. /\ <<>> \in Seq(S) /\ <<a>> \in Seq(S) /\ <<b>> \in Seq(S) /\ <<c>> \in Seq(S)
      /\ <<a, b>> \in Seq(S) /\ <<b, c>> \in Seq(S) /\ <<a, b, c>> \in Seq(S)
  OBVIOUS
<1>2. <<a>> \o <<b>> = <<a, b>>
  <2>1. <<a>> \o <<b>> \in Seq(S) /\ Len(<<a>> \o <<b>>) = 2 BY <1>1
  <2>2. \A k \in 1..2 : (<<a>> \o <<b>>)[k] = <<a, b>>[k] BY <1>1, <2>1
  <2> QED BY <1>1, <2>1, <2>2, SeqEq
<1>3. <<a>> \o <<b, c>> = <<a, b, c>>
  <2>1. <<a>> \o <<b, c>> \in Seq(S) /\ Len(<<a>> \o <<b, c>>) = 3 BY <1>1
  <2>2. \A k \in 1..3 : (<<a>> \o <<b, c>>)[k] = <<a, b, c>>[k] BY <1>1, <2>1
  <2> QED BY <1>1, <2>1, <2>2, SeqEq
<1>4. <<a, b>> \o <<c>> = <<a, b, c>>
  <2>1. <<a, b>> \o <<c>> \in Seq(S) /\ Len(<<a, b>> \o <<c>>) = 3 BY <1>1
  <2>2. \A k \in 1..3 : (<<a, b>> \o <<c>>)[k] = <<a, b, c>>[k] BY <1>1, <2>1
  <2> QED BY <1>1, <2>1, <2>2, SeqEq
<1>5. \A s \in Seq(S) : <<>> \o s = s /\ s \o <<>> = s OBVIOUS
<1> QED BY <1>1, <1>2, <1>3, <1>4, <1>5

(* The longest list of phases.                                             *)
LEMMA ConcatFour ==
  ASSUME NEW a, NEW b, NEW c, NEW d
  PROVE  <<a>> \o <<b, c, d>> = <<a, b, c, d>>
<1> DEFINE S == {a, b, c, d}
<1>1. <<a>> \in Seq(S) /\ <<b, c, d>> \in Seq(S) /\ <<a, b, c, d>> \in Seq(S) OBVIOUS
<1>2. <<a>> \o <<b, c, d>> \in Seq(S) /\ Len(<<a>> \o <<b, c, d>>) = 4 BY <1>1
<1>3. \A k \in 1..4 : (<<a>> \o <<b, c, d>>)[k] = <<a, b, c, d>>[k]
  BY <1>1, <1>2
<1> QED BY <1>1, <1>2, <1>3, SeqEq

(* The phases of each type, listed.                                        *)
LEMMA CompilationPhasesOf ==
  /\ CompilationPhases("C") = <<"Preprocess", "Compile", "Assemble", "Link">>
  /\ CompilationPhases("PP_C") = <<"Compile", "Assemble", "Link">>
  /\ CompilationPhases("CHeader") = <<"Preprocess", "Precompile">>
  /\ CompilationPhases("Asm") = <<"Preprocess", "Assemble", "Link">>
  /\ CompilationPhases("PP_Asm") = <<"Assemble", "Link">>
  /\ CompilationPhases("Object") = <<"Link">>
<1>0. DOMAIN PreprocessedType = {"C", "CHeader", "Asm"} BY DEF PreprocessedType
<1>1. CompilationPhases("C") = <<"Preprocess", "Compile", "Assemble", "Link">>
  <2>1. <<"Preprocess">> \o <<"Compile", "Assemble", "Link">>
          = <<"Preprocess", "Compile", "Assemble", "Link">>
    BY ConcatFour, Zenon
  <2> QED BY <2>1, <1>0 DEF CompilationPhases, OnlyAssemble, OnlyPrecompile
<1> USE <1>0 DEF CompilationPhases, OnlyAssemble, OnlyPrecompile
<1>2. CompilationPhases("PP_C") = <<"Compile", "Assemble", "Link">>
  BY Concat
<1>3. CompilationPhases("CHeader") = <<"Preprocess", "Precompile">>
  BY Concat
<1>4. CompilationPhases("Asm") = <<"Preprocess", "Assemble", "Link">>
  BY Concat
<1>5. CompilationPhases("PP_Asm") = <<"Assemble", "Link">>
  BY Concat
<1>6. CompilationPhases("Object") = <<"Link">>
  OBVIOUS
<1> QED BY <1>1, <1>2, <1>3, <1>4, <1>5, <1>6

Pipe5(i, type, steps, link, ended) ==
  [input |-> i, type |-> type, steps |-> steps, link |-> link, ended |-> ended]

(* Which phases each mode asks for.                                        *)
LEMMA Requested ==
  ASSUME args \in CommandLines
  PROVE  /\ IsRequested("Preprocess")
         /\ IsRequested("Precompile") <=> args.mode \notin {"E", "M"}
         /\ IsRequested("Compile") <=> args.mode \notin {"E", "M"}
         /\ IsRequested("Assemble") <=> args.mode \in {"c", "link"}
         /\ IsRequested("Link") <=> args.mode = "link"
<1>1. args.mode \in Mode BY ArgsType
<1> QED BY <1>1, PhaseNumbers DEF IsRequested, FinalPhase, Mode

PreType(type) == IF args.mode = "M" THEN "Dependencies" ELSE PreprocessedType[type]
Pre(type) == [phase |-> "Preprocess", type |-> PreType(type)]
Com == [phase |-> "Compile", type |-> OutputType("Compile", "PP_C")]
Pch == [phase |-> "Precompile", type |-> "PCH"]
Ass == [phase |-> "Assemble", type |-> "Object"]

(* The types ConstructPhaseAction gives.                                   *)
LEMMA OutputTypes ==
  /\ \A t : OutputType("Preprocess", t) = PreType(t)
  /\ \A t : OutputType("Precompile", t) = "PCH"
  /\ \A t : OutputType("Compile", t) = Com.type
  /\ \A t : OutputType("Assemble", t) = "Object"
  BY DEF OutputType, PreType, Com

(* What the compiler makes in each mode.                                   *)
LEMMA CompileType ==
  ASSUME args \in CommandLines
  PROVE  /\ Com.type = "Nothing" <=> args.mode = "fsyntax-only"
         /\ args.mode \in {"c", "link"}
              => Com.type = IF args.flags.emit_llvm THEN "LLVMBC" ELSE "PP_Asm"
         /\ Com.type \in {"Nothing", "Plist", "LLVMAsm", "LLVMBC", "PP_Asm"}
<1>1. args.mode \in Mode BY ArgsType
<1> QED BY <1>1 DEF Com, OutputType, Mode

Start(i) == Pipe5(i, args.inputs[i].type, <<>>, FALSE, FALSE)

(* A pipeline, one phase of its type after the other.                      *)
LEMMA PipelineUnrolled ==
  ASSUME NEW i, NEW a, NEW b, NEW c, NEW d
  PROVE  /\ CompilationPhases(args.inputs[i].type) = <<a>> => Pipeline(i) = AddPhase(Start(i), a)
         /\ CompilationPhases(args.inputs[i].type) = <<a, b>>
              => Pipeline(i) = AddPhase(AddPhase(Start(i), a), b)
         /\ CompilationPhases(args.inputs[i].type) = <<a, b, c>>
              => Pipeline(i) = AddPhase(AddPhase(AddPhase(Start(i), a), b), c)
         /\ CompilationPhases(args.inputs[i].type) = <<a, b, c, d>>
              => Pipeline(i) = AddPhase(AddPhase(AddPhase(AddPhase(Start(i), a), b), c), d)
<1> DEFINE ph == CompilationPhases(args.inputs[i].type)
           Add(p, k) == IF k <= Len(ph) THEN AddPhase(p, ph[k]) ELSE p
<1>0. Pipeline(i) = Add(Add(Add(Add(Start(i), 1), 2), 3), 4)
  BY DEF Pipeline, Start, Pipe5
<1>1. ASSUME ph = <<a>> PROVE Pipeline(i) = AddPhase(Start(i), a)
  <2>1. Len(ph) = 1 /\ ph[1] = a BY <1>1
  <2> HIDE DEF ph
  <2> QED BY <1>0, <2>1
<1>2. ASSUME ph = <<a, b>> PROVE Pipeline(i) = AddPhase(AddPhase(Start(i), a), b)
  <2>1. Len(ph) = 2 /\ ph[1] = a /\ ph[2] = b BY <1>2
  <2> HIDE DEF ph
  <2> QED BY <1>0, <2>1
<1>3. ASSUME ph = <<a, b, c>> PROVE Pipeline(i) = AddPhase(AddPhase(AddPhase(Start(i), a), b), c)
  <2>1. Len(ph) = 3 /\ ph[1] = a /\ ph[2] = b /\ ph[3] = c BY <1>3
  <2> HIDE DEF ph
  <2> QED BY <1>0, <2>1
<1>4. ASSUME ph = <<a, b, c, d>>
      PROVE  Pipeline(i) = AddPhase(AddPhase(AddPhase(AddPhase(Start(i), a), b), c), d)
  <2>1. Len(ph) = 4 /\ ph[1] = a /\ ph[2] = b /\ ph[3] = c /\ ph[4] = d BY <1>4
  <2> HIDE DEF ph
  <2> QED BY <1>0, <2>1
<1> QED BY <1>1, <1>2, <1>3, <1>4

Assembles == args.mode \in {"c", "link"} /\ ~args.flags.emit_llvm

(* The compiler is added, and ends the pipeline if it makes nothing.       *)
LEMMA AddCompile ==
  ASSUME args \in CommandLines, IsRequested("Compile"), NEW i, NEW t, NEW s
  PROVE  AddPhase(Pipe5(i, t, s, FALSE, FALSE), "Compile")
           = Pipe5(i, Com.type, Append(s, Com), FALSE, args.mode = "fsyntax-only")
<1>1. OutputType("Compile", t) = Com.type BY OutputTypes
<1>2. Com = [phase |-> "Compile", type |-> Com.type] BY DEF Com
<1>3. (Com.type = "Nothing") = (args.mode = "fsyntax-only") BY CompileType
<1> QED BY <1>1, <1>2, <1>3, ZenonT(60) DEF AddPhase, Pipe5

(* The assembler is added behind an assembly file.                         *)
LEMMA AddAssemble ==
  ASSUME IsRequested("Assemble"), NEW i, NEW s
  PROVE  AddPhase(Pipe5(i, "PP_Asm", s, FALSE, FALSE), "Assemble")
           = Pipe5(i, "Object", Append(s, Ass), FALSE, FALSE)
<1>1. OutputType("Assemble", "PP_Asm") = "Object" BY OutputTypes
<1> QED BY <1>1, ZenonT(60) DEF AddPhase, Pipe5, Ass

(* The preprocessor is added.                                              *)
LEMMA AddPreprocess ==
  ASSUME args \in CommandLines, NEW i, NEW t, t \in {"C", "CHeader", "Asm"}, NEW s
  PROVE  AddPhase(Pipe5(i, t, s, FALSE, FALSE), "Preprocess")
           = Pipe5(i, PreType(t), Append(s, Pre(t)), FALSE, FALSE)
<1>1. OutputType("Preprocess", t) = PreType(t) BY OutputTypes
<1>2. IsRequested("Preprocess") BY Requested
<1>3. PreType(t) # "Nothing" BY DEF PreType, PreprocessedType
<1> QED BY <1>1, <1>2, <1>3, ZenonT(60) DEF AddPhase, Pipe5, Pre

(* The precompiler is added.                                               *)
LEMMA AddPrecompile ==
  ASSUME IsRequested("Precompile"), NEW i, NEW t, NEW s
  PROVE  AddPhase(Pipe5(i, t, s, FALSE, FALSE), "Precompile")
           = Pipe5(i, "PCH", Append(s, Pch), FALSE, FALSE)
<1>1. OutputType("Precompile", t) = "PCH" BY OutputTypes
<1> QED BY <1>1, ZenonT(60) DEF AddPhase, Pipe5, Pch

(* A phase that is not requested ends a pipeline.                          *)
LEMMA AddUnrequested ==
  ASSUME NEW phase, ~IsRequested(phase), NEW i, NEW t, NEW s, NEW ended
  PROVE  AddPhase(Pipe5(i, t, s, FALSE, ended), phase) = Pipe5(i, t, s, FALSE, TRUE)
BY DEF AddPhase, Pipe5

(* The assembler is left out behind what it does not read.                 *)
LEMMA SkipAssembler ==
  ASSUME IsRequested("Assemble"), NEW i, NEW t, t # "PP_Asm", NEW s
  PROVE  AddPhase(Pipe5(i, t, s, FALSE, FALSE), "Assemble") = Pipe5(i, t, s, FALSE, FALSE)
BY DEF AddPhase, Pipe5

(* The linker ends a pipeline that has come to it.                         *)
LEMMA AddLink ==
  ASSUME args \in CommandLines, args.mode \in {"c", "link"}, NEW i, NEW t, NEW s
  PROVE  AddPhase(Pipe5(i, t, s, FALSE, FALSE), "Link")
           = Pipe5(i, t, s, args.mode = "link", TRUE)
<1>1. CASE args.mode = "link"
  <2>1. IsRequested("Link") BY <1>1, Requested
  <2>2. AddPhase(Pipe5(i, t, s, FALSE, FALSE), "Link") = Pipe5(i, t, s, TRUE, TRUE)
    BY <2>1 DEF AddPhase, Pipe5
  <2>3. (args.mode = "link") = TRUE BY <1>1
  <2> QED BY <2>2, <2>3
<1>2. CASE args.mode # "link"
  <2>1. ~IsRequested("Link") BY <1>2, Requested
  <2>2. AddPhase(Pipe5(i, t, s, FALSE, FALSE), "Link") = Pipe5(i, t, s, FALSE, TRUE)
    BY <2>1, AddUnrequested
  <2>3. (args.mode = "link") = FALSE BY <1>2
  <2> QED BY <2>2, <2>3
<1> QED BY <1>1, <1>2

(* A pipeline from the compiler on.                                        *)
LEMMA FromCompile ==
  ASSUME args \in CommandLines, IsRequested("Compile"), NEW i, NEW t, NEW s
  PROVE  AddPhase(AddPhase(AddPhase(Pipe5(i, t, s, FALSE, FALSE), "Compile"), "Assemble"), "Link")
           = IF Assembles
               THEN Pipe5(i, "Object", Append(Append(s, Com), Ass), args.mode = "link", TRUE)
               ELSE Pipe5(i, Com.type, Append(s, Com), args.mode = "link", TRUE)
<1> DEFINE p1 == AddPhase(Pipe5(i, t, s, FALSE, FALSE), "Compile")
           p2 == AddPhase(p1, "Assemble")
           p3 == AddPhase(p2, "Link")
           s1 == Append(s, Com)
           s2 == Append(s1, Ass)
<1>1. p1 = Pipe5(i, Com.type, s1, FALSE, args.mode = "fsyntax-only") BY AddCompile
<1> HIDE DEF p1, s1
<1>3. CASE args.mode \notin {"c", "link"}
  <2>1. ~IsRequested("Assemble") /\ ~IsRequested("Link") BY <1>3, Requested
  <2>2. p2 = Pipe5(i, Com.type, s1, FALSE, TRUE)
    <3>1. PICK e : e = (args.mode = "fsyntax-only") OBVIOUS
    <3>2. p1 = Pipe5(i, Com.type, s1, FALSE, e) BY <1>1, <3>1
    <3> QED BY <2>1, <3>2, AddUnrequested
  <2> HIDE DEF p2
  <2>3. p3 = Pipe5(i, Com.type, s1, FALSE, TRUE)
    BY <2>1, <2>2, AddUnrequested
  <2>4. (args.mode = "link") = FALSE BY <1>3
  <2>5. ~Assembles BY <1>3 DEF Assembles
  <2> QED BY <2>3, <2>4, <2>5 DEF p1, p2, s1
<1>4. CASE args.mode \in {"c", "link"}
  <2>1. p1 = Pipe5(i, Com.type, s1, FALSE, FALSE) BY <1>1, <1>4
  <2>2. CASE Assembles
    <3>1. Com.type = "PP_Asm" BY <1>4, <2>2, CompileType DEF Assembles
    <3>2. p2 = Pipe5(i, "Object", s2, FALSE, FALSE)
      BY <2>1, <3>1, AddAssemble, Requested, <1>4
    <3> HIDE DEF p2, s2
    <3>3. p3 = Pipe5(i, "Object", s2, args.mode = "link", TRUE)
      BY <3>2, <1>4, AddLink
    <3> QED BY <3>3, <2>2 DEF p1, p2, s1, s2
  <2>3. CASE ~Assembles
    <3>1. Com.type # "PP_Asm" BY <1>4, <2>3, CompileType DEF Assembles
    <3>2. p2 = Pipe5(i, Com.type, s1, FALSE, FALSE)
      BY <2>1, <3>1, Requested, <1>4, SkipAssembler
    <3> HIDE DEF p2
    <3>3. p3 = Pipe5(i, Com.type, s1, args.mode = "link", TRUE)
      BY <3>2, <1>4, AddLink
    <3> QED BY <3>3, <2>3 DEF p1, p2, s1
  <2> QED BY <2>2, <2>3
<1> QED BY <1>3, <1>4

StepsOf(type) ==
  CASE type = "C" -> IF args.mode \in {"E", "M"} THEN <<Pre("C")>>
                     ELSE IF Assembles THEN <<Pre("C"), Com, Ass>> ELSE <<Pre("C"), Com>>
    [] type = "PP_C" -> IF Assembles THEN <<Com, Ass>> ELSE <<Com>>
    [] type = "CHeader" -> IF args.mode \in {"E", "M"} THEN <<Pre("CHeader")>>
                           ELSE <<Pre("CHeader"), Pch>>
    [] type = "Asm" -> IF args.mode \in {"c", "link"} THEN <<Pre("Asm"), Ass>> ELSE <<Pre("Asm")>>
    [] type = "PP_Asm" -> <<Ass>>
    [] type = "Object" -> <<>>

IsLinked(i) == args.mode = "link" /\ args.inputs[i].type # "CHeader"

(* The pipeline of an input in closed form.                                *)
PipelineIs(i) ==
  /\ Pipeline(i).input = i
  /\ Pipeline(i).steps = StepsOf(args.inputs[i].type)
  /\ Pipeline(i).link \in BOOLEAN /\ (Pipeline(i).link = TRUE <=> IsLinked(i))
  /\ Pipeline(i).type =
       IF args.inputs[i].type = "Object" THEN "Object"
       ELSE StepsOf(args.inputs[i].type)[Len(StepsOf(args.inputs[i].type))].type

(* How a pipeline is shown to have its closed form.                        *)
LEMMA PipelineIsIntro ==
  ASSUME NEW i, NEW type, NEW t, NEW s, NEW link, NEW ended,
         Pipeline(i) = Pipe5(i, t, s, link, ended),
         link \in BOOLEAN, link = TRUE <=> IsLinked(i),
         args.inputs[i].type = type, s = StepsOf(type),
         t = IF type = "Object" THEN "Object" ELSE s[Len(s)].type
  PROVE  PipelineIs(i)
BY DEF Pipe5, PipelineIs

(* The pipelines of the six types of input.                                *)
LEMMA PipelineOfC ==
  ASSUME args \in CommandLines, NEW i \in 1..NumInputs, args.inputs[i].type = "C"
  PROVE  PipelineIs(i)
<1> DEFINE p1 == AddPhase(Start(i), "Preprocess")
           p4 == AddPhase(AddPhase(AddPhase(p1, "Compile"), "Assemble"), "Link")
<1>1. Pipeline(i) = p4
  BY CompilationPhasesOf, PipelineUnrolled
<1>2. p1 = Pipe5(i, PreType("C"), <<Pre("C")>>, FALSE, FALSE)
  BY AddPreprocess, Appended DEF Start
<1> HIDE DEF p1
<1>3. CASE args.mode \in {"E", "M"}
  <2> DEFINE p2 == AddPhase(p1, "Compile")
             p3 == AddPhase(p2, "Assemble")
  <2>1. ~IsRequested("Compile") /\ ~IsRequested("Assemble") /\ ~IsRequested("Link")
    BY <1>3, Requested
  <2>2. p2 = Pipe5(i, PreType("C"), <<Pre("C")>>, FALSE, TRUE)
    BY <1>2, <2>1, AddUnrequested
  <2> HIDE DEF p2
  <2>3. p3 = Pipe5(i, PreType("C"), <<Pre("C")>>, FALSE, TRUE)
    BY <2>2, <2>1, AddUnrequested
  <2> HIDE DEF p3
  <2>4. AddPhase(p3, "Link") = Pipe5(i, PreType("C"), <<Pre("C")>>, FALSE, TRUE)
    BY <2>3, <2>1, AddUnrequested
  <2>5. p4 = Pipe5(i, PreType("C"), <<Pre("C")>>, FALSE, TRUE)
    BY <2>4 DEF p2, p3
  <2>6. StepsOf("C") = <<Pre("C")>> /\ IsLinked(i) = FALSE BY <1>3 DEF StepsOf, IsLinked
  <2>7. <<Pre("C")>>[Len(<<Pre("C")>>)].type = PreType("C") BY DEF Pre
  <2> HIDE DEF p4
  <2> QED BY <1>1, <2>5, <2>6, <2>7, PipelineIsIntro
<1>4. CASE args.mode \notin {"E", "M"}
  <2>1. IsRequested("Compile") BY <1>4, Requested
  <2>2. p4 = IF Assembles
               THEN Pipe5(i, "Object", Append(Append(<<Pre("C")>>, Com), Ass),
                          args.mode = "link", TRUE)
               ELSE Pipe5(i, Com.type, Append(<<Pre("C")>>, Com), args.mode = "link", TRUE)
    BY <1>2, <2>1, FromCompile
  <2> HIDE DEF p4
  <2>3. Append(<<Pre("C")>>, Com) = <<Pre("C"), Com>>
        /\ Append(<<Pre("C"), Com>>, Ass) = <<Pre("C"), Com, Ass>>
    BY Appended
  <2>4. PICK link \in BOOLEAN : link = (args.mode = "link") OBVIOUS
  <2>8. link = TRUE <=> IsLinked(i) BY <2>4 DEF IsLinked
  <2>5. <<Pre("C"), Com>>[Len(<<Pre("C"), Com>>)].type = Com.type
        /\ <<Pre("C"), Com, Ass>>[Len(<<Pre("C"), Com, Ass>>)].type = "Object"
    BY DEF Ass
  <2>6. CASE Assembles
    <3>1. StepsOf("C") = <<Pre("C"), Com, Ass>> BY <1>4, <2>6 DEF StepsOf
    <3>2. Pipeline(i) = Pipe5(i, "Object", <<Pre("C"), Com, Ass>>, link, TRUE)
      BY <1>1, <2>2, <2>3, <2>4, <2>6
    <3> QED BY <3>1, <3>2, <2>5, <2>8, PipelineIsIntro
  <2>7. CASE ~Assembles
    <3>1. StepsOf("C") = <<Pre("C"), Com>> BY <1>4, <2>7 DEF StepsOf
    <3>2. Pipeline(i) = Pipe5(i, Com.type, <<Pre("C"), Com>>, link, TRUE)
      BY <1>1, <2>2, <2>3, <2>4, <2>7
    <3> QED BY <3>1, <3>2, <2>5, <2>8, PipelineIsIntro
  <2> QED BY <2>6, <2>7
<1> QED BY <1>3, <1>4

LEMMA PipelineOfPPC ==
  ASSUME args \in CommandLines, NEW i \in 1..NumInputs, args.inputs[i].type = "PP_C", Used(i)
  PROVE  PipelineIs(i)
<1> DEFINE p3 == AddPhase(AddPhase(AddPhase(Start(i), "Compile"), "Assemble"), "Link")
<1>1. Pipeline(i) = p3
  BY CompilationPhasesOf, PipelineUnrolled
<1>2. IsRequested("Compile")
  <2>1. CompilationPhases("PP_C")[1] = "Compile" BY CompilationPhasesOf
  <2> QED BY <2>1 DEF Used
<1>3. p3 = IF Assembles
             THEN Pipe5(i, "Object", Append(Append(<<>>, Com), Ass), args.mode = "link", TRUE)
             ELSE Pipe5(i, Com.type, Append(<<>>, Com), args.mode = "link", TRUE)
  BY <1>2, FromCompile DEF Start
<1> HIDE DEF p3
<1>4. Append(<<>>, Com) = <<Com>> /\ Append(<<Com>>, Ass) = <<Com, Ass>>
  BY Appended
<1>5. PICK link \in BOOLEAN : link = (args.mode = "link") OBVIOUS
<1>9. link = TRUE <=> IsLinked(i) BY <1>5 DEF IsLinked
<1>6. <<Com>>[Len(<<Com>>)].type = Com.type /\ <<Com, Ass>>[Len(<<Com, Ass>>)].type = "Object"
  BY DEF Ass
<1>7. CASE Assembles
  <2>1. StepsOf("PP_C") = <<Com, Ass>> BY <1>7 DEF StepsOf
  <2>2. Pipeline(i) = Pipe5(i, "Object", <<Com, Ass>>, link, TRUE)
    BY <1>1, <1>3, <1>4, <1>5, <1>7
  <2> QED BY <2>1, <2>2, <1>6, <1>9, PipelineIsIntro
<1>8. CASE ~Assembles
  <2>1. StepsOf("PP_C") = <<Com>> BY <1>8 DEF StepsOf
  <2>2. Pipeline(i) = Pipe5(i, Com.type, <<Com>>, link, TRUE)
    BY <1>1, <1>3, <1>4, <1>5, <1>8
  <2> QED BY <2>1, <2>2, <1>6, <1>9, PipelineIsIntro
<1> QED BY <1>7, <1>8

LEMMA PipelineOfCHeader ==
  ASSUME args \in CommandLines, NEW i \in 1..NumInputs, args.inputs[i].type = "CHeader"
  PROVE  PipelineIs(i)
<1> DEFINE p1 == AddPhase(Start(i), "Preprocess")
           p2 == AddPhase(p1, "Precompile")
<1>1. Pipeline(i) = p2
  BY CompilationPhasesOf, PipelineUnrolled
<1>2. p1 = Pipe5(i, PreType("CHeader"), <<Pre("CHeader")>>, FALSE, FALSE)
  BY AddPreprocess, Appended DEF Start
<1> HIDE DEF p1
<1>3. IsLinked(i) = FALSE BY DEF IsLinked
<1>4. CASE args.mode \in {"E", "M"}
  <2>1. p2 = Pipe5(i, PreType("CHeader"), <<Pre("CHeader")>>, FALSE, TRUE)
    BY <1>2, <1>4, Requested, AddUnrequested
  <2>2. StepsOf("CHeader") = <<Pre("CHeader")>> BY <1>4 DEF StepsOf
  <2>3. <<Pre("CHeader")>>[Len(<<Pre("CHeader")>>)].type = PreType("CHeader") BY DEF Pre
  <2> QED BY <1>1, <1>3, <2>1, <2>2, <2>3, PipelineIsIntro
<1>5. CASE args.mode \notin {"E", "M"}
  <2>0. Append(<<Pre("CHeader")>>, Pch) = <<Pre("CHeader"), Pch>> BY Appended
  <2>1. p2 = Pipe5(i, "PCH", <<Pre("CHeader"), Pch>>, FALSE, FALSE)
    BY <1>2, <1>5, <2>0, Requested, AddPrecompile
  <2>2. StepsOf("CHeader") = <<Pre("CHeader"), Pch>> BY <1>5 DEF StepsOf
  <2>3. <<Pre("CHeader"), Pch>>[Len(<<Pre("CHeader"), Pch>>)].type = "PCH" BY DEF Pch
  <2> QED BY <1>1, <1>3, <2>1, <2>2, <2>3, PipelineIsIntro
<1> QED BY <1>4, <1>5

LEMMA PipelineOfAsm ==
  ASSUME args \in CommandLines, NEW i \in 1..NumInputs, args.inputs[i].type = "Asm"
  PROVE  PipelineIs(i)
<1> DEFINE p1 == AddPhase(Start(i), "Preprocess")
           p2 == AddPhase(p1, "Assemble")
           p3 == AddPhase(p2, "Link")
<1>1. Pipeline(i) = p3
  BY CompilationPhasesOf, PipelineUnrolled
<1>2. p1 = Pipe5(i, PreType("Asm"), <<Pre("Asm")>>, FALSE, FALSE)
  BY AddPreprocess, Appended DEF Start
<1> HIDE DEF p1
<1>3. CASE args.mode \notin {"c", "link"}
  <2>1. ~IsRequested("Assemble") /\ ~IsRequested("Link") BY <1>3, Requested
  <2>2. p2 = Pipe5(i, PreType("Asm"), <<Pre("Asm")>>, FALSE, TRUE)
    BY <1>2, <2>1, AddUnrequested
  <2> HIDE DEF p2
  <2>3. p3 = Pipe5(i, PreType("Asm"), <<Pre("Asm")>>, FALSE, TRUE)
    BY <2>2, <2>1, AddUnrequested
  <2> HIDE DEF p3
  <2>4. StepsOf("Asm") = <<Pre("Asm")>> /\ ~IsLinked(i) BY <1>3 DEF StepsOf, IsLinked
  <2>5. <<Pre("Asm")>>[Len(<<Pre("Asm")>>)].type = PreType("Asm") BY DEF Pre
  <2> QED BY <1>1, <2>3, <2>4, <2>5, PipelineIsIntro
<1>4. CASE args.mode \in {"c", "link"}
  <2>1. PreType("Asm") = "PP_Asm" BY <1>4 DEF PreType, PreprocessedType
  <2>2. Append(<<Pre("Asm")>>, Ass) = <<Pre("Asm"), Ass>> BY Appended
  <2>3. p2 = Pipe5(i, "Object", <<Pre("Asm"), Ass>>, FALSE, FALSE)
    BY <1>2, <1>4, <2>1, <2>2, Requested, AddAssemble
  <2> HIDE DEF p2
  <2>4. PICK link \in BOOLEAN : link = (args.mode = "link") OBVIOUS
  <2>5. link = TRUE <=> IsLinked(i) BY <2>4 DEF IsLinked
  <2>6. p3 = Pipe5(i, "Object", <<Pre("Asm"), Ass>>, link, TRUE)
    BY <1>4, <2>3, <2>4, AddLink
  <2> HIDE DEF p3
  <2>7. StepsOf("Asm") = <<Pre("Asm"), Ass>> BY <1>4 DEF StepsOf
  <2>8. <<Pre("Asm"), Ass>>[Len(<<Pre("Asm"), Ass>>)].type = "Object" BY DEF Ass
  <2> QED BY <1>1, <2>5, <2>6, <2>7, <2>8, PipelineIsIntro
<1> QED BY <1>3, <1>4

LEMMA PipelineOfPPAsm ==
  ASSUME args \in CommandLines, NEW i \in 1..NumInputs, args.inputs[i].type = "PP_Asm", Used(i)
  PROVE  PipelineIs(i)
<1> DEFINE p1 == AddPhase(Start(i), "Assemble")
           p2 == AddPhase(p1, "Link")
<1>1. Pipeline(i) = p2
  BY CompilationPhasesOf, PipelineUnrolled
<1>2. IsRequested("Assemble")
  <2>1. CompilationPhases("PP_Asm")[1] = "Assemble" BY CompilationPhasesOf
  <2> QED BY <2>1 DEF Used
<1>3. p1 = Pipe5(i, "Object", <<Ass>>, FALSE, FALSE)
  BY <1>2, AddAssemble, Appended DEF Start
<1> HIDE DEF p1
<1>4. PICK link \in BOOLEAN : link = (args.mode = "link") OBVIOUS
<1>5. link = TRUE <=> IsLinked(i) BY <1>4 DEF IsLinked
<1>6. p2 = Pipe5(i, "Object", <<Ass>>, link, TRUE)
  <2>1. args.mode \in {"c", "link"} BY <1>2, Requested
  <2> QED BY <1>3, <1>4, <2>1, AddLink
<1> HIDE DEF p2
<1>7. StepsOf("PP_Asm") = <<Ass>> BY DEF StepsOf
<1>8. <<Ass>>[Len(<<Ass>>)].type = "Object" BY DEF Ass
<1> QED BY <1>1, <1>5, <1>6, <1>7, <1>8, PipelineIsIntro

LEMMA PipelineOfObject ==
  ASSUME args \in CommandLines, NEW i \in 1..NumInputs, args.inputs[i].type = "Object", Used(i)
  PROVE  PipelineIs(i)
<1> DEFINE p1 == AddPhase(Start(i), "Link")
<1>1. Pipeline(i) = p1
  BY CompilationPhasesOf, PipelineUnrolled
<1>2. IsRequested("Link")
  <2>1. CompilationPhases("Object")[1] = "Link" BY CompilationPhasesOf
  <2> QED BY <2>1 DEF Used
<1>3. p1 = Pipe5(i, "Object", <<>>, TRUE, TRUE)
  BY <1>2 DEF AddPhase, Pipe5, Start
<1> HIDE DEF p1
<1>4. IsLinked(i) BY <1>2, Requested DEF IsLinked
<1>5. StepsOf("Object") = <<>> BY DEF StepsOf
<1> QED BY <1>1, <1>3, <1>4, <1>5, PipelineIsIntro

(* What BuildActions makes of an input that is used.                       *)
LEMMA PipelineClosedForm ==
  ASSUME args \in CommandLines, NEW i \in 1..NumInputs, Used(i)
  PROVE  PipelineIs(i)
<1>1. args.inputs[i].type \in InputTypes BY ArgsType
<1> QED BY <1>1, PipelineOfC, PipelineOfPPC, PipelineOfCHeader, PipelineOfAsm, PipelineOfPPAsm,
           PipelineOfObject DEF InputTypes

Tool(phases, type) == [phases |-> phases, type |-> type]

IsIntegrated(a, b) ==
  /\ a.phase = "Preprocess" /\ hasIntegratedCPP(b.phase)
  /\ ~args.flags.no_integrated_cpp /\ ~args.flags.save_temps

(* The tools of a pipeline with no step or one.                            *)
LEMMA ToolStepsShort ==
  ASSUME NEW a
  PROVE  ToolSteps(<<>>) = <<>> /\ ToolSteps(<<a>>) = <<Tool(<<a.phase>>, a.type)>>
<1>1. ~UseIntegratedCPP(<<>>) /\ ~UseIntegratedCPP(<<a>>) BY DEF UseIntegratedCPP
<1> QED BY <1>1 DEF ToolSteps, Tool

(* The tools of two steps.                                                 *)
LEMMA ToolStepsTwo ==
  ASSUME NEW a, NEW b
  PROVE  /\ IsIntegrated(a, b)
              => ToolSteps(<<a, b>>) = <<Tool(<<a.phase, b.phase>>, b.type)>>
         /\ ~IsIntegrated(a, b)
              => ToolSteps(<<a, b>>) = <<Tool(<<a.phase>>, a.type), Tool(<<b.phase>>, b.type)>>
<1>1. UseIntegratedCPP(<<a, b>>) <=> IsIntegrated(a, b) BY DEF UseIntegratedCPP, IsIntegrated
<1>2. Len(<<a, b>>) = 2 OBVIOUS
<1>3. CASE IsIntegrated(a, b)
  <2>1. ToolSteps(<<a, b>>) = [k \in 1..1 |-> Tool(<<a.phase, b.phase>>, b.type)]
    BY <1>1, <1>2, <1>3 DEF ToolSteps, Tool
  <2> QED BY <2>1, <1>3
<1>4. CASE ~IsIntegrated(a, b)
  <2>1. ToolSteps(<<a, b>>) = [k \in 1..2 |-> Tool(<<(<<a, b>>[k]).phase>>, (<<a, b>>[k]).type)]
    BY <1>1, <1>2, <1>4 DEF ToolSteps, Tool
  <2> QED BY <2>1, <1>4
<1> QED BY <1>3, <1>4

(* The tools of three steps.                                               *)
LEMMA ToolStepsThree ==
  ASSUME NEW a, NEW b, NEW c
  PROVE  /\ IsIntegrated(a, b)
              => ToolSteps(<<a, b, c>>)
                   = <<Tool(<<a.phase, b.phase>>, b.type), Tool(<<c.phase>>, c.type)>>
         /\ ~IsIntegrated(a, b)
              => ToolSteps(<<a, b, c>>)
                   = <<Tool(<<a.phase>>, a.type), Tool(<<b.phase>>, b.type),
                       Tool(<<c.phase>>, c.type)>>
<1> DEFINE s == <<a, b, c>>
<1>1. UseIntegratedCPP(s) <=> IsIntegrated(a, b) BY DEF UseIntegratedCPP, IsIntegrated
<1>2. Len(s) = 3 /\ s[1] = a /\ s[2] = b /\ s[3] = c OBVIOUS
<1> HIDE DEF s
<1>3. CASE IsIntegrated(a, b)
  <2>1. ToolSteps(s) = [k \in 1..2 |-> IF k = 1 THEN Tool(<<a.phase, b.phase>>, b.type)
                                       ELSE Tool(<<s[k + 1].phase>>, s[k + 1].type)]
    BY <1>1, <1>2, <1>3 DEF ToolSteps, Tool
  <2> QED BY <2>1, <1>2, <1>3 DEF s
<1>4. CASE ~IsIntegrated(a, b)
  <2>1. ToolSteps(s) = [k \in 1..3 |-> Tool(<<s[k].phase>>, s[k].type)]
    BY <1>1, <1>2, <1>4 DEF ToolSteps, Tool
  <2> QED BY <2>1, <1>2, <1>4 DEF s
<1> QED BY <1>3, <1>4 DEF s

(* What is needed of one tool and of two.                                  *)
LEMMA OneTool ==
  ASSUME NEW p, NEW x
  PROVE  LET t == <<Tool(p, x)>>
         IN Len(t) = 1 /\ t[1].phases = p /\ t[1].type = x /\ PhasesSoFar(t, 1) = p
BY DEF Tool, PhasesSoFar

LEMMA TwoTools ==
  ASSUME NEW p, NEW q, NEW x, NEW y
  PROVE  LET t == <<Tool(p, x), Tool(q, y)>>
         IN /\ Len(t) = 2 /\ t[1].phases = p /\ t[1].type = x /\ t[2].phases = q /\ t[2].type = y
            /\ PhasesSoFar(t, 2) = p \o q
<1> DEFINE t == <<Tool(p, x), Tool(q, y)>>
<1>1. Len(t) = 2 /\ t[1] = Tool(p, x) /\ t[2] = Tool(q, y) OBVIOUS
<1> HIDE DEF t
<1>2. t[1].phases = p /\ t[1].type = x /\ t[2].phases = q /\ t[2].type = y BY <1>1 DEF Tool
<1>3. PhasesSoFar(t, 2) = p \o q BY <1>2 DEF PhasesSoFar
<1> QED BY <1>1, <1>2, <1>3 DEF t

(* The phases of each type, as sets.                                       *)
LEMMA ElementsOfPhases ==
  /\ Elements(CompilationPhases("C")) = {"Preprocess", "Compile", "Assemble", "Link"}
  /\ Elements(CompilationPhases("PP_C")) = {"Compile", "Assemble", "Link"}
  /\ Elements(CompilationPhases("CHeader")) = {"Preprocess", "Precompile"}
  /\ Elements(CompilationPhases("Asm")) = {"Preprocess", "Assemble", "Link"}
  /\ Elements(CompilationPhases("PP_Asm")) = {"Assemble", "Link"}
  /\ Elements(CompilationPhases("Object")) = {"Link"}
<1>1. Elements(<<"Preprocess", "Compile", "Assemble", "Link">>)
        = {"Preprocess", "Compile", "Assemble", "Link"}
  BY DEF Elements
<1>2. Elements(<<"Compile", "Assemble", "Link">>) = {"Compile", "Assemble", "Link"}
  BY DEF Elements
<1>3. Elements(<<"Preprocess", "Precompile">>) = {"Preprocess", "Precompile"}
  BY DEF Elements
<1>4. Elements(<<"Preprocess", "Assemble", "Link">>) = {"Preprocess", "Assemble", "Link"}
  BY DEF Elements
<1>5. Elements(<<"Assemble", "Link">>) = {"Assemble", "Link"} /\ Elements(<<"Link">>) = {"Link"}
  BY DEF Elements
<1> QED BY <1>1, <1>2, <1>3, <1>4, <1>5, CompilationPhasesOf

PhasesWanted(type) ==
  CASE type = "C" -> IF args.mode \in {"E", "M"} THEN <<"Preprocess">>
                     ELSE IF Assembles THEN <<"Preprocess", "Compile", "Assemble">>
                     ELSE <<"Preprocess", "Compile">>
    [] type = "PP_C" -> IF Assembles THEN <<"Compile", "Assemble">> ELSE <<"Compile">>
    [] type = "CHeader" -> IF args.mode \in {"E", "M"} THEN <<"Preprocess">>
                           ELSE <<"Preprocess", "Precompile">>
    [] type = "Asm" -> IF args.mode \in {"c", "link"} THEN <<"Preprocess", "Assemble">>
                       ELSE <<"Preprocess">>
    [] type = "PP_Asm" -> <<"Assemble">>
    [] type = "Object" -> <<>>

(* What is wanted of an input that is used, in closed form.                *)
LEMMA WantedPhases ==
  ASSUME args \in CommandLines, NEW i \in 1..NumInputs, Used(i)
  PROVE  Wanted(i) = [source |-> i, phases |-> PhasesWanted(args.inputs[i].type)]
<1> DEFINE type == args.inputs[i].type
           Performed(p) == IF /\ p \in Elements(CompilationPhases(type)) /\ IsRequested(p)
                              /\ p = "Assemble" /\ type \in {"C", "PP_C"} => ~args.flags.emit_llvm
                             THEN <<p>> ELSE <<>>
<1>0. Wanted(i) = [source |-> i, phases |-> Performed("Preprocess") \o Performed("Precompile")
                                              \o Performed("Compile") \o Performed("Assemble")]
  BY DEF Wanted
<1>1. type \in InputTypes /\ args.mode \in Mode BY ArgsType
<1>2. IsRequested(CompilationPhases(type)[1]) BY DEF Used
<1>3. SUFFICES Performed("Preprocess") \o Performed("Precompile") \o Performed("Compile")
                 \o Performed("Assemble") = PhasesWanted(type)
  BY <1>0
<1> HIDE DEF type
<1>4. CASE type = "C"
  <2>1. /\ Performed("Preprocess") = <<"Preprocess">> /\ Performed("Precompile") = <<>>
        /\ Performed("Compile") = IF args.mode \in {"E", "M"} THEN <<>> ELSE <<"Compile">>
        /\ Performed("Assemble") = IF Assembles THEN <<"Assemble">> ELSE <<>>
    BY <1>4, ElementsOfPhases, Requested DEF Assembles
  <2>2. Assembles => args.mode \notin {"E", "M"} BY DEF Assembles
  <2>3. PhasesWanted(type) = IF args.mode \in {"E", "M"} THEN <<"Preprocess">>
                     ELSE IF Assembles THEN <<"Preprocess", "Compile", "Assemble">>
                     ELSE <<"Preprocess", "Compile">>
    BY <1>4 DEF PhasesWanted
  <2> HIDE DEF Performed
  <2>4. /\ <<"Preprocess">> \o <<>> = <<"Preprocess">>
        /\ <<"Preprocess">> \o <<"Compile">> = <<"Preprocess", "Compile">>
        /\ <<"Preprocess", "Compile">> \o <<>> = <<"Preprocess", "Compile">>
        /\ <<"Preprocess", "Compile">> \o <<"Assemble">> = <<"Preprocess", "Compile", "Assemble">>
    BY Concat
  <2>5. CASE args.mode \in {"E", "M"} BY <2>1, <2>2, <2>3, <2>4, <2>5
  <2>6. CASE args.mode \notin {"E", "M"} /\ Assembles BY <2>1, <2>3, <2>4, <2>6
  <2>7. CASE args.mode \notin {"E", "M"} /\ ~Assembles BY <2>1, <2>3, <2>4, <2>7
  <2> QED BY <2>5, <2>6, <2>7
<1>5. CASE type = "PP_C"
  <2>0. IsRequested("Compile") BY <1>2, <1>5, CompilationPhasesOf
  <2>1. /\ Performed("Preprocess") = <<>> /\ Performed("Precompile") = <<>>
        /\ Performed("Compile") = <<"Compile">>
        /\ Performed("Assemble") = IF Assembles THEN <<"Assemble">> ELSE <<>>
    BY <1>5, <2>0, ElementsOfPhases, Requested DEF Assembles
  <2>3. PhasesWanted(type) = IF Assembles THEN <<"Compile", "Assemble">> ELSE <<"Compile">>
    BY <1>5 DEF PhasesWanted
  <2> HIDE DEF Performed
  <2>4. /\ <<>> \o <<>> = <<>> /\ <<>> \o <<"Compile">> = <<"Compile">>
        /\ <<"Compile">> \o <<>> = <<"Compile">>
        /\ <<"Compile">> \o <<"Assemble">> = <<"Compile", "Assemble">>
    BY Concat
  <2>5. CASE Assembles BY <2>1, <2>3, <2>4, <2>5
  <2>6. CASE ~Assembles BY <2>1, <2>3, <2>4, <2>6
  <2> QED BY <2>5, <2>6
<1>6. CASE type = "CHeader"
  <2>1. /\ Performed("Preprocess") = <<"Preprocess">>
        /\ Performed("Precompile") = IF args.mode \in {"E", "M"} THEN <<>> ELSE <<"Precompile">>
        /\ Performed("Compile") = <<>> /\ Performed("Assemble") = <<>>
    BY <1>6, ElementsOfPhases, Requested
  <2>3. PhasesWanted(type) = IF args.mode \in {"E", "M"} THEN <<"Preprocess">>
                             ELSE <<"Preprocess", "Precompile">>
    BY <1>6 DEF PhasesWanted
  <2> HIDE DEF Performed
  <2>4. /\ <<"Preprocess">> \o <<>> = <<"Preprocess">>
        /\ <<"Preprocess">> \o <<"Precompile">> = <<"Preprocess", "Precompile">>
        /\ <<"Preprocess", "Precompile">> \o <<>> = <<"Preprocess", "Precompile">>
    BY Concat
  <2>5. CASE args.mode \in {"E", "M"} BY <2>1, <2>3, <2>4, <2>5
  <2>6. CASE args.mode \notin {"E", "M"} BY <2>1, <2>3, <2>4, <2>6
  <2> QED BY <2>5, <2>6
<1>7. CASE type = "Asm"
  <2>1. /\ Performed("Preprocess") = <<"Preprocess">> /\ Performed("Precompile") = <<>>
        /\ Performed("Compile") = <<>>
        /\ Performed("Assemble") = IF args.mode \in {"c", "link"} THEN <<"Assemble">> ELSE <<>>
    BY <1>7, ElementsOfPhases, Requested
  <2>3. PhasesWanted(type) = IF args.mode \in {"c", "link"} THEN <<"Preprocess", "Assemble">>
                             ELSE <<"Preprocess">>
    BY <1>7 DEF PhasesWanted
  <2> HIDE DEF Performed
  <2>4. /\ <<"Preprocess">> \o <<>> = <<"Preprocess">>
        /\ <<"Preprocess">> \o <<"Assemble">> = <<"Preprocess", "Assemble">>
    BY Concat
  <2>5. CASE args.mode \in {"c", "link"} BY <2>1, <2>3, <2>4, <2>5
  <2>6. CASE args.mode \notin {"c", "link"} BY <2>1, <2>3, <2>4, <2>6
  <2> QED BY <2>5, <2>6
<1>8. CASE type = "PP_Asm"
  <2>0. IsRequested("Assemble") BY <1>2, <1>8, CompilationPhasesOf
  <2>1. /\ Performed("Preprocess") = <<>> /\ Performed("Precompile") = <<>>
        /\ Performed("Compile") = <<>> /\ Performed("Assemble") = <<"Assemble">>
    BY <1>8, <2>0, ElementsOfPhases
  <2>3. PhasesWanted(type) = <<"Assemble">> BY <1>8 DEF PhasesWanted
  <2> HIDE DEF Performed
  <2> QED BY <2>1, <2>3, Concat
<1>9. CASE type = "Object"
  <2>1. /\ Performed("Preprocess") = <<>> /\ Performed("Precompile") = <<>>
        /\ Performed("Compile") = <<>> /\ Performed("Assemble") = <<>>
    BY <1>9, ElementsOfPhases
  <2>3. PhasesWanted(type) = <<>> BY <1>9 DEF PhasesWanted
  <2> HIDE DEF Performed
  <2> QED BY <2>1, <2>3, Concat
<1> QED BY <1>1, <1>4, <1>5, <1>6, <1>7, <1>8, <1>9 DEF InputTypes

EarlyPhases == {"Preprocess", "Precompile", "Compile", "Assemble"}

(* A type whose derived names are not those of inputs of a type.           *)
IsNewType(x, type) == /\ x \in DOMAIN TempSuffix
                      /\ x # "PCH" => TypeForExtension(TempSuffix[x]) # type
IsLastType(x, type) == IsNewType(x, type) \/ (x = "Nothing" /\ args.mode = "fsyntax-only")
IsPhases(p) == p \in Seq(EarlyPhases) /\ Len(p) \in 1..2

(* What matters of the tools t of a pipeline.                              *)
GoodTools(t, type) ==
  /\ Len(t) \in 0..3
  /\ \A k \in 1..Len(t) :
       /\ IsPhases(t[k].phases)
       /\ IsLastType(t[k].type, type)
       /\ k # Len(t) => IsNewType(t[k].type, type)
  /\ \A k, l \in 1..Len(t) :
       k # l /\ t[k].type # "Nothing" /\ t[l].type # "Nothing"
         => TempSuffix[t[k].type] # TempSuffix[t[l].type]
  /\ PhasesSoFar(t, Len(t)) = PhasesWanted(type)

(* How lists of tools are shown to be good.                                *)
LEMMA GoodNone ==
  ASSUME NEW type, PhasesWanted(type) = <<>>
  PROVE  GoodTools(<<>>, type)
BY DEF GoodTools, PhasesSoFar

LEMMA GoodOne ==
  ASSUME NEW type, NEW p, NEW x, IsPhases(p), IsLastType(x, type), PhasesWanted(type) = p
  PROVE  GoodTools(<<Tool(p, x)>>, type)
BY OneTool DEF GoodTools

LEMMA GoodTwo ==
  ASSUME NEW type, NEW p, NEW x, IsPhases(p), IsNewType(x, type),
         NEW q, NEW y, IsPhases(q), IsLastType(y, type), PhasesWanted(type) = p \o q,
         y # "Nothing" => TempSuffix[x] # TempSuffix[y]
  PROVE  GoodTools(<<Tool(p, x), Tool(q, y)>>, type)
<1> DEFINE t == <<Tool(p, x), Tool(q, y)>>
<1>1. /\ Len(t) = 2 /\ t[1].phases = p /\ t[1].type = x /\ t[2].phases = q /\ t[2].type = y
      /\ PhasesSoFar(t, 2) = p \o q
  BY TwoTools
<1> HIDE DEF t
<1>2. \A k \in 1..Len(t) : k = 1 \/ k = 2 BY <1>1
<1>3. IsLastType(x, type) BY DEF IsLastType
<1>4. GoodTools(t, type) BY <1>1, <1>2, <1>3 DEF GoodTools
<1> QED BY <1>4 DEF t

LEMMA GoodThree ==
  ASSUME NEW type, NEW p, NEW x, IsPhases(p), IsNewType(x, type),
         NEW q, NEW y, IsPhases(q), IsNewType(y, type),
         NEW r, NEW z, IsPhases(r), IsLastType(z, type), PhasesWanted(type) = p \o q \o r,
         z # "Nothing", TempSuffix[x] # TempSuffix[y], TempSuffix[x] # TempSuffix[z],
         TempSuffix[y] # TempSuffix[z]
  PROVE  GoodTools(<<Tool(p, x), Tool(q, y), Tool(r, z)>>, type)
<1> DEFINE t == <<Tool(p, x), Tool(q, y), Tool(r, z)>>
<1>0. Len(t) = 3 /\ t[1] = Tool(p, x) /\ t[2] = Tool(q, y) /\ t[3] = Tool(r, z) OBVIOUS
<1> HIDE DEF t
<1>a. /\ t[1].phases = p /\ t[1].type = x /\ t[2].phases = q /\ t[2].type = y
      /\ t[3].phases = r /\ t[3].type = z
  BY <1>0 DEF Tool
<1>b. PhasesSoFar(t, 3) = p \o q \o r BY <1>a DEF PhasesSoFar
<1>1. /\ Len(t) = 3 /\ t[1].phases = p /\ t[1].type = x /\ t[2].phases = q /\ t[2].type = y
      /\ t[3].phases = r /\ t[3].type = z
      /\ PhasesSoFar(t, 3) = p \o q \o r
  BY <1>0, <1>a, <1>b
<1>2. \A k \in 1..Len(t) : k = 1 \/ k = 2 \/ k = 3 BY <1>1
<1>3. IsLastType(x, type) /\ IsLastType(y, type) BY DEF IsLastType
<1>4. \A k, l \in 1..Len(t) : k # l => TempSuffix[t[k].type] # TempSuffix[t[l].type]
  BY <1>1, <1>2
<1>5. \A k \in 1..Len(t) :
        /\ IsPhases(t[k].phases)
        /\ IsLastType(t[k].type, type)
        /\ k # Len(t) => IsNewType(t[k].type, type)
  BY <1>1, <1>2, <1>3
<1>6. GoodTools(t, type) BY <1>1, <1>4, <1>5 DEF GoodTools
<1> QED BY <1>6 DEF t

(* The suffixes the driver gives.                                          *)
LEMMA Suffixes ==
  /\ DOMAIN TempSuffix = {"PP_C", "PP_CHeader", "PP_Asm", "LLVMAsm", "LLVMBC", "Object", "Plist",
                          "PCH", "Dependencies"}
  /\ TempSuffix["PP_C"] = "i" /\ TempSuffix["PP_CHeader"] = "i" /\ TempSuffix["PP_Asm"] = "s"
  /\ TempSuffix["LLVMAsm"] = "s" /\ TempSuffix["LLVMBC"] = "o" /\ TempSuffix["Object"] = "o"
  /\ TempSuffix["Plist"] = "plist" /\ TempSuffix["PCH"] = "gch" /\ TempSuffix["Dependencies"] = "d"
BY DEF TempSuffix

(* The types whose suffixes say another type than that of the input.       *)
LEMMA NewTypes ==
  /\ \A type \in {"C", "CHeader", "Asm"}, x \in DOMAIN TempSuffix : IsNewType(x, type)
  /\ \A x \in DOMAIN TempSuffix \ {"PP_C", "PP_CHeader"} : IsNewType(x, "PP_C")
  /\ IsNewType("Object", "PP_Asm")
BY Suffixes DEF IsNewType, TypeForExtension

(* One phase or two are the phases of a tool.                              *)
LEMMA ShortPhases ==
  /\ \A a \in EarlyPhases : IsPhases(<<a>>)
  /\ \A a, b \in EarlyPhases : IsPhases(<<a, b>>)
BY DEF IsPhases

(* The tools of the six types of input are good.                           *)
LEMMA GoodToolsC ==
  ASSUME args \in CommandLines
  PROVE  GoodTools(ToolSteps(StepsOf("C")), "C")
<1> DEFINE pre == Tool(<<"Preprocess">>, PreType("C"))
           com == Tool(<<"Compile">>, Com.type)
           ass == Tool(<<"Assemble">>, "Object")
           both == Tool(<<"Preprocess", "Compile">>, Com.type)
<1>1. Pre("C").phase = "Preprocess" /\ Pre("C").type = PreType("C")
      /\ Com.phase = "Compile" /\ Ass.phase = "Assemble" /\ Ass.type = "Object"
  BY DEF Pre, Com, Ass
<1>2. IsPhases(<<"Preprocess">>) /\ IsPhases(<<"Compile">>) /\ IsPhases(<<"Assemble">>)
      /\ IsPhases(<<"Preprocess", "Compile">>)
  BY ShortPhases DEF EarlyPhases
<1>3. PreType("C") = IF args.mode = "M" THEN "Dependencies" ELSE "PP_C"
  BY DEF PreType, PreprocessedType
<1>4. IsNewType(PreType("C"), "C") /\ IsNewType("Object", "C")
  BY <1>3, NewTypes, Suffixes
<1>5. IsLastType(Com.type, "C") /\ (Com.type # "Nothing" => IsNewType(Com.type, "C"))
  BY CompileType, NewTypes, Suffixes DEF IsLastType
<1>6. CASE args.mode \in {"E", "M"}
  <2>1. ToolSteps(StepsOf("C")) = <<pre>> BY <1>1, <1>6, ToolStepsShort DEF StepsOf
  <2>2. PhasesWanted("C") = <<"Preprocess">> BY <1>6 DEF PhasesWanted
  <2> QED BY <2>1, <2>2, <1>2, <1>4, GoodOne DEF IsLastType
<1>7. CASE args.mode \notin {"E", "M"} /\ ~Assembles
  <2>1. ToolSteps(StepsOf("C")) = <<both>> \/ ToolSteps(StepsOf("C")) = <<pre, com>>
    BY <1>1, <1>7, ToolStepsTwo DEF StepsOf
  <2>2. PhasesWanted("C") = <<"Preprocess", "Compile">> BY <1>7 DEF PhasesWanted
  <2>3. CASE ToolSteps(StepsOf("C")) = <<both>>
    BY <2>2, <2>3, <1>2, <1>5, GoodOne
  <2>4. CASE ToolSteps(StepsOf("C")) = <<pre, com>>
    <3>1. PhasesWanted("C") = <<"Preprocess">> \o <<"Compile">> BY <2>2, Concat
    <3>2. Com.type # "Nothing" => TempSuffix[PreType("C")] # TempSuffix[Com.type]
      BY <1>3, <1>7, Suffixes, CompileType
    <3> QED BY <3>1, <3>2, <2>4, <1>2, <1>4, <1>5, GoodTwo
  <2> QED BY <2>1, <2>3, <2>4
<1>8. CASE Assembles
  <2>0. Com.type = "PP_Asm" /\ PreType("C") = "PP_C" /\ args.mode \notin {"E", "M"}
    BY <1>8, <1>3, CompileType DEF Assembles
  <2>1. ToolSteps(StepsOf("C")) = <<both, ass>> \/ ToolSteps(StepsOf("C")) = <<pre, com, ass>>
    BY <1>1, <1>8, <2>0, ToolStepsThree DEF StepsOf
  <2>2. PhasesWanted("C") = <<"Preprocess", "Compile", "Assemble">>
    BY <1>8, <2>0 DEF PhasesWanted
  <2>3. CASE ToolSteps(StepsOf("C")) = <<both, ass>>
    <3>1. PhasesWanted("C") = <<"Preprocess", "Compile">> \o <<"Assemble">> BY <2>2, Concat
    <3>2. IsLastType("Object", "C") /\ IsNewType(Com.type, "C") BY <1>4, <1>5, <2>0 DEF IsLastType
    <3>3. TempSuffix[Com.type] # TempSuffix["Object"] BY <2>0, Suffixes
    <3> QED BY <3>1, <3>2, <3>3, <2>3, <1>2, GoodTwo
  <2>4. CASE ToolSteps(StepsOf("C")) = <<pre, com, ass>>
    <3>1. <<"Preprocess">> \o <<"Compile">> = <<"Preprocess", "Compile">>
          /\ <<"Preprocess", "Compile">> \o <<"Assemble">> = <<"Preprocess", "Compile", "Assemble">>
      BY Concat
    <3>2. IsLastType("Object", "C") /\ IsNewType(Com.type, "C") BY <1>4, <1>5, <2>0 DEF IsLastType
    <3>3. /\ TempSuffix[Com.type] # TempSuffix["Object"]
          /\ TempSuffix[PreType("C")] # TempSuffix["Object"]
          /\ TempSuffix[PreType("C")] # TempSuffix[Com.type]
      BY <2>0, Suffixes
    <3> QED BY <3>1, <3>2, <3>3, <2>2, <2>4, <1>2, <1>4, GoodThree
  <2> QED BY <2>1, <2>3, <2>4
<1> QED BY <1>6, <1>7, <1>8

LEMMA GoodToolsPPC ==
  ASSUME args \in CommandLines, args.mode \notin {"E", "M"}
  PROVE  GoodTools(ToolSteps(StepsOf("PP_C")), "PP_C")
<1> DEFINE com == Tool(<<"Compile">>, Com.type)
           ass == Tool(<<"Assemble">>, "Object")
<1>1. Com.phase = "Compile" /\ Ass.phase = "Assemble" /\ Ass.type = "Object"
  BY DEF Com, Ass
<1>2. IsPhases(<<"Compile">>) /\ IsPhases(<<"Assemble">>)
  BY ShortPhases DEF EarlyPhases
<1>3. IsNewType("Object", "PP_C") BY NewTypes, Suffixes
<1>4. IsLastType(Com.type, "PP_C") /\ (Com.type # "Nothing" => IsNewType(Com.type, "PP_C"))
  BY CompileType, NewTypes, Suffixes DEF IsLastType
<1>5. CASE ~Assembles
  <2>1. ToolSteps(StepsOf("PP_C")) = <<com>> BY <1>1, <1>5, ToolStepsShort DEF StepsOf
  <2>2. PhasesWanted("PP_C") = <<"Compile">> BY <1>5 DEF PhasesWanted
  <2> QED BY <2>1, <2>2, <1>2, <1>4, GoodOne
<1>6. CASE Assembles
  <2>0. Com.type = "PP_Asm" BY <1>6, CompileType DEF Assembles
  <2>1. ToolSteps(StepsOf("PP_C")) = <<com, ass>>
    <3>1. StepsOf("PP_C") = <<Com, Ass>> BY <1>6 DEF StepsOf
    <3>2. ~IsIntegrated(Com, Ass) BY <1>1 DEF IsIntegrated
    <3> QED BY <1>1, <3>1, <3>2, ToolStepsTwo
  <2>2. PhasesWanted("PP_C") = <<"Compile">> \o <<"Assemble">>
    BY <1>6, Concat DEF PhasesWanted
  <2>3. IsLastType("Object", "PP_C") /\ IsNewType(Com.type, "PP_C")
    BY <1>3, <1>4, <2>0 DEF IsLastType
  <2>4. TempSuffix[Com.type] # TempSuffix["Object"] BY <2>0, Suffixes
  <2> QED BY <2>1, <2>2, <2>3, <2>4, <1>2, GoodTwo
<1> QED BY <1>5, <1>6

LEMMA GoodToolsCHeader ==
  ASSUME args \in CommandLines
  PROVE  GoodTools(ToolSteps(StepsOf("CHeader")), "CHeader")
<1> DEFINE pre == Tool(<<"Preprocess">>, PreType("CHeader"))
           pch == Tool(<<"Precompile">>, "PCH")
           both == Tool(<<"Preprocess", "Precompile">>, "PCH")
<1>1. Pre("CHeader").phase = "Preprocess" /\ Pre("CHeader").type = PreType("CHeader")
      /\ Pch.phase = "Precompile" /\ Pch.type = "PCH"
  BY DEF Pre, Pch
<1>2. IsPhases(<<"Preprocess">>) /\ IsPhases(<<"Precompile">>)
      /\ IsPhases(<<"Preprocess", "Precompile">>)
  BY ShortPhases DEF EarlyPhases
<1>3. PreType("CHeader") = IF args.mode = "M" THEN "Dependencies" ELSE "PP_CHeader"
  BY DEF PreType, PreprocessedType
<1>4. IsNewType(PreType("CHeader"), "CHeader") /\ IsLastType(PreType("CHeader"), "CHeader")
      /\ IsLastType("PCH", "CHeader")
  BY <1>3, NewTypes, Suffixes DEF IsLastType
<1>5. CASE args.mode \in {"E", "M"}
  <2>1. ToolSteps(StepsOf("CHeader")) = <<pre>> BY <1>1, <1>5, ToolStepsShort DEF StepsOf
  <2>2. PhasesWanted("CHeader") = <<"Preprocess">> BY <1>5 DEF PhasesWanted
  <2> QED BY <2>1, <2>2, <1>2, <1>4, GoodOne
<1>6. CASE args.mode \notin {"E", "M"}
  <2>1. ToolSteps(StepsOf("CHeader")) = <<both>> \/ ToolSteps(StepsOf("CHeader")) = <<pre, pch>>
    BY <1>1, <1>6, ToolStepsTwo DEF StepsOf
  <2>2. PhasesWanted("CHeader") = <<"Preprocess", "Precompile">> BY <1>6 DEF PhasesWanted
  <2>3. CASE ToolSteps(StepsOf("CHeader")) = <<both>>
    BY <2>2, <2>3, <1>2, <1>4, GoodOne
  <2>4. CASE ToolSteps(StepsOf("CHeader")) = <<pre, pch>>
    <3>1. PhasesWanted("CHeader") = <<"Preprocess">> \o <<"Precompile">> BY <2>2, Concat
    <3>2. TempSuffix[PreType("CHeader")] # TempSuffix["PCH"] BY <1>3, Suffixes
    <3> QED BY <3>1, <3>2, <2>4, <1>2, <1>4, GoodTwo
  <2> QED BY <2>1, <2>3, <2>4
<1> QED BY <1>5, <1>6

LEMMA GoodToolsAsm ==
  ASSUME args \in CommandLines
  PROVE  GoodTools(ToolSteps(StepsOf("Asm")), "Asm")
<1> DEFINE pre == Tool(<<"Preprocess">>, PreType("Asm"))
           ass == Tool(<<"Assemble">>, "Object")
<1>1. Pre("Asm").phase = "Preprocess" /\ Pre("Asm").type = PreType("Asm")
      /\ Ass.phase = "Assemble" /\ Ass.type = "Object"
  BY DEF Pre, Ass
<1>2. IsPhases(<<"Preprocess">>) /\ IsPhases(<<"Assemble">>)
  BY ShortPhases DEF EarlyPhases
<1>3. PreType("Asm") = IF args.mode = "M" THEN "Dependencies" ELSE "PP_Asm"
  BY DEF PreType, PreprocessedType
<1>4. IsNewType(PreType("Asm"), "Asm") /\ IsLastType(PreType("Asm"), "Asm")
      /\ IsLastType("Object", "Asm")
  BY <1>3, NewTypes, Suffixes DEF IsLastType
<1>5. CASE args.mode \notin {"c", "link"}
  <2>1. ToolSteps(StepsOf("Asm")) = <<pre>> BY <1>1, <1>5, ToolStepsShort DEF StepsOf
  <2>2. PhasesWanted("Asm") = <<"Preprocess">> BY <1>5 DEF PhasesWanted
  <2> QED BY <2>1, <2>2, <1>2, <1>4, GoodOne
<1>6. CASE args.mode \in {"c", "link"}
  <2>1. ToolSteps(StepsOf("Asm")) = <<pre, ass>>
    <3>1. StepsOf("Asm") = <<Pre("Asm"), Ass>> BY <1>6 DEF StepsOf
    <3>2. ~IsIntegrated(Pre("Asm"), Ass) BY <1>1 DEF IsIntegrated, hasIntegratedCPP
    <3> QED BY <1>1, <3>1, <3>2, ToolStepsTwo
  <2>2. PhasesWanted("Asm") = <<"Preprocess">> \o <<"Assemble">>
    BY <1>6, Concat DEF PhasesWanted
  <2>3. TempSuffix[PreType("Asm")] # TempSuffix["Object"] BY <1>3, <1>6, Suffixes
  <2> QED BY <2>1, <2>2, <2>3, <1>2, <1>4, GoodTwo
<1> QED BY <1>5, <1>6

LEMMA GoodToolsRest ==
  /\ GoodTools(ToolSteps(StepsOf("PP_Asm")), "PP_Asm")
  /\ GoodTools(ToolSteps(StepsOf("Object")), "Object")
<1>1. GoodTools(ToolSteps(StepsOf("PP_Asm")), "PP_Asm")
  <2>1. Ass.phase = "Assemble" /\ Ass.type = "Object" BY DEF Ass
  <2>2. ToolSteps(StepsOf("PP_Asm")) = <<Tool(<<"Assemble">>, "Object")>>
    BY <2>1, ToolStepsShort DEF StepsOf
  <2>3. IsPhases(<<"Assemble">>) BY ShortPhases DEF EarlyPhases
  <2>4. IsLastType("Object", "PP_Asm") BY NewTypes DEF IsLastType
  <2>5. PhasesWanted("PP_Asm") = <<"Assemble">> BY DEF PhasesWanted
  <2> QED BY <2>2, <2>3, <2>4, <2>5, GoodOne
<1>2. GoodTools(ToolSteps(StepsOf("Object")), "Object")
  <2>1. ToolSteps(StepsOf("Object")) = <<>> BY ToolStepsShort DEF StepsOf
  <2>2. PhasesWanted("Object") = <<>> BY DEF PhasesWanted
  <2> QED BY <2>1, <2>2, GoodNone
<1> QED BY <1>1, <1>2

(* The type of the last tool is that of the last step.                     *)
LEMMA LastOfOne ==
  ASSUME NEW a
  PROVE  /\ Len(ToolSteps(<<a>>)) >= 1
         /\ ToolSteps(<<a>>)[Len(ToolSteps(<<a>>))].type = a.type
<1> DEFINE A == Tool(<<a.phase>>, a.type)
<1>1. A.type = a.type /\ ToolSteps(<<a>>) = <<A>> BY ToolStepsShort DEF Tool
<1> HIDE DEF A
<1> QED BY <1>1

LEMMA LastOfTwo ==
  ASSUME NEW a, NEW b
  PROVE  /\ Len(ToolSteps(<<a, b>>)) >= 1
         /\ ToolSteps(<<a, b>>)[Len(ToolSteps(<<a, b>>))].type = b.type
<1> DEFINE A == Tool(<<a.phase>>, a.type)
           B == Tool(<<b.phase>>, b.type)
           AB == Tool(<<a.phase, b.phase>>, b.type)
<1>1. B.type = b.type /\ AB.type = b.type BY DEF Tool
<1>2. ToolSteps(<<a, b>>) = <<AB>> \/ ToolSteps(<<a, b>>) = <<A, B>> BY ToolStepsTwo
<1> DEFINE t == ToolSteps(<<a, b>>)
<1> HIDE DEF A, B, AB, t
<1>3. t = <<AB>> => Len(t) >= 1 /\ t[Len(t)].type = b.type BY <1>1
<1>4. t = <<A, B>> => Len(t) >= 1 /\ t[Len(t)].type = b.type BY <1>1
<1> QED BY <1>2, <1>3, <1>4 DEF t

LEMMA LastOfThree ==
  ASSUME NEW a, NEW b, NEW c
  PROVE  /\ Len(ToolSteps(<<a, b, c>>)) >= 1
         /\ ToolSteps(<<a, b, c>>)[Len(ToolSteps(<<a, b, c>>))].type = c.type
<1> DEFINE A == Tool(<<a.phase>>, a.type)
           B == Tool(<<b.phase>>, b.type)
           C == Tool(<<c.phase>>, c.type)
           AB == Tool(<<a.phase, b.phase>>, b.type)
<1>1. C.type = c.type BY DEF Tool
<1>2. ToolSteps(<<a, b, c>>) = <<AB, C>> \/ ToolSteps(<<a, b, c>>) = <<A, B, C>>
  BY ToolStepsThree
<1> HIDE DEF A, B, C, AB
<1> QED BY <1>1, <1>2

(* The tools of the pipeline of an input that is used.                     *)
LEMMA ToolsOfPipeline ==
  ASSUME args \in CommandLines, NEW i \in 1..NumInputs, Used(i)
  PROVE  /\ GoodTools(Tools(Pipeline(i)), args.inputs[i].type)
         /\ Pipeline(i).input = i
         /\ Pipeline(i).link \in BOOLEAN /\ (Pipeline(i).link = TRUE <=> IsLinked(i))
         /\ Len(Tools(Pipeline(i))) = 0 => Pipeline(i).link = TRUE
         /\ Len(Tools(Pipeline(i))) >= 1 =>
              Tools(Pipeline(i))[Len(Tools(Pipeline(i)))].type = Pipeline(i).type
<1> DEFINE type == args.inputs[i].type
           steps == StepsOf(type)
<1>1. type \in InputTypes BY ArgsType
<1>2. PipelineIs(i) BY PipelineClosedForm
<1>3. Tools(Pipeline(i)) = ToolSteps(steps) BY <1>2 DEF PipelineIs, Tools
<1>4. type = "PP_C" => args.mode \notin {"E", "M"}
  <2>1. CompilationPhases("PP_C")[1] = "Compile" BY CompilationPhasesOf
  <2> QED BY <2>1, Requested DEF Used
<1>5. type = "Object" => IsLinked(i)
  <2>1. CompilationPhases("Object")[1] = "Link" BY CompilationPhasesOf
  <2> QED BY <2>1, Requested DEF Used, IsLinked
<1>6. GoodTools(ToolSteps(steps), type)
  BY <1>1, <1>4, GoodToolsC, GoodToolsPPC, GoodToolsCHeader, GoodToolsAsm, GoodToolsRest
     DEF InputTypes
<1>7. /\ type # "Object" => /\ Len(ToolSteps(steps)) >= 1
                            /\ ToolSteps(steps)[Len(ToolSteps(steps))].type = steps[Len(steps)].type
      /\ type = "Object" => ToolSteps(steps) = <<>>
  <2>1. \/ type = "Object" /\ steps = <<>>
        \/ \E a : steps = <<a>>
        \/ \E a, b : steps = <<a, b>>
        \/ \E a, b, c : steps = <<a, b, c>>
    BY <1>1, Zenon DEF StepsOf, InputTypes
  <2>2. CASE type = "Object"
    BY <2>2, ToolStepsShort DEF StepsOf
  <2>3. CASE type # "Object"
    <3>1. CASE \E a : steps = <<a>>
      <4>1. PICK a : steps = <<a>> BY <3>1
      <4>2. Len(<<a>>) = 1 /\ <<a>>[1] = a OBVIOUS
      <4>3. Len(ToolSteps(<<a>>)) >= 1 /\ ToolSteps(<<a>>)[Len(ToolSteps(<<a>>))].type = a.type
        BY LastOfOne
      <4> HIDE DEF steps
      <4> QED BY <2>3, <4>1, <4>2, <4>3
    <3>2. CASE \E a, b : steps = <<a, b>>
      <4>1. PICK a, b : steps = <<a, b>> BY <3>2
      <4>2. Len(<<a, b>>) = 2 /\ <<a, b>>[2] = b OBVIOUS
      <4>3. /\ Len(ToolSteps(<<a, b>>)) >= 1
            /\ ToolSteps(<<a, b>>)[Len(ToolSteps(<<a, b>>))].type = b.type
        BY LastOfTwo
      <4> HIDE DEF steps
      <4> QED BY <2>3, <4>1, <4>2, <4>3
    <3>3. CASE \E a, b, c : steps = <<a, b, c>>
      <4>1. PICK a, b, c : steps = <<a, b, c>> BY <3>3
      <4>2. Len(<<a, b, c>>) = 3 /\ <<a, b, c>>[3] = c OBVIOUS
      <4>3. /\ Len(ToolSteps(<<a, b, c>>)) >= 1
            /\ ToolSteps(<<a, b, c>>)[Len(ToolSteps(<<a, b, c>>))].type = c.type
        BY LastOfThree
      <4> HIDE DEF steps
      <4> QED BY <2>3, <4>1, <4>2, <4>3
    <3> QED BY <2>1, <2>3, <3>1, <3>2, <3>3
  <2> QED BY <2>2, <2>3
<1>8. /\ type # "Object" => Pipeline(i).type = steps[Len(steps)].type
      /\ Pipeline(i).input = i
      /\ Pipeline(i).link \in BOOLEAN /\ (Pipeline(i).link = TRUE <=> IsLinked(i))
  BY <1>2 DEF PipelineIs
<1> HIDE DEF steps
<1>9. Len(ToolSteps(steps)) = 0 => type = "Object" BY <1>7
<1>10. Len(ToolSteps(steps)) >= 1 => type # "Object" BY <1>7
<1> QED BY <1>3, <1>5, <1>6, <1>7, <1>8, <1>9, <1>10

(* One tool more.                                                          *)
LEMMA NextPhases ==
  ASSUME NEW t, Len(t) \in 0..3, NEW k \in 1..Len(t), t[1].phases \in Seq(EarlyPhases)
  PROVE  PhasesSoFar(t, k) = PhasesSoFar(t, k - 1) \o t[k].phases
<1>1. CASE k = 1
  <2>1. <<>> \o t[1].phases = t[1].phases OBVIOUS
  <2> QED BY <1>1, <2>1 DEF PhasesSoFar
<1>2. CASE k = 2
  BY <1>2 DEF PhasesSoFar
<1>3. CASE k = 3
  <2>1. PhasesSoFar(t, k - 1) = t[1].phases \o t[2].phases BY <1>3 DEF PhasesSoFar
  <2>2. PhasesSoFar(t, k) = t[1].phases \o t[2].phases \o t[3].phases BY <1>3 DEF PhasesSoFar
  <2> QED BY <1>3, <2>1, <2>2
<1>4. k = 1 \/ k = 2 \/ k = 3
  <2> DEFINE n == Len(t)
  <2>1. n \in 0..3 /\ k \in 1..n OBVIOUS
  <2> HIDE DEF n
  <2> QED BY <2>1
<1> QED BY <1>1, <1>2, <1>3, <1>4

(* The pipelines there are.                                                *)
LEMMA ThePipelines ==
  ASSUME Types, ActionsInv
  PROVE  /\ Len(actions) \in Nat /\ Len(LinkerInputs) \in Nat
         /\ NumPipelines = Len(actions) + Len(LinkerInputs)
         /\ LinkerInputs = <<>> <=> Len(LinkerInputs) = 0
         /\ \A j \in 1..Len(LinkerInputs) : PipelineAt(Len(actions) + j) = LinkerInputs[j]
         /\ \A j \in 1..NumPipelines :
              /\ PipelineAt(j).input \in 1..NumInputs
              /\ Used(PipelineAt(j).input)
              /\ PipelineAt(j) = Pipeline(PipelineAt(j).input)
              /\ j <= Len(actions) => PipelineAt(j).link = FALSE
              /\ j > Len(actions) => PipelineAt(j).link = TRUE
         /\ \A j, k \in 1..NumPipelines : j # k => PipelineAt(j).input # PipelineAt(k).input
<1> DEFINE A == Len(actions)
           L == Len(LinkerInputs)
<1>1. A \in Nat /\ L \in Nat /\ (LinkerInputs = <<>> <=> L = 0)
  BY EmptyIff DEF Types
<1>2. NumPipelines = A + L BY DEF NumPipelines
<1>3. \A j \in 1..A : PipelineAt(j) = actions[j] BY <1>1 DEF PipelineAt
<1>4. \A j \in 1..L : PipelineAt(A + j) = LinkerInputs[j] BY <1>1 DEF PipelineAt
<1>5. \A j \in 1..NumPipelines : j > A => j - A \in 1..L /\ PipelineAt(j) = LinkerInputs[j - A]
  BY <1>1, <1>2 DEF PipelineAt
<1>6. /\ \A k \in 1..A : /\ Seen(actions[k].input) /\ Used(actions[k].input)
                         /\ actions[k] = Pipeline(actions[k].input) /\ actions[k].link = FALSE
      /\ \A k, l \in 1..A : k < l => actions[k].input < actions[l].input
      /\ \A k \in 1..L : /\ Seen(LinkerInputs[k].input) /\ Used(LinkerInputs[k].input)
                         /\ LinkerInputs[k] = Pipeline(LinkerInputs[k].input)
                         /\ LinkerInputs[k].link = TRUE
      /\ \A k, l \in 1..L : k < l => LinkerInputs[k].input < LinkerInputs[l].input
  BY DEF ActionsInv, ArePipelines
<1> HIDE DEF A, L
<1>7. ASSUME NEW j \in 1..NumPipelines
      PROVE  /\ PipelineAt(j).input \in 1..NumInputs
             /\ Used(PipelineAt(j).input)
             /\ PipelineAt(j) = Pipeline(PipelineAt(j).input)
             /\ j <= A => PipelineAt(j).link = FALSE
             /\ j > A => PipelineAt(j).link = TRUE
  <2>1. CASE j <= A
    <3>1. j \in 1..A BY <1>1, <1>2, <2>1
    <3>2. PipelineAt(j) = actions[j] BY <1>3, <3>1
    <3>3. Seen(actions[j].input) BY <1>6, <3>1
    <3> QED BY <1>1, <1>6, <2>1, <3>1, <3>2, <3>3 DEF Seen
  <2>2. CASE j > A
    <3>1. j - A \in 1..L /\ PipelineAt(j) = LinkerInputs[j - A] BY <1>5, <2>2
    <3>3. Seen(LinkerInputs[j - A].input) BY <1>6, <3>1
    <3> QED BY <1>1, <1>6, <2>2, <3>1, <3>3 DEF Seen
  <2>3. j <= A \/ j > A BY <1>1, <1>2
  <2> QED BY <2>1, <2>2, <2>3, Zenon
<1>8. ASSUME NEW j \in 1..NumPipelines, NEW k \in 1..NumPipelines, j < k
      PROVE  PipelineAt(j).input # PipelineAt(k).input
  <2>0. NumInputs \in Nat BY ArgsType DEF Types
  <2>b. \A x \in 1..NumInputs : x \in Nat BY <2>0
  <2>a. PipelineAt(j).input \in Nat /\ PipelineAt(k).input \in Nat BY <1>7, <2>b, Zenon
  <2>1. CASE k <= A
    <3>1. j \in 1..A /\ k \in 1..A BY <1>1, <1>2, <1>8, <2>1
    <3>2. actions[j].input < actions[k].input BY <1>6, <1>8, <3>1
    <3>3. PipelineAt(j) = actions[j] /\ PipelineAt(k) = actions[k] BY <1>3, <3>1
    <3> QED BY <2>a, <3>2, <3>3
  <2>2. CASE j > A
    <3>0. k > A BY <1>1, <1>2, <1>8, <2>2
    <3>1. /\ j - A \in 1..L /\ PipelineAt(j) = LinkerInputs[j - A]
          /\ k - A \in 1..L /\ PipelineAt(k) = LinkerInputs[k - A] BY <1>5, <2>2, <3>0
    <3>2. j - A < k - A BY <1>1, <1>2, <1>8
    <3>3. LinkerInputs[j - A].input < LinkerInputs[k - A].input BY <1>6, <3>1, <3>2
    <3> QED BY <2>a, <3>1, <3>3
  <2>3. CASE j <= A /\ k > A
    <3>1. PipelineAt(j).link = FALSE /\ PipelineAt(k).link = TRUE BY <1>7, <2>3
    <3> QED BY <1>7, <3>1
  <2> QED BY <1>1, <1>2, <2>1, <2>2, <2>3
<1>9. \A j, k \in 1..NumPipelines : j # k => PipelineAt(j).input # PipelineAt(k).input
  <2>1. SUFFICES ASSUME NEW j \in 1..NumPipelines, NEW k \in 1..NumPipelines, j # k
                 PROVE  PipelineAt(j).input # PipelineAt(k).input
    OBVIOUS
  <2>2. j < k \/ k < j BY <2>1, <1>1, <1>2
  <2>3. CASE j < k BY <1>8, <2>3
  <2>4. CASE k < j
    <3>1. PipelineAt(k).input # PipelineAt(j).input BY <1>8, <2>4
    <3> QED BY <3>1
  <2> QED BY <2>2, <2>3, <2>4
<1> QED BY <1>1, <1>2, <1>4, <1>7, <1>9 DEF A, L

(* The tools of the pipelines there are.                                   *)
LEMMA TheTools ==
  ASSUME Types, ActionsInv, NEW j \in 1..NumPipelines
  PROVE  /\ GoodTools(Tools(PipelineAt(j)), args.inputs[PipelineAt(j).input].type)
         /\ Len(Tools(PipelineAt(j))) \in 0..3
         /\ Len(Tools(PipelineAt(j))) = 0 => j > Len(actions)
         /\ Len(Tools(PipelineAt(j))) >= 1 =>
              Tools(PipelineAt(j))[Len(Tools(PipelineAt(j)))].type = PipelineAt(j).type
         /\ \A s \in 1..Len(Tools(PipelineAt(j))) :
              s < Len(Tools(PipelineAt(j))) \/ j > Len(actions)
                => Tools(PipelineAt(j))[s].type # "Nothing"
<1> DEFINE p == PipelineAt(j)
           i == p.input
           t == Tools(p)
<1>1. i \in 1..NumInputs /\ Used(i) /\ p = Pipeline(i) /\ args \in CommandLines
      /\ Len(actions) \in Nat
      /\ (j <= Len(actions) => p.link = FALSE) /\ (j > Len(actions) => p.link = TRUE)
  BY ThePipelines DEF Types
<1>2. /\ GoodTools(Tools(Pipeline(i)), args.inputs[i].type)
      /\ Pipeline(i).link = TRUE <=> IsLinked(i)
      /\ Len(Tools(Pipeline(i))) = 0 => Pipeline(i).link = TRUE
      /\ Len(Tools(Pipeline(i))) >= 1 =>
              Tools(Pipeline(i))[Len(Tools(Pipeline(i)))].type = Pipeline(i).type
  BY <1>1, ToolsOfPipeline
<1>3. Len(t) = 0 => j > Len(actions)
  BY <1>1, <1>2, ThePipelines
<1>4. Len(t) \in 0..3 BY <1>1, <1>2 DEF GoodTools
<1>5. ASSUME NEW s \in 1..Len(t), s < Len(t) \/ j > Len(actions)
      PROVE  t[s].type # "Nothing"
  <2>1. "Nothing" \notin DOMAIN TempSuffix BY Suffixes
  <2>2. CASE s < Len(t)
    BY <1>1, <1>2, <1>4, <2>1, <2>2 DEF GoodTools, IsNewType
  <2>3. CASE j > Len(actions)
    <3>1. args.mode # "fsyntax-only" BY <1>1, <1>2, <2>3 DEF IsLinked
    <3> QED BY <1>1, <1>2, <2>1, <3>1 DEF GoodTools, IsLastType, IsNewType
  <2> QED BY <1>5, <2>2, <2>3
<1> QED BY <1>1, <1>2, <1>3, <1>4, <1>5

----------------------------------------------------------------------------
(* What depends on the command line only.                                  *)

(* What depends on the command line only.                                  *)
LEMMA SameArgs ==
  ASSUME args' = args
  PROVE  /\ NumInputs' = NumInputs /\ Sources' = Sources /\ SourceFiles' = SourceFiles
         /\ \A i : Used(i)' = Used(i)
         /\ \A i : Pipeline(i)' = Pipeline(i)
         /\ \A p : Tools(p)' = Tools(p)
         /\ \A p : Base(p)' = Base(p)
         /\ NamesApart' = NamesApart
         /\ \A i : Wanted(i)' = Wanted(i)
<1>1. NumInputs' = NumInputs BY DEF NumInputs
<1>2. Sources' = Sources BY <1>1 DEF Sources
<1>3. SourceFiles' = SourceFiles BY <1>2 DEF SourceFiles
<1>4. FinalPhase' = FinalPhase BY DEF FinalPhase
<1>5. \A phase : IsRequested(phase)' = IsRequested(phase) BY <1>4 DEF IsRequested
<1>6. \A i : Used(i)' = Used(i) BY <1>5 DEF Used
<1>7. \A phase, type : OutputType(phase, type)' = OutputType(phase, type) BY DEF OutputType
<1>8. \A p, phase : AddPhase(p, phase)' = AddPhase(p, phase) BY <1>5, <1>7 DEF AddPhase
<1>9. \A i : Pipeline(i)' = Pipeline(i) BY <1>8, SMTT(30) DEF Pipeline
<1>10. \A p : Tools(p)' = Tools(p)
  <2>1. \A s : UseIntegratedCPP(s)' = UseIntegratedCPP(s) BY DEF UseIntegratedCPP
  <2> QED BY <2>1 DEF Tools, ToolSteps
<1>11. \A p : Base(p)' = Base(p) BY DEF Base
<1>12. NamesApart' = NamesApart BY <1>1 DEF NamesApart
<1>13. \A i : Wanted(i)' = Wanted(i)
  <2> DEFINE Performed(type, p) ==
               IF /\ p \in Elements(CompilationPhases(type)) /\ IsRequested(p)
                  /\ p = "Assemble" /\ type \in {"C", "PP_C"} => ~args.flags.emit_llvm
                 THEN <<p>> ELSE <<>>
  <2>1. \A type, p : Performed(type, p)' = Performed(type, p) BY <1>5
  <2>2. \A i : Wanted(i) = [source |-> i,
                            phases |-> Performed(args.inputs[i].type, "Preprocess")
                                       \o Performed(args.inputs[i].type, "Precompile")
                                       \o Performed(args.inputs[i].type, "Compile")
                                       \o Performed(args.inputs[i].type, "Assemble")]
    BY DEF Wanted
  <2>3. \A i : Wanted(i)' = [source |-> i,
                            phases |-> Performed(args.inputs[i].type, "Preprocess")'
                                       \o Performed(args.inputs[i].type, "Precompile")'
                                       \o Performed(args.inputs[i].type, "Compile")'
                                       \o Performed(args.inputs[i].type, "Assemble")']
    BY DEF Wanted
  <2> HIDE DEF Performed
  <2> QED BY <2>1, <2>2, <2>3
<1> QED BY <1>1, <1>2, <1>3, <1>6, <1>9, <1>10, <1>11, <1>12, <1>13

(* What depends on the pipelines only.                                     *)
LEMMA SameBuild ==
  ASSUME UNCHANGED <<args, actions, LinkerInputs>>
  PROVE  /\ NumPipelines' = NumPipelines
         /\ \A j : PipelineAt(j)' = PipelineAt(j)
         /\ NumOutputs' = NumOutputs
<1>1. NumPipelines' = NumPipelines BY DEF NumPipelines
<1>2. \A j : PipelineAt(j)' = PipelineAt(j) BY DEF PipelineAt
<1>3. NumOutputs' = NumOutputs BY DEF NumOutputs
<1> QED BY <1>1, <1>2, <1>3

----------------------------------------------------------------------------
(* What the actions of BuildJobs do.                                       *)

CurTool == Tools(Current)[step]
CurIsLast == step = Len(Tools(Current))
CurTop == next <= Len(actions) /\ CurIsLast
CurToPipe == OutputToPipe(CurTool.phases[Len(CurTool.phases)], CurTop,
                          IF CurIsLast THEN CurTop \/ acceptsPipedInput("Link")
                          ELSE acceptsPipedInput(Tools(Current)[step + 1].phases[1]))
CurNamed == CurTool.type # "Nothing" /\ ~CurToPipe
CurFile == GetNamedOutputPath(CurTool.type, Base(Current), CurTop)
CurOutput == IF CurNamed THEN CurFile ELSE IF CurTool.type = "Nothing" THEN Nowhere ELSE Pipe
CurCommand == [phases |-> CurTool.phases, inputs |-> <<InputInfo>>, output |-> CurOutput]

(* What BuildJobsForTool does, with its parts named.                       *)
LEMMA ToolEffect ==
  ASSUME BuildJobsForTool
  PROVE  /\ pc = "tools" /\ next <= NumPipelines /\ step <= Len(Tools(Current))
         /\ Result' = CurOutput
         /\ TempFiles' = IF CurNamed /\ IsTemporary(CurTop) THEN Append(TempFiles, CurFile)
                                                            ELSE TempFiles
         /\ ResultFiles' = IF CurNamed /\ ~IsTemporary(CurTop) THEN Append(ResultFiles, CurFile)
                                                               ELSE ResultFiles
         /\ commands' = IF args.flags.print_bindings THEN commands
                                                     ELSE Append(commands, CurCommand)
         /\ step' = step + 1
         /\ UNCHANGED <<args, pc, NumErrors, next, actions, LinkerInputs, InputInfos,
                        disk, stdout, Res>>
BY DEF BuildJobsForTool, AddTool, CurTool, CurIsLast, CurTop, CurToPipe, CurNamed, CurFile,
       CurOutput, CurCommand, buildVars, runVars

LinkFile == IF args.flags.o THEN OutFile ELSE DefaultImage
LinkCommand == [phases |-> <<"Link">>, inputs |-> InputInfos, output |-> LinkFile]

(* What BuildLinkJob does, with its parts named.                           *)
LEMMA LinkEffect ==
  ASSUME BuildLinkJob
  PROVE  /\ pc = "tools" /\ next > NumPipelines /\ pc' = "execute"
         /\ TempFiles' = TempFiles
         /\ ResultFiles' = IF LinkerInputs = <<>> THEN ResultFiles
                                                  ELSE Append(ResultFiles, LinkFile)
         /\ commands' = IF LinkerInputs = <<>> \/ args.flags.print_bindings THEN commands
                        ELSE Append(commands, LinkCommand)
         /\ UNCHANGED <<args, NumErrors, next, actions, LinkerInputs, step, InputInfos,
                        disk, stdout, Res>>
<1>1. CASE LinkerInputs = <<>>
  BY <1>1 DEF BuildLinkJob, jobVars, buildVars, runVars
<1>2. CASE LinkerInputs # <<>>
  <2> DEFINE tool == [phases |-> <<"Link">>, type |-> "Image"]
  <2>1. AddTool(tool, InputInfos, Base(LinkerInputs[1]), TRUE, TRUE)
        /\ UNCHANGED <<step, InputInfos>>
    BY <1>2 DEF BuildLinkJob
  <2>2. tool.phases[Len(tool.phases)] = "Link" /\ tool.type = "Image" /\ tool.phases = <<"Link">>
    OBVIOUS
  <2>3. ~OutputToPipe("Link", TRUE, TRUE) BY DEF OutputToPipe, canPipeOutput
  <2>4. ~IsTemporary(TRUE) BY DEF IsTemporary
  <2>5. GetNamedOutputPath("Image", Base(LinkerInputs[1]), TRUE) = LinkFile
    BY <2>4 DEF GetNamedOutputPath, DerivedName, LinkFile
  <2> HIDE DEF tool
  <2>6. /\ TempFiles' = TempFiles /\ ResultFiles' = Append(ResultFiles, LinkFile)
        /\ commands' = IF args.flags.print_bindings THEN commands
                       ELSE Append(commands, LinkCommand)
    BY <2>1, <2>2, <2>3, <2>4, <2>5 DEF AddTool, LinkCommand
  <2> QED BY <1>2, <2>1, <2>6 DEF BuildLinkJob, buildVars, runVars
<1> QED BY <1>1, <1>2

----------------------------------------------------------------------------
(* The pipelines and the loops.                                            *)

(* BaseInv holds initially.                                                *)
LEMMA BaseInit ==
  Init => BaseInv
<1> SUFFICES ASSUME Init PROVE BaseInv OBVIOUS
<1>1. args \in CommandLines /\ pc = "actions" /\ NumErrors = 0 /\ next = 1
      /\ actions = <<>> /\ LinkerInputs = <<>> /\ step = 1 /\ InputInfos = <<>>
      /\ commands = <<>> /\ TempFiles = <<>> /\ ResultFiles = <<>> /\ stdout = <<>> /\ Res = 0
  BY DEF Init
<1>2. NumInputs \in Nat BY <1>1, ArgsType
<1>3. Types BY <1>1, EmptySeq DEF Types, BeforeRunning, ToolsStarted
<1>4. \A i : ~Seen(i) BY <1>1, <1>2 DEF Seen
<1>5. \A link : ArePipelines(<<>>, link) BY <1>4, EmptySeq DEF ArePipelines
<1>6. ActionsInv
  <2>1. ArePipelines(actions, FALSE) /\ ArePipelines(LinkerInputs, TRUE)
    BY <1>1, <1>5, Zenon
  <2>2. next <= NumInputs + 1 /\ ~ToolsStarted BY <1>1, <1>2 DEF ToolsStarted
  <2> QED BY <1>4, <2>1, <2>2 DEF ActionsInv
<1> QED BY <1>1, <1>3, <1>6 DEF BaseInv, LoopInv

(* Every step preserves the types.                                         *)
LEMMA TypesNext ==
  ASSUME Types, [Next]_vars
  PROVE  Types'
<1> USE DEF BeforeRunning, ToolsStarted
<1>0. /\ args \in CommandLines
      /\ pc \in {"actions", "jobs", "tools", "execute", "running", "cleanup", "done", "quit"}
      /\ BeforeRunning => NumErrors \in Nat
      /\ next \in Nat \ {0} /\ step \in Nat \ {0}
      /\ Res \in {0, 1}
      /\ IsSeq(actions) /\ IsSeq(LinkerInputs) /\ IsSeq(InputInfos) /\ IsSeq(commands)
      /\ IsSeq(TempFiles) /\ IsSeq(ResultFiles) /\ IsSeq(stdout)
      /\ ~ToolsStarted => /\ InputInfos = <<>> /\ commands = <<>>
                          /\ TempFiles = <<>> /\ ResultFiles = <<>> /\ step = 1
      /\ args.flags.print_bindings => commands = <<>>
  BY DEF Types
<1>a. \A s, e : IsSeq(s) => IsSeq(Append(s, e)) BY Appending
<1>1. CASE BuildAction
  BY <1>0, <1>1, <1>a DEF BuildAction, jobVars, runVars, Types
<1>2. CASE ActionsBuilt
  BY <1>0, <1>2 DEF ActionsBuilt, buildVars, jobVars, runVars, Types
<1>3. CASE BuildJobs
  <2>1. OutputErrors \in Nat BY DEF OutputErrors
  <2> QED BY <1>0, <1>3, <2>1 DEF BuildJobs, buildVars, jobVars, runVars, Types
<1>4. CASE BuildJobsForTool
  <2>1. IsSeq(TempFiles') /\ IsSeq(ResultFiles') /\ IsSeq(commands')
    BY <1>0, <1>4, <1>a, ToolEffect
  <2>2. /\ pc = "tools" /\ step' = step + 1 /\ (args.flags.print_bindings => commands' = commands)
        /\ UNCHANGED <<args, pc, NumErrors, next, actions, LinkerInputs, InputInfos, stdout, Res>>
    BY <1>4, ToolEffect
  <2> QED BY <1>0, <2>1, <2>2 DEF Types
<1>5. CASE PipelineBuilt
  BY <1>0, <1>5, <1>a DEF PipelineBuilt, buildVars, runVars, Types
<1>6. CASE BuildLinkJob
  BY <1>0, <1>6, <1>a, LinkEffect DEF Types
<1>7. CASE Execute
  BY <1>0, <1>7 DEF Execute, buildVars, jobVars, Types
<1>8. CASE CommandSucceeds
  <2>1. /\ pc = "running" /\ next' = next + 1
        /\ stdout' = IF commands[next].output = Pipe
                       THEN Append(stdout, Product(disk, commands[next])) ELSE stdout
        /\ UNCHANGED <<args, pc, NumErrors, actions, LinkerInputs, step, InputInfos, commands,
                       TempFiles, ResultFiles, Res>>
    BY <1>8, Zenon DEF CommandSucceeds, Running, buildVars, jobVars
  <2>2. IsSeq(stdout') BY <1>0, <1>a, <2>1
  <2> QED BY <1>0, <2>1, <2>2 DEF Types
<1>9. CASE CommandFails
  BY <1>0, <1>9 DEF CommandFails, Running, buildVars, jobVars, Types
<1>10. CASE AllRun
  BY <1>0, <1>10 DEF AllRun, buildVars, jobVars, runVars, Types
<1>11. CASE Cleanup
  BY <1>0, <1>11 DEF Cleanup, buildVars, jobVars, Types
<1>12. CASE UNCHANGED vars
  BY <1>0, <1>12 DEF vars, buildVars, jobVars, runVars, Types
<1> QED BY <1>1, <1>2, <1>3, <1>4, <1>5, <1>6, <1>7, <1>8, <1>9, <1>10, <1>11, <1>12
        DEF Next, Done

(* A reported error is not taken back before the commands run.             *)
LEMMA ErrorsStay ==
  ASSUME Types, [Next]_vars
  PROVE  NoErrors' => NoErrors
<1> USE DEF NoErrors, BeforeRunning
<1>0. BeforeRunning => NumErrors \in Nat BY DEF Types
<1>1. CASE BuildAction
  <2>1. pc = "actions" /\ pc' = pc
        /\ NumErrors' = IF args.inputs[next].exists THEN NumErrors ELSE NumErrors + 1
    BY <1>1 DEF BuildAction
  <2> QED BY <1>0, <2>1
<1>2. CASE ActionsBuilt
  BY <1>0, <1>2 DEF ActionsBuilt
<1>3. CASE BuildJobs
  BY <1>0, <1>3 DEF BuildJobs, OutputErrors
<1>4. CASE BuildJobsForTool
  BY <1>4, ToolEffect
<1>5. CASE PipelineBuilt
  BY <1>5 DEF PipelineBuilt
<1>6. CASE BuildLinkJob
  BY <1>6, LinkEffect
<1>7. CASE Execute
  BY <1>0, <1>7 DEF Execute
<1>8. CASE CommandSucceeds
  <2>1. pc = "running" BY <1>8 DEF CommandSucceeds, Running
  <2> QED BY <2>1
<1>9. CASE CommandFails
  BY <1>9 DEF CommandFails, Running
<1>10. CASE AllRun
  BY <1>10 DEF AllRun
<1>11. CASE Cleanup
  <2>1. pc = "cleanup" BY <1>11 DEF Cleanup
  <2> QED BY <2>1
<1>12. CASE UNCHANGED vars
  BY <1>12 DEF vars
<1> QED BY <1>1, <1>2, <1>3, <1>4, <1>5, <1>6, <1>7, <1>8, <1>9, <1>10, <1>11, <1>12
        DEF Next, Done

(* The steps that leave the pipelines alone keep ActionsInv.               *)
LEMMA ActionsStay ==
  ASSUME ActionsInv, UNCHANGED <<args, actions, LinkerInputs>>,
         \A i : Seen(i)' <=> Seen(i),
         pc' # "actions" \/ UNCHANGED next,
         pc' = "actions" => pc = "actions",
         NoErrors' => NoErrors,
         NoErrors' /\ ToolsStarted' /\ args.flags.o /\ ~ToolsStarted => ~(NumOutputs > 1)
  PROVE  ActionsInv'
<1>1. /\ NumInputs' = NumInputs /\ \A i : Used(i)' = Used(i)
      /\ \A i : Pipeline(i)' = Pipeline(i)
  BY SameArgs
<1>2. NumOutputs' = NumOutputs BY SameBuild
<1>4. ArePipelines(actions, FALSE)' /\ ArePipelines(LinkerInputs, TRUE)'
  <2>1. ArePipelines(actions, FALSE) /\ ArePipelines(LinkerInputs, TRUE) BY DEF ActionsInv
  <2> QED BY <2>1, <1>1 DEF ArePipelines
<1>5. (pc = "actions" => next <= NumInputs + 1)' BY <1>1 DEF ActionsInv
<1>6. NoErrors' => /\ \A i \in 1..NumInputs' : Seen(i)' => args'.inputs[i].exists
                   /\ ~(ToolsStarted' /\ args'.flags.o /\ NumOutputs' > 1)
  BY <1>1, <1>2 DEF ActionsInv
<1> QED BY <1>4, <1>5, <1>6 DEF ActionsInv

(* An input whose pipeline goes elsewhere, or nowhere.                     *)
LEMMA PipelineSkipped ==
  ASSUME NEW s, NEW link, ArePipelines(s, link), args' = args,
         pc = "actions", pc' = pc, next \in 1..NumInputs, NumInputs \in Nat, next' = next + 1,
         ~(Used(next) /\ Pipeline(next).link = link)
  PROVE  ArePipelines(s, link)'
<1>1. /\ NumInputs' = NumInputs /\ \A i : Used(i)' = Used(i)
      /\ \A i : Pipeline(i)' = Pipeline(i)
  BY SameArgs
<1>2. \A i : Seen(i)' <=> Seen(i) \/ i = next BY <1>1 DEF Seen
<1> QED BY <1>1, <1>2 DEF ArePipelines

(* An input whose pipeline is appended.                                    *)
LEMMA PipelineAdded ==
  ASSUME NEW s, NEW link, NEW t, ArePipelines(s, link), args' = args, IsSeq(s),
         pc = "actions", pc' = pc, next \in 1..NumInputs, NumInputs \in Nat, next' = next + 1,
         Used(next), Pipeline(next).link = link, Pipeline(next).input = next,
         t = Append(s, Pipeline(next))
  PROVE  ArePipelines(t, link)'
<1>1. /\ NumInputs' = NumInputs /\ \A i : Used(i)' = Used(i)
      /\ \A i : Pipeline(i)' = Pipeline(i)
  BY SameArgs
<1>2. \A i : Seen(i)' <=> Seen(i) \/ i = next BY <1>1 DEF Seen
<1>3. \A i : Seen(i) => i < next BY DEF Seen
<1>4. /\ Len(s) \in Nat /\ Len(t) = Len(s) + 1
      /\ \A k \in 1..Len(s) : t[k] = s[k]
      /\ t[Len(s) + 1] = Pipeline(next)
  BY Appending
<1>5. ASSUME NEW k \in 1..Len(t)
      PROVE  /\ Seen(t[k].input)' /\ Used(t[k].input)'
             /\ t[k] = Pipeline(t[k].input)' /\ t[k].link = link
  <2>1. CASE k = Len(s) + 1 BY <1>1, <1>2, <1>4, <2>1
  <2>2. CASE k # Len(s) + 1
    <3>1. k \in 1..Len(s) /\ t[k] = s[k] BY <1>4, <2>2
    <3> QED BY <1>1, <1>2, <3>1 DEF ArePipelines
  <2> QED BY <2>1, <2>2
<1>6. ASSUME NEW k \in 1..Len(t), NEW l \in 1..Len(t), k < l
      PROVE  t[k].input < t[l].input
  <2>1. k \in 1..Len(s) /\ t[k] = s[k] BY <1>4, <1>6
  <2>2. Seen(s[k].input) BY <2>1 DEF ArePipelines
  <2>3. CASE l = Len(s) + 1 BY <1>3, <1>4, <2>1, <2>2, <2>3
  <2>4. CASE l # Len(s) + 1
    <3>1. l \in 1..Len(s) /\ t[l] = s[l] BY <1>4, <2>4
    <3> QED BY <1>6, <2>1, <3>1 DEF ArePipelines
  <2> QED BY <2>3, <2>4
<1>7. ASSUME NEW i \in 1..NumInputs, Seen(i)', Used(i), Pipeline(i).link = link
      PROVE  \E k \in 1..Len(t) : t[k].input = i
  <2>1. CASE i = next
    <3>1. t[Len(s) + 1].input = i /\ Len(s) + 1 \in 1..Len(t) BY <1>4, <2>1
    <3> QED BY <3>1
  <2>2. CASE i # next
    <3>1. PICK k \in 1..Len(s) : s[k].input = i BY <1>2, <1>7, <2>2 DEF ArePipelines
    <3>2. k \in 1..Len(t) /\ t[k] = s[k] BY <1>4, <3>1
    <3> QED BY <3>1, <3>2
  <2> QED BY <2>1, <2>2
<1> QED BY <1>1, <1>5, <1>6, <1>7 DEF ArePipelines

(* Every step preserves ActionsInv.                                        *)
LEMMA ActionsNext ==
  ASSUME Types, ActionsInv, [Next]_vars
  PROVE  ActionsInv'
<1> USE DEF ToolsStarted
<1>0. NoErrors' => NoErrors BY ErrorsStay
<1>a. args \in CommandLines /\ next \in Nat \ {0} BY DEF Types
<1>b. NumInputs \in Nat BY <1>a, ArgsType
<1>1. CASE BuildAction
  <2> DEFINE p == Pipeline(next)
  <2>1. /\ pc = "actions" /\ pc' = pc /\ next' = next + 1 /\ args' = args
        /\ next <= NumInputs
        /\ NumErrors' = IF args.inputs[next].exists THEN NumErrors ELSE NumErrors + 1
        /\ actions' = IF Used(next) /\ ~p.link THEN Append(actions, p) ELSE actions
        /\ LinkerInputs' = IF Used(next) /\ p.link THEN Append(LinkerInputs, p) ELSE LinkerInputs
    BY <1>1 DEF BuildAction
  <2>2. next \in 1..NumInputs BY <1>a, <1>b, <2>1
  <2>3. Used(next) => p.input = next /\ p.link \in BOOLEAN BY <1>a, <2>2, ToolsOfPipeline
  <2>4. NumInputs' = NumInputs BY <2>1, SameArgs
  <2>5. ArePipelines(actions, FALSE) /\ ArePipelines(LinkerInputs, TRUE)
        /\ IsSeq(actions) /\ IsSeq(LinkerInputs)
    BY DEF ActionsInv, Types
  <2> HIDE DEF p
  <2>6. ArePipelines(actions, FALSE)'
    <3>1. CASE Used(next) /\ ~p.link
      <4>1. actions' = Append(actions, Pipeline(next)) /\ Pipeline(next).link = FALSE
            /\ Pipeline(next).input = next /\ Used(next)
        BY <2>1, <2>3, <3>1 DEF p
      <4>2. ArePipelines(actions, FALSE) /\ IsSeq(actions) BY <2>5
      <4>3. args' = args /\ pc = "actions" /\ pc' = pc /\ next' = next + 1 BY <2>1
      <4> QED BY <1>b, <2>2, <4>1, <4>2, <4>3, PipelineAdded
    <3>2. CASE ~(Used(next) /\ ~p.link)
      <4>1. actions' = actions /\ ~(Used(next) /\ Pipeline(next).link = FALSE)
        BY <2>1, <2>3, <3>2 DEF p
      <4>2. ArePipelines(actions, FALSE) BY <2>5
      <4>3. args' = args /\ pc = "actions" /\ pc' = pc /\ next' = next + 1 BY <2>1
      <4> QED BY <1>b, <2>2, <4>1, <4>2, <4>3, PipelineSkipped
    <3> QED BY <3>1, <3>2
  <2>7. ArePipelines(LinkerInputs, TRUE)'
    <3>1. CASE Used(next) /\ p.link
      <4>1. LinkerInputs' = Append(LinkerInputs, Pipeline(next)) /\ Pipeline(next).link = TRUE
            /\ Pipeline(next).input = next /\ Used(next)
        BY <2>1, <2>3, <3>1 DEF p
      <4>2. ArePipelines(LinkerInputs, TRUE) /\ IsSeq(LinkerInputs) BY <2>5
      <4>3. args' = args /\ pc = "actions" /\ pc' = pc /\ next' = next + 1 BY <2>1
      <4> QED BY <1>b, <2>2, <4>1, <4>2, <4>3, PipelineAdded
    <3>2. CASE ~(Used(next) /\ p.link)
      <4>1. LinkerInputs' = LinkerInputs /\ ~(Used(next) /\ Pipeline(next).link = TRUE)
        BY <2>1, <2>3, <3>2 DEF p
      <4>2. ArePipelines(LinkerInputs, TRUE) BY <2>5
      <4>3. args' = args /\ pc = "actions" /\ pc' = pc /\ next' = next + 1 BY <2>1
      <4> QED BY <1>b, <2>2, <4>1, <4>2, <4>3, PipelineSkipped
    <3> QED BY <3>1, <3>2
  <2>8. (pc = "actions" => next <= NumInputs + 1)' BY <1>b, <2>2, <2>1, <2>4
  <2>9. NoErrors' => \A i \in 1..NumInputs' : Seen(i)' => args'.inputs[i].exists
    <3>1. SUFFICES ASSUME NoErrors', NEW i \in 1..NumInputs, i < next + 1
                   PROVE  args.inputs[i].exists
      BY <2>1, <2>4 DEF Seen
    <3>2. NumErrors \in Nat /\ NumErrors' = 0
      BY <2>1, <3>1 DEF NoErrors, BeforeRunning, Types
    <3>3. args.inputs[next].exists BY <2>1, <3>2
    <3>4. CASE i = next BY <3>3, <3>4
    <3>5. CASE i # next
      <4>1. Seen(i) BY <1>b, <2>1, <2>2, <3>1, <3>5 DEF Seen
      <4> QED BY <1>0, <3>1, <4>1 DEF ActionsInv
    <3> QED BY <3>4, <3>5
  <2>10. ~ToolsStarted' BY <2>1
  <2> QED BY <2>6, <2>7, <2>8, <2>9, <2>10 DEF ActionsInv
<1>2. CASE ActionsBuilt
  <2>1. /\ pc = "actions" /\ next > NumInputs /\ pc' = "jobs"
        /\ UNCHANGED <<args, next, actions, LinkerInputs>>
    BY <1>2 DEF ActionsBuilt, buildVars
  <2>2. NumInputs' = NumInputs BY <2>1, SameArgs
  <2>3. \A i : Seen(i)' <=> Seen(i) BY <1>a, <1>b, <2>1, <2>2 DEF Seen
  <2> QED BY <1>0, <2>1, <2>3, ActionsStay
<1>b2. ASSUME UNCHANGED <<args, actions, LinkerInputs>>,
              (pc # "actions" /\ pc' # "actions") \/ UNCHANGED <<pc, next>>,
              NoErrors' /\ ToolsStarted' /\ args.flags.o /\ ~ToolsStarted => ~(NumOutputs > 1)
       PROVE  ActionsInv'
  <2>1. NumInputs' = NumInputs BY <1>b2, SameArgs
  <2>2. \A i : Seen(i)' <=> Seen(i) BY <1>b2, <2>1 DEF Seen
  <2>3. pc' # "actions" \/ UNCHANGED next BY <1>b2
  <2>4. pc' = "actions" => pc = "actions" BY <1>b2
  <2> QED BY <1>0, <1>b2, <2>2, <2>3, <2>4, ActionsStay
<1>3. CASE BuildJobs
  <2>1. pc = "jobs" /\ pc' = "tools" /\ UNCHANGED <<args, actions, LinkerInputs>>
        /\ NumErrors' = NumErrors + OutputErrors
    BY <1>3 DEF BuildJobs, buildVars
  <2>2. NoErrors' /\ args.flags.o => ~(NumOutputs > 1)
    BY <2>1 DEF OutputErrors, NoErrors, BeforeRunning, Types
  <2> QED BY <1>b2, <2>1, <2>2
<1>4. CASE BuildJobsForTool
  BY <1>4, <1>b2, ToolEffect
<1>5. CASE PipelineBuilt
  BY <1>5, <1>b2 DEF PipelineBuilt, buildVars
<1>6. CASE BuildLinkJob
  BY <1>6, <1>b2, LinkEffect
<1>7. CASE Execute
  BY <1>7, <1>b2 DEF Execute, buildVars
<1>8. CASE CommandSucceeds
  <2>1. pc = "running" /\ pc' = pc /\ UNCHANGED <<args, actions, LinkerInputs>>
    BY <1>8, Zenon DEF CommandSucceeds, Running, buildVars
  <2> QED BY <1>b2, <2>1
<1>9. CASE CommandFails
  BY <1>9, <1>b2 DEF CommandFails, Running, buildVars
<1>10. CASE AllRun
  BY <1>10, <1>b2 DEF AllRun, buildVars
<1>11. CASE Cleanup
  BY <1>11, <1>b2 DEF Cleanup, buildVars
<1>12. CASE UNCHANGED vars
  BY <1>12, <1>b2 DEF vars, buildVars
<1> QED BY <1>1, <1>2, <1>3, <1>4, <1>5, <1>6, <1>7, <1>8, <1>9, <1>10, <1>11, <1>12
        DEF Next, Done

(* Every step preserves LoopInv.                                           *)
LEMMA LoopNext ==
  ASSUME Types, ActionsInv, LoopInv, [Next]_vars
  PROVE  LoopInv'
<1>0. /\ next \in Nat \ {0} /\ step \in Nat \ {0}
      /\ ~ToolsStarted => InputInfos = <<>> /\ step = 1
      /\ IsSeq(InputInfos)
  BY DEF Types
<1>a. Len(actions) \in Nat /\ Len(LinkerInputs) \in Nat
      /\ NumPipelines = Len(actions) + Len(LinkerInputs)
  BY ThePipelines
<1>b. \A j \in 1..NumPipelines : Len(Tools(PipelineAt(j))) \in Nat
  BY TheTools
<1>c. UNCHANGED <<args, actions, LinkerInputs>> =>
        /\ NumPipelines' = NumPipelines
        /\ \A j : PipelineAt(j)' = PipelineAt(j)
        /\ \A p : Tools(p)' = Tools(p)
  BY SameArgs, SameBuild
<1>3. CASE BuildJobs
  <2>1. /\ pc = "jobs" /\ pc' = "tools" /\ next' = 1
        /\ UNCHANGED <<args, actions, LinkerInputs, step, InputInfos>>
    BY <1>3 DEF BuildJobs, buildVars, jobVars
  <2>2. InputInfos' = <<>> /\ step' = 1 BY <1>0, <2>1 DEF ToolsStarted
  <2>3. NumPipelines' = NumPipelines /\ Len(InputInfos') = 0 /\ Len(actions)' = Len(actions)
    BY <1>c, <2>1, <2>2, EmptySeq
  <2>4. ASSUME 1 <= NumPipelines PROVE Len(Tools(Current))' \in Nat
    <3>1. Len(Tools(PipelineAt(1))) \in Nat BY <1>a, <1>b, <2>4
    <3>2. Tools(Current)' = Tools(PipelineAt(1)) BY <1>c, <2>1 DEF Current
    <3> QED BY <3>1, <3>2
  <2> QED BY <1>a, <2>1, <2>2, <2>3, <2>4 DEF LoopInv
<1>4. CASE BuildJobsForTool
  <2>1. /\ pc = "tools" /\ next <= NumPipelines /\ step <= Len(Tools(Current))
        /\ step' = step + 1
        /\ UNCHANGED <<args, pc, next, actions, LinkerInputs, InputInfos>>
    BY <1>4, ToolEffect
  <2>2. Len(Tools(Current)) \in Nat BY <1>0, <1>a, <1>b, <2>1 DEF Current
  <2>3. Tools(Current)' = Tools(Current) BY <1>c, <2>1 DEF Current
  <2>4. NumPipelines' = NumPipelines BY <1>c, <2>1
  <2> QED BY <1>0, <2>1, <2>2, <2>3, <2>4 DEF LoopInv
<1>5. CASE PipelineBuilt
  <2>1. /\ pc = "tools" /\ next <= NumPipelines /\ next' = next + 1 /\ step' = 1
        /\ InputInfos' = IF next <= Len(actions) THEN InputInfos
                                                 ELSE Append(InputInfos, InputInfo)
        /\ UNCHANGED <<args, pc, actions, LinkerInputs>>
    BY <1>5 DEF PipelineBuilt, buildVars
  <2>2. NumPipelines' = NumPipelines BY <1>c, <2>1
  <2>3. ASSUME next + 1 <= NumPipelines PROVE Len(Tools(Current))' \in Nat
    <3>1. Len(Tools(PipelineAt(next + 1))) \in Nat BY <1>0, <1>a, <1>b, <2>3
    <3>2. Tools(Current)' = Tools(PipelineAt(next + 1)) BY <1>c, <2>1 DEF Current
    <3> QED BY <3>1, <3>2
  <2>4. Len(InputInfos) = IF next <= Len(actions) THEN 0 ELSE next - 1 - Len(actions)
    BY <2>1 DEF LoopInv
  <2>5. Len(InputInfos') = IF next <= Len(actions) THEN 0 ELSE next - Len(actions)
    BY <1>0, <2>1, <2>4, Appending
  <2> QED BY <1>0, <1>a, <2>1, <2>2, <2>3, <2>5 DEF LoopInv
<1>6. CASE pc' # "tools"
  BY <1>6 DEF LoopInv
<1>7. CASE UNCHANGED vars
  <2>1. UNCHANGED <<args, pc, next, step, actions, LinkerInputs, InputInfos>>
    BY <1>7 DEF vars, buildVars, jobVars
  <2>2. NumPipelines' = NumPipelines /\ Tools(Current)' = Tools(Current)
    BY <1>c, <2>1 DEF Current
  <2> QED BY <2>1, <2>2 DEF LoopInv
<1>8. BuildJobs \/ BuildJobsForTool \/ PipelineBuilt \/ pc' # "tools" \/ UNCHANGED vars
  <2>1. CommandSucceeds => pc' # "tools" BY Zenon DEF CommandSucceeds, Running
  <2> QED BY <2>1, LinkEffect
          DEF Next, Done, BuildAction, ActionsBuilt, Execute, CommandFails, AllRun,
                          Cleanup, Running
<1> QED BY <1>3, <1>4, <1>5, <1>6, <1>7, <1>8

(* Every step preserves BaseInv.                                           *)
LEMMA BaseNext ==
  ASSUME BaseInv, [Next]_vars
  PROVE  BaseInv'
BY TypesNext, ActionsNext, LoopNext DEF BaseInv

----------------------------------------------------------------------------
(* The output of a tool.                                                   *)

(* Neither Nowhere nor Pipe is the name of a file.                         *)
LEMMA TriplesAreFiles ==
  ASSUME NEW a, NEW b, NEW c
  PROVE  IsFile(<<a, b, c>>)
<1>1. Len(<<a, b, c>>) = 3 /\ Len(<<"nothing">>) = 1 /\ Len(<<"pipe">>) = 1 OBVIOUS
<1>2. <<a, b, c>> # <<"nothing">> /\ <<a, b, c>> # <<"pipe">> BY <1>1
<1> QED BY <1>2 DEF IsFile, Nowhere, Pipe

(* A name derived for a tool.                                              *)
LEMMA DerivedNames ==
  ASSUME NEW x \in DOMAIN TempSuffix, NEW base
  PROVE  /\ x = "PCH" => DerivedName(x, base) = <<base[1], base[2], Append(base[3], "gch")>>
         /\ x # "PCH" => DerivedName(x, base) = <<"", base[2], <<TempSuffix[x]>>>>
<1>1. x # "Image" BY Suffixes
<1> QED BY <1>1 DEF DerivedName

InTools == pc = "tools" /\ next <= NumPipelines /\ step <= Len(Tools(Current))

(* The tool whose command is next.                                         *)
LEMMA TheCurrentTool ==
  ASSUME BaseInv, InTools
  PROVE  /\ next \in 1..NumPipelines /\ step \in 1..Len(Tools(Current))
         /\ Len(Tools(Current)) \in 0..3
         /\ Current = PipelineAt(next)
         /\ CurTool.phases \in Seq(EarlyPhases) /\ Len(CurTool.phases) \in 1..2
         /\ CurTool.type = "Nothing" \/ CurTool.type \in DOMAIN TempSuffix
         /\ ~CurTop => CurTool.type # "Nothing"
<1>0. /\ next \in Nat \ {0} /\ step \in Nat \ {0} /\ next <= NumPipelines
      /\ step <= Len(Tools(Current)) /\ Types /\ ActionsInv
  BY DEF BaseInv, Types, InTools
<1>1. next \in 1..NumPipelines BY <1>0, ThePipelines
<1>2. Current = PipelineAt(next) BY DEF Current
<1>3. /\ GoodTools(Tools(Current), args.inputs[Current.input].type)
      /\ Len(Tools(Current)) \in 0..3
      /\ \A s \in 1..Len(Tools(Current)) :
              s < Len(Tools(Current)) \/ next > Len(actions) => Tools(Current)[s].type # "Nothing"
  BY <1>0, <1>1, <1>2, TheTools
<1>4. step \in 1..Len(Tools(Current)) BY <1>0, <1>3
<1>5. IsPhases(CurTool.phases) /\ (CurTool.type = "Nothing" \/ CurTool.type \in DOMAIN TempSuffix)
  BY <1>3, <1>4 DEF GoodTools, CurTool, IsLastType, IsNewType
<1>6. Len(actions) \in Nat BY <1>0, ThePipelines
<1>7. ASSUME ~CurTop PROVE CurTool.type # "Nothing"
  <2>1. step < Len(Tools(Current)) \/ next > Len(actions)
    BY <1>0, <1>3, <1>4, <1>6, <1>7 DEF CurTop, CurIsLast
  <2> QED BY <1>3, <1>4, <2>1 DEF CurTool
<1> QED BY <1>1, <1>2, <1>3, <1>4, <1>5, <1>7 DEF IsPhases

(* Where it writes: only a top level tool writes nothing or to a pipe.     *)
LEMMA TheCurrentOutput ==
  ASSUME BaseInv, InTools
  PROVE  /\ CurNamed => CurTool.type \in DOMAIN TempSuffix
         /\ CurNamed => CurOutput = CurFile
         /\ ~CurTop /\ ~args.flags.print_bindings => CurNamed
         /\ IsFile(CurOutput) => CurNamed
         /\ CurTool.type # "Nothing" => CurOutput # Nowhere /\ IsFile(CurFile)
<1>0. CurTool.type = "Nothing" \/ CurTool.type \in DOMAIN TempSuffix BY TheCurrentTool
<1>1. ASSUME ~CurTop, ~args.flags.print_bindings PROVE CurNamed
  <2>1. CurTool.type # "Nothing" BY <1>1, TheCurrentTool
  <2>2. ~CurToPipe BY <1>1 DEF CurToPipe, OutputToPipe, UsePipes
  <2> QED BY <2>1, <2>2 DEF CurNamed
<1>2. ASSUME CurTool.type # "Nothing" PROVE IsFile(CurFile)
  <2>1. IsFile(OutFile) BY TriplesAreFiles DEF OutFile
  <2>2. IsFile(NewTemp(CurTool.type)) BY TriplesAreFiles DEF NewTemp
  <2>3. \A base : IsFile(<<base[1], base[2], Append(base[3], "gch")>>)
                  /\ IsFile(<<"", base[2], <<TempSuffix[CurTool.type]>>>>)
    BY TriplesAreFiles
  <2>4. IsFile(DerivedName(CurTool.type, Base(Current)))
    BY <1>0, <1>2, <2>3, DerivedNames
  <2> QED BY <2>1, <2>2, <2>4 DEF CurFile, GetNamedOutputPath
<1>3. IsFile(CurOutput) => CurNamed BY DEF CurOutput, IsFile
<1>4. Pipe # Nowhere
  <2>1. <<"pipe">>[1] = "pipe" /\ <<"nothing">>[1] = "nothing" OBVIOUS
  <2> QED BY <2>1 DEF Pipe, Nowhere
<1>5. CurTool.type # "Nothing" => CurOutput # Nowhere
  BY <1>2, <1>4 DEF CurOutput, IsFile
<1> QED BY <1>0, <1>1, <1>2, <1>3, <1>5 DEF CurNamed, CurOutput

----------------------------------------------------------------------------
(* Commands run on what the commands before them made.                     *)

(* What depends on the commands only.                                      *)
LEMMA SameCommands ==
  ASSUME UNCHANGED <<args, commands>>
  PROVE  (\A n : FilesBefore(n)' = FilesBefore(n)) /\ AllFiles' = AllFiles
<1>1. SourceFiles' = SourceFiles BY SameArgs
<1>2. \A n : FilesBefore(n)' = FilesBefore(n) BY <1>1 DEF FilesBefore, OutputsBefore
<1> QED BY <1>2 DEF AllFiles

(* The files there are when a command has been added.                      *)
LEMMA OneCommandMore ==
  ASSUME IsSeq(commands), args' = args, NEW c, commands' = Append(commands, c)
  PROVE  /\ Len(commands) \in Nat /\ Len(commands') = Len(commands) + 1
         /\ \A k \in 1..Len(commands) : commands'[k] = commands[k]
         /\ commands'[Len(commands) + 1] = c
         /\ \A n \in 1..Len(commands) + 1 : FilesBefore(n)' = FilesBefore(n)
         /\ AllFiles' = AllFiles \cup (IF IsFile(c.output) THEN {c.output} ELSE {})
<1>1. /\ Len(commands) \in Nat /\ Len(commands') = Len(commands) + 1
      /\ \A k \in 1..Len(commands) : commands'[k] = commands[k]
      /\ commands'[Len(commands) + 1] = c
  BY Appending
<1>2. SourceFiles' = SourceFiles BY SameArgs
<1>3. ASSUME NEW n \in 1..Len(commands) + 1
      PROVE  FilesBefore(n)' = FilesBefore(n)
  <2>1. OutputsBefore(n)' = OutputsBefore(n) BY <1>1 DEF OutputsBefore
  <2> QED BY <1>2, <2>1 DEF FilesBefore
<1>4. OutputsBefore(Len(commands) + 1)
        = {commands[k].output : k \in {m \in 1..Len(commands) : IsFile(commands[m].output)}}
  BY <1>1 DEF OutputsBefore
<1>5. OutputsBefore(Len(commands) + 1)'
        = {commands'[k].output : k \in {m \in 1..Len(commands') : IsFile(commands'[m].output)}}
  BY <1>1 DEF OutputsBefore
<1>6. OutputsBefore(Len(commands) + 1)'
        = OutputsBefore(Len(commands) + 1) \cup (IF IsFile(c.output) THEN {c.output} ELSE {})
  <2>1. ASSUME NEW f, f \in OutputsBefore(Len(commands) + 1)'
        PROVE  f \in OutputsBefore(Len(commands) + 1) \/ (IsFile(c.output) /\ f = c.output)
    <3>1. PICK k \in 1..Len(commands') : IsFile(commands'[k].output) /\ f = commands'[k].output
      BY <1>5, <2>1
    <3>2. CASE k = Len(commands) + 1 BY <1>1, <3>1, <3>2
    <3>3. CASE k # Len(commands) + 1
      <4>1. k \in 1..Len(commands) /\ commands'[k] = commands[k] BY <1>1, <3>3
      <4> QED BY <1>4, <3>1, <4>1
    <3> QED BY <3>2, <3>3
  <2>2. ASSUME NEW f, f \in OutputsBefore(Len(commands) + 1)
        PROVE  f \in OutputsBefore(Len(commands) + 1)'
    <3>1. PICK k \in 1..Len(commands) : IsFile(commands[k].output) /\ f = commands[k].output
      BY <1>4, <2>2
    <3>2. k \in 1..Len(commands') /\ commands'[k] = commands[k] BY <1>1
    <3> QED BY <1>5, <3>1, <3>2
  <2>3. ASSUME IsFile(c.output)
        PROVE  c.output \in OutputsBefore(Len(commands) + 1)'
    <3>1. Len(commands) + 1 \in 1..Len(commands') BY <1>1
    <3> QED BY <1>1, <1>5, <2>3, <3>1
  <2> QED BY <2>1, <2>2, <2>3
<1>7. AllFiles' = SourceFiles \cup OutputsBefore(Len(commands) + 1)'
  BY <1>2 DEF AllFiles, FilesBefore
<1>8. AllFiles = SourceFiles \cup OutputsBefore(Len(commands) + 1)
  BY DEF AllFiles, FilesBefore
<1>9. AllFiles' = AllFiles \cup (IF IsFile(c.output) THEN {c.output} ELSE {})
  BY <1>6, <1>7, <1>8
<1> QED BY <1>1, <1>3, <1>9

(* A pipeline starts from an input that exists.                            *)
LEMMA BaseIsThere ==
  ASSUME Types, ActionsInv, NEW j \in 1..NumPipelines
  PROVE  Base(PipelineAt(j)) \in SourceFiles
<1>1. PipelineAt(j).input \in 1..NumInputs /\ Used(PipelineAt(j).input)
  BY ThePipelines
<1>2. PipelineAt(j).input \in Sources BY <1>1 DEF Sources, Used
<1> QED BY <1>2 DEF Base, SourceFiles

(* Nothing is read initially.                                              *)
LEMMA InputsInit ==
  Init => InputsInv
<1> SUFFICES ASSUME Init PROVE InputsInv OBVIOUS
<1>1. commands = <<>> /\ InputInfos = <<>> /\ pc = "actions" BY DEF Init
<1> QED BY <1>1, EmptySeq DEF InputsInv, ResultIsRead

(* Every step preserves InputsInv.                                         *)
LEMMA InputsNext ==
  ASSUME BaseInv, InputsInv, [Next]_vars
  PROVE  InputsInv'
<1>0. /\ Types /\ ActionsInv /\ LoopInv
      /\ next \in Nat \ {0} /\ IsSeq(commands) /\ IsSeq(InputInfos)
      /\ ~ToolsStarted => InputInfos = <<>> /\ commands = <<>> /\ step = 1
  BY DEF BaseInv, Types
<1>1. CASE UNCHANGED <<args, commands, InputInfos>> /\ pc' # "tools"
  <2>1. (\A n : FilesBefore(n)' = FilesBefore(n)) /\ AllFiles' = AllFiles BY <1>1, SameCommands
  <2> QED BY <1>1, <2>1 DEF InputsInv, ResultIsRead
<1>2. CASE BuildJobs
  <2>1. /\ pc = "jobs" /\ pc' = "tools" /\ next' = 1
        /\ UNCHANGED <<args, actions, LinkerInputs, step, InputInfos, commands>>
    BY <1>2 DEF BuildJobs, buildVars, jobVars
  <2>2. InputInfos' = <<>> /\ commands' = <<>> /\ step' = 1 BY <1>0, <2>1 DEF ToolsStarted
  <2>3. ASSUME ResultIsRead' PROVE InputInfo' \in AllFiles'
    <3>1. 1 \in 1..NumPipelines
      BY <1>0, <2>1, <2>3, SameBuild, ThePipelines DEF ResultIsRead
    <3>2. Base(PipelineAt(1)) \in SourceFiles BY <1>0, <3>1, BaseIsThere
    <3>3. InputInfo' = Base(PipelineAt(1))
      BY <2>1, <2>2, SameBuild, SameArgs DEF InputInfo, Current
    <3>4. SourceFiles' = SourceFiles BY <2>1, SameArgs
    <3> QED BY <3>2, <3>3, <3>4 DEF AllFiles, FilesBefore
  <2> QED BY <2>2, <2>3, EmptySeq DEF InputsInv
<1>3. CASE BuildJobsForTool
  <2>1. /\ pc = "tools" /\ next <= NumPipelines /\ step <= Len(Tools(Current))
        /\ step' = step + 1 /\ Result' = CurOutput
        /\ commands' = IF args.flags.print_bindings THEN commands
                                                    ELSE Append(commands, CurCommand)
        /\ UNCHANGED <<args, pc, next, actions, LinkerInputs, InputInfos>>
    BY <1>3, ToolEffect
  <2>2. InTools BY <2>1 DEF InTools
  <2>3. CASE args.flags.print_bindings
    <3>1. UNCHANGED <<args, commands>> BY <2>1, <2>3
    <3>2. \A n : FilesBefore(n)' = FilesBefore(n) BY <3>1, SameCommands
    <3> QED BY <2>1, <2>3, <3>1, <3>2 DEF InputsInv
  <2>4. CASE ~args.flags.print_bindings
    <3>1. commands' = Append(commands, CurCommand) BY <2>1, <2>4
    <3>2. /\ Len(commands) \in Nat /\ Len(commands') = Len(commands) + 1
          /\ \A k \in 1..Len(commands) : commands'[k] = commands[k]
          /\ commands'[Len(commands) + 1] = CurCommand
          /\ \A n \in 1..Len(commands) + 1 : FilesBefore(n)' = FilesBefore(n)
          /\ AllFiles' = AllFiles \cup (IF IsFile(CurCommand.output) THEN {CurCommand.output}
                                                                     ELSE {})
      BY <1>0, <2>1, <3>1, OneCommandMore
    <3>3. CurCommand.output = CurOutput /\ CurCommand.inputs = <<InputInfo>> BY DEF CurCommand
    <3>4. InputInfo \in AllFiles BY <2>1, <2>4 DEF InputsInv, ResultIsRead
    <3>5. ASSUME NEW k \in 1..Len(commands'), NEW m \in 1..Len(commands'[k].inputs)
          PROVE  commands'[k].inputs[m] \in FilesBefore(k)'
      <4>1. CASE k = Len(commands) + 1
        <5>a. commands'[k].inputs = <<InputInfo>> BY <3>2, <3>3, <4>1
        <5>b. Len(<<InputInfo>>) = 1 /\ <<InputInfo>>[1] = InputInfo OBVIOUS
        <5>c. m = 1 BY <5>a, <5>b
        <5>1. commands'[k].inputs[m] = InputInfo BY <5>a, <5>b, <5>c
        <5>2. FilesBefore(k)' = AllFiles BY <3>2, <4>1 DEF AllFiles
        <5> QED BY <3>4, <5>1, <5>2
      <4>2. CASE k # Len(commands) + 1
        <5>1. k \in 1..Len(commands) BY <3>2, <4>2
        <5> QED BY <3>2, <5>1 DEF InputsInv
      <4> QED BY <4>1, <4>2
    <3>6. \A m \in 1..Len(InputInfos) : InputInfos[m] \in AllFiles'
      BY <2>4, <3>2 DEF InputsInv
    <3>7. ASSUME ResultIsRead' PROVE InputInfo' \in AllFiles'
      <4>1. step + 1 <= Len(Tools(Current)) \/ next > Len(actions)
        BY <2>1, <3>7, SameBuild, SameArgs DEF ResultIsRead, Current
      <4>2. ~CurTop BY <1>0, <2>1, <2>2, <4>1, TheCurrentTool, ThePipelines DEF CurTop, CurIsLast
      <4>3. CurNamed /\ CurTool.type # "Nothing" /\ CurOutput = CurFile /\ IsFile(CurFile)
        BY <2>2, <2>4, <4>2, TheCurrentOutput, TheCurrentTool
      <4>4. CurOutput \in AllFiles' BY <3>2, <3>3, <4>3
      <4>5. step' # 1 BY <1>0, <2>1 DEF Types
      <4> QED BY <2>1, <4>4, <4>5 DEF InputInfo
    <3> QED BY <2>1, <3>5, <3>6, <3>7 DEF InputsInv
  <2> QED BY <2>3, <2>4
<1>4. CASE PipelineBuilt
  <2>1. /\ pc = "tools" /\ next <= NumPipelines /\ next' = next + 1 /\ step' = 1
        /\ step > Len(Tools(Current))
        /\ InputInfos' = IF next <= Len(actions) THEN InputInfos
                                                 ELSE Append(InputInfos, InputInfo)
        /\ UNCHANGED <<args, pc, actions, LinkerInputs, commands>>
    BY <1>4 DEF PipelineBuilt, buildVars
  <2>2. (\A n : FilesBefore(n)' = FilesBefore(n)) /\ AllFiles' = AllFiles BY <2>1, SameCommands
  <2>3. ASSUME ~args.flags.print_bindings, NEW m \in 1..Len(InputInfos')
        PROVE  InputInfos'[m] \in AllFiles
    <3>1. CASE next <= Len(actions)
      BY <2>1, <2>3, <3>1 DEF InputsInv
    <3>2. CASE ~(next <= Len(actions))
      <4>1. InputInfos' = Append(InputInfos, InputInfo) BY <2>1, <3>2
      <4>2. next > Len(actions) BY <1>0, <3>2, ThePipelines
      <4>3. InputInfo \in AllFiles BY <2>1, <2>3, <4>2 DEF InputsInv, ResultIsRead
      <4>4. \/ m \in 1..Len(InputInfos) /\ InputInfos'[m] = InputInfos[m]
            \/ InputInfos'[m] = InputInfo
        BY <1>0, <4>1, Appending
      <4> QED BY <2>3, <4>3, <4>4 DEF InputsInv
    <3> QED BY <3>1, <3>2
  <2>4. ASSUME ResultIsRead' PROVE InputInfo' \in AllFiles
    <3>1. next + 1 \in 1..NumPipelines
      BY <1>0, <2>1, <2>4, SameBuild, ThePipelines DEF ResultIsRead
    <3>2. Base(PipelineAt(next + 1)) \in SourceFiles BY <1>0, <3>1, BaseIsThere
    <3>3. InputInfo' = Base(PipelineAt(next + 1))
      BY <2>1, SameBuild, SameArgs DEF InputInfo, Current
    <3> QED BY <3>2, <3>3 DEF AllFiles, FilesBefore
  <2> QED BY <2>1, <2>2, <2>3, <2>4 DEF InputsInv
<1>5. CASE BuildLinkJob
  <2>1. /\ pc' = "execute" /\ UNCHANGED <<args, InputInfos>>
        /\ commands' = IF LinkerInputs = <<>> \/ args.flags.print_bindings THEN commands
                       ELSE Append(commands, LinkCommand)
    BY <1>5, LinkEffect
  <2>2. CASE commands' = commands BY <1>1, <2>1, <2>2
  <2>3. CASE commands' # commands
    <3>1. commands' = Append(commands, LinkCommand) /\ ~args.flags.print_bindings BY <2>1, <2>3
    <3>2. /\ Len(commands) \in Nat /\ Len(commands') = Len(commands) + 1
          /\ \A k \in 1..Len(commands) : commands'[k] = commands[k]
          /\ commands'[Len(commands) + 1] = LinkCommand
          /\ \A n \in 1..Len(commands) + 1 : FilesBefore(n)' = FilesBefore(n)
          /\ AllFiles \subseteq AllFiles'
      BY <1>0, <2>1, <3>1, OneCommandMore
    <3>3. LinkCommand.inputs = InputInfos BY DEF LinkCommand
    <3>4. \A m \in 1..Len(InputInfos) : InputInfos[m] \in AllFiles BY <3>1 DEF InputsInv
    <3>5. ASSUME NEW k \in 1..Len(commands'), NEW m \in 1..Len(commands'[k].inputs)
          PROVE  commands'[k].inputs[m] \in FilesBefore(k)'
      <4>1. CASE k = Len(commands) + 1
        <5>1. m \in 1..Len(InputInfos) /\ commands'[k].inputs[m] = InputInfos[m]
          BY <3>2, <3>3, <4>1
        <5>2. FilesBefore(k)' = AllFiles BY <3>2, <4>1 DEF AllFiles
        <5> QED BY <3>4, <5>1, <5>2
      <4>2. CASE k # Len(commands) + 1
        <5>1. k \in 1..Len(commands) BY <3>2, <4>2
        <5> QED BY <3>2, <5>1 DEF InputsInv
      <4> QED BY <4>1, <4>2
    <3> QED BY <2>1, <3>2, <3>4, <3>5 DEF InputsInv, ResultIsRead
  <2> QED BY <2>2, <2>3
<1>6. CASE UNCHANGED vars
  <2>1. UNCHANGED <<args, pc, next, step, Result, actions, LinkerInputs, InputInfos, commands>>
    BY <1>6 DEF vars, buildVars, jobVars
  <2>2. (\A n : FilesBefore(n)' = FilesBefore(n)) /\ AllFiles' = AllFiles BY <2>1, SameCommands
  <2>3. /\ NumPipelines' = NumPipelines /\ Current' = Current
        /\ Tools(Current)' = Tools(Current) /\ Base(Current)' = Base(Current)
    BY <2>1, SameArgs, SameBuild DEF Current
  <2> QED BY <2>1, <2>2, <2>3 DEF InputsInv, ResultIsRead, InputInfo
<1>7. BuildAction \/ ActionsBuilt \/ Execute \/ CommandSucceeds \/ CommandFails \/ AllRun \/ Cleanup
        => UNCHANGED <<args, commands, InputInfos>> /\ pc' # "tools"
  <2>1. CommandSucceeds => UNCHANGED <<args, commands, InputInfos>> /\ pc' # "tools"
    BY Zenon DEF CommandSucceeds, Running, jobVars
  <2> QED BY <2>1 DEF BuildAction, ActionsBuilt, Execute, CommandFails, AllRun, Cleanup, Running,
                      jobVars, buildVars
<1> QED BY <1>1, <1>2, <1>3, <1>4, <1>5, <1>6, <1>7 DEF Next, Done

(* A command that succeeds adds its output to the files there are.         *)
LEMMA FilesAfter ==
  ASSUME NEW n \in 1..Len(commands), Len(commands) \in Nat
  PROVE  FilesBefore(n + 1)
           = FilesBefore(n) \cup (IF IsFile(commands[n].output) THEN {commands[n].output} ELSE {})
<1>1. ASSUME NEW f PROVE f \in OutputsBefore(n + 1)
                           <=> f \in OutputsBefore(n)
                               \/ (IsFile(commands[n].output) /\ f = commands[n].output)
  <2>1. \A m \in 1..Len(commands) : m < n + 1 <=> m < n \/ m = n OBVIOUS
  <2> QED BY <2>1 DEF OutputsBefore
<1> QED BY <1>1 DEF FilesBefore

(* No product is a partial file.                                           *)
LEMMA ProductIsWhole ==
  ASSUME NEW d, NEW c
  PROVE  "partial" \notin DOMAIN Product(d, c)
<1>1. CASE c.phases = <<"Link">>
  BY <1>1 DEF Product
<1>2. CASE c.phases # <<"Link">>
  BY <1>2 DEF Product
<1> QED BY <1>1, <1>2

(* What a command that succeeds does to the disk.                          *)
LEMMA SuccessEffect ==
  ASSUME CommandSucceeds
  PROVE  /\ pc = "running" /\ next <= Len(commands) /\ pc' = pc /\ next' = next + 1
         /\ IsFile(commands[next].output) =>
              disk' = With(disk, commands[next].output, Product(disk, commands[next]))
         /\ ~IsFile(commands[next].output) => disk' = disk
         /\ commands[next].output = Pipe => stdout' = Append(stdout, Product(disk, commands[next]))
         /\ commands[next].output # Pipe => stdout' = stdout
         /\ UNCHANGED <<args, NumErrors, actions, LinkerInputs, step, Result, InputInfos,
                        commands, TempFiles, ResultFiles, Res>>
BY Zenon DEF CommandSucceeds, Running, buildVars, jobVars

(* The disk has the inputs initially.                                      *)
LEMMA DiskInit ==
  Init => DiskInv
<1> SUFFICES ASSUME Init PROVE DiskInv OBVIOUS
<1>1. pc = "actions" /\ disk = [f \in SourceFiles |->
                                  Source(CHOOSE i \in Sources : args.inputs[i].file = f)]
  BY DEF Init, SourceFiles
<1>2. \A i : "partial" \notin DOMAIN Source(i) BY DEF Source
<1> QED BY <1>1, <1>2 DEF DiskInv

(* Every step preserves DiskInv.                                           *)
LEMMA DiskNext ==
  ASSUME BaseInv, DiskInv, [Next]_vars
  PROVE  DiskInv'
<1>0. next \in Nat \ {0} /\ Len(commands) \in Nat BY EmptyIff DEF BaseInv, Types
<1>1. CASE UNCHANGED <<args, disk>> /\ BeforeRunning /\ pc' # "running"
  <2>1. SourceFiles' = SourceFiles BY <1>1, SameArgs
  <2> QED BY <1>1, <2>1 DEF DiskInv
<1>2. CASE Execute
  <2>1. /\ pc = "execute" /\ next' = 1 /\ UNCHANGED <<args, commands, disk>>
    BY <1>2 DEF Execute, jobVars
  <2>2. FilesBefore(1) = SourceFiles BY DEF FilesBefore, OutputsBefore
  <2>3. FilesBefore(1)' = SourceFiles /\ SourceFiles' = SourceFiles
    BY <2>1, <2>2, SameArgs, SameCommands
  <2>4. FilesBefore(next)' = SourceFiles BY <2>1, <2>3
  <2> QED BY <1>0, <2>1, <2>3, <2>4 DEF DiskInv, BeforeRunning
<1>3. CASE CommandSucceeds
  <2> DEFINE c == commands[next]
  <2>1. /\ pc = "running" /\ next \in 1..Len(commands) /\ pc' = pc /\ next' = next + 1
        /\ IsFile(c.output) => disk' = With(disk, c.output, Product(disk, c))
        /\ ~IsFile(c.output) => disk' = disk
        /\ UNCHANGED <<args, commands>>
    BY <1>0, <1>3, SuccessEffect
  <2>2. DOMAIN disk = FilesBefore(next) /\ \A f \in DOMAIN disk : "partial" \notin DOMAIN disk[f]
    BY <2>1 DEF DiskInv
  <2>3. FilesBefore(next + 1) = FilesBefore(next) \cup (IF IsFile(c.output) THEN {c.output} ELSE {})
    BY <1>0, <2>1, FilesAfter
  <2>4. FilesBefore(next)' = FilesBefore(next + 1) BY <2>1, SameCommands
  <2> HIDE DEF c
  <2>5. DOMAIN disk' = FilesBefore(next + 1)
    <3>1. CASE IsFile(c.output)
      <4>1. DOMAIN disk' = DOMAIN disk \cup {c.output} BY <2>1, <3>1 DEF With
      <4> QED BY <2>2, <2>3, <3>1, <4>1
    <3>2. CASE ~IsFile(c.output) BY <2>1, <2>2, <2>3, <3>2
    <3> QED BY <3>1, <3>2
  <2>6. \A f \in DOMAIN disk' : "partial" \notin DOMAIN disk'[f]
    <3>1. CASE IsFile(c.output)
      <4>1. disk' = With(disk, c.output, Product(disk, c)) BY <2>1, <3>1
      <4>2. /\ DOMAIN disk' = DOMAIN disk \cup {c.output}
            /\ disk'[c.output] = Product(disk, c)
            /\ \A g \in DOMAIN disk : g # c.output => disk'[g] = disk[g]
        BY <4>1 DEF With
      <4> QED BY <2>2, <4>2, ProductIsWhole
    <3>2. CASE ~IsFile(c.output) BY <2>1, <2>2, <3>2
    <3> QED BY <3>1, <3>2
  <2> QED BY <1>0, <2>1, <2>4, <2>5, <2>6 DEF DiskInv, BeforeRunning
<1>4. CASE pc' \in {"cleanup", "done", "quit"}
  BY <1>4 DEF DiskInv, BeforeRunning
<1>5. CASE UNCHANGED vars
  <2>1. UNCHANGED <<args, pc, next, commands, disk>> BY <1>5 DEF vars, jobVars, runVars
  <2>2. SourceFiles' = SourceFiles /\ FilesBefore(next)' = FilesBefore(next)
    BY <2>1, SameArgs, SameCommands
  <2> QED BY <2>1, <2>2 DEF DiskInv, BeforeRunning
<1>6. BuildAction \/ ActionsBuilt \/ BuildJobs \/ BuildJobsForTool \/ PipelineBuilt \/ BuildLinkJob
        => UNCHANGED <<args, disk>> /\ BeforeRunning /\ pc' # "running"
  BY ToolEffect, LinkEffect
     DEF BuildAction, ActionsBuilt, BuildJobs, PipelineBuilt, runVars, BeforeRunning
<1>7. CommandFails \/ AllRun \/ Cleanup => pc' \in {"cleanup", "done", "quit"}
  BY DEF CommandFails, AllRun, Cleanup
<1> QED BY <1>1, <1>2, <1>3, <1>4, <1>5, <1>6, <1>7 DEF Next, Done

(* Every step preserves NothingLeftBehind.                                 *)
LEMMA NothingLeftNext ==
  ASSUME NothingLeftBehind, [Next]_vars
  PROVE  NothingLeftBehind'
<1>1. CASE Cleanup
  <2>1. /\ disk' = Without(disk, RemovedFiles \ Stuck)
        /\ UNCHANGED <<args, TempFiles, ResultFiles, Res>>
    BY <1>1 DEF Cleanup, jobVars
  <2>2. DOMAIN disk' = DOMAIN disk \ (RemovedFiles \ Stuck) BY <2>1 DEF Without
  <2>3. Elements(TempFiles)' = Elements(TempFiles) /\ Elements(ResultFiles)' = Elements(ResultFiles)
    BY <2>1
  <2>4. /\ Elements(TempFiles) \subseteq RemovedFiles
        /\ Res # 0 /\ ~args.flags.save_temps => Elements(ResultFiles) \subseteq RemovedFiles
    BY DEF RemovedFiles
  <2> QED BY <2>1, <2>2, <2>3, <2>4 DEF NothingLeftBehind
<1>2. CASE UNCHANGED vars
  BY <1>2 DEF vars, jobVars, runVars, NothingLeftBehind, Elements
<1>3. Cleanup \/ UNCHANGED vars \/ pc' # "done"
  <2>1. CommandSucceeds => pc' # "done" BY SuccessEffect
  <2> QED BY <2>1, ToolEffect, LinkEffect
          DEF Next, Done, BuildAction, ActionsBuilt, BuildJobs, PipelineBuilt, Execute,
              CommandFails, AllRun
<1> QED BY <1>1, <1>2, <1>3 DEF NothingLeftBehind

(* A command about to run has all of its inputs, whole.                    *)
LEMMA InputsAreThere ==
  ASSUME BaseInv, InputsInv, DiskInv
  PROVE  InputsUpToDate
<1> SUFFICES ASSUME Running, NEW k \in 1..Len(commands[next].inputs)
             PROVE  /\ commands[next].inputs[k] \in DOMAIN disk
                    /\ disk[commands[next].inputs[k]] # Partial
  BY DEF InputsUpToDate
<1>1. next \in 1..Len(commands) /\ pc = "running"
  BY EmptyIff DEF BaseInv, Types, Running
<1>2. commands[next].inputs[k] \in DOMAIN disk BY <1>1 DEF InputsInv, DiskInv
<1>3. "partial" \in DOMAIN Partial BY DEF Partial
<1> QED BY <1>1, <1>2, <1>3 DEF DiskInv

(* The pipelines are those BuildActions makes of the inputs, in their      *)
(* order, and the loops of BuildJobs stay within them.                     *)
THEOREM BaseTheorem == Spec => []BaseInv
<1>1. Init => BaseInv BY BaseInit
<1>2. BaseInv /\ [Next]_vars => BaseInv' BY BaseNext
<1> QED BY <1>1, <1>2, PTL DEF Spec

(* Every variable of the driver has its type, whatever the command line    *)
(* is: the stage, the loop counters, the exit code and the count of errors *)
(* which Compilation::CleanupFileList adds to, once per file that stays.   *)
THEOREM DriverTypeCorrect == Spec => []TypeOK
<1>1. Init => TypeOK
  <2>1. Init => Types /\ NumErrors = 0 BY BaseInit DEF Init, BaseInv
  <2> QED BY <2>1 DEF Types, TypeOK
<1>2. BaseInv /\ BaseInv' /\ TypeOK /\ [Next]_vars => TypeOK'
  <2>1. SUFFICES ASSUME BaseInv, BaseInv', TypeOK, [Next]_vars PROVE NumErrors' \in Nat
    BY DEF BaseInv, Types, TypeOK
  <2>2. CASE Cleanup
    <3> DEFINE F == DOMAIN disk \cap RemovedFiles \cap Stuck \cap Elements(ResultFiles)
    <3>1. Len(ResultFiles) \in Nat BY <2>1, EmptyIff DEF BaseInv, Types
    <3>2. IsFiniteSet(1..Len(ResultFiles)) BY <3>1, FS_Interval
    <3> DEFINE r == [k \in 1..Len(ResultFiles) |-> ResultFiles[k]]
    <3>3. r \in Surjection(1..Len(ResultFiles), Elements(ResultFiles))
      BY DEF Surjection, Elements
    <3> HIDE DEF r
    <3>4. IsFiniteSet(Elements(ResultFiles)) BY <3>2, <3>3, FS_Surjection
    <3>5. Cardinality(F) \in Nat BY <3>4, FS_Subset, FS_CardinalityType
    <3>6. NumErrors' = NumErrors + Cardinality(F) BY <2>2 DEF Cleanup
    <3> HIDE DEF F
    <3>7. NumErrors \in Nat BY <2>1 DEF TypeOK
    <3> QED BY <3>5, <3>6, <3>7
  <2>3. CASE BuildAction \/ ActionsBuilt \/ BuildJobs
    <3>1. BeforeRunning' BY <2>3 DEF BuildAction, ActionsBuilt, BuildJobs, BeforeRunning
    <3> QED BY <2>1, <3>1 DEF BaseInv, Types
  <2>4. CASE ~(Cleanup \/ BuildAction \/ ActionsBuilt \/ BuildJobs)
    <3>1. NumErrors' = NumErrors
      BY <2>1, <2>4 DEF Next, BuildJobsForTool, PipelineBuilt, BuildLinkJob, Execute,
                        CommandSucceeds, CommandFails, AllRun, Done, vars
    <3> QED BY <2>1, <3>1 DEF TypeOK
  <2> QED BY <2>2, <2>3, <2>4
<1> QED BY <1>1, <1>2, BaseTheorem, PTL DEF Spec

(* Wherever a command of the job list fails, whatever it leaves and        *)
(* whatever cannot be removed: no command has run on anything but what     *)
(* the commands before it made, and Cleanup removes every temporary file,  *)
(* and after a failure every result, that can be removed.                  *)
THEOREM FailuresAreContainedTheorem == Spec => []FailuresAreContained
<1> DEFINE Inv == InputsInv /\ DiskInv /\ NothingLeftBehind
<1>1. Init => Inv
  <2>1. Init => NothingLeftBehind BY DEF Init, NothingLeftBehind
  <2> QED BY <2>1, InputsInit, DiskInit
<1>2. BaseInv /\ Inv /\ [Next]_vars => Inv'
  BY InputsNext, DiskNext, NothingLeftNext
<1>3. BaseInv /\ Inv => FailuresAreContained
  BY InputsAreThere DEF FailuresAreContained
<1> QED BY <1>1, <1>2, <1>3, BaseTheorem, PTL DEF Spec

----------------------------------------------------------------------------
(* No name that is given is that of an input.                              *)

(* The name of an input.                                                   *)
LEMMA InputFile ==
  ASSUME args \in CommandLines, NEW i \in 1..NumInputs
  PROVE  /\ args.inputs[i].file[1] # TempDir
         /\ args.inputs[i].file[3] \in Seq(STRING)
<1>1. args.inputs[i] \in Input BY ArgsType
<1>2. args.inputs[i].file \in (STRING \ {TempDir}) \X STRING \X Seq(STRING)
  BY <1>1 DEF Input
<1> QED BY <1>2

(* A name derived from an input is not that of any input.                  *)
LEMMA DerivedIsNew ==
  ASSUME args \in CommandLines, NamesApart, NEW i \in 1..NumInputs, NEW m \in 1..NumInputs,
         NEW x \in DOMAIN TempSuffix, IsNewType(x, args.inputs[i].type)
  PROVE  DerivedName(x, args.inputs[i].file) # args.inputs[m].file
<1> DEFINE b == args.inputs[i].file
           g == args.inputs[m].file
<1>1. SUFFICES ASSUME DerivedName(x, b) = g PROVE FALSE OBVIOUS
<1>2. b[3] \in Seq(STRING) BY InputFile
<1>a. /\ x = "PCH" => DerivedName(x, b) = <<b[1], b[2], Append(b[3], "gch")>>
      /\ x # "PCH" => DerivedName(x, b) = <<"", b[2], <<TempSuffix[x]>>>>
  BY DerivedNames
<1>3. CASE x = "PCH"
  <2>1. g = <<b[1], b[2], Append(b[3], "gch")>> BY <1>1, <1>3, <1>a, Zenon
  <2>2. g[2] = b[2] /\ g[3] = Append(b[3], "gch")
    <3> DEFINE u == b[1]
               v == b[2]
               w == Append(b[3], "gch")
    <3>1. g = <<u, v, w>> BY <2>1
    <3> HIDE DEF g, u, v, w
    <3>2. g[2] = v /\ g[3] = w BY <3>1
    <3> QED BY <3>2 DEF v, w
  <2>3. m = i BY <2>2 DEF NamesApart
  <2>4. b[3] = Append(b[3], "gch") BY <2>2, <2>3
  <2>5. Len(Append(b[3], "gch")) = Len(b[3]) + 1 /\ Len(b[3]) \in Nat BY <1>2
  <2> HIDE DEF b
  <2> QED BY <2>4, <2>5
<1>4. CASE x # "PCH"
  <2>1. g = <<"", b[2], <<TempSuffix[x]>>>> BY <1>1, <1>4, <1>a, Zenon
  <2>2. g[2] = b[2] /\ g[3] = <<TempSuffix[x]>>
    <3> DEFINE v == b[2]
               w == <<TempSuffix[x]>>
    <3>1. g = <<"", v, w>> BY <2>1
    <3> HIDE DEF g, v, w
    <3>2. g[2] = v /\ g[3] = w BY <3>1
    <3> QED BY <3>2 DEF v, w
  <2>3. m = i BY <2>2 DEF NamesApart
  <2>4. args.inputs[i].type = TypeForExtension(TempSuffix[x]) BY <2>2, <2>3 DEF NamesApart
  <2> QED BY <1>4, <2>4 DEF IsNewType
<1> QED BY <1>3, <1>4

(* The name of a tool that has one.                                        *)
LEMMA ToolTypes ==
  ASSUME Types, ActionsInv, NEW j \in 1..NumPipelines, NEW s \in 1..Len(Tools(PipelineAt(j))),
         Tools(PipelineAt(j))[s].type # "Nothing"
  PROVE  /\ Tools(PipelineAt(j))[s].type \in DOMAIN TempSuffix
         /\ IsNewType(Tools(PipelineAt(j))[s].type, args.inputs[PipelineAt(j).input].type)
<1>1. GoodTools(Tools(PipelineAt(j)), args.inputs[PipelineAt(j).input].type) BY TheTools
<1> QED BY <1>1 DEF GoodTools, IsLastType, IsNewType

(* No name that has been given is that of an input.                        *)
LEMMA NamesAreNew ==
  ASSUME Types, ActionsInv, NamesApart, NEW f, IsTemp(f) \/ IsResult(f), NEW m \in 1..NumInputs
  PROVE  f # args.inputs[m].file
<1>0. args \in CommandLines BY DEF Types
<1>1. CASE IsTemp(f)
  <2>1. f[1] = TempDir BY <1>1 DEF IsTemp
  <2> QED BY <1>0, <2>1, InputFile
<1>2. CASE f \in {OutFile, DefaultImage}
  BY <1>2 DEF NamesApart
<1>3. CASE IsDerived(f)
  <2>1. PICK j \in 1..NumPipelines : \E s \in 1..Len(Tools(PipelineAt(j))) :
           /\ Tools(PipelineAt(j))[s].type # "Nothing"
           /\ f = DerivedName(Tools(PipelineAt(j))[s].type, Base(PipelineAt(j)))
    BY <1>3 DEF IsDerived
  <2>2. PICK s \in 1..Len(Tools(PipelineAt(j))) :
           /\ Tools(PipelineAt(j))[s].type # "Nothing"
           /\ f = DerivedName(Tools(PipelineAt(j))[s].type, Base(PipelineAt(j)))
    BY <2>1
  <2>3. PipelineAt(j).input \in 1..NumInputs BY ThePipelines
  <2>4. /\ Tools(PipelineAt(j))[s].type \in DOMAIN TempSuffix
        /\ IsNewType(Tools(PipelineAt(j))[s].type, args.inputs[PipelineAt(j).input].type)
    BY <2>2, ToolTypes
  <2>5. Base(PipelineAt(j)) = args.inputs[PipelineAt(j).input].file BY DEF Base
  <2> QED BY <1>0, <2>2, <2>3, <2>4, <2>5, DerivedIsNew
<1> QED BY <1>1, <1>2, <1>3 DEF IsResult

(* BuildJobs only goes forward, and nothing it has given is forgotten.     *)
LEMMA AfterStart ==
  ASSUME Types, [Next]_vars, ToolsStarted
  PROVE  /\ ToolsStarted' /\ UNCHANGED <<args, actions, LinkerInputs>>
         /\ pc # "tools" => pc' # "tools"
         /\ pc' = "tools" => next < next' \/ (next = next' /\ step <= step')
         /\ Len(TempFiles) \in Nat /\ Len(TempFiles) <= Len(TempFiles')
<1> USE DEF ToolsStarted
<1>0. Len(TempFiles) \in Nat /\ IsSeq(TempFiles) /\ next \in Nat /\ step \in Nat
  BY EmptyIff DEF Types
<1>1. CASE BuildAction \/ ActionsBuilt \/ BuildJobs
  BY <1>1 DEF BuildAction, ActionsBuilt, BuildJobs
<1>4. CASE BuildJobsForTool
  BY <1>0, <1>4, ToolEffect, Appending
<1>5. CASE PipelineBuilt
  BY <1>0, <1>5 DEF PipelineBuilt, buildVars
<1>6. CASE BuildLinkJob
  BY <1>0, <1>6, LinkEffect
<1>7. CASE Execute
  BY <1>0, <1>7 DEF Execute, buildVars, jobVars
<1>8. CASE CommandSucceeds
  BY <1>0, <1>8, SuccessEffect
<1>9. CASE CommandFails
  BY <1>0, <1>9 DEF CommandFails, Running, buildVars, jobVars
<1>10. CASE AllRun
  BY <1>0, <1>10 DEF AllRun, buildVars, jobVars
<1>11. CASE Cleanup
  BY <1>0, <1>11 DEF Cleanup, buildVars, jobVars
<1>12. CASE UNCHANGED vars
  BY <1>0, <1>12 DEF vars, buildVars, jobVars
<1> QED BY <1>1, <1>4, <1>5, <1>6, <1>7, <1>8, <1>9, <1>10, <1>11, <1>12
        DEF Next, Done

(* What has been given a name keeps it.                                    *)
LEMMA NamesStay ==
  ASSUME BaseInv, [Next]_vars
  PROVE  /\ \A f : IsTemp(f) => IsTemp(f)'
         /\ \A f : IsResult(f) => IsResult(f)'
         /\ \A j, s : ToolAdded(j, s) => ToolAdded(j, s)'
         /\ LinkAdded => LinkAdded'
<1>0. Types /\ ActionsInv /\ next \in Nat /\ step \in Nat BY DEF BaseInv, Types
<1>1. CASE ToolsStarted
  <2>1. /\ ToolsStarted' /\ UNCHANGED <<args, actions, LinkerInputs>>
        /\ pc # "tools" => pc' # "tools"
        /\ pc' = "tools" => next < next' \/ (next = next' /\ step <= step')
        /\ Len(TempFiles) \in Nat /\ Len(TempFiles) <= Len(TempFiles')
    BY <1>0, <1>1, AfterStart
  <2>2. /\ NumPipelines' = NumPipelines /\ \A j : PipelineAt(j)' = PipelineAt(j)
        /\ \A p : Tools(p)' = Tools(p)
        /\ \A p : Base(p)' = Base(p)
    BY <2>1, SameArgs, SameBuild
  <2>a. next' \in Nat /\ step' \in Nat BY <1>0, TypesNext DEF Types
  <2>3. ASSUME NEW f, IsTemp(f) PROVE IsTemp(f)'
    <3>1. PICK n \in 1..Len(TempFiles), e \in DOMAIN TempSuffix :
             f = <<TempDir, n, <<TempSuffix[e]>>>>
      BY <2>3 DEF IsTemp
    <3>2. n \in 1..Len(TempFiles') \/ ~(Len(TempFiles') \in Int) BY <2>1
    <3>3. IsSeq(TempFiles') BY <1>0, TypesNext DEF Types
    <3>4. n \in 1..Len(TempFiles') BY <3>2, <3>3, EmptyIff
    <3> QED BY <3>1, <3>4 DEF IsTemp
  <2>4. ASSUME NEW j, NEW s, ToolAdded(j, s) PROVE ToolAdded(j, s)'
    <3>1. /\ j \in 1..NumPipelines /\ s \in 1..Len(Tools(PipelineAt(j)))
          /\ pc = "tools" => j < next \/ (j = next /\ s < step)
      BY <2>4 DEF ToolAdded
    <3>2. NumPipelines \in Nat /\ Len(Tools(PipelineAt(j))) \in Nat
      BY <1>0, <3>1, ThePipelines, TheTools
    <3>3. pc' = "tools" => j < next' \/ (j = next' /\ s < step')
      BY <1>0, <2>1, <2>a, <3>1, <3>2
    <3> QED BY <2>1, <2>2, <3>1, <3>3 DEF ToolAdded
  <2>5. LinkAdded => LinkAdded' BY <2>1 DEF LinkAdded
  <2>6. OutFileUsed => OutFileUsed'
    BY <2>1, <2>2, <2>4, <2>5 DEF OutFileUsed
  <2>7. \A f : IsDerived(f) => IsDerived(f)'
    <3>1. \A x, base : DerivedName(x, base)' = DerivedName(x, base) BY DEF DerivedName
    <3> QED BY <2>2, <2>4, <3>1 DEF IsDerived
  <2>8. \A f : IsResult(f) => IsResult(f)' BY <2>1, <2>5, <2>6, <2>7 DEF IsResult
  <2> QED BY <2>3, <2>4, <2>5, <2>8
<1>2. CASE ~ToolsStarted
  <2>1. (\A j, s : ~ToolAdded(j, s)) /\ ~LinkAdded BY <1>2 DEF ToolAdded, LinkAdded
  <2>2. \A f : ~IsResult(f) BY <2>1 DEF IsResult, OutFileUsed, IsDerived
  <2>3. TempFiles = <<>> BY <1>0, <1>2 DEF Types
  <2>4. \A f : ~IsTemp(f) BY <2>3, EmptySeq DEF IsTemp
  <2> QED BY <2>1, <2>2, <2>4
<1> QED BY <1>1, <1>2

(* The name of a tool's output counts as given once the tool is added.     *)
LEMMA TheNameGiven ==
  ASSUME BaseInv, BuildJobsForTool, CurNamed, NEW g, g = CurFile
  PROVE  /\ IsTemporary(CurTop) =>
              /\ TempFiles' = Append(TempFiles, g)
              /\ \E e \in DOMAIN TempSuffix : g = <<TempDir, Len(TempFiles) + 1, <<TempSuffix[e]>>>>
              /\ IsTemp(g)'
         /\ ~IsTemporary(CurTop) =>
              /\ IsResult(g)'
              /\ \/ CurTop /\ args.flags.o /\ g = OutFile
                 \/ g = DerivedName(CurTool.type, Base(Current))
<1>0. /\ InTools /\ TempFiles' = IF IsTemporary(CurTop) THEN Append(TempFiles, CurFile)
                                                        ELSE TempFiles
      /\ step' = step + 1
      /\ UNCHANGED <<args, pc, next, actions, LinkerInputs>>
  BY ToolEffect DEF InTools
<1>1. /\ next \in 1..NumPipelines /\ step \in 1..Len(Tools(Current)) /\ pc = "tools"
      /\ Current = PipelineAt(next) /\ CurTool.type \in DOMAIN TempSuffix
      /\ IsSeq(TempFiles) /\ Len(Tools(Current)) \in Nat /\ Types /\ ActionsInv
  BY <1>0, TheCurrentTool, TheCurrentOutput DEF BaseInv, Types, InTools
<1>2. /\ NumPipelines' = NumPipelines /\ \A j : PipelineAt(j)' = PipelineAt(j)
      /\ \A p : Tools(p)' = Tools(p)
      /\ \A p : Base(p)' = Base(p)
  BY <1>0, SameArgs, SameBuild
<1>3. ASSUME IsTemporary(CurTop)
      PROVE  /\ TempFiles' = Append(TempFiles, g)
             /\ \E e \in DOMAIN TempSuffix : g = <<TempDir, Len(TempFiles) + 1, <<TempSuffix[e]>>>>
             /\ IsTemp(g)'
  <2>1. ~CurTop BY <1>3 DEF IsTemporary
  <2>2. g = <<TempDir, Len(TempFiles) + 1, <<TempSuffix[CurTool.type]>>>>
    BY <1>3, <2>1 DEF CurFile, GetNamedOutputPath, NewTemp
  <2>3. TempFiles' = Append(TempFiles, g) BY <1>0, <1>3
  <2>4. Len(TempFiles) + 1 \in 1..Len(TempFiles')
    BY <1>1, <2>3, Appending
  <2>5. \E n \in 1..Len(TempFiles'), e \in DOMAIN TempSuffix :
          g = <<TempDir, n, <<TempSuffix[e]>>>>
    BY <1>1, <2>2, <2>4
  <2> QED BY <1>1, <2>2, <2>3, <2>5 DEF IsTemp
<1>4. ASSUME ~IsTemporary(CurTop)
      PROVE  /\ IsResult(g)'
             /\ \/ CurTop /\ args.flags.o /\ g = OutFile
                \/ g = DerivedName(CurTool.type, Base(Current))
  <2>0. PICK j, s : j = next /\ s = step OBVIOUS
  <2>1. ToolAdded(j, s)'
    BY <1>0, <1>1, <1>2, <2>0 DEF ToolAdded, ToolsStarted, Types
  <2>2. CASE CurTop /\ args.flags.o
    <3>1. g = OutFile BY <2>2 DEF CurFile, GetNamedOutputPath
    <3>2. j \in 1..Len(actions) /\ s = Len(Tools(PipelineAt(j)))
      BY <1>1, <2>0, <2>2, ThePipelines DEF CurTop, CurIsLast
    <3>3. PipelineAt(j).type # "Nothing"
      <4>1. Tools(PipelineAt(j))[s].type = PipelineAt(j).type
        BY <1>1, <2>0, <3>2, TheTools
      <4>2. CurTool.type # "Nothing" BY DEF CurNamed
      <4> QED BY <1>1, <2>0, <4>1, <4>2 DEF CurTool
    <3>4. OutFileUsed' BY <1>0, <1>2, <2>1, <3>2, <3>3 DEF OutFileUsed
    <3> QED BY <1>0, <2>2, <3>1, <3>4 DEF IsResult
  <2>3. CASE ~(CurTop /\ args.flags.o)
    <3>1. g = DerivedName(CurTool.type, Base(Current))
      BY <1>4, <2>3 DEF CurFile, GetNamedOutputPath
    <3>2. /\ Tools(PipelineAt(j))[s].type # "Nothing"
          /\ g = DerivedName(Tools(PipelineAt(j))[s].type, Base(PipelineAt(j)))
          /\ j \in 1..NumPipelines /\ s \in 1..Len(Tools(PipelineAt(j)))
      BY <1>1, <2>0, <3>1 DEF CurTool, CurNamed
    <3>3. \A x, base : DerivedName(x, base)' = DerivedName(x, base) BY DEF DerivedName
    <3>4. IsDerived(g)' BY <1>2, <2>1, <3>2, <3>3 DEF IsDerived
    <3> QED BY <3>1, <3>4 DEF IsResult
  <2> QED BY <2>2, <2>3
<1> QED BY <1>3, <1>4

(* No name has been given initially.                                       *)
LEMMA NamesInit ==
  Init => NamesInv
BY EmptySeq DEF Init, NamesInv

(* Every step preserves NamesInv.                                          *)
LEMMA NamesNext ==
  ASSUME BaseInv, NamesInv, [Next]_vars
  PROVE  NamesInv'
<1>0. /\ IsSeq(commands) /\ IsSeq(TempFiles) /\ IsSeq(ResultFiles)
      /\ ~ToolsStarted => commands = <<>> /\ TempFiles = <<>> /\ ResultFiles = <<>>
  BY DEF BaseInv, Types
<1>a. (\A f : IsTemp(f) => IsTemp(f)') /\ (\A f : IsResult(f) => IsResult(f)') BY NamesStay
<1>1. CASE UNCHANGED <<commands, TempFiles, ResultFiles>>
  BY <1>1, <1>a DEF NamesInv
<1>2. CASE BuildJobsForTool
  <2>1. /\ TempFiles' = IF CurNamed /\ IsTemporary(CurTop) THEN Append(TempFiles, CurFile)
                                                           ELSE TempFiles
        /\ ResultFiles' = IF CurNamed /\ ~IsTemporary(CurTop) THEN Append(ResultFiles, CurFile)
                                                              ELSE ResultFiles
        /\ commands' = IF args.flags.print_bindings THEN commands
                                                    ELSE Append(commands, CurCommand)
        /\ InTools
    BY <1>2, ToolEffect DEF InTools
  <2>2. PICK g : g = CurFile OBVIOUS
  <2>3. CurNamed => (IsTemporary(CurTop) => IsTemp(g)') /\ (~IsTemporary(CurTop) => IsResult(g)')
    BY <1>2, <2>2, TheNameGiven
  <2>4. ASSUME NEW k \in 1..Len(TempFiles') PROVE IsTemp(TempFiles[k])'
    <3>1. PICK f : f = TempFiles'[k] OBVIOUS
    <3>2. CASE CurNamed /\ IsTemporary(CurTop)
      <4>1. TempFiles' = Append(TempFiles, g) BY <2>1, <2>2, <3>2
      <4>2. f = g \/ (k \in 1..Len(TempFiles) /\ f = TempFiles[k]) BY <1>0, <3>1, <4>1, Appending
      <4>3. IsTemp(f)' BY <1>a, <2>3, <3>2, <4>2 DEF NamesInv
      <4> QED BY <3>1, <4>3
    <3>3. CASE ~(CurNamed /\ IsTemporary(CurTop))
      <4>1. k \in 1..Len(TempFiles) /\ f = TempFiles[k] BY <2>1, <3>1, <3>3
      <4>2. IsTemp(f)' BY <1>a, <4>1 DEF NamesInv
      <4> QED BY <3>1, <4>2
    <3> QED BY <3>2, <3>3
  <2>5. ASSUME NEW k \in 1..Len(ResultFiles') PROVE IsResult(ResultFiles[k])'
    <3>1. PICK f : f = ResultFiles'[k] OBVIOUS
    <3>2. CASE CurNamed /\ ~IsTemporary(CurTop)
      <4>1. ResultFiles' = Append(ResultFiles, g) BY <2>1, <2>2, <3>2
      <4>2. f = g \/ (k \in 1..Len(ResultFiles) /\ f = ResultFiles[k])
        BY <1>0, <3>1, <4>1, Appending
      <4>3. IsResult(f)' BY <1>a, <2>3, <3>2, <4>2 DEF NamesInv
      <4> QED BY <3>1, <4>3
    <3>3. CASE ~(CurNamed /\ ~IsTemporary(CurTop))
      <4>1. k \in 1..Len(ResultFiles) /\ f = ResultFiles[k] BY <2>1, <3>1, <3>3
      <4>2. IsResult(f)' BY <1>a, <4>1 DEF NamesInv
      <4> QED BY <3>1, <4>2
    <3> QED BY <3>2, <3>3
  <2>6. ASSUME NEW k \in 1..Len(commands'), IsFile(commands'[k].output)
        PROVE  (IsTemp(commands[k].output) \/ IsResult(commands[k].output))'
    <3>1. PICK f : f = commands'[k].output OBVIOUS
    <3>2. \/ k \in 1..Len(commands) /\ commands'[k] = commands[k]
          \/ commands'[k] = CurCommand
      BY <1>0, <2>1, Appending
    <3>3. CASE k \in 1..Len(commands) /\ commands'[k] = commands[k]
      <4>1. IsTemp(f)' \/ IsResult(f)' BY <1>a, <2>6, <3>1, <3>3 DEF NamesInv
      <4> QED BY <3>1, <4>1
    <3>4. CASE commands'[k] = CurCommand
      <4>1. f = CurOutput /\ IsFile(CurOutput) BY <2>6, <3>1, <3>4 DEF CurCommand
      <4>2. CurNamed /\ f = g BY <2>1, <2>2, <4>1, TheCurrentOutput
      <4>3. IsTemp(f)' \/ IsResult(f)' BY <2>3, <4>2
      <4> QED BY <3>1, <4>3
    <3> QED BY <3>2, <3>3, <3>4
  <2> QED BY <2>4, <2>5, <2>6 DEF NamesInv
<1>3. CASE BuildLinkJob /\ LinkerInputs # <<>>
  <2>1. /\ TempFiles' = TempFiles /\ ResultFiles' = Append(ResultFiles, LinkFile)
        /\ commands' = commands \/ commands' = Append(commands, LinkCommand)
        /\ pc' = "execute" /\ UNCHANGED <<args, LinkerInputs>>
    BY <1>3, LinkEffect
  <2>2. PICK g : g = LinkFile OBVIOUS
  <2>3. LinkAdded' BY <1>3, <2>1 DEF LinkAdded, ToolsStarted
  <2>4. IsResult(g)' BY <2>1, <2>2, <2>3 DEF IsResult, OutFileUsed, LinkFile
  <2>5. ASSUME NEW k \in 1..Len(ResultFiles') PROVE IsResult(ResultFiles[k])'
    <3>1. PICK f : f = ResultFiles'[k] OBVIOUS
    <3>2. f = g \/ (k \in 1..Len(ResultFiles) /\ f = ResultFiles[k])
      BY <1>0, <2>1, <2>2, <3>1, Appending
    <3>3. IsResult(f)' BY <1>a, <2>4, <3>2 DEF NamesInv
    <3> QED BY <3>1, <3>3
  <2>6. ASSUME NEW k \in 1..Len(commands'), IsFile(commands'[k].output)
        PROVE  (IsTemp(commands[k].output) \/ IsResult(commands[k].output))'
    <3>1. PICK f : f = commands'[k].output OBVIOUS
    <3>2. \/ k \in 1..Len(commands) /\ commands'[k] = commands[k]
          \/ commands'[k] = LinkCommand
      BY <1>0, <2>1, Appending
    <3>3. CASE k \in 1..Len(commands) /\ commands'[k] = commands[k]
      <4>1. IsTemp(f)' \/ IsResult(f)' BY <1>a, <2>6, <3>1, <3>3 DEF NamesInv
      <4> QED BY <3>1, <4>1
    <3>4. CASE commands'[k] = LinkCommand
      <4>1. f = g BY <2>2, <3>1, <3>4 DEF LinkCommand
      <4> QED BY <2>4, <3>1, <4>1
    <3> QED BY <3>2, <3>3, <3>4
  <2>7. \A k \in 1..Len(TempFiles') : IsTemp(TempFiles[k])'
    <3>1. SUFFICES ASSUME NEW k \in 1..Len(TempFiles') PROVE IsTemp(TempFiles[k])' OBVIOUS
    <3>2. PICK f : f = TempFiles'[k] OBVIOUS
    <3>3. IsTemp(f)' BY <1>a, <2>1, <3>2 DEF NamesInv
    <3> QED BY <3>2, <3>3
  <2> QED BY <2>5, <2>6, <2>7 DEF NamesInv
<1>4. UNCHANGED <<commands, TempFiles, ResultFiles>> \/ BuildJobsForTool
      \/ (BuildLinkJob /\ LinkerInputs # <<>>)
  BY LinkEffect, SuccessEffect
     DEF Next, Done, BuildAction, ActionsBuilt, BuildJobs, PipelineBuilt, Execute, CommandFails,
         AllRun, Cleanup, vars, jobVars
<1> QED BY <1>1, <1>2, <1>3, <1>4

(* The inputs are there initially.                                         *)
LEMMA SourcesInit ==
  Init => SourcesSurvive
<1> SUFFICES ASSUME Init, NamesApart, NEW i \in Sources
             PROVE  /\ args.inputs[i].file \in DOMAIN disk
                    /\ disk[args.inputs[i].file] = Source(i)
  BY DEF SourcesSurvive
<1>1. disk = [f \in SourceFiles |-> Source(CHOOSE j \in Sources : args.inputs[j].file = f)]
  BY DEF Init, SourceFiles
<1>2. args.inputs[i].file \in SourceFiles BY DEF SourceFiles
<1> DEFINE j == CHOOSE j \in Sources : args.inputs[j].file = args.inputs[i].file
<1>3. j \in Sources /\ args.inputs[j].file = args.inputs[i].file OBVIOUS
<1>4. j = i
  <2>1. i \in 1..NumInputs /\ j \in 1..NumInputs BY <1>3 DEF Sources
  <2>2. args.inputs[j].file[2] = args.inputs[i].file[2] BY <1>3
  <2> HIDE DEF j
  <2> QED BY <2>1, <2>2 DEF NamesApart
<1>5. disk[args.inputs[i].file] = Source(j) BY <1>1, <1>2
<1> QED BY <1>1, <1>2, <1>4, <1>5

(* Every step preserves SourcesSurvive.                                    *)
LEMMA SourcesNext ==
  ASSUME BaseInv, NamesInv, SourcesSurvive, [Next]_vars
  PROVE  SourcesSurvive'
<1>0. NamesApart' = NamesApart /\ Sources' = Sources /\ args' = args
      /\ \A i : Source(i)' = Source(i)
  <2>1. args' = args
    BY ToolEffect, LinkEffect, SuccessEffect
       DEF Next, Done, BuildAction, ActionsBuilt, BuildJobs, PipelineBuilt, Execute, CommandFails,
           AllRun, Cleanup, vars
  <2> QED BY <2>1, SameArgs DEF Source
<1> SUFFICES ASSUME NamesApart, NEW i \in Sources
             PROVE  /\ args.inputs[i].file \in DOMAIN disk'
                    /\ disk'[args.inputs[i].file] = Source(i)
  BY <1>0 DEF SourcesSurvive
<1> DEFINE f == args.inputs[i].file
<1>a. f \in DOMAIN disk /\ disk[f] = Source(i) BY DEF SourcesSurvive
<1>b. \A g : IsTemp(g) \/ IsResult(g) => g # f
  BY NamesAreNew DEF BaseInv, Sources
<1>c. \A k \in 1..Len(commands) : IsFile(commands[k].output) => commands[k].output # f
  BY <1>b DEF NamesInv
<1> HIDE DEF f
<1>1. CASE UNCHANGED disk
  BY <1>1, <1>a DEF f
<1>2. CASE CommandSucceeds
  <2>1. next \in 1..Len(commands) BY <1>2, SuccessEffect DEF BaseInv, Types
  <2>2. CASE IsFile(commands[next].output)
    <3>1. disk' = With(disk, commands[next].output, Product(disk, commands[next]))
      BY <1>2, <2>2, SuccessEffect
    <3>2. commands[next].output # f BY <1>c, <2>1, <2>2
    <3> QED BY <1>a, <3>1, <3>2 DEF With, f
  <2>3. CASE ~IsFile(commands[next].output)
    BY <1>1, <1>2, <2>3, SuccessEffect
  <2> QED BY <2>2, <2>3
<1>3. CASE CommandFails
  <2>1. next \in 1..Len(commands) BY <1>3 DEF CommandFails, Running, BaseInv, Types
  <2> DEFINE g == commands[next].output
  <2>2. \/ disk' = disk
        \/ IsFile(g) /\ (disk' = With(disk, g, Partial) \/ disk' = Without(disk, {g}))
    BY <1>3 DEF CommandFails
  <2>3. IsFile(g) => g # f BY <1>c, <2>1
  <2> HIDE DEF g
  <2> QED BY <1>a, <2>2, <2>3 DEF With, Without, f
<1>4. CASE Cleanup
  <2>1. disk' = Without(disk, RemovedFiles \ Stuck) BY <1>4 DEF Cleanup
  <2>2. f \notin RemovedFiles
    BY <1>b DEF RemovedFiles, Elements, NamesInv
  <2> QED BY <1>a, <2>1, <2>2 DEF Without, f
<1>5. UNCHANGED disk \/ CommandSucceeds \/ CommandFails \/ Cleanup
  BY ToolEffect, LinkEffect
     DEF Next, Done, BuildAction, ActionsBuilt, BuildJobs, PipelineBuilt, Execute,
         AllRun, vars, runVars
<1> QED BY <1>1, <1>2, <1>3, <1>4, <1>5

(* The user's inputs are never changed or removed, whatever command fails  *)
(* and whatever it leaves: no name that GetNamedOutputPath gives is that   *)
(* of an input, as long as the names of the inputs are apart.              *)
THEOREM SourcesSurviveTheorem == Spec => []SourcesSurvive
<1>1. Init => NamesInv /\ SourcesSurvive BY NamesInit, SourcesInit
<1>2. BaseInv /\ NamesInv /\ SourcesSurvive /\ [Next]_vars => (NamesInv /\ SourcesSurvive)'
  BY NamesNext, SourcesNext
<1> QED BY <1>1, <1>2, BaseTheorem, PTL DEF Spec

----------------------------------------------------------------------------
(* What a command writes is new.                                           *)

(* A set with two elements has more than one.                              *)
LEMMA TwoElements ==
  ASSUME NEW S, IsFiniteSet(S), NEW x \in S, NEW y \in S, x # y
  PROVE  Cardinality(S) \in Nat /\ Cardinality(S) > 1
<1>1. IsFiniteSet({x}) /\ Cardinality({x}) = 1 BY FS_Singleton
<1>2. IsFiniteSet({x} \cup {y}) /\ Cardinality({x} \cup {y}) = 2
  <2>1. PICK T : T = {x} OBVIOUS
  <2>2. IsFiniteSet(T) /\ Cardinality(T) = 1 /\ y \notin T BY <1>1, <2>1
  <2>3. Cardinality(T \cup {y}) = Cardinality(T) + 1 /\ IsFiniteSet(T \cup {y})
    BY <2>2, FS_AddElement, Zenon
  <2>4. Cardinality(T \cup {y}) = 2 BY <2>2, <2>3
  <2> QED BY <2>1, <2>3, <2>4
<1>3. {x} \cup {y} \in SUBSET S OBVIOUS
<1>4. Cardinality({x} \cup {y}) <= Cardinality(S) BY <1>3, FS_Subset
<1>5. Cardinality(S) \in Nat BY FS_CardinalityType
<1> QED BY <1>2, <1>4, <1>5

(* -o names one output.                                                    *)
LEMMA OneOutput ==
  ASSUME BaseInv, NoErrors, args.flags.o, ToolsStarted
  PROVE  /\ \A j, k \in 1..Len(actions) :
              PipelineAt(j).type # "Nothing" /\ PipelineAt(k).type # "Nothing" => j = k
         /\ \A j \in 1..Len(actions) : PipelineAt(j).type # "Nothing" => LinkerInputs = <<>>
<1> DEFINE S == {k \in 1..Len(actions) : actions[k].type # "Nothing"}
<1>1. Len(actions) \in Nat /\ \A j \in 1..Len(actions) : PipelineAt(j) = actions[j]
  BY ThePipelines DEF BaseInv, PipelineAt
<1>2. IsFiniteSet(S)
  <2>1. IsFiniteSet(1..Len(actions)) BY <1>1, FS_Interval
  <2>2. S \in SUBSET (1..Len(actions)) OBVIOUS
  <2> QED BY <2>1, <2>2, FS_Subset
<1>3. ~(Cardinality(S) + (IF LinkerInputs = <<>> THEN 0 ELSE 1) > 1)
  BY DEF BaseInv, ActionsInv, NumOutputs
<1>4. ASSUME NEW j \in 1..Len(actions), PipelineAt(j).type # "Nothing" PROVE j \in S
  BY <1>1, <1>4
<1> HIDE DEF S
<1>5. Cardinality(S) \in Nat BY <1>2, FS_CardinalityType
<1>6. ASSUME NEW j \in S, NEW k \in S PROVE j = k
  <2>1. SUFFICES ASSUME j # k PROVE FALSE OBVIOUS
  <2>2. Cardinality(S) > 1 BY <1>2, <2>1, TwoElements
  <2> QED BY <1>3, <1>5, <2>2
<1>7. ASSUME NEW j \in S PROVE LinkerInputs = <<>>
  <2>1. Cardinality(S) # 0 BY <1>2, FS_EmptySet
  <2> QED BY <1>3, <1>5, <2>1
<1> QED BY <1>4, <1>6, <1>7

(* The parts of a derived name.                                            *)
LEMMA DerivedParts ==
  ASSUME NEW x \in DOMAIN TempSuffix, NEW b, b[1] # TempDir, b[3] \in Seq(STRING),
         NEW d, d = DerivedName(x, b)
  PROVE  /\ d[1] # TempDir
         /\ d[2] = b[2]
         /\ d[3][Len(d[3])] = TempSuffix[x]
<1>a. /\ x = "PCH" => DerivedName(x, b) = <<b[1], b[2], Append(b[3], "gch")>>
      /\ x # "PCH" => DerivedName(x, b) = <<"", b[2], <<TempSuffix[x]>>>>
  BY DerivedNames
<1>1. CASE x = "PCH"
  <2> DEFINE u == b[1]
             v == b[2]
             w == Append(b[3], "gch")
  <2>1. d = <<u, v, w>> BY <1>1, <1>a
  <2>2. w[Len(w)] = "gch" /\ TempSuffix[x] = "gch" BY <1>1, Suffixes
  <2>3. u # TempDir OBVIOUS
  <2> HIDE DEF u, v, w
  <2>4. d[1] = u /\ d[2] = v /\ d[3] = w BY <2>1
  <2> QED BY <2>2, <2>3, <2>4 DEF v
<1>2. CASE x # "PCH"
  <2> DEFINE u == ""
             v == b[2]
             w == <<TempSuffix[x]>>
  <2>1. d = <<u, v, w>> BY <1>2, <1>a
  <2>2. w[Len(w)] = TempSuffix[x] /\ u # TempDir BY DEF TempDir
  <2> HIDE DEF u, v, w
  <2>4. d[1] = u /\ d[2] = v /\ d[3] = w BY <2>1
  <2> QED BY <2>2, <2>4 DEF v
<1> QED BY <1>1, <1>2

(* The names of final outputs are no derived or temporary names.           *)
LEMMA FinalParts ==
  /\ OutFile[1] # TempDir /\ OutFile[3][Len(OutFile[3])] = "arg"
  /\ DefaultImage[1] # TempDir /\ DefaultImage[3][Len(DefaultImage[3])] = "out"
BY DEF OutFile, DefaultImage, TempDir

(* The tool a derived name has been given to.                              *)
LEMMA TheDerived ==
  ASSUME Types, ActionsInv, NEW f, IsDerived(f)
  PROVE  \E j \in 1..NumPipelines : \E s \in 1..Len(Tools(PipelineAt(j))) :
           /\ ToolAdded(j, s)
           /\ Tools(PipelineAt(j))[s].type \in DOMAIN TempSuffix
           /\ f = DerivedName(Tools(PipelineAt(j))[s].type, Base(PipelineAt(j)))
           /\ f[1] # TempDir
           /\ f[2] = Base(PipelineAt(j))[2]
           /\ f[3][Len(f[3])] = TempSuffix[Tools(PipelineAt(j))[s].type]
<1>1. PICK j \in 1..NumPipelines : \E s \in 1..Len(Tools(PipelineAt(j))) :
         /\ ToolAdded(j, s)
         /\ Tools(PipelineAt(j))[s].type # "Nothing"
         /\ f = DerivedName(Tools(PipelineAt(j))[s].type, Base(PipelineAt(j)))
  BY DEF IsDerived
<1>2. PICK s \in 1..Len(Tools(PipelineAt(j))) :
         /\ ToolAdded(j, s)
         /\ Tools(PipelineAt(j))[s].type # "Nothing"
         /\ f = DerivedName(Tools(PipelineAt(j))[s].type, Base(PipelineAt(j)))
  BY <1>1
<1> DEFINE x == Tools(PipelineAt(j))[s].type
           b == Base(PipelineAt(j))
<1>3. x \in DOMAIN TempSuffix BY <1>2, ToolTypes
<1>4. b[1] # TempDir /\ b[3] \in Seq(STRING)
  <2>1. PipelineAt(j).input \in 1..NumInputs /\ args \in CommandLines BY ThePipelines DEF Types
  <2> QED BY <2>1, InputFile DEF Base
<1>5. f = DerivedName(x, b) BY <1>2
<1> HIDE DEF x, b
<1>6. f[1] # TempDir /\ f[2] = b[2] /\ f[3][Len(f[3])] = TempSuffix[x]
  BY <1>3, <1>4, <1>5, DerivedParts
<1> QED BY <1>2, <1>3, <1>6 DEF x, b

(* A derived name is neither temporary nor that of a final output.         *)
LEMMA DerivedIsNoFinal ==
  ASSUME Types, ActionsInv, NEW f, IsDerived(f)
  PROVE  f[1] # TempDir /\ f \notin {OutFile, DefaultImage}
<1>1. PICK x : /\ x \in DOMAIN TempSuffix
               /\ f[1] # TempDir /\ f[3][Len(f[3])] = TempSuffix[x]
  BY TheDerived
<1>2. TempSuffix[x] \notin {"arg", "out"} BY <1>1, Suffixes
<1> QED BY <1>1, <1>2, FinalParts

(* Different tools derive different names.                                 *)
LEMMA DerivedApart ==
  ASSUME Types, ActionsInv, NamesApart, NEW f,
         NEW j \in 1..NumPipelines, NEW s \in 1..Len(Tools(PipelineAt(j))),
         Tools(PipelineAt(j))[s].type # "Nothing",
         f = DerivedName(Tools(PipelineAt(j))[s].type, Base(PipelineAt(j))),
         IsDerived(f)
  PROVE  ToolAdded(j, s)
<1>1. PICK k \in 1..NumPipelines : \E r \in 1..Len(Tools(PipelineAt(k))) :
         /\ ToolAdded(k, r)
         /\ Tools(PipelineAt(k))[r].type \in DOMAIN TempSuffix
         /\ f[2] = Base(PipelineAt(k))[2]
         /\ f[3][Len(f[3])] = TempSuffix[Tools(PipelineAt(k))[r].type]
  BY TheDerived
<1>2. PICK r \in 1..Len(Tools(PipelineAt(k))) :
         /\ ToolAdded(k, r)
         /\ Tools(PipelineAt(k))[r].type \in DOMAIN TempSuffix
         /\ f[2] = Base(PipelineAt(k))[2]
         /\ f[3][Len(f[3])] = TempSuffix[Tools(PipelineAt(k))[r].type]
  BY <1>1
<1> DEFINE x == Tools(PipelineAt(j))[s].type
           b == Base(PipelineAt(j))
<1>3. x \in DOMAIN TempSuffix BY ToolTypes
<1>4. b[1] # TempDir /\ b[3] \in Seq(STRING)
  <2>1. PipelineAt(j).input \in 1..NumInputs /\ args \in CommandLines BY ThePipelines DEF Types
  <2> QED BY <2>1, InputFile DEF Base
<1>5. f = DerivedName(x, b) OBVIOUS
<1>6. f[2] = b[2] /\ f[3][Len(f[3])] = TempSuffix[x]
  <2> HIDE DEF x, b
  <2> QED BY <1>3, <1>4, <1>5, DerivedParts
<1>7. k = j
  <2>1. /\ PipelineAt(j).input \in 1..NumInputs /\ PipelineAt(k).input \in 1..NumInputs
        /\ k # j => PipelineAt(k).input # PipelineAt(j).input
    BY ThePipelines
  <2>2. args.inputs[PipelineAt(j).input].file[2] = args.inputs[PipelineAt(k).input].file[2]
    BY <1>2, <1>6 DEF Base
  <2> QED BY <2>1, <2>2 DEF NamesApart
<1>8. r = s
  <2>1. GoodTools(Tools(PipelineAt(j)), args.inputs[PipelineAt(j).input].type) BY TheTools
  <2>2. TempSuffix[Tools(PipelineAt(j))[r].type] = TempSuffix[Tools(PipelineAt(j))[s].type]
    BY <1>2, <1>6, <1>7
  <2>3. Tools(PipelineAt(j))[r].type # "Nothing" BY <1>2, <1>7, Suffixes
  <2> QED BY <1>2, <1>7, <2>1, <2>2, <2>3 DEF GoodTools
<1> QED BY <1>2, <1>7, <1>8

(* The linker comes last.                                                  *)
LEMMA LinkNotAdded ==
  ASSUME pc = "tools"
  PROVE  ~LinkAdded /\ ToolsStarted
BY DEF LinkAdded, ToolsStarted

(* The tool in turn has no command yet.                                    *)
LEMMA NotAddedYet ==
  ASSUME BaseInv, InTools
  PROVE  ~ToolAdded(next, step)
<1>1. next \in Nat /\ step \in Nat /\ pc = "tools" BY DEF BaseInv, Types, InTools
<1> QED BY <1>1 DEF ToolAdded

(* The name -o gives has not been given to another output.                 *)
LEMMA OutFileIsFree ==
  ASSUME BaseInv, NoErrors, InTools, args.flags.o, CurTop, CurTool.type # "Nothing"
  PROVE  ~OutFileUsed
<1>1. /\ next \in 1..NumPipelines /\ step \in 1..Len(Tools(Current)) /\ pc = "tools"
      /\ Current = PipelineAt(next) /\ Len(Tools(Current)) \in Nat /\ Types /\ ActionsInv
  BY TheCurrentTool DEF BaseInv, InTools
<1>2. next \in 1..Len(actions) /\ step = Len(Tools(PipelineAt(next)))
  BY <1>1, ThePipelines DEF CurTop, CurIsLast
<1>3. PipelineAt(next).type # "Nothing"
  <2>1. Tools(PipelineAt(next))[step].type = PipelineAt(next).type BY <1>1, <1>2, TheTools
  <2> QED BY <1>1, <2>1 DEF CurTool
<1>4. ASSUME NEW j \in 1..Len(actions), ToolAdded(j, Len(Tools(PipelineAt(j)))),
             PipelineAt(j).type # "Nothing"
      PROVE  FALSE
  <2>1. j = next BY <1>1, <1>2, <1>3, <1>4, LinkNotAdded, OneOutput
  <2> QED BY <1>2, <1>4, <2>1, NotAddedYet
<1> QED BY <1>1, <1>4, LinkNotAdded DEF OutFileUsed

(* GetNamedOutputPath gives a name that it has given to nothing else.      *)
LEMMA NewNameIsFresh ==
  ASSUME BaseInv, NoErrors, NamesApart, BuildJobsForTool, CurNamed, NEW g, g = CurFile
  PROVE  /\ ~IsTemp(g) /\ ~IsResult(g)
         /\ \A m \in 1..NumInputs : g # args.inputs[m].file
<1>1. InTools BY ToolEffect DEF InTools
<1>2. /\ next \in 1..NumPipelines /\ step \in 1..Len(Tools(Current)) /\ pc = "tools"
      /\ Current = PipelineAt(next) /\ CurTool.type \in DOMAIN TempSuffix
      /\ Types /\ ActionsInv /\ args \in CommandLines /\ Len(TempFiles) \in Nat
      /\ CurTool = Tools(PipelineAt(next))[step] /\ CurTool.type # "Nothing"
      /\ ~LinkAdded
  BY <1>1, TheCurrentTool, TheCurrentOutput, EmptyIff, LinkNotAdded
     DEF BaseInv, Types, InTools, CurTool, CurNamed
<1>3. CASE IsTemporary(CurTop)
  <2>1. PICK e \in DOMAIN TempSuffix : g = <<TempDir, Len(TempFiles) + 1, <<TempSuffix[e]>>>>
    BY <1>3, TheNameGiven
  <2> DEFINE n == Len(TempFiles) + 1
             w == <<TempSuffix[e]>>
  <2>2. g[1] = TempDir /\ g[2] = n
    <3>1. g = <<TempDir, n, w>> BY <2>1
    <3> HIDE DEF n, w
    <3> QED BY <3>1
  <2>3. ~IsTemp(g)
    <3>1. SUFFICES ASSUME NEW k \in 1..Len(TempFiles), NEW f \in DOMAIN TempSuffix,
                          g = <<TempDir, k, <<TempSuffix[f]>>>>
                   PROVE  FALSE
      BY DEF IsTemp
    <3>2. g[2] = k BY <3>1
    <3> QED BY <1>2, <2>2, <3>2
  <2>4. g \notin {OutFile, DefaultImage} BY <2>2, FinalParts
  <2>5. ~IsDerived(g) BY <1>2, <2>2, DerivedIsNoFinal
  <2>6. \A m \in 1..NumInputs : g # args.inputs[m].file BY <1>2, <2>2, InputFile
  <2> QED BY <2>3, <2>4, <2>5, <2>6 DEF IsResult
<1>4. CASE CurTop /\ args.flags.o /\ g = OutFile
  <2>1. ~OutFileUsed BY <1>1, <1>2, <1>4, OutFileIsFree
  <2>2. ~IsDerived(g) BY <1>2, <1>4, DerivedIsNoFinal
  <2>3. ~IsTemp(g)
    <3>1. SUFFICES ASSUME IsTemp(g) PROVE FALSE OBVIOUS
    <3>2. g[1] = TempDir BY <3>1 DEF IsTemp
    <3> QED BY <1>4, <3>2, FinalParts
  <2>4. \A m \in 1..NumInputs : g # args.inputs[m].file BY <1>4 DEF NamesApart
  <2> QED BY <1>2, <2>1, <2>2, <2>3, <2>4 DEF IsResult
<1>5. CASE g = DerivedName(CurTool.type, Base(Current))
  <2> DEFINE b == Base(Current)
             x == CurTool.type
  <2>1. Current.input \in 1..NumInputs /\ b = args.inputs[Current.input].file
    BY <1>2, ThePipelines DEF Base
  <2>2. b[1] # TempDir /\ b[3] \in Seq(STRING) BY <1>2, <2>1, InputFile
  <2>3. g[1] # TempDir /\ g[3][Len(g[3])] = TempSuffix[x]
    <3>1. g = DerivedName(x, b) /\ x \in DOMAIN TempSuffix BY <1>2, <1>5
    <3> HIDE DEF x, b
    <3> QED BY <2>2, <3>1, DerivedParts
  <2>4. g \notin {OutFile, DefaultImage}
    <3>1. TempSuffix[x] \notin {"arg", "out"} BY <1>2, Suffixes
    <3> QED BY <2>3, <3>1, FinalParts
  <2>5. ~IsTemp(g)
    <3>1. SUFFICES ASSUME IsTemp(g) PROVE FALSE OBVIOUS
    <3>2. g[1] = TempDir BY <3>1 DEF IsTemp
    <3> QED BY <2>3, <3>2
  <2>6. ~IsDerived(g)
    <3>1. PICK j, s : j = next /\ s = step OBVIOUS
    <3>2. /\ j \in 1..NumPipelines /\ s \in 1..Len(Tools(PipelineAt(j)))
          /\ Tools(PipelineAt(j))[s].type # "Nothing"
          /\ g = DerivedName(Tools(PipelineAt(j))[s].type, Base(PipelineAt(j)))
      BY <1>2, <1>5, <3>1
    <3>3. IsDerived(g) => ToolAdded(j, s) BY <1>2, <3>2, DerivedApart
    <3> QED BY <1>1, <3>1, <3>3, NotAddedYet
  <2>7. \A m \in 1..NumInputs : g # args.inputs[m].file
    <3>1. IsNewType(x, args.inputs[Current.input].type) BY <1>2, ToolTypes
    <3>2. g = DerivedName(x, args.inputs[Current.input].file) /\ x \in DOMAIN TempSuffix
      BY <1>2, <1>5, <2>1
    <3> QED BY <1>2, <2>1, <3>1, <3>2, DerivedIsNew
  <2> QED BY <1>2, <2>4, <2>5, <2>6, <2>7 DEF IsResult
<1>6. IsTemporary(CurTop) \/ (CurTop /\ args.flags.o /\ g = OutFile)
      \/ g = DerivedName(CurTool.type, Base(Current))
  BY TheNameGiven
<1> QED BY <1>3, <1>4, <1>5, <1>6

(* So it does for the image.                                               *)
LEMMA LinkNameIsFresh ==
  ASSUME BaseInv, NoErrors, NamesApart, BuildLinkJob, LinkerInputs # <<>>
  PROVE  /\ ~IsTemp(LinkFile) /\ ~IsResult(LinkFile)
         /\ \A m \in 1..NumInputs : LinkFile # args.inputs[m].file
<1>1. pc = "tools" BY LinkEffect
<1>2. LinkFile \in {OutFile, DefaultImage} /\ (args.flags.o => LinkFile = OutFile)
      /\ (~args.flags.o => LinkFile = DefaultImage)
  BY DEF LinkFile
<1>3. ~IsTemp(LinkFile)
  <2>1. SUFFICES ASSUME IsTemp(LinkFile) PROVE FALSE OBVIOUS
  <2>2. LinkFile[1] = TempDir BY <2>1 DEF IsTemp
  <2> QED BY <1>2, <2>2, FinalParts
<1>4. ~IsDerived(LinkFile) BY <1>2, DerivedIsNoFinal DEF BaseInv
<1>5. ~LinkAdded BY <1>1, LinkNotAdded
<1>6. args.flags.o => ~OutFileUsed
  BY <1>1, <1>5, LinkNotAdded, OneOutput DEF OutFileUsed
<1> QED BY <1>2, <1>3, <1>4, <1>5, <1>6 DEF IsResult, NamesApart

(* A name that has not been given is that of no file.                      *)
LEMMA NotInAllFiles ==
  ASSUME NamesInv, NEW g, ~IsTemp(g), ~IsResult(g), \A m \in 1..NumInputs : g # args.inputs[m].file
  PROVE  g \notin AllFiles
<1>1. g \notin SourceFiles BY DEF SourceFiles, Sources
<1>2. g \notin OutputsBefore(Len(commands) + 1) BY DEF OutputsBefore, NamesInv
<1> QED BY <1>1, <1>2 DEF AllFiles, FilesBefore

(* What the next command writes is new.                                    *)
LEMMA NewOutput ==
  ASSUME BaseInv, NamesInv, NoErrors, NamesApart
  PROVE  /\ BuildJobsForTool /\ IsFile(CurOutput) => CurOutput \notin AllFiles
         /\ BuildLinkJob /\ LinkerInputs # <<>> => LinkFile \notin AllFiles
<1>1. ASSUME BuildJobsForTool, IsFile(CurOutput) PROVE CurOutput \notin AllFiles
  <2>1. CurNamed /\ CurOutput = CurFile
    <3>1. InTools BY <1>1, ToolEffect DEF InTools
    <3> QED BY <1>1, <3>1, TheCurrentOutput
  <2>2. PICK g : g = CurFile OBVIOUS
  <2>3. /\ ~IsTemp(g) /\ ~IsResult(g)
        /\ \A m \in 1..NumInputs : g # args.inputs[m].file
    BY <1>1, <2>1, <2>2, NewNameIsFresh
  <2> QED BY <2>1, <2>2, <2>3, NotInAllFiles
<1>2. ASSUME BuildLinkJob, LinkerInputs # <<>> PROVE LinkFile \notin AllFiles
  BY <1>2, LinkNameIsFresh, NotInAllFiles
<1> QED BY <1>1, <1>2

----------------------------------------------------------------------------
(* What every file is going to contain.                                    *)

(* A command that performs phases reads an input.                          *)
OneInput ==
  \A k \in 1..Len(commands) : commands[k].phases = <<"Link">> \/ 1 \in 1..Len(commands[k].inputs)

(* OneInput holds initially.                                               *)
LEMMA OneInputInit ==
  Init => OneInput
BY EmptySeq DEF Init, OneInput

(* A command that is added keeps OneInput if it has an input.              *)
LEMMA OneInputMore ==
  ASSUME IsSeq(commands), OneInput, NEW c, commands' = Append(commands, c),
         c.phases = <<"Link">> \/ 1 \in 1..Len(c.inputs)
  PROVE  OneInput'
<1>1. \A k \in 1..Len(commands') :
        (k \in 1..Len(commands) /\ commands'[k] = commands[k]) \/ commands'[k] = c
  BY Appending
<1> QED BY <1>1 DEF OneInput

(* The command of the current tool.                                        *)
LEMMA CurReads ==
  /\ CurCommand.phases = CurTool.phases /\ CurCommand.output = CurOutput
  /\ CurCommand.inputs = <<InputInfo>> /\ Len(CurCommand.inputs) = 1
  /\ CurCommand.inputs[1] = InputInfo
<1>1. CurCommand.inputs = <<InputInfo>> BY DEF CurCommand
<1>2. Len(<<InputInfo>>) = 1 /\ <<InputInfo>>[1] = InputInfo OBVIOUS
<1> QED BY <1>1, <1>2 DEF CurCommand

(* The command of the linker.                                              *)
LEMMA LinkReads ==
  /\ LinkCommand.phases = <<"Link">> /\ LinkCommand.output = LinkFile
  /\ LinkCommand.inputs = InputInfos
BY DEF LinkCommand

(* Every step preserves OneInput.                                          *)
LEMMA OneInputNext ==
  ASSUME BaseInv, OneInput, [Next]_vars
  PROVE  OneInput'
<1>0. IsSeq(commands) BY DEF BaseInv, Types
<1>1. CASE commands' = commands
  BY <1>1 DEF OneInput
<1>2. CASE commands' = Append(commands, CurCommand)
  <2>1. PICK c : c = CurCommand OBVIOUS
  <2>2. 1 \in 1..Len(c.inputs) BY <2>1, CurReads
  <2>3. commands' = Append(commands, c) BY <1>2, <2>1
  <2> QED BY <1>0, <2>2, <2>3, OneInputMore
<1>3. CASE commands' = Append(commands, LinkCommand)
  <2>1. PICK c : c = LinkCommand OBVIOUS
  <2>2. c.phases = <<"Link">> BY <2>1, LinkReads
  <2>3. commands' = Append(commands, c) BY <1>3, <2>1
  <2> QED BY <1>0, <2>2, <2>3, OneInputMore
<1>4. commands' = commands \/ commands' = Append(commands, CurCommand)
      \/ commands' = Append(commands, LinkCommand)
  BY ToolEffect, LinkEffect, SuccessEffect
     DEF Next, Done, BuildAction, ActionsBuilt, BuildJobs, PipelineBuilt, Execute, CommandFails,
         AllRun, Cleanup, vars, jobVars
<1> QED BY <1>1, <1>2, <1>3, <1>4

(* A product depends on the contents of the inputs only.                   *)
LEMMA SameProduct ==
  ASSUME NEW C, NEW D, NEW c, c.phases = <<"Link">> \/ 1 \in 1..Len(c.inputs),
         \A m \in 1..Len(c.inputs) : D[c.inputs[m]] = C[c.inputs[m]]
  PROVE  Product(D, c) = Product(C, c)
<1>1. CASE c.phases = <<"Link">>
  <2>1. [k \in 1..Len(c.inputs) |-> D[c.inputs[k]]] = [k \in 1..Len(c.inputs) |-> C[c.inputs[k]]]
    OBVIOUS
  <2> QED BY <1>1, <2>1 DEF Product
<1>2. CASE c.phases # <<"Link">>
  <2>1. D[c.inputs[1]] = C[c.inputs[1]] BY <1>2
  <2> QED BY <1>2, <2>1 DEF Product
<1> QED BY <1>1, <1>2

(* A plan depends on the command line and the commands only.               *)
LEMMA SamePlan ==
  ASSUME UNCHANGED <<args, commands>>
  PROVE  \A C : IsPlan(C)' <=> IsPlan(C)
<1>1. Sources' = Sources /\ AllFiles' = AllFiles BY SameArgs, SameCommands
<1>2. \A i : Source(i)' = Source(i) BY DEF Source
<1> QED BY <1>1, <1>2 DEF IsPlan

(* The files before a command, and its output, are among all the files.    *)
LEMMA FilesAmong ==
  ASSUME Len(commands) \in Nat, NEW k \in 1..Len(commands)
  PROVE  /\ FilesBefore(k) \subseteq AllFiles
         /\ IsFile(commands[k].output) => commands[k].output \in AllFiles
<1>1. OutputsBefore(k) \subseteq OutputsBefore(Len(commands) + 1) BY DEF OutputsBefore
<1>2. IsFile(commands[k].output) => commands[k].output \in OutputsBefore(Len(commands) + 1)
  BY DEF OutputsBefore
<1> QED BY <1>1, <1>2 DEF AllFiles, FilesBefore

(* A command that is added extends a plan.                                 *)
LEMMA PlanExtended ==
  ASSUME IsSeq(commands), args' = args, InputsInv, OneInput,
         NEW C, IsPlan(C), NEW c, commands' = Append(commands, c),
         c.phases = <<"Link">> \/ 1 \in 1..Len(c.inputs),
         \A m \in 1..Len(c.inputs) : c.inputs[m] \in AllFiles,
         IsFile(c.output) => c.output \notin AllFiles,
         NEW D, D = IF IsFile(c.output) THEN With(C, c.output, Product(C, c)) ELSE C
  PROVE  /\ IsPlan(D)'
         /\ \A f \in AllFiles : D[f] = C[f]
         /\ IsFile(c.output) => D[c.output] = Product(C, c)
         /\ \A k \in 1..Len(commands) : Product(D, commands[k]) = Product(C, commands[k])
         /\ Product(D, c) = Product(C, c)
<1>1. /\ Len(commands) \in Nat /\ Len(commands') = Len(commands) + 1
      /\ \A k \in 1..Len(commands) : commands'[k] = commands[k]
      /\ commands'[Len(commands) + 1] = c
      /\ AllFiles' = AllFiles \cup (IF IsFile(c.output) THEN {c.output} ELSE {})
  BY OneCommandMore
<1>2. C = [f \in AllFiles |-> C[f]] BY DEF IsPlan
<1>3. \A f \in AllFiles : D[f] = C[f] BY <1>2 DEF With
<1>4. IsFile(c.output) => D[c.output] = Product(C, c) BY DEF With
<1>5. D = [f \in AllFiles' |-> D[f]]
  <2>1. CASE IsFile(c.output)
    <3> DEFINE g == c.output
               p == Product(C, c)
    <3>1. D = With(C, g, p) /\ AllFiles' = AllFiles \cup {g} BY <1>1, <2>1
    <3>2. DOMAIN C = AllFiles BY <1>2
    <3> HIDE DEF g, p
    <3>3. D = [f \in AllFiles' |-> IF f = g THEN p ELSE C[f]] BY <3>1, <3>2 DEF With
    <3> QED BY <3>3
  <2>2. CASE ~IsFile(c.output)
    <3>1. D = C /\ AllFiles' = AllFiles BY <1>1, <2>2
    <3> QED BY <1>2, <3>1
  <2> QED BY <2>1, <2>2
<1>6. Product(D, c) = Product(C, c)
  <2>1. \A m \in 1..Len(c.inputs) : D[c.inputs[m]] = C[c.inputs[m]] BY <1>3
  <2> QED BY <2>1, SameProduct
<1>7. ASSUME NEW k \in 1..Len(commands) PROVE Product(D, commands[k]) = Product(C, commands[k])
  <2>1. PICK b : b = commands[k] OBVIOUS
  <2>2. \A m \in 1..Len(b.inputs) : b.inputs[m] \in AllFiles
    BY <1>1, <2>1, FilesAmong DEF InputsInv
  <2>3. \A m \in 1..Len(b.inputs) : D[b.inputs[m]] = C[b.inputs[m]] BY <1>3, <2>2
  <2>4. b.phases = <<"Link">> \/ 1 \in 1..Len(b.inputs) BY <2>1 DEF OneInput
  <2>5. Product(D, b) = Product(C, b) BY <2>3, <2>4, SameProduct
  <2> QED BY <2>1, <2>5
<1>8. ASSUME NEW k \in 1..Len(commands'), IsFile(commands'[k].output)
      PROVE  D[commands'[k].output] = Product(D, commands'[k])
  <2>1. CASE k = Len(commands) + 1
    BY <1>1, <1>4, <1>6, <1>8, <2>1
  <2>2. CASE k # Len(commands) + 1
    <3>1. k \in 1..Len(commands) /\ commands'[k] = commands[k] BY <1>1, <2>2
    <3>2. commands[k].output \in AllFiles BY <1>1, <1>8, <3>1, FilesAmong
    <3>3. C[commands[k].output] = Product(C, commands[k]) BY <1>8, <3>1 DEF IsPlan
    <3> QED BY <1>3, <1>7, <3>1, <3>2, <3>3
  <2> QED BY <2>1, <2>2
<1>9. \A i \in Sources' : D[args'.inputs[i].file] = Source(i)'
  <2>1. Sources' = Sources BY SameArgs
  <2>2. \A i \in Sources : args.inputs[i].file \in AllFiles
    BY DEF AllFiles, FilesBefore, SourceFiles
  <2>3. \A i : Source(i)' = Source(i) BY DEF Source
  <2> QED BY <1>3, <2>1, <2>2, <2>3 DEF IsPlan
<1>10. \A f : IsFile(f)' <=> IsFile(f) BY DEF IsFile
<1>11. \A k : (Product(D, commands[k]))' = Product(D, commands'[k]) BY DEF Product
<1>12. IsPlan(D)' BY <1>5, <1>8, <1>9, <1>10, <1>11 DEF IsPlan
<1> QED BY <1>3, <1>4, <1>6, <1>7, <1>12

(* Initially the plan is the disk.                                         *)
LEMMA PlanInit ==
  Init => PlanInv
<1> SUFFICES ASSUME Init, NamesApart PROVE \E C : IsPlan(C) /\ IsPromising(C)
  BY DEF PlanInv
<1>1. commands = <<>> /\ InputInfos = <<>> /\ pc = "actions" BY DEF Init
<1>2. AllFiles = SourceFiles
  <2>1. OutputsBefore(Len(commands) + 1) = {} BY <1>1, EmptySeq DEF OutputsBefore
  <2> QED BY <2>1 DEF AllFiles, FilesBefore
<1>3. \A i \in Sources : disk[args.inputs[i].file] = Source(i)
  BY SourcesInit DEF SourcesSurvive
<1>4. disk = [f \in SourceFiles |-> disk[f]]
  <2>1. PICK g : disk = [f \in SourceFiles |-> g[f]]
    <3> DEFINE S == SourceFiles
               h == [f \in S |-> Source(CHOOSE j \in Sources : args.inputs[j].file = f)]
    <3>1. disk = h BY DEF Init, SourceFiles
    <3>2. h = [f \in S |-> h[f]] OBVIOUS
    <3> QED BY <3>1, <3>2
  <2> QED BY <2>1
<1>5. PICK C : C = disk OBVIOUS
<1>6. IsPlan(C) BY <1>1, <1>2, <1>3, <1>4, <1>5, EmptySeq DEF IsPlan
<1>7. IsPromising(C)
  BY <1>1, EmptySeq DEF IsPromising, ResultIsRead, ToolAdded, LinkAdded, ToolsStarted
<1> QED BY <1>6, <1>7

(* The inputs are in the plan.                                             *)
LEMMA BaseIsPlanned ==
  ASSUME BaseInv, NEW C, IsPlan(C), NEW j \in 1..NumPipelines
  PROVE  C[Base(PipelineAt(j))] = [source |-> PipelineAt(j).input, phases |-> <<>>]
<1>1. PipelineAt(j).input \in Sources BY ThePipelines DEF BaseInv, Used, Sources
<1> QED BY <1>1 DEF IsPlan, Base, Source

(* What has been delivered stays.                                          *)
LEMMA DeliveryStays ==
  ASSUME NEW C, NEW D, NEW x, Delivered(C, x),
         \A k \in 1..Len(commands) :
           /\ k \in 1..Len(commands') /\ commands'[k] = commands[k]
           /\ Product(D, commands[k]) = Product(C, commands[k])
           /\ commands[k].output \notin Elements(TempFiles)
                => commands[k].output \notin Elements(TempFiles')
  PROVE  Delivered(D, x)'
<1>1. PICK k \in 1..Len(commands) :
         /\ Product(C, commands[k]) = x
         /\ commands[k].output # Nowhere
         /\ commands[k].output \notin Elements(TempFiles)
  BY DEF Delivered
<1>2. PICK c : c = commands[k] OBVIOUS
<1>3. /\ k \in 1..Len(commands') /\ commands'[k] = c /\ Product(D, c) = x
      /\ c.output # Nowhere /\ c.output \notin Elements(TempFiles')
  BY <1>1, <1>2
<1>4. Elements(TempFiles)' = Elements(TempFiles') BY DEF Elements
<1>5. Product(D, c)' = Product(D, c) BY Zenon DEF Product
<1>6. Nowhere' = Nowhere BY DEF Nowhere
<1>7. (Product(D, commands[k]) = x)' BY <1>3, <1>5
<1> QED BY <1>3, <1>4, <1>6, <1>7 DEF Delivered

(* The promises are kept by a step that gives no new output.               *)
LEMMA PromisesKept ==
  ASSUME NEW C, IsPromising(C),
         UNCHANGED <<args, commands, TempFiles, InputInfos, actions, LinkerInputs>>,
         \A j, s : ToolAdded(j, s)' => ToolAdded(j, s), LinkAdded' => LinkAdded,
         ResultIsRead' => C[InputInfo'] = [source |-> Current'.input,
                                           phases |-> PhasesSoFar(Tools(Current)', step' - 1)]
  PROVE  IsPromising(C)'
<1>1. /\ \A j : PipelineAt(j)' = PipelineAt(j)
      /\ \A p : Tools(p)' = Tools(p)
      /\ \A i : Wanted(i)' = Wanted(i)
  BY SameArgs, SameBuild
<1>2. \A x : Delivered(C, x) => Delivered(C, x)' BY DeliveryStays
<1>3. ASSUME NEW m \in 1..Len(InputInfos')
      PROVE  (C[InputInfos[m]] = Wanted(LinkerInputs[m].input))'
  <2>1. PICK i : i = LinkerInputs[m].input OBVIOUS
  <2>2. C[InputInfos[m]] = Wanted(i) BY <2>1 DEF IsPromising
  <2>3. i = LinkerInputs'[m].input /\ C[InputInfos'[m]] = Wanted(i)' BY <1>1, <2>1, <2>2
  <2> QED BY <2>3
<1>4. ASSUME NEW j \in 1..Len(actions'), ToolAdded(j, Len(Tools(PipelineAt(j))))',
             PipelineAt(j)'.type # "Nothing"
      PROVE  Delivered(C, Wanted(PipelineAt(j).input))'
  <2>1. PICK n : n = Len(Tools(PipelineAt(j))) OBVIOUS
  <2>2. Tools(PipelineAt(j))' = Tools(PipelineAt(j)) BY <1>1
  <2>3. ToolAdded(j, n)' BY <1>4, <2>1, <2>2
  <2>4. ToolAdded(j, n) BY <2>3
  <2>5. PICK x : x = Wanted(PipelineAt(j).input) OBVIOUS
  <2>6. Delivered(C, x) BY <1>1, <1>4, <2>1, <2>4, <2>5 DEF IsPromising
  <2>7. Delivered(C, x)' BY <1>2, <2>6
  <2>8. x = Wanted(PipelineAt(j).input)' BY <1>1, <2>5
  <2> QED BY <2>7, <2>8
<1>5. ASSUME LinkAdded' PROVE Delivered(C, LinkedParts)'
  <2>1. PICK x : x = LinkedParts OBVIOUS
  <2>2. Delivered(C, x)' BY <1>2, <1>5, <2>1 DEF IsPromising
  <2>3. x = LinkedParts' BY <1>1, <2>1 DEF LinkedParts
  <2> QED BY <2>2, <2>3
<1> QED BY <1>3, <1>4, <1>5 DEF IsPromising

(* Nothing is promised before BuildJobs.                                   *)
LEMMA NoPromises ==
  ASSUME ~ToolsStarted', Types', NEW C
  PROVE  IsPromising(C)'
<1>1. InputInfos' = <<>> /\ pc' # "tools" BY DEF Types, ToolsStarted
<1>2. Len(InputInfos') = 0 BY <1>1, EmptySeq
<1>3. ~ResultIsRead' BY <1>1 DEF ResultIsRead
<1>4. \A j, s : ~ToolAdded(j, s)' BY DEF ToolAdded
<1>5. ~LinkAdded' BY DEF LinkAdded
<1>6. \A m \in 1..Len(InputInfos') : (C[InputInfos[m]] = Wanted(LinkerInputs[m].input))'
  BY <1>2
<1> QED BY <1>3, <1>4, <1>5, <1>6 DEF IsPromising

(* BuildJobs starts from the first input.                                  *)
LEMMA PlanBuildJobs ==
  ASSUME BaseInv, BuildJobs, NEW C, IsPlan(C)
  PROVE  IsPromising(C)'
<1>1. /\ pc = "jobs" /\ pc' = "tools" /\ next' = 1
      /\ UNCHANGED <<args, actions, LinkerInputs, step, InputInfos>>
  BY DEF BuildJobs, buildVars, jobVars
<1>2. InputInfos' = <<>> /\ step' = 1 BY <1>1 DEF ToolsStarted, BaseInv, Types
<1>3. /\ NumPipelines' = NumPipelines /\ \A j : PipelineAt(j)' = PipelineAt(j)
      /\ \A p : Base(p)' = Base(p)
  BY <1>1, SameBuild, SameArgs
<1>4. ASSUME ResultIsRead'
      PROVE  (C[InputInfo] = [source |-> Current.input,
                              phases |-> PhasesSoFar(Tools(Current), step - 1)])'
  <2>1. 1 \in 1..NumPipelines BY <1>1, <1>3, <1>4, ThePipelines DEF ResultIsRead, BaseInv
  <2>2. PICK p : p = PipelineAt(1) OBVIOUS
  <2>3. C[Base(p)] = [source |-> p.input, phases |-> <<>>] BY <2>1, <2>2, BaseIsPlanned
  <2>4. Current' = p BY <1>1, <1>3, <2>2 DEF Current
  <2>5. InputInfo' = Base(p)
    <3>1. Base(p)' = Base(p) BY <1>3
    <3> QED BY <1>2, <2>4, <3>1 DEF InputInfo
  <2>6. PhasesSoFar(Tools(Current), step - 1)' = <<>>
    BY <1>2 DEF PhasesSoFar
  <2> QED BY <2>3, <2>4, <2>5, <2>6
<1>5. \A j, s : ~ToolAdded(j, s)'
  <2>1. \A j, s : ToolAdded(j, s)' => /\ j \in 1..NumPipelines /\ s \in Nat /\ s >= 1
                                      /\ j < 1 \/ s < 1
    BY <1>1, <1>2, <1>3 DEF ToolAdded
  <2> QED BY <2>1, ThePipelines DEF BaseInv
<1>6. ~LinkAdded' BY <1>1 DEF LinkAdded
<1>7. \A m \in 1..Len(InputInfos') : (C[InputInfos[m]] = Wanted(LinkerInputs[m].input))'
  BY <1>2, EmptySeq
<1> QED BY <1>4, <1>5, <1>6, <1>7 DEF IsPromising

(* The result of a pipeline that has been built.                           *)
LEMMA WholePipeline ==
  ASSUME BaseInv, NEW j \in 1..NumPipelines
  PROVE  /\ PipelineAt(j).input \in 1..NumInputs
         /\ Wanted(PipelineAt(j).input)
              = [source |-> PipelineAt(j).input,
                 phases |-> PhasesSoFar(Tools(PipelineAt(j)), Len(Tools(PipelineAt(j))))]
<1>1. PipelineAt(j).input \in 1..NumInputs /\ Used(PipelineAt(j).input) /\ args \in CommandLines
  BY ThePipelines DEF BaseInv, Types
<1>2. GoodTools(Tools(PipelineAt(j)), args.inputs[PipelineAt(j).input].type)
  BY TheTools DEF BaseInv
<1> QED BY <1>1, <1>2, WantedPhases DEF GoodTools

(* The result of a pipeline is what is wanted of its input.                *)
LEMMA PlanPipelineBuilt ==
  ASSUME BaseInv, InputsInv, ~args.flags.print_bindings, PipelineBuilt,
         NEW C, IsPlan(C), IsPromising(C)
  PROVE  IsPromising(C)'
<1>1. /\ pc = "tools" /\ next <= NumPipelines /\ next' = next + 1 /\ step' = 1 /\ pc' = pc
      /\ step > Len(Tools(Current))
      /\ InputInfos' = IF next <= Len(actions) THEN InputInfos ELSE Append(InputInfos, InputInfo)
      /\ UNCHANGED <<args, actions, LinkerInputs, commands, TempFiles>>
  BY DEF PipelineBuilt, buildVars
<1>2. /\ NumPipelines' = NumPipelines /\ \A j : PipelineAt(j)' = PipelineAt(j)
      /\ \A p : Base(p)' = Base(p)
      /\ \A p : Tools(p)' = Tools(p)
      /\ \A i : Wanted(i)' = Wanted(i)
  BY <1>1, SameBuild, SameArgs
<1>3. /\ next \in Nat \ {0} /\ step \in Nat \ {0} /\ Types /\ ActionsInv
      /\ Len(actions) \in Nat /\ Len(LinkerInputs) \in Nat
      /\ NumPipelines = Len(actions) + Len(LinkerInputs)
      /\ next \in 1..NumPipelines /\ IsSeq(InputInfos)
  <2>1. Types /\ ActionsInv BY DEF BaseInv
  <2>2. next \in Nat \ {0} /\ step \in Nat \ {0} /\ IsSeq(InputInfos) BY <2>1 DEF Types
  <2>3. /\ Len(actions) \in Nat /\ Len(LinkerInputs) \in Nat
        /\ NumPipelines = Len(actions) + Len(LinkerInputs)
    BY <2>1, ThePipelines
  <2> QED BY <1>1, <2>1, <2>2, <2>3
<1>4. ASSUME ResultIsRead'
      PROVE  (C[InputInfo] = [source |-> Current.input,
                              phases |-> PhasesSoFar(Tools(Current), step - 1)])'
  <2>1. next + 1 \in 1..NumPipelines BY <1>1, <1>2, <1>3, <1>4 DEF ResultIsRead
  <2>2. PICK p : p = PipelineAt(next + 1) OBVIOUS
  <2>3. C[Base(p)] = [source |-> p.input, phases |-> <<>>] BY <2>1, <2>2, BaseIsPlanned
  <2>4. Current' = p
    <3>1. PICK n : n = next + 1 OBVIOUS
    <3>2. PipelineAt(n)' = p BY <1>2, <2>2, <3>1
    <3> QED BY <1>1, <3>1, <3>2 DEF Current
  <2>5. InputInfo' = Base(p)
    <3>1. Base(p)' = Base(p) BY <1>2
    <3> QED BY <1>1, <2>4, <3>1 DEF InputInfo
  <2>6. PhasesSoFar(Tools(Current), step - 1)' = <<>>
    BY <1>1 DEF PhasesSoFar
  <2> QED BY <2>3, <2>4, <2>5, <2>6
<1>5. \A j, s : ToolAdded(j, s)' => ToolAdded(j, s)
  <2>1. SUFFICES ASSUME NEW j, NEW s, ToolAdded(j, s)' PROVE ToolAdded(j, s) OBVIOUS
  <2>2. Tools(PipelineAt(j))' = Tools(PipelineAt(j)) BY <1>2
  <2>3. /\ j \in 1..NumPipelines /\ s \in 1..Len(Tools(PipelineAt(j)))
        /\ j < next + 1 \/ (j = next + 1 /\ s < 1)
    BY <1>1, <1>2, <2>1, <2>2 DEF ToolAdded
  <2>4. Len(Tools(PipelineAt(j))) \in Nat BY <1>3, <2>3, TheTools
  <2>5. j = next => s < step
    <3>1. Tools(Current) = Tools(PipelineAt(next)) BY DEF Current
    <3> QED BY <1>1, <1>3, <2>3, <2>4, <3>1
  <2>6. j < next \/ j = next BY <1>3, <2>3
  <2> QED BY <1>1, <2>3, <2>5, <2>6 DEF ToolAdded, ToolsStarted
<1>6. ~LinkAdded' BY <1>1 DEF LinkAdded
<1>7. ASSUME NEW m \in 1..Len(InputInfos')
      PROVE  (C[InputInfos[m]] = Wanted(LinkerInputs[m].input))'
  <2>1. PICK i : i = LinkerInputs[m].input OBVIOUS
  <2>2. C[InputInfos'[m]] = Wanted(i)
    <3>1. CASE next <= Len(actions)
      BY <1>1, <2>1, <3>1 DEF IsPromising
    <3>2. CASE ~(next <= Len(actions))
      <4>1. InputInfos' = Append(InputInfos, InputInfo) BY <1>1, <3>2
      <4>2. Len(InputInfos) = next - 1 - Len(actions) /\ next > Len(actions)
        BY <1>1, <1>3, <3>2 DEF BaseInv, LoopInv
      <4>3. CASE m \in 1..Len(InputInfos)
        BY <1>3, <2>1, <4>1, <4>3, Appending DEF IsPromising
      <4>4. CASE m \notin 1..Len(InputInfos)
        <5>1. m = Len(InputInfos) + 1 /\ InputInfos'[m] = InputInfo
          BY <1>3, <4>1, <4>4, Appending
        <5>2. m = next - Len(actions) /\ m \in 1..Len(LinkerInputs) /\ Len(actions) + m = next
          BY <1>3, <4>2, <5>1
        <5>3. Current = LinkerInputs[m]
          <6>1. PipelineAt(Len(actions) + m) = LinkerInputs[m] BY <1>3, <5>2, ThePipelines
          <6> QED BY <5>2, <6>1 DEF Current
        <5>4. C[InputInfo] = [source |-> Current.input,
                              phases |-> PhasesSoFar(Tools(Current), step - 1)]
          BY <1>1, <4>2 DEF IsPromising, ResultIsRead
        <5>5. step - 1 = Len(Tools(Current))
          <6>1. step <= Len(Tools(Current)) + 1 BY <1>1 DEF BaseInv, LoopInv
          <6>2. Len(Tools(Current)) \in Nat BY <1>3, TheTools DEF Current
          <6> QED BY <1>1, <1>3, <6>1, <6>2
        <5>6. Wanted(i) = [source |-> i,
                           phases |-> PhasesSoFar(Tools(Current), Len(Tools(Current)))]
          BY <1>3, <2>1, <5>3, WholePipeline DEF Current
        <5> QED BY <2>1, <5>1, <5>3, <5>4, <5>5, <5>6
      <4> QED BY <4>3, <4>4
    <3> QED BY <3>1, <3>2
  <2>3. i = LinkerInputs'[m].input /\ C[InputInfos'[m]] = Wanted(i)' BY <1>1, <1>2, <2>1, <2>2
  <2> QED BY <2>3
<1>8. ASSUME NEW j \in 1..Len(actions'), ToolAdded(j, Len(Tools(PipelineAt(j))))',
             PipelineAt(j)'.type # "Nothing"
      PROVE  Delivered(C, Wanted(PipelineAt(j).input))'
  <2>1. PICK n : n = Len(Tools(PipelineAt(j))) OBVIOUS
  <2>2. Tools(PipelineAt(j))' = Tools(PipelineAt(j)) BY <1>2
  <2>3. ToolAdded(j, n)' BY <1>8, <2>1, <2>2
  <2>4. ToolAdded(j, n) BY <1>5, <2>3
  <2>5. PICK x : x = Wanted(PipelineAt(j).input) OBVIOUS
  <2>6. Delivered(C, x) BY <1>1, <1>2, <1>8, <2>1, <2>4, <2>5 DEF IsPromising
  <2>7. Delivered(C, x)' BY <1>1, <2>6, DeliveryStays
  <2>8. x = Wanted(PipelineAt(j).input)' BY <1>2, <2>5
  <2> QED BY <2>7, <2>8
<1> QED BY <1>4, <1>6, <1>7, <1>8 DEF IsPromising

(* A name that is new is not that of an earlier output.                    *)
LEMMA TempsStayApart ==
  ASSUME BaseInv, NamesInv, NoErrors, NamesApart, BuildJobsForTool
  PROVE  \A k \in 1..Len(commands) :
           commands[k].output \notin Elements(TempFiles)
             => commands[k].output \notin Elements(TempFiles')
<1>1. SUFFICES ASSUME NEW k \in 1..Len(commands), commands[k].output \notin Elements(TempFiles),
                      commands[k].output \in Elements(TempFiles')
               PROVE  FALSE
  OBVIOUS
<1>2. /\ TempFiles' = IF CurNamed /\ IsTemporary(CurTop) THEN Append(TempFiles, CurFile)
                                                         ELSE TempFiles
      /\ IsSeq(TempFiles) /\ IsSeq(commands) /\ InTools
  BY ToolEffect DEF BaseInv, Types, InTools
<1>3. PICK g : g = CurFile OBVIOUS
<1>4. CurNamed /\ IsTemporary(CurTop) /\ commands[k].output = g
  <2>1. CurNamed /\ IsTemporary(CurTop) BY <1>1, <1>2
  <2>2. TempFiles' = Append(TempFiles, g) BY <1>2, <1>3, <2>1
  <2>3. PICK m \in 1..Len(TempFiles') : TempFiles'[m] = commands[k].output BY <1>1 DEF Elements
  <2>4. (m \in 1..Len(TempFiles) /\ TempFiles'[m] = TempFiles[m]) \/ TempFiles'[m] = g
    BY <1>2, <2>2, Appending
  <2> QED BY <1>1, <2>1, <2>3, <2>4 DEF Elements
<1>5. ~IsTemp(g) /\ ~IsResult(g) BY <1>3, <1>4, NewNameIsFresh
<1>6. IsFile(g) BY <1>2, <1>3, <1>4, TheCurrentOutput DEF CurNamed
<1> QED BY <1>4, <1>5, <1>6 DEF NamesInv

(* The output of a tool at the top level is no temporary file.             *)
LEMMA TopIsNoTemp ==
  ASSUME BaseInv, NamesInv, NoErrors, NamesApart, BuildJobsForTool, CurTop, CurTool.type # "Nothing"
  PROVE  CurOutput # Nowhere /\ CurOutput \notin Elements(TempFiles')
<1>1. /\ InTools /\ TempFiles' = TempFiles
  BY ToolEffect DEF InTools, IsTemporary
<1>2. CurOutput # Nowhere BY <1>1, TheCurrentOutput
<1>3. ASSUME NEW m \in 1..Len(TempFiles), CurOutput = TempFiles[m] PROVE FALSE
  <2>1. IsTemp(CurOutput) BY <1>3 DEF NamesInv
  <2>2. IsFile(CurOutput) BY <2>1, TriplesAreFiles DEF IsTemp
  <2>3. CurNamed /\ CurOutput = CurFile BY <1>1, <2>2, TheCurrentOutput
  <2>4. PICK g : g = CurFile OBVIOUS
  <2>5. ~IsTemp(g) BY <2>3, <2>4, NewNameIsFresh
  <2> QED BY <2>1, <2>3, <2>4, <2>5
<1> QED BY <1>1, <1>2, <1>3 DEF Elements

(* What the current tool makes of what it reads.                           *)
LEMMA CurProduct ==
  ASSUME BaseInv, InTools, NEW C, IsPromising(C)
  PROVE  Product(C, CurCommand)
           = [source |-> Current.input, phases |-> PhasesSoFar(Tools(Current), step)]
<1>1. /\ next \in 1..NumPipelines /\ step \in 1..Len(Tools(Current))
      /\ Len(Tools(Current)) \in 0..3 /\ Current = PipelineAt(next)
      /\ CurTool.phases \in Seq(EarlyPhases) /\ Len(CurTool.phases) \in 1..2
  BY TheCurrentTool
<1>2. ResultIsRead BY DEF InTools, ResultIsRead
<1>3. C[InputInfo] = [source |-> Current.input, phases |-> PhasesSoFar(Tools(Current), step - 1)]
  BY <1>2 DEF IsPromising
<1>4. CurTool.phases # <<"Link">>
  <2>1. CurTool.phases[1] \in EarlyPhases BY <1>1
  <2> QED BY <2>1 DEF EarlyPhases
<1>5. Tools(Current)[1].phases \in Seq(EarlyPhases)
  <2>1. GoodTools(Tools(Current), args.inputs[Current.input].type) BY <1>1, TheTools DEF BaseInv
  <2>2. 1 \in 1..Len(Tools(Current)) BY <1>1
  <2> QED BY <2>1, <2>2 DEF GoodTools, IsPhases
<1>6. PhasesSoFar(Tools(Current), step) = PhasesSoFar(Tools(Current), step - 1) \o CurTool.phases
  BY <1>1, <1>5, NextPhases DEF CurTool
<1>7. Product(C, CurCommand) = [source |-> C[InputInfo].source,
                                phases |-> C[InputInfo].phases \o CurTool.phases]
  BY <1>4, CurReads DEF Product
<1> QED BY <1>3, <1>6, <1>7

(* A tool performs the next phases, into a file of its own.                *)
LEMMA PlanTool ==
  ASSUME BaseInv, NamesInv, InputsInv, OneInput, NoErrors, NamesApart, ~args.flags.print_bindings,
         BuildJobsForTool, NEW C, IsPlan(C), IsPromising(C)
  PROVE  \E D : IsPlan(D)' /\ IsPromising(D)'
<1>1. /\ InTools /\ pc = "tools" /\ pc' = pc /\ next' = next /\ step' = step + 1
      /\ Result' = CurOutput /\ commands' = Append(commands, CurCommand)
      /\ UNCHANGED <<args, actions, LinkerInputs, InputInfos>>
  BY ToolEffect DEF InTools
<1>2. /\ NumPipelines' = NumPipelines /\ \A j : PipelineAt(j)' = PipelineAt(j)
      /\ \A p : Tools(p)' = Tools(p)
      /\ \A i : Wanted(i)' = Wanted(i)
  BY <1>1, SameBuild, SameArgs
<1>3. /\ Types /\ ActionsInv /\ next \in 1..NumPipelines /\ step \in 1..Len(Tools(Current))
      /\ Current = PipelineAt(next) /\ IsSeq(commands)
      /\ Len(Tools(Current)) \in Nat
  BY <1>1, TheCurrentTool DEF BaseInv, Types
<1>a. Current' = Current
  <2>1. PICK n : n = next OBVIOUS
  <2>2. PipelineAt(n)' = PipelineAt(n) BY <1>2
  <2> QED BY <1>1, <2>1, <2>2 DEF Current
<1>4. PICK c : c = CurCommand OBVIOUS
<1>5. /\ c.output = CurOutput /\ 1 \in 1..Len(c.inputs) /\ commands' = Append(commands, c)
      /\ \A m \in 1..Len(c.inputs) : c.inputs[m] \in AllFiles
      /\ IsFile(c.output) => c.output \notin AllFiles
  <2>1. InputInfo \in AllFiles BY <1>1 DEF InputsInv, ResultIsRead, InTools
  <2>2. IsFile(CurOutput) => CurOutput \notin AllFiles BY NewOutput
  <2> QED BY <1>1, <1>4, <2>1, <2>2, CurReads
<1>6. PICK D : D = IF IsFile(c.output) THEN With(C, c.output, Product(C, c)) ELSE C OBVIOUS
<1>7. /\ IsPlan(D)'
      /\ \A f \in AllFiles : D[f] = C[f]
      /\ IsFile(c.output) => D[c.output] = Product(C, c)
      /\ \A k \in 1..Len(commands) : Product(D, commands[k]) = Product(C, commands[k])
      /\ Product(D, c) = Product(C, c)
  BY <1>1, <1>3, <1>5, <1>6, PlanExtended
<1>8. Product(C, c) = [source |-> Current.input, phases |-> PhasesSoFar(Tools(Current), step)]
  BY <1>1, <1>4, CurProduct
<1>9. /\ Len(commands) \in Nat /\ Len(commands') = Len(commands) + 1
      /\ \A k \in 1..Len(commands) : commands'[k] = commands[k]
      /\ commands'[Len(commands) + 1] = c
  BY <1>3, <1>5, Appending
<1>10. ASSUME ResultIsRead'
       PROVE  (D[InputInfo] = [source |-> Current.input,
                               phases |-> PhasesSoFar(Tools(Current), step - 1)])'
  <2>1. step + 1 <= Len(Tools(Current)) \/ next > Len(actions)
    <3>1. PICK p : p = Current OBVIOUS
    <3>2. Tools(p)' = Tools(p) BY <1>2
    <3>3. Tools(Current)' = Tools(Current) BY <1>a, <3>1, <3>2
    <3> QED BY <1>1, <1>10, <3>3 DEF ResultIsRead
  <2>2. ~CurTop BY <1>3, <2>1, ThePipelines DEF CurTop, CurIsLast
  <2>3. IsFile(CurOutput) BY <1>1, <2>2, TheCurrentOutput, TheCurrentTool
  <2>4. InputInfo' = CurOutput
    <3>1. step' # 1 BY <1>1, <1>3
    <3> QED BY <1>1, <3>1 DEF InputInfo
  <2>5. D[CurOutput] = [source |-> Current.input, phases |-> PhasesSoFar(Tools(Current), step)]
    BY <1>5, <1>7, <1>8, <2>3
  <2>6. PhasesSoFar(Tools(Current), step - 1)' = PhasesSoFar(Tools(Current), step)
    <3>1. PICK p, n : p = Current /\ n = step OBVIOUS
    <3>2. Tools(p)' = Tools(p) BY <1>2
    <3>3. step' - 1 = n /\ Current' = p BY <1>1, <1>3, <1>a, <3>1
    <3>4. Tools(Current)' = Tools(p) BY <1>a, <3>1, <3>2
    <3> QED BY <3>1, <3>3, <3>4 DEF PhasesSoFar
  <2> QED BY <1>a, <2>4, <2>5, <2>6
<1>11. ASSUME NEW m \in 1..Len(InputInfos')
       PROVE  (D[InputInfos[m]] = Wanted(LinkerInputs[m].input))'
  <2>1. PICK i : i = LinkerInputs[m].input OBVIOUS
  <2>2. C[InputInfos[m]] = Wanted(i) BY <1>1, <2>1 DEF IsPromising
  <2>3. InputInfos[m] \in AllFiles BY <1>1 DEF InputsInv
  <2>4. i = LinkerInputs'[m].input /\ D[InputInfos'[m]] = Wanted(i)'
    BY <1>1, <1>2, <1>7, <2>1, <2>2, <2>3
  <2> QED BY <2>4
<1>12. ASSUME NEW j \in 1..Len(actions'), ToolAdded(j, Len(Tools(PipelineAt(j))))',
              PipelineAt(j)'.type # "Nothing"
       PROVE  Delivered(D, Wanted(PipelineAt(j).input))'
  <2>1. PICK n : n = Len(Tools(PipelineAt(j))) OBVIOUS
  <2>2. Tools(PipelineAt(j))' = Tools(PipelineAt(j)) BY <1>2
  <2>3. ToolAdded(j, n)' BY <1>12, <2>1, <2>2
  <2>4. PICK x : x = Wanted(PipelineAt(j).input) OBVIOUS
  <2>5. CASE ToolAdded(j, n)
    <3>1. Delivered(C, x) BY <1>1, <1>2, <1>12, <2>1, <2>4, <2>5 DEF IsPromising
    <3>2. \A k \in 1..Len(commands) :
            commands[k].output \notin Elements(TempFiles)
              => commands[k].output \notin Elements(TempFiles')
      BY TempsStayApart
    <3>3. Delivered(D, x)' BY <1>7, <1>9, <3>1, <3>2, DeliveryStays
    <3>4. x = Wanted(PipelineAt(j).input)' BY <1>2, <2>4
    <3> QED BY <3>3, <3>4
  <2>6. CASE ~ToolAdded(j, n)
    <3>1. j \in 1..NumPipelines /\ n \in 1..Len(Tools(PipelineAt(j))) /\ j <= Len(actions)
      BY <1>1, <1>2, <2>2, <2>3, <1>12 DEF ToolAdded
    <3>2. j = next /\ n = step
      <4>1. j < next \/ (j = next /\ n < step + 1) BY <1>1, <2>3 DEF ToolAdded
      <4>2. ~(j < next \/ (j = next /\ n < step))
        BY <1>1, <2>6, <3>1 DEF ToolAdded, ToolsStarted
      <4>3. Len(Tools(PipelineAt(j))) \in Nat BY <1>3, <3>1, TheTools
      <4> QED BY <1>3, <3>1, <4>1, <4>2, <4>3
    <3>3. CurTop BY <1>3, <2>1, <3>1, <3>2 DEF CurTop, CurIsLast
    <3>4. CurTool.type # "Nothing"
      <4>1. Len(Tools(PipelineAt(next))) >= 1 BY <1>3
      <4>2. Tools(PipelineAt(next))[step].type = PipelineAt(next).type
        BY <1>3, <2>1, <3>2, <4>1, TheTools
      <4> QED BY <1>2, <1>3, <1>12, <3>2, <4>2 DEF CurTool
    <3>5. c.output # Nowhere /\ c.output \notin Elements(TempFiles')
      BY <1>5, <3>3, <3>4, TopIsNoTemp
    <3>6. Product(D, c) = x
      <4>1. x = [source |-> Current.input, phases |-> PhasesSoFar(Tools(Current), step)]
        BY <1>3, <2>1, <2>4, <3>1, <3>2, WholePipeline
      <4> QED BY <1>7, <1>8, <4>1
    <3>7. Delivered(D, x)'
      <4>1. PICK k : k = Len(commands) + 1 OBVIOUS
      <4>2. k \in 1..Len(commands') /\ commands'[k] = c BY <1>9, <4>1
      <4>3. Elements(TempFiles)' = Elements(TempFiles') BY DEF Elements
      <4>4. Product(D, c)' = Product(D, c) BY Zenon DEF Product
      <4>5. (Product(D, commands[k]) = x)' BY <3>6, <4>2, <4>4
      <4>6. Nowhere' = Nowhere BY DEF Nowhere
      <4> QED BY <3>5, <4>2, <4>3, <4>5, <4>6 DEF Delivered
    <3>8. x = Wanted(PipelineAt(j).input)' BY <1>2, <2>4
    <3> QED BY <3>7, <3>8
  <2> QED BY <2>5, <2>6
<1>13. ~LinkAdded' BY <1>1 DEF LinkAdded
<1>14. IsPromising(D)' BY <1>10, <1>11, <1>12, <1>13 DEF IsPromising
<1> QED BY <1>7, <1>14

(* The commands of the pipelines stay when the linker's is added.          *)
LEMMA LinkKeepsTools ==
  ASSUME BaseInv, BuildLinkJob
  PROVE  \A j, s : ToolAdded(j, s)' => ToolAdded(j, s)
<1>1. /\ pc = "tools" /\ next > NumPipelines
      /\ UNCHANGED <<args, actions, LinkerInputs>>
  BY LinkEffect
<1>2. /\ NumPipelines' = NumPipelines /\ \A j : PipelineAt(j)' = PipelineAt(j)
      /\ \A p : Tools(p)' = Tools(p)
  BY <1>1, SameBuild, SameArgs
<1>3. SUFFICES ASSUME NEW j, NEW s, ToolAdded(j, s)' PROVE ToolAdded(j, s) OBVIOUS
<1>4. Tools(PipelineAt(j))' = Tools(PipelineAt(j)) BY <1>2
<1>5. j \in 1..NumPipelines /\ s \in 1..Len(Tools(PipelineAt(j)))
  BY <1>2, <1>3, <1>4 DEF ToolAdded
<1>6. NumPipelines \in Nat /\ next \in Nat
  <2>1. Types /\ ActionsInv BY DEF BaseInv
  <2>2. NumPipelines \in Nat BY <2>1, ThePipelines
  <2> QED BY <2>1, <2>2 DEF Types
<1>7. j < next BY <1>1, <1>5, <1>6
<1> QED BY <1>1, <1>5, <1>7 DEF ToolAdded, ToolsStarted

(* The linker puts together what is wanted of its inputs.                  *)
LEMMA PlanLink ==
  ASSUME BaseInv, NamesInv, InputsInv, OneInput, NoErrors, NamesApart, ~args.flags.print_bindings,
         BuildLinkJob, LinkerInputs # <<>>, NEW C, IsPlan(C), IsPromising(C)
  PROVE  \E D : IsPlan(D)' /\ IsPromising(D)'
<1>1. /\ pc = "tools" /\ next > NumPipelines /\ pc' = "execute" /\ TempFiles' = TempFiles
      /\ commands' = Append(commands, LinkCommand)
      /\ UNCHANGED <<args, actions, LinkerInputs, InputInfos>>
  BY LinkEffect
<1>2. /\ NumPipelines' = NumPipelines /\ \A j : PipelineAt(j)' = PipelineAt(j)
      /\ \A p : Tools(p)' = Tools(p)
      /\ \A i : Wanted(i)' = Wanted(i)
  BY <1>1, SameBuild, SameArgs
<1>3. IsSeq(commands) BY DEF BaseInv, Types
<1>4. PICK c : c = LinkCommand OBVIOUS
<1>5. /\ c.output = LinkFile /\ c.phases = <<"Link">> /\ commands' = Append(commands, c)
      /\ \A m \in 1..Len(c.inputs) : c.inputs[m] \in AllFiles
      /\ IsFile(c.output) => c.output \notin AllFiles
  <2>1. LinkFile \notin AllFiles BY NewOutput
  <2> QED BY <1>1, <1>4, <2>1, LinkReads DEF InputsInv
<1>6. PICK D : D = IF IsFile(c.output) THEN With(C, c.output, Product(C, c)) ELSE C OBVIOUS
<1>7. /\ IsPlan(D)'
      /\ \A f \in AllFiles : D[f] = C[f]
      /\ \A k \in 1..Len(commands) : Product(D, commands[k]) = Product(C, commands[k])
      /\ Product(D, c) = Product(C, c)
  BY <1>1, <1>3, <1>5, <1>6, PlanExtended
<1>8. Product(C, c) = LinkedParts
  <2>1. Len(InputInfos) = Len(LinkerInputs)
    <3>1. /\ NumPipelines = Len(actions) + Len(LinkerInputs)
          /\ Len(actions) \in Nat /\ Len(LinkerInputs) \in Nat /\ Len(LinkerInputs) # 0
          /\ next \in Nat
      BY ThePipelines DEF BaseInv, Types
    <3>2. next = NumPipelines + 1 BY <1>1, <3>1 DEF BaseInv, LoopInv
    <3>3. ~(next <= Len(actions)) BY <3>1, <3>2
    <3>4. Len(InputInfos) = next - 1 - Len(actions) BY <1>1, <3>3 DEF BaseInv, LoopInv
    <3> QED BY <3>1, <3>2, <3>4
  <2>2. \A m \in 1..Len(LinkerInputs) : C[InputInfos[m]] = Wanted(LinkerInputs[m].input)
    BY <2>1 DEF IsPromising
  <2>3. [k \in 1..Len(InputInfos) |-> C[InputInfos[k]]]
          = [m \in 1..Len(LinkerInputs) |-> Wanted(LinkerInputs[m].input)]
    BY <2>1, <2>2
  <2>4. Product(C, c) = [parts |-> [k \in 1..Len(InputInfos) |-> C[InputInfos[k]]]]
    BY <1>4, <1>5, LinkReads DEF Product
  <2> QED BY <2>3, <2>4 DEF LinkedParts
<1>9. /\ Len(commands) \in Nat /\ Len(commands') = Len(commands) + 1
      /\ \A k \in 1..Len(commands) : commands'[k] = commands[k]
      /\ commands'[Len(commands) + 1] = c
  BY <1>3, <1>5, Appending
<1>11. ASSUME NEW m \in 1..Len(InputInfos')
       PROVE  (D[InputInfos[m]] = Wanted(LinkerInputs[m].input))'
  <2>1. PICK i : i = LinkerInputs[m].input OBVIOUS
  <2>2. C[InputInfos[m]] = Wanted(i) BY <1>1, <2>1 DEF IsPromising
  <2>3. InputInfos[m] \in AllFiles BY <1>1 DEF InputsInv
  <2>4. i = LinkerInputs'[m].input /\ D[InputInfos'[m]] = Wanted(i)'
    BY <1>1, <1>2, <1>7, <2>1, <2>2, <2>3
  <2> QED BY <2>4
<1>12. ASSUME NEW j \in 1..Len(actions'), ToolAdded(j, Len(Tools(PipelineAt(j))))',
              PipelineAt(j)'.type # "Nothing"
       PROVE  Delivered(D, Wanted(PipelineAt(j).input))'
  <2>1. PICK n : n = Len(Tools(PipelineAt(j))) OBVIOUS
  <2>2. Tools(PipelineAt(j))' = Tools(PipelineAt(j)) BY <1>2
  <2>3. ToolAdded(j, n)' BY <1>12, <2>1, <2>2
  <2>4. PICK x : x = Wanted(PipelineAt(j).input) OBVIOUS
  <2>5. ToolAdded(j, n) BY <2>3, LinkKeepsTools
  <2>6. Delivered(C, x) BY <1>1, <1>2, <1>12, <2>1, <2>4, <2>5 DEF IsPromising
  <2>7. Delivered(D, x)' BY <1>1, <1>7, <1>9, <2>6, DeliveryStays
  <2>8. x = Wanted(PipelineAt(j).input)' BY <1>2, <2>4
  <2> QED BY <2>7, <2>8
<1>13. Delivered(D, LinkedParts)'
  <2>1. PICK x : x = LinkedParts OBVIOUS
  <2>2. x = LinkedParts' BY <1>1, <1>2, <2>1 DEF LinkedParts
  <2>3. c.output # Nowhere /\ c.output \notin Elements(TempFiles)
    <3>1. ~IsTemp(LinkFile) BY LinkNameIsFresh
    <3>2. LinkFile # Nowhere BY TriplesAreFiles, Zenon DEF LinkFile, OutFile, DefaultImage, IsFile
    <3> QED BY <1>5, <3>1, <3>2 DEF NamesInv, Elements
  <2>4. PICK k : k = Len(commands) + 1 OBVIOUS
  <2>5. k \in 1..Len(commands') /\ commands'[k] = c BY <1>9, <2>4
  <2>6. Elements(TempFiles)' = Elements(TempFiles) BY <1>1 DEF Elements
  <2>7. Product(D, c)' = Product(D, c) BY Zenon DEF Product
  <2>8. (Product(D, commands[k]) = x)' BY <1>7, <1>8, <2>1, <2>5, <2>7
  <2>9. Nowhere' = Nowhere BY DEF Nowhere
  <2>10. Delivered(D, x)' BY <2>3, <2>5, <2>6, <2>8, <2>9 DEF Delivered
  <2> QED BY <2>2, <2>10
<1>14. ~ResultIsRead' BY <1>1 DEF ResultIsRead
<1>15. IsPromising(D)' BY <1>11, <1>12, <1>13, <1>14 DEF IsPromising
<1> QED BY <1>7, <1>15

(* Every step preserves PlanInv.                                           *)
LEMMA PlanNext ==
  ASSUME BaseInv, NamesInv, InputsInv, OneInput, PlanInv, [Next]_vars
  PROVE  PlanInv'
<1>0. args' = args /\ NamesApart' = NamesApart
  <2>1. args' = args
    BY ToolEffect, LinkEffect, SuccessEffect
       DEF Next, Done, BuildAction, ActionsBuilt, BuildJobs, PipelineBuilt, Execute, CommandFails,
           AllRun, Cleanup, vars
  <2> QED BY <2>1, SameArgs
<1>1. SUFFICES ASSUME NoErrors, NamesApart, ~args.flags.print_bindings
               PROVE  \E D : IsPlan(D)' /\ IsPromising(D)'
  BY <1>0, ErrorsStay DEF PlanInv, BaseInv
<1>2. PICK C : IsPlan(C) /\ IsPromising(C) BY <1>1 DEF PlanInv
<1>3. CASE BuildAction \/ ActionsBuilt
  <2>1. UNCHANGED <<args, commands>> /\ ~ToolsStarted'
    BY <1>3 DEF BuildAction, ActionsBuilt, jobVars, ToolsStarted
  <2>2. IsPlan(C)' BY <1>2, <2>1, SamePlan
  <2>3. IsPromising(C)' BY <2>1, TypesNext, NoPromises DEF BaseInv
  <2> QED BY <2>2, <2>3
<1>4. CASE BuildJobs
  <2>1. UNCHANGED <<args, commands>> BY <1>4 DEF BuildJobs, jobVars
  <2>2. IsPlan(C)' BY <1>2, <2>1, SamePlan
  <2>3. IsPromising(C)' BY <1>2, <1>4, PlanBuildJobs
  <2> QED BY <2>2, <2>3
<1>5. CASE BuildJobsForTool
  BY <1>1, <1>2, <1>5, PlanTool
<1>6. CASE PipelineBuilt
  <2>1. UNCHANGED <<args, commands>> BY <1>6 DEF PipelineBuilt
  <2>2. IsPlan(C)' BY <1>2, <2>1, SamePlan
  <2>3. IsPromising(C)' BY <1>1, <1>2, <1>6, PlanPipelineBuilt
  <2> QED BY <2>2, <2>3
<1>7. CASE BuildLinkJob /\ LinkerInputs # <<>>
  BY <1>1, <1>2, <1>7, PlanLink
<1>8. CASE BuildLinkJob /\ LinkerInputs = <<>>
  <2>1. /\ UNCHANGED <<args, commands, TempFiles, InputInfos, actions, LinkerInputs>>
        /\ pc' = "execute"
    BY <1>8, LinkEffect
  <2>2. IsPlan(C)' BY <1>2, <2>1, SamePlan
  <2>3. ~LinkAdded' /\ ~ResultIsRead' BY <1>8, <2>1 DEF LinkAdded, ResultIsRead
  <2>4. \A j, s : ToolAdded(j, s)' => ToolAdded(j, s) BY <1>8, LinkKeepsTools
  <2>5. IsPromising(C)' BY <1>2, <2>1, <2>3, <2>4, PromisesKept
  <2> QED BY <2>2, <2>5
<1>9. CASE Execute \/ CommandSucceeds \/ CommandFails \/ AllRun \/ Cleanup
  <2>1. /\ UNCHANGED <<args, commands, TempFiles, InputInfos, actions, LinkerInputs>>
        /\ ToolsStarted /\ pc # "tools" /\ pc' # "tools"
    <3>1. CASE CommandSucceeds BY <3>1, SuccessEffect DEF ToolsStarted
    <3>2. CASE Execute \/ CommandFails \/ AllRun \/ Cleanup
      BY <3>2 DEF Execute, CommandFails, AllRun, Cleanup, Running, buildVars, jobVars, ToolsStarted
    <3> QED BY <1>9, <3>1, <3>2
  <2>2. IsPlan(C)' BY <1>2, <2>1, SamePlan
  <2>3. (LinkAdded' => LinkAdded) /\ ~ResultIsRead' BY <2>1 DEF LinkAdded, ResultIsRead
  <2>4. \A j, s : ToolAdded(j, s)' => ToolAdded(j, s)
    <3>1. /\ NumPipelines' = NumPipelines /\ \A j : PipelineAt(j)' = PipelineAt(j)
          /\ \A p : Tools(p)' = Tools(p)
      BY <2>1, SameBuild, SameArgs
    <3>2. \A j : Tools(PipelineAt(j))' = Tools(PipelineAt(j)) BY <3>1
    <3> QED BY <2>1, <3>1, <3>2 DEF ToolAdded
  <2>5. IsPromising(C)' BY <1>2, <2>1, <2>3, <2>4, PromisesKept
  <2> QED BY <2>2, <2>5
<1>10. CASE UNCHANGED vars
  <2>1. UNCHANGED <<args, pc, next, step, Result, commands, TempFiles, InputInfos, actions,
                    LinkerInputs>>
    BY <1>10 DEF vars, buildVars, jobVars
  <2>2. IsPlan(C)' BY <1>2, <2>1, SamePlan
  <2>3. /\ NumPipelines' = NumPipelines /\ \A j : PipelineAt(j)' = PipelineAt(j)
        /\ \A p : Tools(p)' = Tools(p)
        /\ \A p : Base(p)' = Base(p)
    BY <2>1, SameBuild, SameArgs
  <2>4. \A j : Tools(PipelineAt(j))' = Tools(PipelineAt(j)) BY <2>3
  <2>5. LinkAdded' => LinkAdded BY <2>1 DEF LinkAdded, ToolsStarted
  <2>6. \A j, s : ToolAdded(j, s)' => ToolAdded(j, s)
    BY <2>1, <2>3, <2>4 DEF ToolAdded, ToolsStarted
  <2>7. Current' = Current BY <2>1, <2>3 DEF Current
  <2>8. Tools(Current)' = Tools(Current) /\ Base(Current)' = Base(Current)
    <3>1. PICK p : p = Current OBVIOUS
    <3>2. Tools(p)' = Tools(p) /\ Base(p)' = Base(p) BY <2>3
    <3> QED BY <2>7, <3>1, <3>2
  <2>9. ResultIsRead' => C[InputInfo'] = [source |-> Current'.input,
                                          phases |-> PhasesSoFar(Tools(Current)', step' - 1)]
    <3>1. ResultIsRead' => ResultIsRead BY <2>1, <2>3, <2>8 DEF ResultIsRead
    <3>2. InputInfo' = InputInfo BY <2>1, <2>8 DEF InputInfo
    <3> QED BY <1>2, <2>1, <2>7, <2>8, <3>1, <3>2 DEF IsPromising
  <2>10. IsPromising(C)' BY <1>2, <2>1, <2>5, <2>6, <2>9, PromisesKept
  <2> QED BY <2>2, <2>10
<1> QED BY <1>3, <1>4, <1>5, <1>6, <1>7, <1>8, <1>9, <1>10 DEF Next, Done

----------------------------------------------------------------------------
(* What the files contain.                                                 *)

(* Every step preserves DiskIsPlanned.                                     *)
LEMMA DiskIsPlannedNext ==
  ASSUME BaseInv, InputsInv, OneInput, DiskInv, SourcesSurvive, DiskIsPlanned, [Next]_vars
  PROVE  DiskIsPlanned'
<1>0. args' = args /\ NamesApart' = NamesApart
  <2>1. args' = args
    BY ToolEffect, LinkEffect, SuccessEffect
       DEF Next, Done, BuildAction, ActionsBuilt, BuildJobs, PipelineBuilt, Execute, CommandFails,
           AllRun, Cleanup, vars
  <2> QED BY <2>1, SameArgs
<1>a. \A C, c : Product(C, c)' = Product(C, c) BY Zenon DEF Product
<1> SUFFICES ASSUME NamesApart, pc' = "running" \/ (pc' \in {"cleanup", "done"} /\ Res' = 0),
                    NEW C, IsPlan(C)'
             PROVE  /\ \A f \in DOMAIN disk' : disk'[f] = C[f]
                    /\ \A k \in 1..Len(commands') :
                         (commands[k].output = Pipe /\ k < next
                            => Product(C, commands[k]) \in Elements(stdout))'
  BY <1>0 DEF DiskIsPlanned
<1>1. ASSUME NEW k \in 1..Len(commands'), NEW c, c = commands'[k],
             c.output = Pipe /\ k < next' => Product(C, c) \in Elements(stdout')
      PROVE  (commands[k].output = Pipe /\ k < next
                => Product(C, commands[k]) \in Elements(stdout))'
  <2>1. Pipe' = Pipe /\ Elements(stdout)' = Elements(stdout') BY DEF Pipe, Elements
  <2>2. Product(C, c)' = Product(C, c) BY <1>a
  <2> QED BY <1>1, <2>1, <2>2
<1>2. CASE Execute
  <2>1. /\ pc = "execute" /\ next' = 1 /\ UNCHANGED <<args, commands, disk>>
    BY <1>2 DEF Execute, jobVars
  <2>2. IsPlan(C) BY <2>1, SamePlan
  <2>3. DOMAIN disk' = SourceFiles BY <2>1 DEF DiskInv, BeforeRunning
  <2>4. \A f \in DOMAIN disk' : disk'[f] = C[f]
    BY <2>1, <2>2, <2>3 DEF IsPlan, SourceFiles, SourcesSurvive
  <2>5. ASSUME NEW k \in 1..Len(commands') PROVE ~(k < next') BY <2>1
  <2> QED BY <2>4, <2>5
<1>3. CASE CommandSucceeds
  <2>1. /\ pc = "running" /\ next \in 1..Len(commands) /\ next' = next + 1
        /\ UNCHANGED <<args, commands>>
        /\ IsSeq(stdout) /\ Len(commands) \in Nat /\ next \in Nat
    BY <1>3, SuccessEffect, EmptyIff DEF BaseInv, Types
  <2>2. IsPlan(C) BY <2>1, SamePlan
  <2>3. \A f \in DOMAIN disk : disk[f] = C[f] BY <2>1, <2>2 DEF DiskIsPlanned
  <2>4. PICK c : c = commands[next] OBVIOUS
  <2>5. Product(disk, c) = Product(C, c)
    <3>1. \A m \in 1..Len(c.inputs) : c.inputs[m] \in DOMAIN disk
      BY <2>1, <2>4 DEF InputsInv, DiskInv
    <3>2. PICK d : d = disk OBVIOUS
    <3>3. \A m \in 1..Len(c.inputs) : d[c.inputs[m]] = C[c.inputs[m]] BY <2>3, <3>1, <3>2
    <3>4. c.phases = <<"Link">> \/ 1 \in 1..Len(c.inputs) BY <2>1, <2>4 DEF OneInput
    <3>5. Product(d, c) = Product(C, c) BY <3>3, <3>4, SameProduct
    <3> QED BY <3>2, <3>5
  <2>6. \A f \in DOMAIN disk' : disk'[f] = C[f]
    <3>1. CASE IsFile(c.output)
      <4> DEFINE g == c.output
                 p == Product(C, c)
      <4>1. disk' = With(disk, g, p) BY <1>3, <2>4, <2>5, <3>1, SuccessEffect
      <4>2. C[g] = p BY <2>1, <2>2, <2>4, <3>1 DEF IsPlan
      <4> HIDE DEF g, p
      <4> QED BY <2>3, <4>1, <4>2 DEF With
    <3>2. CASE ~IsFile(c.output)
      BY <1>3, <2>3, <2>4, <3>2, SuccessEffect
    <3> QED BY <3>1, <3>2
  <2>7. ASSUME NEW k \in 1..Len(commands'), NEW b, b = commands'[k], b.output = Pipe, k < next'
        PROVE  Product(C, b) \in Elements(stdout')
    <3>1. k \in 1..Len(commands) /\ b = commands[k] /\ (k < next \/ k = next) BY <2>1, <2>7
    <3>2. Elements(stdout) \subseteq Elements(stdout')
          /\ (c.output = Pipe => Product(C, c) \in Elements(stdout'))
      <4>1. CASE c.output = Pipe
        <5> DEFINE p == Product(C, c)
        <5>1. stdout' = Append(stdout, p) BY <1>3, <2>4, <2>5, <4>1, SuccessEffect
        <5> HIDE DEF p
        <5>2. /\ Len(stdout) \in Nat /\ Len(stdout') = Len(stdout) + 1
              /\ \A m \in 1..Len(stdout) : stdout'[m] = stdout[m]
              /\ stdout'[Len(stdout) + 1] = p
          BY <2>1, <5>1, Appending
        <5>3. Len(stdout) + 1 \in 1..Len(stdout') /\ 1..Len(stdout) \subseteq 1..Len(stdout')
          BY <5>2
        <5>4. Elements(stdout) \subseteq Elements(stdout') /\ p \in Elements(stdout')
          BY <5>2, <5>3 DEF Elements
        <5> QED BY <5>4 DEF p
      <4>2. CASE c.output # Pipe
        BY <1>3, <2>4, <4>2, SuccessEffect
      <4> QED BY <4>1, <4>2
    <3>3. k < next => Product(C, b) \in Elements(stdout)
      BY <2>1, <2>2, <2>7, <3>1 DEF DiskIsPlanned
    <3> QED BY <2>4, <2>7, <3>1, <3>2, <3>3
  <2> QED BY <1>1, <2>6, <2>7
<1>4. CASE AllRun \/ Cleanup \/ UNCHANGED vars
  <2>1. /\ UNCHANGED <<args, commands, next, stdout, Res>>
        /\ pc = "running" \/ (pc \in {"cleanup", "done"} /\ Res = 0)
        /\ disk' = disk \/ \E S : disk' = Without(disk, S)
    <3>1. CASE AllRun BY <3>1 DEF AllRun, jobVars, runVars
    <3>2. CASE Cleanup BY <3>2 DEF Cleanup, jobVars
    <3>3. CASE UNCHANGED vars BY <3>3 DEF vars, jobVars, runVars
    <3> QED BY <1>4, <3>1, <3>2, <3>3
  <2>2. IsPlan(C) BY <2>1, SamePlan
  <2>3. \A f \in DOMAIN disk : disk[f] = C[f] BY <2>1, <2>2 DEF DiskIsPlanned
  <2>4. \A f \in DOMAIN disk' : disk'[f] = C[f] BY <2>1, <2>3 DEF Without
  <2>5. ASSUME NEW k \in 1..Len(commands'), NEW c, c = commands'[k], c.output = Pipe, k < next'
        PROVE  Product(C, c) \in Elements(stdout')
    BY <2>1, <2>2, <2>5 DEF DiskIsPlanned
  <2> QED BY <1>1, <2>4, <2>5
<1>5. CASE BuildAction \/ ActionsBuilt \/ BuildJobs \/ BuildJobsForTool \/ PipelineBuilt
           \/ BuildLinkJob \/ CommandFails
  <2>1. pc' \notin {"running", "cleanup", "done"} \/ (pc' # "running" /\ Res' = 1)
    BY <1>5, ToolEffect, LinkEffect
       DEF BuildAction, ActionsBuilt, BuildJobs, PipelineBuilt, CommandFails
  <2> QED BY <2>1
<1> QED BY <1>2, <1>3, <1>4, <1>5 DEF Next, Done

(* Every step preserves FinishedInv.                                       *)
LEMMA FinishedNext ==
  ASSUME BaseInv, DiskInv, FinishedInv, [Next]_vars
  PROVE  FinishedInv'
<1>1. CASE AllRun
  <2>1. /\ pc = "running" /\ next > Len(commands) /\ pc' = "cleanup"
        /\ UNCHANGED <<args, commands, next, disk>>
    BY <1>1 DEF AllRun, jobVars, runVars
  <2>2. AllFiles' = AllFiles BY <2>1, SameCommands
  <2>3. next = Len(commands) + 1 /\ DOMAIN disk = FilesBefore(next)
    <3>1. Len(commands) \in Nat /\ next \in Nat BY EmptyIff DEF BaseInv, Types
    <3> QED BY <2>1, <3>1 DEF DiskInv
  <2> QED BY <2>1, <2>2, <2>3 DEF FinishedInv, AllFiles
<1>2. CASE Cleanup
  <2>1. /\ pc = "cleanup" /\ pc' = "done" /\ disk' = Without(disk, RemovedFiles \ Stuck)
        /\ UNCHANGED <<args, commands, next, TempFiles, Res>>
    BY <1>2 DEF Cleanup, jobVars
  <2>2. AllFiles' = AllFiles /\ Elements(TempFiles)' = Elements(TempFiles)
    BY <2>1, SameCommands DEF Elements
  <2>3. Res = 0 => RemovedFiles = Elements(TempFiles) BY DEF RemovedFiles
  <2>4. Res = 0 => AllFiles \ Elements(TempFiles) \subseteq DOMAIN disk'
    BY <2>1, <2>3 DEF FinishedInv, Without
  <2> QED BY <2>1, <2>2, <2>4 DEF FinishedInv
<1>3. CASE UNCHANGED vars
  <2>1. UNCHANGED <<args, commands, next, TempFiles, Res, pc, disk>>
    BY <1>3 DEF vars, jobVars, runVars
  <2>2. AllFiles' = AllFiles /\ Elements(TempFiles)' = Elements(TempFiles)
    BY <2>1, SameCommands DEF Elements
  <2> QED BY <2>1, <2>2 DEF FinishedInv
<1>4. CASE BuildAction \/ ActionsBuilt \/ BuildJobs \/ BuildJobsForTool \/ PipelineBuilt
           \/ BuildLinkJob \/ CommandFails \/ Execute \/ CommandSucceeds
  <2>1. pc' \notin {"cleanup", "done"} \/ Res' = 1
    BY <1>4, ToolEffect, LinkEffect, SuccessEffect
       DEF BuildAction, ActionsBuilt, BuildJobs, PipelineBuilt, CommandFails, Execute
  <2> QED BY <2>1 DEF FinishedInv
<1> QED BY <1>1, <1>2, <1>3, <1>4 DEF Next, Done

----------------------------------------------------------------------------
(* A success is complete.                                                  *)

(* What has been delivered is there when all the commands have run.        *)
LEMMA DeliveredIsThere ==
  ASSUME BaseInv, DiskIsPlanned, FinishedInv, pc = "done", Res = 0, NamesApart,
         NEW C, IsPlan(C), NEW x, Delivered(C, x)
  PROVE  x \in {disk[f] : f \in DOMAIN disk} \cup Elements(stdout)
<1>1. PICK k \in 1..Len(commands) :
         /\ Product(C, commands[k]) = x
         /\ commands[k].output # Nowhere
         /\ commands[k].output \notin Elements(TempFiles)
  BY DEF Delivered
<1>2. /\ Len(commands) \in Nat /\ next \in Nat /\ next > Len(commands)
      /\ AllFiles \ Elements(TempFiles) \subseteq DOMAIN disk
  <2>1. Types BY DEF BaseInv
  <2>2. Len(commands) \in Nat /\ next \in Nat BY <2>1, EmptyIff DEF Types
  <2> QED BY <2>2 DEF FinishedInv
<1>3. \A f \in DOMAIN disk : disk[f] = C[f] BY DEF DiskIsPlanned
<1>4. CASE commands[k].output = Pipe
  <2>1. Product(C, commands[k]) \in Elements(stdout) BY <1>2, <1>4 DEF DiskIsPlanned
  <2> QED BY <1>1, <2>1
<1>5. CASE commands[k].output # Pipe
  <2>1. PICK f : f = commands[k].output OBVIOUS
  <2>2. IsFile(f) BY <1>1, <1>5, <2>1 DEF IsFile
  <2>3. f \in AllFiles BY <1>2, <2>1, <2>2, FilesAmong
  <2>4. C[f] = x BY <1>1, <2>1, <2>2 DEF IsPlan
  <2>5. f \in DOMAIN disk BY <1>1, <1>2, <2>1, <2>3
  <2> QED BY <1>3, <2>4, <2>5
<1> QED BY <1>4, <1>5

(* The inputs that are linked are those whose pipelines end at the linker. *)
LEMMA LinkedInputs ==
  ASSUME args \in CommandLines, NEW i \in 1..NumInputs
  PROVE  /\ i \in Linked <=> IsLinked(i)
         /\ i \in Linked /\ args.inputs[i].exists => Used(i)
<1>1. args.mode \in Mode /\ args.inputs[i].type \in InputTypes BY ArgsType
<1>2. FinalPhase = "Link" <=> args.mode = "link" BY <1>1 DEF FinalPhase, Mode
<1>3. i \in Linked <=> IsLinked(i)
  BY <1>1, <1>2 DEF Linked, IsLinked, OnlyPrecompile, InputTypes
<1>4. ASSUME i \in Linked PROVE IsRequested(CompilationPhases(args.inputs[i].type)[1])
  <2>1. args.mode = "link" BY <1>3, <1>4 DEF IsLinked
  <2>2. \A phase \in {"Preprocess", "Compile", "Assemble", "Link"} : IsRequested(phase)
    BY <2>1, Requested
  <2>3. CompilationPhases(args.inputs[i].type)[1]
          \in {"Preprocess", "Compile", "Assemble", "Link"}
    BY <1>1, CompilationPhasesOf DEF InputTypes
  <2> QED BY <2>2, <2>3
<1> QED BY <1>3, <1>4 DEF Used

(* An input that is not linked is at the end of a pipeline of its own.     *)
LEMMA NotLinkedDelivered ==
  ASSUME BaseInv, pc = "done", NEW C, IsPromising(C),
         NEW i \in Sources, Used(i), i \notin Linked, args.mode # "fsyntax-only"
  PROVE  Delivered(C, Wanted(i))
<1>1. Types /\ ActionsInv /\ args \in CommandLines /\ i \in 1..NumInputs /\ Seen(i)
  BY DEF BaseInv, Types, Sources, Seen
<1>2. Pipeline(i).link = FALSE
  <2>1. Pipeline(i).link \in BOOLEAN /\ (Pipeline(i).link = TRUE <=> IsLinked(i))
    BY <1>1, ToolsOfPipeline
  <2>2. ~IsLinked(i) BY <1>1, LinkedInputs
  <2> QED BY <2>1, <2>2
<1>3. PICK j \in 1..Len(actions) : actions[j].input = i
  BY <1>1, <1>2 DEF ActionsInv, ArePipelines
<1>4. /\ j \in 1..NumPipelines /\ PipelineAt(j).input = i /\ j <= Len(actions)
      /\ Len(actions) \in Nat
  <2>1. /\ Len(actions) \in Nat /\ Len(LinkerInputs) \in Nat
        /\ NumPipelines = Len(actions) + Len(LinkerInputs)
    BY <1>1, ThePipelines
  <2> QED BY <1>3, <2>1 DEF PipelineAt
<1> DEFINE t == Tools(PipelineAt(j))
<1>5. Len(t) \in 1..3 /\ t[Len(t)].type = PipelineAt(j).type
      /\ GoodTools(t, args.inputs[PipelineAt(j).input].type)
  <2>1. /\ Len(t) \in 0..3 /\ (Len(t) = 0 => j > Len(actions))
        /\ Len(t) >= 1 => t[Len(t)].type = PipelineAt(j).type
        /\ GoodTools(t, args.inputs[PipelineAt(j).input].type)
    BY <1>1, <1>4, TheTools
  <2> HIDE DEF t
  <2> QED BY <1>4, <2>1
<1>6. PipelineAt(j).type # "Nothing"
  <2> HIDE DEF t
  <2>1. IsLastType(t[Len(t)].type, args.inputs[PipelineAt(j).input].type)
    BY <1>5 DEF GoodTools
  <2> QED BY <1>5, <2>1, Suffixes DEF IsLastType, IsNewType
<1>7. ToolAdded(j, Len(Tools(PipelineAt(j))))
  <2>1. ToolsStarted /\ pc # "tools" BY DEF ToolsStarted
  <2>2. Len(t) \in 1..Len(t)
    <3>1. Len(t) \in 1..3 BY <1>5
    <3>2. PICK n : n = Len(t) OBVIOUS
    <3> HIDE DEF t
    <3> QED BY <3>1, <3>2
  <2> QED BY <1>4, <2>1, <2>2 DEF ToolAdded
<1> QED BY <1>4, <1>6, <1>7 DEF IsPromising

(* The image has a part for every input that is linked, in their order.    *)
LEMMA LinkedIsImage ==
  ASSUME BaseInv, pc = "done", Sources = 1..NumInputs, Linked # {}
  PROVE  LinkAdded /\ IsImage(LinkedParts)
<1>1. Types /\ ActionsInv /\ args \in CommandLines /\ ArePipelines(LinkerInputs, TRUE)
      /\ Len(LinkerInputs) \in Nat
  <2>1. Types /\ ActionsInv BY DEF BaseInv
  <2> QED BY <2>1, ThePipelines DEF Types, ActionsInv
<1>2. ASSUME NEW i \in Linked
      PROVE  \E k \in 1..Len(LinkerInputs) : LinkerInputs[k].input = i
  <2>1. i \in 1..NumInputs /\ args.inputs[i].exists /\ Seen(i)
    BY DEF Linked, Sources, Seen
  <2>2. Used(i) /\ IsLinked(i) BY <1>1, <1>2, <2>1, LinkedInputs
  <2>3. Pipeline(i).link = TRUE BY <1>1, <2>1, <2>2, ToolsOfPipeline
  <2> QED BY <1>1, <2>1, <2>2, <2>3 DEF ArePipelines
<1>3. ASSUME NEW k \in 1..Len(LinkerInputs) PROVE LinkerInputs[k].input \in Linked
  <2>1. PICK i : i = LinkerInputs[k].input OBVIOUS
  <2>2. i \in 1..NumInputs /\ Used(i) /\ Pipeline(i).link = TRUE
    BY <1>1, <2>1 DEF ArePipelines, Seen
  <2>3. IsLinked(i) BY <1>1, <2>2, ToolsOfPipeline
  <2> QED BY <1>1, <2>1, <2>2, <2>3, LinkedInputs
<1>4. LinkAdded
  <2>1. Len(LinkerInputs) # 0 BY <1>1, <1>2
  <2> QED BY <2>1, EmptySeq DEF LinkAdded, ToolsStarted
<1> DEFINE p == [m \in 1..Len(LinkerInputs) |-> Wanted(LinkerInputs[m].input)]
<1>5. LinkedParts = [parts |-> p] BY DEF LinkedParts
<1>6. Len(p) = Len(LinkerInputs)
  <2>1. DOMAIN p = 1..Len(LinkerInputs) OBVIOUS
  <2> QED BY <1>1
<1>7. \A m \in 1..Len(LinkerInputs) : p[m] = Wanted(LinkerInputs[m].input) OBVIOUS
<1>8. \A i : Wanted(i).source = i BY DEF Wanted
<1> HIDE DEF p
<1>9. {p[k] : k \in 1..Len(p)} = {Wanted(i) : i \in Linked}
  <2>1. ASSUME NEW k \in 1..Len(p) PROVE p[k] \in {Wanted(i) : i \in Linked}
    BY <1>3, <1>6, <1>7
  <2>2. ASSUME NEW i \in Linked PROVE Wanted(i) \in {p[k] : k \in 1..Len(p)}
    BY <1>2, <1>6, <1>7
  <2> QED BY <2>1, <2>2
<1>10. ASSUME NEW k \in 1..Len(p), NEW l \in 1..Len(p), k < l PROVE p[k].source < p[l].source
  <2>1. LinkerInputs[k].input < LinkerInputs[l].input BY <1>1, <1>6, <1>10 DEF ArePipelines
  <2>2. p[k].source = LinkerInputs[k].input /\ p[l].source = LinkerInputs[l].input
    BY <1>6, <1>7, <1>8
  <2> QED BY <2>1, <2>2
<1>11. IsImage(LinkedParts)
  <2>1. LinkedParts.parts = p /\ DOMAIN LinkedParts = {"parts"} BY <1>5
  <2> QED BY <1>9, <1>10, <2>1 DEF IsImage
<1> QED BY <1>4, <1>11

(* The invariants imply SuccessIsComplete.                                 *)
LEMMA SuccessHasAll ==
  ASSUME BaseInv, PlanInv, DiskIsPlanned, FinishedInv
  PROVE  SuccessIsComplete
<1> DEFINE contents == {disk[f] : f \in DOMAIN disk} \cup Elements(stdout)
<1>1. SUFFICES ASSUME pc = "done", Res = 0, ~args.flags.print_bindings, NamesApart
               PROVE  /\ Sources = 1..NumInputs
                      /\ \A i \in Sources :
                           Used(i) /\ i \notin Linked /\ args.mode # "fsyntax-only"
                             => Wanted(i) \in contents
                      /\ Linked # {} => \E c \in contents : IsImage(c)
  BY DEF SuccessIsComplete
<1>2. NoErrors BY <1>1 DEF NoErrors
<1>3. Sources = 1..NumInputs
  <2>1. \A i \in 1..NumInputs : args.inputs[i].exists
    BY <1>1, <1>2 DEF BaseInv, ActionsInv, Seen
  <2> QED BY <2>1 DEF Sources
<1>4. PICK C : IsPlan(C) /\ IsPromising(C) BY <1>1, <1>2 DEF PlanInv
<1>5. \A x : Delivered(C, x) => x \in contents BY <1>1, <1>4, DeliveredIsThere
<1> HIDE DEF contents
<1>6. ASSUME NEW i \in Sources, Used(i), i \notin Linked, args.mode # "fsyntax-only"
      PROVE  Wanted(i) \in contents
  BY <1>1, <1>4, <1>5, <1>6, NotLinkedDelivered
<1>7. ASSUME Linked # {} PROVE \E c \in contents : IsImage(c)
  <2>1. LinkAdded /\ IsImage(LinkedParts) BY <1>1, <1>3, <1>7, LinkedIsImage
  <2>2. Delivered(C, LinkedParts) BY <1>4, <2>1 DEF IsPromising
  <2> QED BY <1>5, <2>1, <2>2
<1> QED BY <1>3, <1>6, <1>7

(* If the driver reports success, every input is there and was taken       *)
(* through its phases, once and in order, into a file that stays or the    *)
(* standard output, and all that are linked, in the order given, into one  *)
(* image: no name is given twice, so every command still finds what the    *)
(* one before it made.                                                     *)
THEOREM SuccessIsCompleteTheorem == Spec => []SuccessIsComplete
<1> DEFINE Inv == /\ NamesInv /\ InputsInv /\ DiskInv /\ SourcesSurvive /\ OneInput
                  /\ PlanInv /\ DiskIsPlanned /\ FinishedInv
<1>1. Init => Inv
  <2>1. Init => DiskIsPlanned /\ FinishedInv BY DEF Init, DiskIsPlanned, FinishedInv
  <2> QED BY <2>1, NamesInit, InputsInit, DiskInit, SourcesInit, OneInputInit, PlanInit
<1>2. BaseInv /\ Inv /\ [Next]_vars => Inv'
  BY NamesNext, InputsNext, DiskNext, SourcesNext, OneInputNext, PlanNext, DiskIsPlannedNext,
     FinishedNext
<1>3. BaseInv /\ Inv => SuccessIsComplete BY SuccessHasAll
<1> QED BY <1>1, <1>2, <1>3, BaseTheorem, PTL DEF Spec

=============================================================================

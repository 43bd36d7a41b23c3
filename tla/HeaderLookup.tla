--------------------------- MODULE HeaderLookup ---------------------------
(***************************************************************************)
(* Finding the file a #include, #include_next or #pragma GCC dependency    *)
(* names: the directory of the includer, the search path with its cache of *)
(* earlier lookups, the map from framework names to their directories, the *)
(* subframeworks of the headers on the include stack, and the system       *)
(* header characteristic a file gets from where it was found.              *)
(*                                                                         *)
(* The file system does not change during a translation (FileManager       *)
(* remembers what it found).  Which directive comes next is arbitrary, and *)
(* so is the answer of ShouldEnterIncludeFile, which PPDirectives models.  *)
(***************************************************************************)
EXTENDS Integers, Sequences, FiniteSetsExt

CONSTANTS
  NumDirs,       \* SearchDirs.size()
  SearchDirs,    \* the search path: what DirectoryLookup records of each entry
  SystemDirIdx,  \* where the search for <x> starts
  NoCurDirSearch,
  Names,         \* what directives ask for
  Absolute,      \* the names that start with a slash
  Frameworks,    \* framework names: what stands before the slash of a name
  FrameworkOf,   \* the framework a name mentions, or NoFramework
  NoFramework,
  Files, NoFile, MainFile, Predefines,
  Bundles,       \* the outermost X.framework directories headers lie in
  NoBundle,
  Unknown,       \* a null entry of FrameworkMap
  FileSystems,   \* the file systems considered
  MaxAllowedIncludeStackDepth

Dirs == 0 .. NumDirs - 1
NoDir == -1      \* the null DirectoryLookup pointer

(* SrcMgr::CharacteristicKind *)
C_User == 0
C_System == 1
C_ExternCSystem == 2
Characteristics == {C_User, C_System, C_ExternCSystem}

(* Directory and header map entries both answer a name with a file.  A     *)
(* header of a framework is looked for in Headers, then PrivateHeaders:    *)
(* inDir and inSub tell which file that is.                                *)
FileOrNone == Files \cup {NoFile}

FileSystem ==
  [inDir : [Dirs -> [Names -> FileOrNone]],
   hasFramework : [Dirs -> SUBSET Frameworks],
   beside : [Files -> [Names -> FileOrNone]],
   absolute : [Names -> FileOrNone],
   bundle : [Files -> Bundles \cup {NoBundle}],
   hasSubframework : [Bundles -> SUBSET Frameworks],
   inSub : [Bundles -> [Names -> FileOrNone]]]

ASSUME SearchPathAssumption ==
  /\ NumDirs \in Nat
  /\ SearchDirs \in [Dirs -> [isFramework : BOOLEAN,
                              DirCharacteristic : Characteristics]]
  /\ SystemDirIdx \in 0..NumDirs
  /\ NoCurDirSearch \in BOOLEAN

ASSUME NamesAssumption ==
  /\ Absolute \subseteq Names
  /\ FrameworkOf \in [Names -> Frameworks \cup {NoFramework}]
  /\ NoFramework \notin Frameworks

(* FrameworkMap holds search directories and subframework directories; the *)
(* latter are named by the bundle they lie in.                             *)
ASSUME FilesAssumption ==
  /\ MainFile \in Files
  /\ NoFile \notin Files /\ Predefines \notin Files
  /\ Unknown \notin Dirs \cup Bundles
  /\ NoBundle \notin Bundles
  /\ Dirs \cap Bundles = {}

(* A header of a framework lies in the directory of that framework.        *)
ASSUME FileSystemsAssumption ==
  /\ FileSystems \subseteq FileSystem
  /\ \A d \in FileSystems, n \in Names :
       /\ \A i \in Dirs :
            SearchDirs[i].isFramework /\ d.inDir[i][n] # NoFile
              => FrameworkOf[n] \in d.hasFramework[i]
       /\ \A b \in Bundles :
            d.inSub[b][n] # NoFile => FrameworkOf[n] \in d.hasSubframework[b]

ASSUME DepthAssumption == MaxAllowedIncludeStackDepth \in Nat \ {0, 1}

VARIABLES
  fs,                 \* rigid: the file system
  CurPPLexer,         \* the file being read
  IncludeMacroStack,  \* its includers
  LookupFileCache,    \* HeaderSearch: start + 1 and result of the last search
  FrameworkMap,       \* HeaderSearch: where each framework is, if known
  DirInfo,            \* HeaderSearch: PerFileInfo::DirInfo of each file
  eof,                \* the end of the main file was reached
  answers,            \* history: what each search was answered
  homes               \* history: where headers of each framework were found

vars == <<fs, CurPPLexer, IncludeMacroStack, LookupFileCache, FrameworkMap,
          DirInfo, eof, answers, homes>>

(* CurDirLookup is kept with the lexer it belongs to.  "next" and "marked" *)
(* are history: the file was entered by #include_next from a search        *)
(* directory; it was marked by #pragma GCC system_header.                  *)
Lexer == [file : Files \cup {Predefines}, CurDirLookup : Dirs \cup {NoDir},
          FileCharacter : Characteristics, next : BOOLEAN, marked : BOOLEAN]

NotSearched == -1

-----------------------------------------------------------------------------
(* The search path                                                         *)

(* The first framework directory at or after start that has framework F.   *)
FirstWithFramework(start, F) ==
  Min({i \in start..NumDirs :
         i < NumDirs => SearchDirs[i].isFramework /\ F \in fs.hasFramework[i]})

(* DoFrameworkLookup only looks in the directory recorded for a framework; *)
(* the first one in which it finds the framework is recorded.              *)
(* Mutant: the recorded directory is not asked for.                        *)
HomeOf_IgnoresMap(F, start) == FirstWithFramework(start, F)

HomeOf(F, start) ==
  IF FrameworkMap[F] # Unknown THEN FrameworkMap[F]
                               ELSE FirstWithFramework(start, F)

DoFrameworkLookup(n, start, i) ==
  /\ FrameworkOf[n] # NoFramework
  /\ HomeOf(FrameworkOf[n], start) = i
  /\ fs.inDir[i][n] # NoFile

(* DirectoryLookup::LookupFile of SearchDirs[i], in a search from start.   *)
FoundIn(n, start, i) ==
  IF SearchDirs[i].isFramework THEN DoFrameworkLookup(n, start, i)
                               ELSE fs.inDir[i][n] # NoFile

(* The loop of HeaderSearch::LookupFile: the entry it stops at.            *)
SearchStop(n, start) ==
  Min({i \in start..NumDirs : i < NumDirs => FoundIn(n, start, i)})

(* FrameworkMap after that loop.                                           *)
(* Mutant: a framework whose header was not found is not recorded.         *)
MapAfterSearch_OnlyIfFound(n, start) ==
  LET F == FrameworkOf[n]
  IN  IF /\ F # NoFramework
         /\ FrameworkMap[F] = Unknown
         /\ FirstWithFramework(start, F) < NumDirs
         /\ FirstWithFramework(start, F) = SearchStop(n, start)
        THEN [FrameworkMap EXCEPT ![F] = FirstWithFramework(start, F)]
        ELSE FrameworkMap

MapAfterSearch(n, start) ==
  LET F == FrameworkOf[n]
  IN  IF /\ F # NoFramework
         /\ FrameworkMap[F] = Unknown
         /\ FirstWithFramework(start, F) < NumDirs
         /\ FirstWithFramework(start, F) <= SearchStop(n, start)
        THEN [FrameworkMap EXCEPT ![F] = FirstWithFramework(start, F)]
        ELSE FrameworkMap

(* Where a search begins, and where the cache lets it begin.               *)
StartOf(angled, FromDir) ==
  IF FromDir # NoDir THEN FromDir ELSE IF angled THEN SystemDirIdx ELSE 0

(* Mutant: a cached result is used for a search from any start.            *)
CachedStart_AnyStart(n, start) ==
  IF LookupFileCache[n].first # 0 THEN LookupFileCache[n].second ELSE start

CachedStart(n, start) ==
  IF LookupFileCache[n].first = start + 1 THEN LookupFileCache[n].second
                                          ELSE start

-----------------------------------------------------------------------------
(* Subframeworks                                                           *)

(* The files of the lexers from the current one down to the bottom of the  *)
(* include stack.                                                          *)
Lexers == Append(IncludeMacroStack, CurPPLexer)
WalkDown == {k \in DOMAIN Lexers : Lexers[k].file \in Files}
BundleAt(k) == fs.bundle[Lexers[k].file]

(* LookupSubframeworkHeader with the file of lexer k as context.  The test *)
(* for "some other location" compares a framework name with the path of a  *)
(* directory, of another length, and never fails a lookup.                 *)
HasSubframework(n, k) ==
  /\ FrameworkOf[n] # NoFramework
  /\ BundleAt(k) # NoBundle
  /\ FrameworkOf[n] \in fs.hasSubframework[BundleAt(k)]

FoundInSubframework(n, k) ==
  HasSubframework(n, k) /\ fs.inSub[BundleAt(k)][n] # NoFile

(* The walk ends at the topmost hit, or at the bottom (0).                 *)
WalkEnd(n) == Max({0} \cup {k \in WalkDown : FoundInSubframework(n, k)})

(* The map after the walk, given the map before it: the first subframework *)
(* directory met is recorded for a framework that is still unknown.        *)
MapAfterWalk(map, n) ==
  LET met == {k \in WalkDown : k >= WalkEnd(n) /\ HasSubframework(n, k)}
  IN  IF met # {} /\ map[FrameworkOf[n]] = Unknown
        THEN [map EXCEPT ![FrameworkOf[n]] = BundleAt(Max(met))]
        ELSE map

-----------------------------------------------------------------------------
(* Directives                                                              *)

(* The rest of HandleIncludeDirective, once the file is found.             *)
EnterFile(f, CurDir, FromDir, enter) ==
  IF enter
    THEN /\ IncludeMacroStack' = Lexers
         /\ CurPPLexer' = [file |-> f, CurDirLookup |-> CurDir,
                           FileCharacter |->
                             Max({DirInfo'[f], CurPPLexer.FileCharacter}),
                           next |-> FromDir # NoDir, marked |-> FALSE]
    ELSE UNCHANGED <<IncludeMacroStack, CurPPLexer>>

(* An absolute name is not searched for.                                   *)
FindAbsolute(n, FromDir, enter) ==
  /\ n \in Absolute /\ FromDir = NoDir
  /\ fs.absolute[n] # NoFile
  /\ UNCHANGED <<LookupFileCache, FrameworkMap, DirInfo, answers, homes>>
  /\ EnterFile(fs.absolute[n], NoDir, FromDir, enter)

(* Beside the includer: CurDir stays what it is for the includer.  The     *)
(* predefines buffer stands for the main file.                             *)
CurFileEnt ==
  IF CurPPLexer.file = Predefines THEN MainFile ELSE CurPPLexer.file

LiesBeside(n, angled, FromDir) ==
  /\ FromDir = NoDir /\ ~angled /\ ~NoCurDirSearch
  /\ fs.beside[CurFileEnt][n] # NoFile

FindBeside(n, angled, FromDir, enter) ==
  LET f == fs.beside[CurFileEnt][n]
  IN  /\ n \notin Absolute
      /\ LiesBeside(n, angled, FromDir)
      /\ DirInfo' = [DirInfo EXCEPT ![f] = DirInfo[CurFileEnt]]
      /\ UNCHANGED <<LookupFileCache, FrameworkMap, answers, homes>>
      /\ EnterFile(f, CurPPLexer.CurDirLookup, FromDir, enter)

(* A search that starts or, with the help of the cache, resumes at "from"  *)
(* and stops at "stop".                                                    *)
Searches(n, angled, FromDir) ==
  n \notin Absolute /\ ~LiesBeside(n, angled, FromDir)

CacheSearch(n, start, stop) ==
  /\ LookupFileCache' = [LookupFileCache EXCEPT
                           ![n] = [first |-> start + 1, second |-> stop]]
  /\ answers' = [answers EXCEPT ![n][start] = stop]

FindInSearchDirs(n, angled, FromDir, enter) ==
  LET start == StartOf(angled, FromDir)
      from == CachedStart(n, start)
      stop == SearchStop(n, from)
      f == fs.inDir[stop][n]
  IN  /\ Searches(n, angled, FromDir) /\ stop # NumDirs
      /\ CacheSearch(n, start, stop)
      /\ FrameworkMap' = MapAfterSearch(n, from)
      /\ DirInfo' = [DirInfo EXCEPT ![f] = SearchDirs[stop].DirCharacteristic]
      /\ homes' = IF SearchDirs[stop].isFramework
                    THEN [homes EXCEPT ![FrameworkOf[n]] = @ \cup {stop}]
                    ELSE homes
      /\ EnterFile(f, stop, FromDir, enter)

(* The search path has no such file: the subframeworks of the includers    *)
(* are tried.                                                              *)
MissInSearchDirs(n, angled, FromDir) ==
  LET start == StartOf(angled, FromDir)
      from == CachedStart(n, start)
  IN  /\ Searches(n, angled, FromDir) /\ SearchStop(n, from) = NumDirs
      /\ CacheSearch(n, start, NumDirs)
      /\ FrameworkMap' = MapAfterWalk(MapAfterSearch(n, from), n)

FindInSubframework(n, angled, FromDir, enter) ==
  LET k == WalkEnd(n)
      f == fs.inSub[BundleAt(k)][n]
  IN  /\ MissInSearchDirs(n, angled, FromDir) /\ k # 0
      /\ DirInfo' = [DirInfo EXCEPT ![f] = DirInfo[Lexers[k].file]]
      /\ homes' = [homes EXCEPT ![FrameworkOf[n]] = @ \cup {BundleAt(k)}]
      /\ EnterFile(f, NoDir, FromDir, enter)

FindNowhere(n, angled, FromDir) ==
  /\ MissInSearchDirs(n, angled, FromDir) /\ WalkEnd(n) = 0
  /\ UNCHANGED <<CurPPLexer, IncludeMacroStack, DirInfo, homes>>

(* Preprocessor::LookupFile and what follows.  A file that is not found is *)
(* diagnosed; where nothing else changes that is a stuttering step.        *)
LookupFile(n, angled, FromDir, enter) ==
  /\ \/ FindAbsolute(n, FromDir, enter)
     \/ FindBeside(n, angled, FromDir, enter)
     \/ FindInSearchDirs(n, angled, FromDir, enter)
     \/ FindInSubframework(n, angled, FromDir, enter)
     \/ FindNowhere(n, angled, FromDir)
  /\ UNCHANGED <<fs, eof>>

(* #include and #import.  Beyond the depth limit nothing is looked up.     *)
BelowDepthLimit == Len(IncludeMacroStack) # MaxAllowedIncludeStackDepth - 1

HandleIncludeDirective(n, angled, enter) ==
  ~eof /\ BelowDepthLimit /\ LookupFile(n, angled, NoDir, enter)

isInPrimaryFile == IncludeMacroStack = <<>>

(* Mutant: the directory of the current file is searched again.            *)
IncludeNextFrom_SameDir ==
  IF isInPrimaryFile THEN NoDir ELSE CurPPLexer.CurDirLookup

IncludeNextFrom ==
  IF isInPrimaryFile \/ CurPPLexer.CurDirLookup = NoDir
    THEN NoDir ELSE CurPPLexer.CurDirLookup + 1

(* The predefines buffer holds -include and -imacros requests and macro    *)
(* definitions only.                                                       *)
InAFile == ~eof /\ CurPPLexer.file \in Files

HandleIncludeNextDirective(n, angled, enter) ==
  InAFile /\ BelowDepthLimit /\ LookupFile(n, angled, IncludeNextFrom, enter)

(* The lookup of #pragma GCC dependency enters no file.                    *)
HandlePragmaDependency(n, angled) ==
  InAFile /\ LookupFile(n, angled, NoDir, FALSE)

(* Only HeaderSearch is told: the FileID of the file being read keeps its  *)
(* characteristic.                                                         *)
HandlePragmaSystemHeader ==
  /\ InAFile /\ ~isInPrimaryFile
  /\ DirInfo' = [DirInfo EXCEPT ![CurPPLexer.file] = C_System]
  /\ CurPPLexer' = [CurPPLexer EXCEPT !.marked = TRUE]
  /\ UNCHANGED <<fs, IncludeMacroStack, LookupFileCache, FrameworkMap, eof,
                 answers, homes>>

(* The includer and its CurDirLookup come back.                            *)
HandleEndOfFile ==
  /\ ~eof
  /\ IF isInPrimaryFile
       THEN eof' = TRUE /\ UNCHANGED <<CurPPLexer, IncludeMacroStack>>
       ELSE /\ CurPPLexer' = IncludeMacroStack[Len(IncludeMacroStack)]
            /\ IncludeMacroStack' = SubSeq(IncludeMacroStack, 1,
                                           Len(IncludeMacroStack) - 1)
            /\ UNCHANGED eof
  /\ UNCHANGED <<fs, LookupFileCache, FrameworkMap, DirInfo, answers, homes>>

Terminated == eof /\ UNCHANGED vars

(* EnterMainSourceFile: the predefines buffer is read first, on top of the *)
(* main file.                                                              *)
NewLexer(f) ==
  [file |-> f, CurDirLookup |-> NoDir, FileCharacter |-> C_User,
   next |-> FALSE, marked |-> FALSE]

Init ==
  /\ fs \in FileSystems
  /\ CurPPLexer = NewLexer(Predefines)
  /\ IncludeMacroStack = <<NewLexer(MainFile)>>
  /\ LookupFileCache = [n \in Names |-> [first |-> 0, second |-> 0]]
  /\ FrameworkMap = [F \in Frameworks |-> Unknown]
  /\ DirInfo = [f \in Files |-> C_User]
  /\ eof = FALSE
  /\ answers = [n \in Names |-> [s \in 0..NumDirs |-> NotSearched]]
  /\ homes = [F \in Frameworks |-> {}]

Next ==
  \/ \E n \in Names, angled \in BOOLEAN, enter \in BOOLEAN :
       \/ HandleIncludeDirective(n, angled, enter)
       \/ HandleIncludeNextDirective(n, angled, enter)
  \/ \E n \in Names, angled \in BOOLEAN : HandlePragmaDependency(n, angled)
  \/ HandlePragmaSystemHeader
  \/ HandleEndOfFile
  \/ Terminated

Spec == Init /\ [][Next]_vars
-----------------------------------------------------------------------------
(* Properties                                                              *)

TypeOK ==
  /\ fs \in FileSystems
  /\ CurPPLexer \in Lexer
  /\ IncludeMacroStack \in Seq(Lexer)
  /\ LookupFileCache \in [Names -> [first : 0..NumDirs + 1,
                                    second : 0..NumDirs]]
  /\ FrameworkMap \in [Frameworks -> Dirs \cup Bundles \cup {Unknown}]
  /\ DirInfo \in [Files -> Characteristics]
  /\ eof \in BOOLEAN
  /\ answers \in [Names -> [0..NumDirs -> 0..NumDirs \cup {NotSearched}]]
  /\ homes \in [Frameworks -> SUBSET (Dirs \cup Bundles)]

(* The cache of HeaderSearch::LookupFile cannot be told from no cache: the *)
(* remembered result of a search is what the whole search from the same    *)
(* start would give now, although other lookups have filled FrameworkMap   *)
(* since, which hides frameworks in other directories from searches.       *)
CacheTransparent ==
  \A n \in Names :
    LookupFileCache[n].first # 0 =>
      SearchStop(n, LookupFileCache[n].first - 1) = LookupFileCache[n].second

(* A search of the same name from the same start is answered the same way  *)
(* throughout a translation, whatever was looked up in between, whether or *)
(* not the cache still held the answer: HeaderSearch::LookupFile.          *)
AnswersStable ==
  [][\A n \in Names, s \in 0..NumDirs :
       answers[n][s] # NotSearched => answers'[n][s] = answers[n][s]]_vars

(* All headers of a framework that the search path finds come from one     *)
(* directory: once DoFrameworkLookup recorded a directory, the same        *)
(* framework in another one is never used, from any start.                 *)
FrameworkFoundInOneDir ==
  \A F \in Frameworks : \A i, j \in homes[F] \cap Dirs : i = j

(* What is said of frameworks ("Some other location?" in                   *)
(* LookupSubframeworkHeader): a header of a framework is taken from the    *)
(* place recorded for the framework, also when it is a subframework.       *)
FrameworkFoundInOnePlace ==
  \A F \in Frameworks : homes[F] \subseteq {FrameworkMap[F]}

(* A file reached by #include_next through the search path lies strictly   *)
(* behind the directory its includer was found in: headers that            *)
(* #include_next their own name walk down the path and cannot recur.       *)
IncludeNextAdvances ==
  \A k \in 1..Len(IncludeMacroStack) :
    LET lx == Lexers[k + 1]
    IN  lx.next /\ lx.CurDirLookup # NoDir
          => lx.CurDirLookup > Lexers[k].CurDirLookup

(* What is said of #pragma system_header ("marks the current file as a     *)
(* system header, which silences warnings in it"): the file being read has *)
(* a system characteristic from then on.                                   *)
SystemHeaderPragmaMarksFile ==
  CurPPLexer.marked => CurPPLexer.FileCharacter # C_User
=============================================================================

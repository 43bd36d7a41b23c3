----------------------- MODULE MultiTestRunnerProofs -----------------------
(***************************************************************************)
(* What holds of the parallel test harness for every number of threads, of *)
(* tests and of output directories: no test is run twice, no mkdir_p fails *)
(* because of another thread, and what the user reads is right.            *)
(*                                                                         *)
(* None of the three is inductive.  IInv adds who holds the locks, which   *)
(* tests are handed out, where each result is between runOneTest and       *)
(* setResult, the chain of calls mkdir_p is in, and whose report is half   *)
(* printed.                                                                *)
(***************************************************************************)
EXTENDS MultiTestRunner, Integers, SequencesExt, SequenceTheorems, TLAPS

-----------------------------------------------------------------------------
(* Sequences                                                               *)

(* What appending one element to a sequence gives.                         *)
LEMMA AppendFacts ==
  ASSUME NEW S, NEW s \in Seq(S), NEW e \in S
  PROVE  /\ Append(s, e) \in Seq(S)
         /\ Len(Append(s, e)) = Len(s) + 1
         /\ \A i \in 1..Len(s) : Append(s, e)[i] = s[i]
         /\ Append(s, e)[Len(s) + 1] = e
  OBVIOUS

(* Head and Tail of a non-empty sequence.                                  *)
LEMMA HeadTail ==
  ASSUME NEW S, NEW s \in Seq(S), s # <<>>
  PROVE  /\ Head(s) \in S /\ Head(s) = s[1]
         /\ Tail(s) \in Seq(S)
         /\ Len(s) \in Nat \ {0}
         /\ Len(Tail(s)) = Len(s) - 1
         /\ \A i \in 1..Len(s) - 1 : Tail(s)[i] = s[i + 1]
  <1>1. Len(s) \in Nat \ {0} /\ DOMAIN s = 1..Len(s)
    BY EmptySeq, LenProperties
  <1>2. /\ Head(s) \in S /\ Tail(s) \in Seq(S)
        /\ Len(Tail(s)) = Len(s) - 1
        /\ \A i \in 1..Len(Tail(s)) : Tail(s)[i] = s[i + 1]
    BY HeadTailProperties
  <1>3. Head(s) = s[1]
    OBVIOUS
  <1> QED
    BY <1>1, <1>2, <1>3

----------------------------------------------------------------------------
(* The inductive invariant.                                                *)

(* A lock is held exactly in the statements it guards.                     *)
LocksHeld ==
  \A t \in Testers :
    /\ lock = t <=> pc[t] \in {"locked", "taken"}
    /\ displayLock = t <=> pc[t] \in {"handleUpdate", "details"}

(* The threads whose test has no result yet.                               *)
Unfinished(t) == pc[t] \in {"taken", "exists", "mkdir", "run", "setResult"}

(* The tests before index are handed out; the one being taken is not.      *)
ItemsHandedOut ==
  /\ \A t \in Testers : pc[t] = "taken" => item[t] = index /\ index <= NumTests
  /\ \A t \in Testers :
       Working(t) /\ pc[t] # "taken" => item[t] \in Tests /\ item[t] < index

(* A test that was handed out has its result, or the thread that took it   *)
(* is still to store it, or died.                                          *)
NoneIsForgotten ==
  \A i \in Tests :
    i < index /\ results[i] = NoResult =>
      \E t \in Testers : item[t] = i /\ (Unfinished(t) \/ pc[t] = "raised")

(* A stored result is the code runOneTest returned; a code that is not     *)
(* stored yet waits in setResult.                                          *)
ResultsAreCodes ==
  /\ \A t \in Testers : Unfinished(t) => results[item[t]] = NoResult
  /\ \A t \in Testers : pc[t] = "setResult" => code[item[t]] # NoResult
  /\ \A i \in Tests : results[i] # NoResult => results[i] = code[i]
  /\ \A i \in Tests :
       code[i] # NoResult /\ results[i] = NoResult =>
         \E t \in Testers : pc[t] = "setResult" /\ item[t] = i

(* A thread leaves its loop only when get has nothing for anybody.         *)
DoneForAll ==
  \A t \in Testers : pc[t] = "done" => timeUp \/ index > NumTests

(* The calls of mkdir_p that a thread is in lead from a directory to its   *)
(* parent, and a call that is about to create a directory has its parent.  *)
Climbs(t) ==
  /\ paths[t] # <<>>
  /\ paths[t][Len(paths[t])] = OutputDir[item[t]]
  /\ \A k \in 1..Len(paths[t]) - 1 : ParentOf[paths[t][k + 1]] = paths[t][k]

PathsOf(t) ==
  /\ pc[t] \in {"exists", "mkdir"} => Climbs(t)
  /\ pc[t] = "mkdir" => ParentOf[Head(paths[t])] \in dirs \cup {NoDir}
  /\ pc[t] = "run" => OutputDir[item[t]] \in dirs

PathsClimb == \A t \in Testers : PathsOf(t)

(* A report that is being printed has its first lines on the screen, last. *)
HalfReport(t) == screen # <<>> /\ screen[Len(screen)] = Line(item[t], "head")

ScreenPaired ==
  /\ ReportsNotInterleaved
  /\ \A t \in Testers : pc[t] = "details" => HalfReport(t)

(* main prints what is stored, once all threads have ended.                *)
SummaryOfResults ==
  summary.printed =>
    /\ \A t \in Testers : Ended(t)
    /\ summary.failures = WithCode("Fail")
    /\ summary.xpasses = WithCode("XPass")

IInv ==
  /\ TypeOK /\ LocksHeld /\ ItemsHandedOut /\ OneTesterPerTest
  /\ NoneIsForgotten /\ ResultsAreCodes /\ DoneForAll
  /\ PathsClimb /\ ScreenPaired /\ SummaryOfResults

----------------------------------------------------------------------------
(* A call of mkdir_p for the parent, put before the calls it is made from. *)
LEMMA PushFacts ==
  ASSUME NEW S, NEW s \in Seq(S), NEW e \in S
  PROVE  /\ <<e>> \o s \in Seq(S)
         /\ Len(<<e>> \o s) = Len(s) + 1
         /\ (<<e>> \o s)[1] = e
         /\ \A k \in 1..Len(s) : (<<e>> \o s)[k + 1] = s[k]
  <1> DEFINE u == <<e>>
  <1>1. u \in Seq(S) /\ Len(u) = 1 /\ u[1] = e
    OBVIOUS
  <1> HIDE DEF u
  <1>2. /\ u \o s \in Seq(S) /\ Len(u \o s) = Len(u) + Len(s)
        /\ \A k \in 1..Len(u) + Len(s) :
             (u \o s)[k] = IF k <= Len(u) THEN u[k] ELSE s[k - Len(u)]
    BY <1>1, ConcatProperties
  <1>3. Len(s) \in Nat
    BY LenProperties
  <1> DEFINE r == u \o s
  <1> HIDE DEF r
  <1>4. r[1] = e /\ Len(r) = Len(s) + 1
    BY <1>1, <1>2, <1>3 DEF r
  <1>5. \A k \in 1..Len(s) : r[k + 1] = s[k]
    BY <1>1, <1>2, <1>3 DEF r
  <1>6. r \in Seq(S)
    BY <1>2 DEF r
  <1> QED BY <1>4, <1>5, <1>6 DEF r, u

----------------------------------------------------------------------------
(* Every variable has its type, and keeps it.                              *)

LEMMA InitIInv == Init => IInv
  <1> SUFFICES ASSUME Init PROVE IInv
    OBVIOUS
  <1>1. TypeOK
    <2>1. /\ index \in 1..NumTests + 1 /\ progress \in 0..NumTests
          /\ paths \in [Testers -> Seq(Dirs)] /\ screen \in Seq(Lines)
      BY TestsAssumption DEF Init
    <2>2. summary \in [printed : BOOLEAN, xfails : SUBSET Tests,
                      xpasses : SUBSET Tests, failures : SUBSET Tests]
      BY DEF Init, NoSummary
    <2> QED BY <2>1, <2>2 DEF Init, TypeOK, Labels
  <1>2. LocksHeld
    BY TestersAssumption DEF Init, LocksHeld
  <1>3. /\ ItemsHandedOut /\ OneTesterPerTest /\ NoneIsForgotten
        /\ ResultsAreCodes /\ DoneForAll
    BY TestsAssumption DEF Init, ItemsHandedOut, OneTesterPerTest, NoneIsForgotten,
       ResultsAreCodes, DoneForAll, Working, Unfinished, Tests
  <1>4. PathsClimb
    BY DEF Init, PathsClimb, PathsOf
  <1>5. ScreenPaired
    BY DEF Init, ScreenPaired, ReportsNotInterleaved
  <1>6. SummaryOfResults
    BY DEF Init, SummaryOfResults, NoSummary
  <1> QED
    BY <1>1, <1>2, <1>3, <1>4, <1>5, <1>6 DEF IInv

(* What runOneTest returns.                                                *)
LEMMA VerdictType ==
  ASSUME NEW i \in Tests, NEW scriptFails, NEW vgWrites
  PROVE  Verdict(i, scriptFails, vgWrites) \in TestStatus
  BY DEF Verdict, TestStatus

LEMMA TypeStep == IInv /\ [Next]_vars => TypeOK'
  <1> SUFFICES ASSUME IInv, [Next]_vars PROVE TypeOK'
    OBVIOUS
  <1>0. TypeOK /\ ItemsHandedOut /\ PathsClimb
    BY DEF IInv
  <1>1. ASSUME NEW t \in Testers, Working(t) PROVE item[t] \in Tests
    BY <1>0, <1>1 DEF ItemsHandedOut, TypeOK, Tests
  <1> USE DEF Goto, Labels
  <1>2. ASSUME NEW t \in Testers, AcquireProvider(t) PROVE TypeOK'
    BY <1>0, <1>2 DEF AcquireProvider, TypeOK
  <1>3. ASSUME NEW t \in Testers, TakeNothing(t) PROVE TypeOK'
    BY <1>0, <1>3 DEF TakeNothing, TypeOK
  <1>4. ASSUME NEW t \in Testers, TakeItem(t) PROVE TypeOK'
    <2>1. index \in Tests
      BY <1>0, <1>4, TestsAssumption DEF TakeItem, TypeOK, Tests
    <2> QED BY <1>0, <1>4, <2>1 DEF TakeItem, TypeOK
  <1>5. ASSUME NEW t \in Testers, AdvanceIndex(t) PROVE TypeOK'
    <2>1. item[t] \in Tests /\ index <= NumTests
      BY <1>0, <1>1, <1>5 DEF AdvanceIndex, Working, ItemsHandedOut
    <2>2. index + 1 \in 1..NumTests + 1
      BY <1>0, <2>1, TestsAssumption DEF TypeOK
    <2>3. <<OutputDir[item[t]]>> \in Seq(Dirs)
      BY <2>1, TestsAssumption
    <2> QED BY <1>0, <1>5, <2>2, <2>3 DEF AdvanceIndex, TypeOK
  <1>6. ASSUME NEW t \in Testers, RecurseOnParent(t) PROVE TypeOK'
    <2> DEFINE path == Head(paths[t])
    <2>1. paths[t] \in Seq(Dirs) /\ paths[t] # <<>>
      BY <1>0, <1>6 DEF TypeOK, PathsClimb, PathsOf, Climbs, RecurseOnParent
    <2>2. path \in Dirs
      BY <2>1, HeadTail
    <2>3. CASE ParentOf[path] = NoDir
      BY <1>0, <1>6, <2>3 DEF RecurseOnParent, TypeOK
    <2>4. CASE ParentOf[path] # NoDir
      <3>1. <<ParentOf[path]>> \o paths[t] \in Seq(Dirs)
        <4>1. ParentOf[path] \in Dirs
          BY <2>2, <2>4, DirsAssumption
        <4> QED BY <2>1, <4>1, PushFacts
      <3> DEFINE up == <<ParentOf[path]>> \o paths[t]
      <3>2. pc' = pc /\ paths' = [paths EXCEPT ![t] = up]
        BY <1>6, <2>4 DEF RecurseOnParent
      <3>3. up \in Seq(Dirs)
        BY <3>1
      <3> HIDE DEF up, path
      <3>4. paths' \in [Testers -> Seq(Dirs)]
        BY <1>0, <3>2, <3>3 DEF TypeOK
      <3> QED BY <1>0, <1>6, <3>2, <3>4 DEF RecurseOnParent, TypeOK
    <2> QED BY <2>3, <2>4
  <1>7. ASSUME NEW t \in Testers, DirectoryExists(t) PROVE TypeOK'
    <2>1. paths[t] \in Seq(Dirs) /\ paths[t] # <<>>
      BY <1>0, <1>7 DEF TypeOK, PathsClimb, PathsOf, Climbs, DirectoryExists
    <2>2. Tail(paths[t]) \in Seq(Dirs)
      BY <2>1, HeadTail
    <2> QED BY <1>0, <1>7, <2>2 DEF DirectoryExists, TypeOK
  <1>8. ASSUME NEW t \in Testers, MakeDirectory(t) PROVE TypeOK'
    <2>1. paths[t] \in Seq(Dirs) /\ paths[t] # <<>>
      BY <1>0, <1>8 DEF TypeOK, PathsClimb, PathsOf, Climbs, MakeDirectory
    <2>2. Tail(paths[t]) \in Seq(Dirs) /\ Head(paths[t]) \in Dirs
      BY <2>1, HeadTail
    <2> QED BY <1>0, <1>8, <2>2 DEF MakeDirectory, TypeOK
  <1>9. ASSUME NEW t \in Testers, MakeDirectoryRaises(t) \/ RunOneTestRaises(t)
        PROVE  TypeOK'
    BY <1>0, <1>9 DEF MakeDirectoryRaises, RunOneTestRaises, TypeOK
  <1>10. ASSUME NEW t \in Testers, RunOneTest(t) PROVE TypeOK'
    <2>1. item[t] \in Tests
      BY <1>1, <1>10 DEF RunOneTest, Working
    <2>2. PICK scriptFails \in BOOLEAN, vgWrites \in {FALSE, UseValgrind} :
            code' = [code EXCEPT ![item[t]] = Verdict(item[t], scriptFails, vgWrites)]
      BY <1>10 DEF RunOneTest
    <2>3. Verdict(item[t], scriptFails, vgWrites) \in TestStatus
      BY <2>1, VerdictType
    <2>4. code' \in [Tests -> TestStatus \cup {NoResult}]
      BY <1>0, <2>2, <2>3 DEF TypeOK
    <2> QED BY <1>0, <1>10, <2>4 DEF RunOneTest, TypeOK
  <1>11. ASSUME NEW t \in Testers, SetResult(t) PROVE TypeOK'
    <2>1. item[t] \in Tests
      BY <1>1, <1>11 DEF SetResult, Working
    <2>2. results' \in [Tests -> TestStatus \cup {NoResult}]
      BY <1>0, <1>11, <2>1 DEF SetResult, TypeOK
    <2> QED BY <1>0, <1>11, <2>2 DEF SetResult, TypeOK
  <1>12. ASSUME NEW t \in Testers, AcquireDisplay(t) PROVE TypeOK'
    BY <1>0, <1>12 DEF AcquireDisplay, TypeOK
  <1>13. ASSUME NEW t \in Testers, ShowProgress(t) PROVE TypeOK'
    <2>1. item[t] \in Tests
      BY <1>1, <1>13 DEF ShowProgress, Working
    <2>2. progress' \in 0..NumTests
      BY <1>0, <1>13, <2>1, TestsAssumption DEF ShowProgress, ProgressWith, TypeOK, Tests
    <2> QED BY <1>0, <1>13, <2>2 DEF ShowProgress, TypeOK
  <1>14. ASSUME NEW t \in Testers, ReportFailure(t) \/ ReportDetails(t) PROVE TypeOK'
    <2>1. item[t] \in Tests
      BY <1>1, <1>14 DEF ReportFailure, ReportDetails, Working
    <2>2. PICK line \in Lines : screen' = Append(screen, line)
      BY <1>14, <2>1 DEF ReportFailure, ReportDetails, Line, Lines
    <2>3. screen' \in Seq(Lines)
      BY <1>0, <2>2, AppendFacts DEF TypeOK
    <2> QED BY <1>0, <1>14, <2>3 DEF ReportFailure, ReportDetails, TypeOK
  <1>18. ASSUME NEW t \in Testers, HandleUpdateRaises(t) PROVE TypeOK'
    <2>1. item[t] \in Tests
      BY <1>1, <1>18 DEF HandleUpdateRaises, Working
    <2>2. progress' \in 0..NumTests
      BY <1>0, <1>18, <2>1, TestsAssumption DEF HandleUpdateRaises, ProgressWith, TypeOK, Tests
    <2> QED BY <1>0, <1>18, <2>2 DEF HandleUpdateRaises, TypeOK
  <1>15. CASE TimePasses
    BY <1>0, <1>15 DEF TimePasses, TypeOK
  <1>16. CASE MainSummary
    <2>1. \A c : WithCode(c) \in SUBSET Tests
      BY DEF WithCode
    <2> QED BY <1>0, <1>16, <2>1 DEF MainSummary, TypeOK
  <1>17. CASE UNCHANGED vars
    BY <1>0, <1>17 DEF vars, TypeOK
  <1> QED
    BY <1>2, <1>3, <1>4, <1>5, <1>6, <1>7, <1>8, <1>9, <1>10, <1>11, <1>12, <1>13,
       <1>14, <1>15, <1>16, <1>17, <1>18 DEF Next, TesterStep, Terminated

(***************************************************************************)
(* The locks.                                                              *)
(***************************************************************************)
LEMMA LocksStep == IInv /\ [Next]_vars => LocksHeld'
  <1> SUFFICES ASSUME IInv, [Next]_vars PROVE LocksHeld'
    OBVIOUS
  <1>0. LocksHeld /\ pc \in [Testers -> Labels] /\ NoTester \notin Testers
    BY TestersAssumption DEF IInv, TypeOK
  <1> USE DEF Goto, LocksHeld
  <1>1. ASSUME NEW t \in Testers, AcquireProvider(t) PROVE LocksHeld'
    BY <1>0, <1>1 DEF AcquireProvider
  <1>2. ASSUME NEW t \in Testers, TakeNothing(t) PROVE LocksHeld'
    BY <1>0, <1>2 DEF TakeNothing
  <1>3. ASSUME NEW t \in Testers, TakeItem(t) PROVE LocksHeld'
    BY <1>0, <1>3 DEF TakeItem
  <1>4. ASSUME NEW t \in Testers, AdvanceIndex(t) PROVE LocksHeld'
    BY <1>0, <1>4 DEF AdvanceIndex
  <1>5. ASSUME NEW t \in Testers, RecurseOnParent(t) PROVE LocksHeld'
    BY <1>0, <1>5 DEF RecurseOnParent
  <1>6. ASSUME NEW t \in Testers,
               DirectoryExists(t) \/ MakeDirectory(t) \/ MakeDirectoryRaises(t)
        PROVE  LocksHeld'
    BY <1>0, <1>6 DEF DirectoryExists, MakeDirectory, MakeDirectoryRaises
  <1>7. ASSUME NEW t \in Testers,
               RunOneTest(t) \/ RunOneTestRaises(t) \/ SetResult(t)
        PROVE  LocksHeld'
    BY <1>0, <1>7 DEF RunOneTest, RunOneTestRaises, SetResult
  <1>8. ASSUME NEW t \in Testers, AcquireDisplay(t) PROVE LocksHeld'
    BY <1>0, <1>8 DEF AcquireDisplay
  <1>9. ASSUME NEW t \in Testers, ShowProgress(t) \/ ReportDetails(t)
        PROVE  LocksHeld'
    BY <1>0, <1>9 DEF ShowProgress, ReportDetails
  <1>10. ASSUME NEW t \in Testers, ReportFailure(t) PROVE LocksHeld'
    BY <1>0, <1>10 DEF ReportFailure
  <1>11. ASSUME NEW t \in Testers, HandleUpdateRaises(t) PROVE LocksHeld'
    BY <1>0, <1>11 DEF HandleUpdateRaises
  <1>12. CASE TimePasses \/ MainSummary \/ UNCHANGED vars
    BY <1>0, <1>12 DEF TimePasses, MainSummary, vars
  <1> QED
    BY <1>1, <1>2, <1>3, <1>4, <1>5, <1>6, <1>7, <1>8, <1>9, <1>10, <1>11, <1>12
       DEF Next, TesterStep, Terminated

(***************************************************************************)
(* The tests handed out.  Most steps only move a thread on, or out.        *)
(***************************************************************************)
LEMMA ItemsStay ==
  ASSUME IInv, UNCHANGED <<item, index, results>>,
         \A u \in Testers : Working(u)' => Working(u) /\ (pc'[u] = "taken" <=> pc[u] = "taken")
  PROVE  ItemsHandedOut' /\ OneTesterPerTest'
  BY DEF IInv, ItemsHandedOut, OneTesterPerTest, Working

LEMMA ItemsStep == IInv /\ [Next]_vars => ItemsHandedOut' /\ OneTesterPerTest'
  <1> SUFFICES ASSUME IInv, [Next]_vars PROVE ItemsHandedOut' /\ OneTesterPerTest'
    OBVIOUS
  <1>0. /\ TypeOK /\ LocksHeld /\ ItemsHandedOut /\ OneTesterPerTest
        /\ pc \in [Testers -> Labels] /\ item \in [Testers -> Tests \cup {NoTest}]
        /\ index \in 1..NumTests + 1 /\ NumTests \in Nat
    BY TestsAssumption DEF IInv, TypeOK
  <1> USE DEF Goto
  <1>1. ASSUME NEW t \in Testers, TakeItem(t)
        PROVE  ItemsHandedOut' /\ OneTesterPerTest'
    <2>1. \A u \in Testers \ {t} : pc'[u] = pc[u] /\ item'[u] = item[u]
      BY <1>0, <1>1 DEF TakeItem
    <2>2. item'[t] = index /\ pc'[t] = "taken" /\ index' = index /\ results' = results
      BY <1>0, <1>1 DEF TakeItem
    <2>3. \A u \in Testers \ {t} : pc[u] # "taken"
      BY <1>0, <1>1 DEF TakeItem, LocksHeld
    <2>4. \A u \in Testers \ {t} : Working(u)' => item'[u] \in Tests /\ item'[u] < index
      BY <1>0, <2>1, <2>3 DEF ItemsHandedOut, Working
    <2>5. index <= NumTests
      BY <1>1 DEF TakeItem
    <2>6. ItemsHandedOut'
      BY <2>1, <2>2, <2>3, <2>4, <2>5 DEF ItemsHandedOut
    <2>7. OneTesterPerTest'
      BY <1>0, <2>1, <2>2, <2>4 DEF OneTesterPerTest, Working, Tests
    <2> QED BY <2>6, <2>7
  <1>2. ASSUME NEW t \in Testers, AdvanceIndex(t)
        PROVE  ItemsHandedOut' /\ OneTesterPerTest'
    <2>1. /\ \A u \in Testers \ {t} : pc'[u] = pc[u]
          /\ item' = item /\ results' = results /\ index' = index + 1
          /\ pc[t] = "taken" /\ pc'[t] = "exists"
      BY <1>0, <1>2 DEF AdvanceIndex
    <2>2. \A u \in Testers \ {t} : pc[u] # "taken"
      BY <1>0, <1>2 DEF AdvanceIndex, LocksHeld
    <2>3. item[t] = index /\ index \in Tests
      BY <1>0, <2>1 DEF ItemsHandedOut, Tests
    <2>4. \A u \in Testers : Working(u)' => Working(u)
      BY <2>1 DEF Working
    <2>5. ItemsHandedOut'
      BY <1>0, <2>1, <2>2, <2>3, <2>4 DEF ItemsHandedOut, Tests
    <2>6. OneTesterPerTest'
      BY <1>0, <2>1, <2>4 DEF OneTesterPerTest, Tests
    <2> QED BY <2>5, <2>6
  <1>3. ASSUME NEW t \in Testers, SetResult(t)
        PROVE  ItemsHandedOut' /\ OneTesterPerTest'
    <2>1. item' = item /\ index' = index
      BY <1>3 DEF SetResult
    <2>2. item[t] \in Tests /\ item[t] < index
      BY <1>0, <1>3 DEF SetResult, ItemsHandedOut, Working
    <2>3. \A i \in Tests : results'[i] # NoResult => i < index
      BY <1>0, <1>3, <2>2 DEF SetResult, OneTesterPerTest, TypeOK
    <2>4. ItemsHandedOut'
      BY <1>0, <1>3 DEF SetResult, ItemsHandedOut, Working
    <2>5. \A u \in Testers : Working(u)' => Working(u)
      BY <1>0, <1>3 DEF SetResult, Working
    <2> QED BY <1>0, <2>1, <2>3, <2>4, <2>5 DEF OneTesterPerTest
  <1>4. ASSUME NEW t \in Testers,
               AcquireProvider(t) \/ TakeNothing(t) \/ MakeDirectoryRaises(t)
                 \/ DirectoryExists(t) \/ MakeDirectory(t)
        PROVE  ItemsHandedOut' /\ OneTesterPerTest'
    <2>1. \A u \in Testers :
            Working(u)' => Working(u) /\ (pc'[u] = "taken" <=> pc[u] = "taken")
      BY <1>0, <1>4 DEF AcquireProvider, TakeNothing, MakeDirectoryRaises,
         DirectoryExists, MakeDirectory, Working
    <2>2. UNCHANGED <<item, index, results>>
      BY <1>4 DEF AcquireProvider, TakeNothing, MakeDirectoryRaises,
         DirectoryExists, MakeDirectory
    <2> QED BY <2>1, <2>2, ItemsStay
  <1>5. ASSUME NEW t \in Testers,
               RecurseOnParent(t) \/ RunOneTest(t) \/ RunOneTestRaises(t)
        PROVE  ItemsHandedOut' /\ OneTesterPerTest'
    <2>1. \A u \in Testers :
            Working(u)' => Working(u) /\ (pc'[u] = "taken" <=> pc[u] = "taken")
      BY <1>0, <1>5 DEF RecurseOnParent, RunOneTest, RunOneTestRaises, Working
    <2>2. UNCHANGED <<item, index, results>>
      BY <1>5 DEF RecurseOnParent, RunOneTest, RunOneTestRaises
    <2> QED BY <2>1, <2>2, ItemsStay
  <1>6. ASSUME NEW t \in Testers,
               AcquireDisplay(t) \/ ShowProgress(t) \/ ReportFailure(t)
                 \/ ReportDetails(t) \/ HandleUpdateRaises(t)
        PROVE  ItemsHandedOut' /\ OneTesterPerTest'
    <2>1. \A u \in Testers :
            Working(u)' => Working(u) /\ (pc'[u] = "taken" <=> pc[u] = "taken")
      BY <1>0, <1>6 DEF AcquireDisplay, ShowProgress, ReportFailure, ReportDetails,
         HandleUpdateRaises, Working
    <2>2. UNCHANGED <<item, index, results>>
      BY <1>6 DEF AcquireDisplay, ShowProgress, ReportFailure, ReportDetails, HandleUpdateRaises
    <2> QED BY <2>1, <2>2, ItemsStay
  <1>7. CASE TimePasses \/ MainSummary \/ UNCHANGED vars
    <2>1. UNCHANGED <<pc, item, index, results>>
      BY <1>7 DEF TimePasses, MainSummary, vars
    <2> QED BY <2>1, ItemsStay DEF Working
  <1> QED
    BY <1>1, <1>2, <1>3, <1>4, <1>5, <1>6, <1>7 DEF Next, TesterStep, Terminated

(***************************************************************************)
(* The results.                                                            *)
(***************************************************************************)
LEMMA ResultsStay ==
  ASSUME IInv, UNCHANGED <<item, index, results, code>>,
         \A u \in Testers :
           /\ Unfinished(u) \/ pc[u] = "raised" => Unfinished(u)' \/ pc'[u] = "raised"
           /\ Unfinished(u)' => Unfinished(u)
           /\ pc'[u] = "setResult" <=> pc[u] = "setResult"
  PROVE  NoneIsForgotten' /\ ResultsAreCodes'
  <1>1. NoneIsForgotten'
    BY DEF IInv, NoneIsForgotten
  <1>2. ResultsAreCodes'
    BY DEF IInv, ResultsAreCodes
  <1> QED BY <1>1, <1>2

LEMMA ResultsStep == IInv /\ [Next]_vars => NoneIsForgotten' /\ ResultsAreCodes'
  <1> SUFFICES ASSUME IInv, [Next]_vars PROVE NoneIsForgotten' /\ ResultsAreCodes'
    OBVIOUS
  <1>0. /\ ItemsHandedOut /\ OneTesterPerTest /\ NoneIsForgotten /\ ResultsAreCodes
        /\ pc \in [Testers -> Labels] /\ item \in [Testers -> Tests \cup {NoTest}]
        /\ results \in [Tests -> TestStatus \cup {NoResult}]
        /\ code \in [Tests -> TestStatus \cup {NoResult}]
        /\ index \in 1..NumTests + 1 /\ NumTests \in Nat /\ NoResult \notin TestStatus
    BY TestsAssumption DEF IInv, TypeOK
  <1> USE DEF Goto
  <1>1. ASSUME NEW t \in Testers, TakeItem(t)
        PROVE  NoneIsForgotten' /\ ResultsAreCodes'
    <2>1. /\ \A u \in Testers \ {t} : pc'[u] = pc[u] /\ item'[u] = item[u]
          /\ item'[t] = index /\ pc[t] = "locked" /\ pc'[t] = "taken"
          /\ index \in Tests /\ UNCHANGED <<index, results, code>>
      BY <1>0, <1>1 DEF TakeItem, Tests
    <2>2. results[index] = NoResult
      BY <1>0, <2>1 DEF OneTesterPerTest, Tests
    <2>3. NoneIsForgotten'
      BY <1>0, <2>1 DEF NoneIsForgotten, Unfinished
    <2>4. ResultsAreCodes'
      BY <1>0, <2>1, <2>2 DEF ResultsAreCodes, Unfinished
    <2> QED BY <2>3, <2>4
  <1>2. ASSUME NEW t \in Testers, AdvanceIndex(t)
        PROVE  NoneIsForgotten' /\ ResultsAreCodes'
    <2>1. /\ \A u \in Testers \ {t} : pc'[u] = pc[u]
          /\ pc[t] = "taken" /\ pc'[t] = "exists" /\ index' = index + 1
          /\ item[t] = index /\ UNCHANGED <<item, results, code>>
      BY <1>0, <1>2 DEF AdvanceIndex, ItemsHandedOut
    <2>2. NoneIsForgotten'
      <3> SUFFICES ASSUME NEW i \in Tests, i < index + 1, results[i] = NoResult
                   PROVE  \E u \in Testers :
                            item[u] = i /\ (Unfinished(u)' \/ pc'[u] = "raised")
        BY <2>1 DEF NoneIsForgotten
      <3>1. CASE i = index
        BY <2>1, <3>1 DEF Unfinished
      <3>2. CASE i < index
        BY <1>0, <2>1, <3>2 DEF NoneIsForgotten, Unfinished
      <3> QED BY <1>0, <3>1, <3>2 DEF Tests
    <2>3. ResultsAreCodes'
      BY <1>0, <2>1 DEF ResultsAreCodes, Unfinished
    <2> QED BY <2>2, <2>3
  <1>3. ASSUME NEW t \in Testers, RunOneTest(t)
        PROVE  NoneIsForgotten' /\ ResultsAreCodes'
    <2>1. item[t] \in Tests
      BY <1>0, <1>3 DEF RunOneTest, ItemsHandedOut, Working
    <2>2. PICK c \in TestStatus : code' = [code EXCEPT ![item[t]] = c]
      BY <1>3, <2>1, VerdictType DEF RunOneTest
    <2>3. /\ \A u \in Testers \ {t} : pc'[u] = pc[u]
          /\ pc[t] = "run" /\ pc'[t] = "setResult"
          /\ UNCHANGED <<item, index, results>>
      BY <1>0, <1>3 DEF RunOneTest
    <2>4. /\ code'[item[t]] # NoResult
          /\ \A i \in Tests \ {item[t]} : code'[i] = code[i]
      BY <1>0, <2>1, <2>2
    <2>5. results[item[t]] = NoResult
      BY <1>0, <2>3 DEF ResultsAreCodes, Unfinished
    <2>6. NoneIsForgotten'
      BY <1>0, <2>3 DEF NoneIsForgotten, Unfinished
    <2>7. \A u \in Testers : pc'[u] = "setResult" => code'[item[u]] # NoResult
      BY <1>0, <2>3, <2>4 DEF ResultsAreCodes, ItemsHandedOut, Working
    <2>8. \A i \in Tests :
            code'[i] # NoResult /\ results[i] = NoResult =>
              \E u \in Testers : pc'[u] = "setResult" /\ item[u] = i
      BY <1>0, <2>3, <2>4 DEF ResultsAreCodes
    <2>9. ResultsAreCodes'
      BY <1>0, <2>3, <2>4, <2>5, <2>7, <2>8 DEF ResultsAreCodes, Unfinished
    <2> QED BY <2>6, <2>9
  <1>4. ASSUME NEW t \in Testers, SetResult(t)
        PROVE  NoneIsForgotten' /\ ResultsAreCodes'
    <2>1. /\ \A u \in Testers \ {t} : pc'[u] = pc[u]
          /\ pc[t] = "setResult" /\ pc'[t] \in {"get", "update"}
          /\ UNCHANGED <<item, index, code>>
      BY <1>0, <1>4 DEF SetResult
    <2>2. item[t] \in Tests
      BY <1>0, <2>1 DEF ItemsHandedOut, Working
    <2>3. /\ results'[item[t]] = code[item[t]] /\ code[item[t]] # NoResult
          /\ \A i \in Tests \ {item[t]} : results'[i] = results[i]
      BY <1>0, <1>4, <2>1, <2>2 DEF SetResult, ResultsAreCodes
    <2>4. \A u \in Testers : Unfinished(u)' => item[u] # item[t] /\ Unfinished(u)
      BY <1>0, <2>1 DEF OneTesterPerTest, Unfinished, Working
    <2>5. \A u \in Testers : Unfinished(u)' => item[u] \in Tests
      BY <1>0, <2>4 DEF Unfinished, ItemsHandedOut, Working, Tests
    <2>6. \A u \in Testers : Unfinished(u)' => results'[item[u]] = NoResult
      BY <1>0, <2>3, <2>4, <2>5 DEF ResultsAreCodes
    <2>7. \A i \in Tests :
            code[i] # NoResult /\ results'[i] = NoResult =>
              \E u \in Testers : pc'[u] = "setResult" /\ item[u] = i
      BY <1>0, <2>1, <2>2, <2>3 DEF ResultsAreCodes
    <2>8. ResultsAreCodes'
      BY <1>0, <2>1, <2>2, <2>3, <2>6, <2>7 DEF ResultsAreCodes
    <2>9. NoneIsForgotten'
      BY <1>0, <2>1, <2>2, <2>3 DEF NoneIsForgotten, Unfinished
    <2> QED BY <2>8, <2>9
  <1>5. ASSUME NEW t \in Testers,
               AcquireProvider(t) \/ TakeNothing(t) \/ DirectoryExists(t)
                 \/ MakeDirectory(t) \/ MakeDirectoryRaises(t)
        PROVE  NoneIsForgotten' /\ ResultsAreCodes'
    <2>1. UNCHANGED <<item, index, results, code>>
      BY <1>5 DEF AcquireProvider, TakeNothing, DirectoryExists, MakeDirectory,
         MakeDirectoryRaises
    <2>2. \A u \in Testers :
            /\ Unfinished(u) \/ pc[u] = "raised" => Unfinished(u)' \/ pc'[u] = "raised"
            /\ Unfinished(u)' => Unfinished(u)
            /\ pc'[u] = "setResult" <=> pc[u] = "setResult"
      BY <1>0, <1>5 DEF AcquireProvider, TakeNothing, DirectoryExists,
         MakeDirectory, MakeDirectoryRaises, Unfinished
    <2> QED BY <2>1, <2>2, ResultsStay
  <1>6. ASSUME NEW t \in Testers, RecurseOnParent(t) \/ RunOneTestRaises(t)
        PROVE  NoneIsForgotten' /\ ResultsAreCodes'
    <2>1. UNCHANGED <<item, index, results, code>>
      BY <1>6 DEF RecurseOnParent, RunOneTestRaises
    <2>2. \A u \in Testers :
            /\ Unfinished(u) \/ pc[u] = "raised" => Unfinished(u)' \/ pc'[u] = "raised"
            /\ Unfinished(u)' => Unfinished(u)
            /\ pc'[u] = "setResult" <=> pc[u] = "setResult"
      BY <1>0, <1>6 DEF RecurseOnParent, RunOneTestRaises, Unfinished
    <2> QED BY <2>1, <2>2, ResultsStay
  <1>7. ASSUME NEW t \in Testers,
               AcquireDisplay(t) \/ ShowProgress(t) \/ ReportFailure(t)
                 \/ ReportDetails(t) \/ HandleUpdateRaises(t)
        PROVE  NoneIsForgotten' /\ ResultsAreCodes'
    <2>1. UNCHANGED <<item, index, results, code>>
      BY <1>7 DEF AcquireDisplay, ShowProgress, ReportFailure, ReportDetails, HandleUpdateRaises
    <2>2. \A u \in Testers :
            /\ Unfinished(u) \/ pc[u] = "raised" => Unfinished(u)' \/ pc'[u] = "raised"
            /\ Unfinished(u)' => Unfinished(u)
            /\ pc'[u] = "setResult" <=> pc[u] = "setResult"
      BY <1>0, <1>7 DEF AcquireDisplay, ShowProgress, ReportFailure,
         ReportDetails, HandleUpdateRaises, Unfinished
    <2> QED BY <2>1, <2>2, ResultsStay
  <1>8. CASE TimePasses \/ MainSummary \/ UNCHANGED vars
    <2>1. UNCHANGED <<pc, item, index, results, code>>
      BY <1>8 DEF TimePasses, MainSummary, vars
    <2> QED BY <2>1, ResultsStay DEF Unfinished
  <1> QED
    BY <1>1, <1>2, <1>3, <1>4, <1>5, <1>6, <1>7, <1>8 DEF Next, TesterStep, Terminated

(* A thread that found nothing to do found it for good.                    *)
LEMMA DoneStep == IInv /\ [Next]_vars => DoneForAll'
  <1> SUFFICES ASSUME IInv, [Next]_vars PROVE DoneForAll'
    OBVIOUS
  <1>0. DoneForAll /\ pc \in [Testers -> Labels] /\ index \in 1..NumTests + 1
        /\ NumTests \in Nat
    BY TestsAssumption DEF IInv, TypeOK
  <1> USE DEF Goto, DoneForAll
  <1>1. ASSUME NEW t \in Testers, AcquireProvider(t) \/ TakeNothing(t) \/ TakeItem(t)
        PROVE  DoneForAll'
    BY <1>0, <1>1 DEF AcquireProvider, TakeNothing, TakeItem
  <1>2. ASSUME NEW t \in Testers, AdvanceIndex(t) PROVE DoneForAll'
    BY <1>0, <1>2 DEF AdvanceIndex
  <1>3. ASSUME NEW t \in Testers,
               RecurseOnParent(t) \/ DirectoryExists(t) \/ MakeDirectory(t)
                 \/ MakeDirectoryRaises(t)
        PROVE  DoneForAll'
    BY <1>0, <1>3 DEF RecurseOnParent, DirectoryExists, MakeDirectory, MakeDirectoryRaises
  <1>4. ASSUME NEW t \in Testers, RunOneTest(t) \/ RunOneTestRaises(t) \/ SetResult(t)
        PROVE  DoneForAll'
    <2>1. \A u \in Testers : pc'[u] = "done" => pc[u] = "done"
      BY <1>0, <1>4 DEF RunOneTest, RunOneTestRaises, SetResult
    <2>2. UNCHANGED <<index, timeUp>>
      BY <1>4 DEF RunOneTest, RunOneTestRaises, SetResult
    <2> QED BY <1>0, <2>1, <2>2
  <1>5. ASSUME NEW t \in Testers, AcquireDisplay(t) PROVE DoneForAll'
    BY <1>0, <1>5 DEF AcquireDisplay
  <1>6. ASSUME NEW t \in Testers,
               ShowProgress(t) \/ ReportFailure(t) \/ ReportDetails(t) \/ HandleUpdateRaises(t)
        PROVE  DoneForAll'
    BY <1>0, <1>6 DEF ShowProgress, ReportFailure, ReportDetails, HandleUpdateRaises
  <1>7. CASE TimePasses \/ MainSummary \/ UNCHANGED vars
    BY <1>0, <1>7 DEF TimePasses, MainSummary, vars
  <1> QED
    BY <1>1, <1>2, <1>3, <1>4, <1>5, <1>6, <1>7 DEF Next, TesterStep, Terminated

(***************************************************************************)
(* mkdir_p.                                                                *)
(***************************************************************************)

(* A call of mkdir_p returns to the one for the child, or to runTest.      *)
LEMMA Returning ==
  ASSUME NEW t \in Testers, paths \in [Testers -> Seq(Dirs)], Climbs(t)
  PROVE  /\ Len(paths[t]) = 1 => OutputDir[item[t]] = Head(paths[t])
         /\ Len(paths[t]) # 1 =>
              LET p == Tail(paths[t])
              IN  /\ p # <<>>
                  /\ p[Len(p)] = OutputDir[item[t]]
                  /\ \A k \in 1..Len(p) - 1 : ParentOf[p[k + 1]] = p[k]
                  /\ ParentOf[Head(p)] = Head(paths[t])
  <1> DEFINE q == paths[t]
             p == Tail(q)
  <1>1. /\ q \in Seq(Dirs) /\ q # <<>>
        /\ q[Len(q)] = OutputDir[item[t]]
        /\ \A k \in 1..Len(q) - 1 : ParentOf[q[k + 1]] = q[k]
    BY DEF Climbs
  <1> HIDE DEF q
  <1>2. /\ Head(q) = q[1] /\ p \in Seq(Dirs) /\ Len(q) \in Nat \ {0}
        /\ Len(p) = Len(q) - 1
        /\ \A k \in 1..Len(q) - 1 : p[k] = q[k + 1]
    BY <1>1, HeadTail
  <1> HIDE DEF p
  <1>3. CASE Len(q) = 1
    BY <1>1, <1>2, <1>3 DEF q, p
  <1>4. CASE Len(q) # 1
    <2>1. p # <<>> /\ Len(p) \in Nat \ {0}
      BY <1>2, <1>4
    <2>2. Head(p) = p[1] /\ p[1] = q[2]
      BY <1>2, <1>4, <2>1, HeadTail
    <2>3. p[Len(p)] = OutputDir[item[t]]
      BY <1>1, <1>2, <2>1
    <2>4. \A k \in 1..Len(p) - 1 : ParentOf[p[k + 1]] = p[k]
      BY <1>1, <1>2, <2>1
    <2>5. ParentOf[Head(p)] = Head(q)
      BY <1>1, <1>2, <1>4, <2>2
    <2> QED BY <1>4, <2>1, <2>3, <2>4, <2>5 DEF p, q
  <1> QED BY <1>3, <1>4

(* A thread returns from mkdir_p when its directory exists.                *)
LEMMA ReturnStep ==
  ASSUME IInv, NEW t \in Testers, pc[t] \in {"exists", "mkdir"},
         Head(paths[t]) \in dirs', item' = item,
         paths' = [paths EXCEPT ![t] = Tail(@)],
         Goto(t, IF Len(paths[t]) = 1 THEN "run" ELSE "mkdir")
  PROVE  PathsOf(t)'
  <1>1. /\ Climbs(t) /\ paths \in [Testers -> Seq(Dirs)] /\ pc \in [Testers -> Labels]
    BY DEF IInv, TypeOK, PathsClimb, PathsOf
  <1>2. CASE Len(paths[t]) = 1
    <2>1. pc'[t] = "run" /\ OutputDir[item[t]] = Head(paths[t])
      BY <1>1, <1>2, Returning DEF Goto
    <2> QED BY <2>1 DEF PathsOf
  <1>3. CASE Len(paths[t]) # 1
    <2>1. pc'[t] = "mkdir" /\ paths'[t] = Tail(paths[t])
      BY <1>1, <1>3 DEF Goto
    <2> DEFINE p == Tail(paths[t])
    <2>2. /\ p # <<>>
          /\ p[Len(p)] = OutputDir[item[t]]
          /\ \A k \in 1..Len(p) - 1 : ParentOf[p[k + 1]] = p[k]
          /\ ParentOf[Head(p)] = Head(paths[t])
      BY <1>1, <1>3, Returning
    <2>3. paths'[t] = p
      BY <2>1
    <2> HIDE DEF p
    <2>4. Climbs(t)'
      BY <2>2, <2>3 DEF Climbs
    <2> QED BY <2>1, <2>2, <2>3, <2>4 DEF PathsOf
  <1> QED BY <1>2, <1>3

(* Directories are never removed: a thread that does not move, or one that *)
(* is not between get and runOneTest, needs nothing new.                   *)
LEMMA PathsStay ==
  ASSUME IInv, NEW u \in Testers, dirs \subseteq dirs',
         \/ pc'[u] = pc[u] /\ paths'[u] = paths[u] /\ item'[u] = item[u]
         \/ pc'[u] \notin {"exists", "mkdir", "run"}
  PROVE  PathsOf(u)'
  BY DEF IInv, PathsClimb, PathsOf, Climbs

LEMMA PathsStep == IInv /\ [Next]_vars => PathsClimb'
  <1> SUFFICES ASSUME IInv, [Next]_vars PROVE PathsClimb'
    OBVIOUS
  <1>0. /\ PathsClimb /\ pc \in [Testers -> Labels] /\ ItemsHandedOut
        /\ item \in [Testers -> Tests \cup {NoTest}] /\ paths \in [Testers -> Seq(Dirs)]
    BY DEF IInv, TypeOK
  <1> USE DEF Goto
  <1>1. ASSUME NEW t \in Testers, AdvanceIndex(t) PROVE PathsClimb'
    <2>1. /\ \A u \in Testers \ {t} : pc'[u] = pc[u] /\ paths'[u] = paths[u]
          /\ item' = item /\ dirs' = dirs
          /\ pc'[t] = "exists" /\ paths'[t] = <<OutputDir[item[t]]>>
      BY <1>0, <1>1 DEF AdvanceIndex
    <2>2. Climbs(t)'
      BY <2>1 DEF Climbs
    <2>3. PathsOf(t)'
      BY <2>1, <2>2 DEF PathsOf
    <2> QED BY <2>1, <2>3, PathsStay DEF PathsClimb
  <1>2. ASSUME NEW t \in Testers, RecurseOnParent(t) PROVE PathsClimb'
    <2> DEFINE q == paths[t]
               path == Head(q)
    <2>1. /\ q \in Seq(Dirs) /\ q # <<>> /\ pc[t] = "exists"
          /\ q[Len(q)] = OutputDir[item[t]]
          /\ \A k \in 1..Len(q) - 1 : ParentOf[q[k + 1]] = q[k]
      BY <1>0, <1>2 DEF RecurseOnParent, PathsClimb, PathsOf, Climbs
    <2>2. path \in Dirs /\ path = q[1] /\ Len(q) \in Nat \ {0}
      BY <2>1, HeadTail
    <2>3. item' = item /\ dirs' = dirs
      BY <1>2 DEF RecurseOnParent
    <2>4. CASE ParentOf[path] = NoDir
      <3>1. /\ pc' = [pc EXCEPT ![t] = "mkdir"] /\ paths' = paths
        BY <1>2, <2>4 DEF RecurseOnParent
      <3>2. \A u \in Testers \ {t} : PathsOf(u)'
        BY <1>0, <2>3, <3>1, PathsStay
      <3>3. Climbs(t)'
        BY <2>1, <2>3, <3>1 DEF Climbs
      <3>4. PathsOf(t)'
        BY <1>0, <2>4, <3>1, <3>3 DEF PathsOf
      <3> QED BY <3>2, <3>4 DEF PathsClimb
    <2>5. CASE ParentOf[path] # NoDir
      <3> DEFINE up == <<ParentOf[path]>> \o q
      <3>1. pc' = pc /\ paths' = [paths EXCEPT ![t] = up]
        BY <1>2, <2>5 DEF RecurseOnParent
      <3>2. ParentOf[path] \in Dirs
        BY <2>2, <2>5, DirsAssumption
      <3> HIDE DEF q, path
      <3>3. /\ up \in Seq(Dirs) /\ Len(up) = Len(q) + 1 /\ up[1] = ParentOf[path]
            /\ \A k \in 1..Len(q) : up[k + 1] = q[k]
        BY <2>1, <3>2, PushFacts
      <3> HIDE DEF up
      <3>4. up # <<>> /\ up[Len(up)] = OutputDir[item[t]]
        BY <2>1, <2>2, <3>3
      <3>5. \A k \in 1..Len(up) - 1 : ParentOf[up[k + 1]] = up[k]
        <4> SUFFICES ASSUME NEW k \in 1..Len(q) PROVE ParentOf[up[k + 1]] = up[k]
          BY <2>2, <3>3
        <4>1. CASE k = 1
          BY <2>2, <3>3, <4>1
        <4>2. CASE k # 1
          <5>1. k - 1 \in 1..Len(q) - 1 /\ (k - 1) + 1 = k
            BY <2>2, <4>2
          <5>2. up[k] = q[k - 1] /\ up[k + 1] = q[k]
            BY <2>2, <3>3, <5>1
          <5> QED BY <2>1, <5>1, <5>2
        <4> QED BY <4>1, <4>2
      <3>6. paths'[t] = up
        BY <1>0, <3>1
      <3>7. Climbs(t)'
        BY <2>3, <3>4, <3>5, <3>6 DEF Climbs
      <3>8. PathsOf(t)'
        BY <2>1, <3>1, <3>7 DEF PathsOf
      <3>9. \A u \in Testers \ {t} : PathsOf(u)'
        BY <1>0, <2>3, <3>1, PathsStay
      <3> QED BY <3>8, <3>9 DEF PathsClimb
    <2> QED BY <2>4, <2>5
  <1>3. ASSUME NEW t \in Testers, DirectoryExists(t) PROVE PathsClimb'
    <2>1. PathsOf(t)'
      BY <1>3, ReturnStep DEF DirectoryExists
    <2>2. \A u \in Testers \ {t} :
            pc'[u] = pc[u] /\ paths'[u] = paths[u] /\ item'[u] = item[u]
      BY <1>0, <1>3 DEF DirectoryExists
    <2>3. dirs' = dirs
      BY <1>3 DEF DirectoryExists
    <2> QED BY <2>1, <2>2, <2>3, PathsStay DEF PathsClimb
  <1>4. ASSUME NEW t \in Testers, MakeDirectory(t) PROVE PathsClimb'
    <2>1. dirs' = dirs \cup {Head(paths[t])}
      BY <1>4 DEF MakeDirectory
    <2>2. PathsOf(t)'
      BY <1>4, <2>1, ReturnStep DEF MakeDirectory
    <2>3. \A u \in Testers \ {t} :
            pc'[u] = pc[u] /\ paths'[u] = paths[u] /\ item'[u] = item[u]
      BY <1>0, <1>4 DEF MakeDirectory
    <2> QED BY <2>1, <2>2, <2>3, PathsStay DEF PathsClimb
  <1>5. ASSUME NEW t \in Testers,
               AcquireProvider(t) \/ TakeNothing(t) \/ TakeItem(t)
                 \/ MakeDirectoryRaises(t) \/ RunOneTest(t) \/ RunOneTestRaises(t)
        PROVE  PathsClimb'
    <2>1. \A u \in Testers :
            \/ pc'[u] = pc[u] /\ paths'[u] = paths[u] /\ item'[u] = item[u]
            \/ pc'[u] \notin {"exists", "mkdir", "run"}
      BY <1>0, <1>5 DEF AcquireProvider, TakeNothing, TakeItem,
         MakeDirectoryRaises, RunOneTest, RunOneTestRaises
    <2>2. dirs' = dirs
      BY <1>5 DEF AcquireProvider, TakeNothing, TakeItem, MakeDirectoryRaises,
         RunOneTest, RunOneTestRaises
    <2> QED BY <2>1, <2>2, PathsStay DEF PathsClimb
  <1>6. ASSUME NEW t \in Testers,
               SetResult(t) \/ AcquireDisplay(t) \/ ShowProgress(t)
                 \/ ReportFailure(t) \/ ReportDetails(t) \/ HandleUpdateRaises(t)
        PROVE  PathsClimb'
    <2>1. \A u \in Testers :
            \/ pc'[u] = pc[u] /\ paths'[u] = paths[u] /\ item'[u] = item[u]
            \/ pc'[u] \notin {"exists", "mkdir", "run"}
      BY <1>0, <1>6 DEF SetResult, AcquireDisplay, ShowProgress, ReportFailure,
         ReportDetails, HandleUpdateRaises
    <2>2. dirs' = dirs
      BY <1>6 DEF SetResult, AcquireDisplay, ShowProgress, ReportFailure,
         ReportDetails, HandleUpdateRaises
    <2> QED BY <2>1, <2>2, PathsStay DEF PathsClimb
  <1>7. CASE TimePasses \/ MainSummary \/ UNCHANGED vars
    <2>1. UNCHANGED <<pc, paths, item, dirs>>
      BY <1>7 DEF TimePasses, MainSummary, vars
    <2> QED BY <2>1, PathsStay DEF PathsClimb
  <1> QED
    BY <1>1, <1>2, <1>3, <1>4, <1>5, <1>6, <1>7 DEF Next, TesterStep, Terminated

(***************************************************************************)
(* The screen.                                                             *)
(***************************************************************************)

(* Nothing is printed, and a report that is cut short stays so.            *)
LEMMA ScreenStay ==
  ASSUME IInv, screen' = screen,
         \A u \in Testers :
           /\ pc'[u] = "details" => pc[u] = "details"
           /\ pc[u] = "details" => pc'[u] \in {"details", "raised"} /\ item'[u] = item[u]
           /\ pc[u] = "raised" => pc'[u] = "raised" /\ item'[u] = item[u]
  PROVE  ScreenPaired'
  BY DEF IInv, ScreenPaired, ReportsNotInterleaved, HalfReport

LEMMA ScreenStep == IInv /\ [Next]_vars => ScreenPaired'
  <1> SUFFICES ASSUME IInv, [Next]_vars PROVE ScreenPaired'
    OBVIOUS
  <1>0. /\ LocksHeld /\ ItemsHandedOut /\ ScreenPaired
        /\ pc \in [Testers -> Labels] /\ item \in [Testers -> Tests \cup {NoTest}]
        /\ screen \in Seq(Lines) /\ Len(screen) \in Nat
    BY DEF IInv, TypeOK
  <1> USE DEF Goto
  <1>1. ASSUME NEW t \in Testers, ReportFailure(t) PROVE ScreenPaired'
    <2> DEFINE head == Line(item[t], "head")
    <2>1. /\ pc[t] = "handleUpdate" /\ pc'[t] = "details" /\ item' = item
          /\ screen' = Append(screen, head)
          /\ \A u \in Testers \ {t} : pc'[u] = pc[u] /\ pc[u] # "details"
      BY <1>0, <1>1 DEF ReportFailure, LocksHeld
    <2>2. /\ head \in Lines /\ head.part = "head" /\ head.test = item[t]
      BY <1>0, <2>1 DEF ItemsHandedOut, Working, Line, Lines
    <2> HIDE DEF head
    <2>3. /\ Len(screen') = Len(screen) + 1 /\ screen'[Len(screen) + 1] = head
          /\ \A k \in 1..Len(screen) : screen'[k] = screen[k]
      BY <1>0, <2>1, <2>2, AppendFacts
    <2>4. ASSUME NEW k \in 1..Len(screen), screen[k].part = "head"
          PROVE  \/ k < Len(screen) /\ screen[k + 1].part = "details"
                 \/ \E u \in Testers \ {t} : item[u] = screen[k].test /\ pc[u] = "raised"
      BY <1>0, <2>1, <2>4 DEF ScreenPaired, ReportsNotInterleaved
    <2>5. ASSUME NEW k \in 1..Len(screen), screen[k].part = "details"
          PROVE  k > 1 /\ screen[k - 1] = Line(screen[k].test, "head")
      BY <1>0, <2>5 DEF ScreenPaired, ReportsNotInterleaved
    <2>6. ReportsNotInterleaved'
      <3> SUFFICES ASSUME NEW k \in 1..Len(screen) + 1
                   PROVE  /\ screen'[k].part = "details" =>
                               k > 1 /\ screen'[k - 1] = Line(screen'[k].test, "head")
                          /\ screen'[k].part = "head" =>
                               \/ k < Len(screen') /\ screen'[k + 1].part = "details"
                               \/ /\ k = Len(screen')
                                  /\ \E u \in Testers :
                                       item'[u] = screen'[k].test /\ pc'[u] = "details"
                               \/ \E u \in Testers :
                                    item'[u] = screen'[k].test /\ pc'[u] = "raised"
        BY <2>3 DEF ReportsNotInterleaved, Line
      <3>1. CASE k = Len(screen) + 1
        BY <2>1, <2>2, <2>3, <3>1
      <3>2. CASE k \in 1..Len(screen)
        <4>1. screen'[k].part = "details" =>
                k > 1 /\ screen'[k - 1] = Line(screen'[k].test, "head")
          BY <1>0, <2>3, <2>5, <3>2
        <4>2. screen'[k].part = "head" =>
                \/ k < Len(screen') /\ screen'[k + 1].part = "details"
                \/ \E u \in Testers : item'[u] = screen'[k].test /\ pc'[u] = "raised"
          BY <1>0, <2>1, <2>3, <2>4, <3>2
        <4> QED BY <4>1, <4>2
      <3> QED BY <1>0, <3>1, <3>2
    <2>7. HalfReport(t)'
      BY <1>0, <2>1, <2>3 DEF HalfReport, head, Line
    <2> QED BY <2>1, <2>6, <2>7 DEF ScreenPaired
  <1>2. ASSUME NEW t \in Testers, ReportDetails(t) PROVE ScreenPaired'
    <2> DEFINE details == Line(item[t], "details")
    <2>1. /\ pc[t] = "details" /\ pc'[t] = "get" /\ item' = item
          /\ screen' = Append(screen, details)
          /\ \A u \in Testers \ {t} : pc'[u] = pc[u] /\ pc[u] # "details"
      BY <1>0, <1>2 DEF ReportDetails, LocksHeld
    <2>2. /\ details \in Lines /\ details.part = "details" /\ details.test = item[t]
      BY <1>0, <2>1 DEF ItemsHandedOut, Working, Line, Lines
    <2>3. Len(screen) > 0 /\ screen[Len(screen)] = Line(item[t], "head")
      BY <1>0, <2>1 DEF ScreenPaired, HalfReport
    <2> HIDE DEF details
    <2>4. /\ Len(screen') = Len(screen) + 1 /\ screen'[Len(screen) + 1] = details
          /\ \A k \in 1..Len(screen) : screen'[k] = screen[k]
      BY <1>0, <2>1, <2>2, AppendFacts
    <2>5. ASSUME NEW k \in 1..Len(screen) - 1, screen[k].part = "head"
          PROVE  \/ screen[k + 1].part = "details"
                 \/ \E u \in Testers \ {t} : item[u] = screen[k].test /\ pc[u] = "raised"
      BY <1>0, <2>1, <2>5 DEF ScreenPaired, ReportsNotInterleaved
    <2>6. ASSUME NEW k \in 1..Len(screen), screen[k].part = "details"
          PROVE  k > 1 /\ screen[k - 1] = Line(screen[k].test, "head")
      BY <1>0, <2>6 DEF ScreenPaired, ReportsNotInterleaved
    <2>7. ReportsNotInterleaved'
      <3> SUFFICES ASSUME NEW k \in 1..Len(screen) + 1
                   PROVE  /\ screen'[k].part = "details" =>
                               k > 1 /\ screen'[k - 1] = Line(screen'[k].test, "head")
                          /\ screen'[k].part = "head" =>
                               \/ k < Len(screen') /\ screen'[k + 1].part = "details"
                               \/ \E u \in Testers :
                                    item'[u] = screen'[k].test /\ pc'[u] = "raised"
        BY <2>4 DEF ReportsNotInterleaved, Line
      <3>1. CASE k = Len(screen) + 1
        <4>1. k > 1 /\ k - 1 = Len(screen) /\ k - 1 \in 1..Len(screen)
          BY <1>0, <2>3, <3>1
        <4>2. screen'[k] = details /\ screen'[k - 1] = Line(item[t], "head")
          BY <2>3, <2>4, <3>1, <4>1
        <4> QED BY <2>2, <4>1, <4>2
      <3>2. CASE k = Len(screen)
        <4>1. screen'[k] = screen[k] /\ screen'[k + 1] = details /\ k < Len(screen')
          BY <1>0, <2>3, <2>4, <3>2
        <4>2. screen[k].part = "head"
          BY <2>3, <3>2 DEF Line
        <4> QED BY <2>2, <4>1, <4>2
      <3>3. CASE k \in 1..Len(screen) - 1
        <4>1. screen'[k].part = "details" =>
                k > 1 /\ screen'[k - 1] = Line(screen'[k].test, "head")
          BY <1>0, <2>4, <2>6, <3>3
        <4>2. screen'[k].part = "head" =>
                \/ k < Len(screen') /\ screen'[k + 1].part = "details"
                \/ \E u \in Testers : item'[u] = screen'[k].test /\ pc'[u] = "raised"
          BY <1>0, <2>1, <2>4, <2>5, <3>3
        <4> QED BY <4>1, <4>2
      <3> QED BY <1>0, <3>1, <3>2, <3>3
    <2>8. \A u \in Testers : pc'[u] # "details"
      BY <2>1
    <2> QED BY <2>7, <2>8 DEF ScreenPaired
  <1>3. ASSUME NEW t \in Testers,
               AcquireProvider(t) \/ TakeNothing(t) \/ TakeItem(t) \/ AdvanceIndex(t)
        PROVE  ScreenPaired'
    <2>1. screen' = screen
      BY <1>3 DEF AcquireProvider, TakeNothing, TakeItem, AdvanceIndex
    <2>2. \A u \in Testers :
            /\ pc'[u] = "details" => pc[u] = "details"
            /\ pc[u] = "details" => pc'[u] \in {"details", "raised"} /\ item'[u] = item[u]
            /\ pc[u] = "raised" => pc'[u] = "raised" /\ item'[u] = item[u]
      BY <1>0, <1>3 DEF AcquireProvider, TakeNothing, TakeItem, AdvanceIndex
    <2> QED BY <2>1, <2>2, ScreenStay
  <1>4. ASSUME NEW t \in Testers,
               RecurseOnParent(t) \/ DirectoryExists(t) \/ MakeDirectory(t)
                 \/ MakeDirectoryRaises(t)
        PROVE  ScreenPaired'
    <2>1. screen' = screen
      BY <1>4 DEF RecurseOnParent, DirectoryExists, MakeDirectory, MakeDirectoryRaises
    <2>2. \A u \in Testers :
            /\ pc'[u] = "details" => pc[u] = "details"
            /\ pc[u] = "details" => pc'[u] \in {"details", "raised"} /\ item'[u] = item[u]
            /\ pc[u] = "raised" => pc'[u] = "raised" /\ item'[u] = item[u]
      BY <1>0, <1>4 DEF RecurseOnParent, DirectoryExists, MakeDirectory, MakeDirectoryRaises
    <2> QED BY <2>1, <2>2, ScreenStay
  <1>5. ASSUME NEW t \in Testers,
               RunOneTest(t) \/ RunOneTestRaises(t) \/ SetResult(t)
                 \/ AcquireDisplay(t) \/ ShowProgress(t) \/ HandleUpdateRaises(t)
        PROVE  ScreenPaired'
    <2>1. screen' = screen
      BY <1>5 DEF RunOneTest, RunOneTestRaises, SetResult, AcquireDisplay, ShowProgress,
         HandleUpdateRaises
    <2>2. \A u \in Testers :
            /\ pc'[u] = "details" => pc[u] = "details"
            /\ pc[u] = "details" => pc'[u] \in {"details", "raised"} /\ item'[u] = item[u]
            /\ pc[u] = "raised" => pc'[u] = "raised" /\ item'[u] = item[u]
      BY <1>0, <1>5 DEF RunOneTest, RunOneTestRaises, SetResult, AcquireDisplay, ShowProgress,
         HandleUpdateRaises
    <2> QED BY <2>1, <2>2, ScreenStay
  <1>6. CASE TimePasses \/ MainSummary \/ UNCHANGED vars
    <2>1. UNCHANGED <<pc, item, screen>>
      BY <1>6 DEF TimePasses, MainSummary, vars
    <2> QED BY <2>1, ScreenStay
  <1> QED
    BY <1>1, <1>2, <1>3, <1>4, <1>5, <1>6 DEF Next, TesterStep, Terminated

(***************************************************************************)
(* The summary.                                                            *)
(***************************************************************************)

(* A thread that ended does nothing more.                                  *)
LEMMA EndedIsOver ==
  ASSUME NEW t \in Testers, TesterStep(t)
  PROVE  ~Ended(t) /\ summary' = summary
  BY DEF TesterStep, AcquireProvider, TakeNothing, TakeItem, AdvanceIndex,
     RecurseOnParent, DirectoryExists, MakeDirectory, MakeDirectoryRaises,
     RunOneTest, RunOneTestRaises, SetResult, AcquireDisplay, ShowProgress,
     ReportFailure, ReportDetails, HandleUpdateRaises, Ended

LEMMA SummaryStep == IInv /\ [Next]_vars => SummaryOfResults'
  <1> SUFFICES ASSUME IInv, [Next]_vars PROVE SummaryOfResults'
    OBVIOUS
  <1>0. SummaryOfResults
    BY DEF IInv
  <1>1. ASSUME NEW t \in Testers, TesterStep(t) PROVE SummaryOfResults'
    BY <1>0, <1>1, EndedIsOver DEF SummaryOfResults
  <1>2. CASE TimePasses \/ UNCHANGED vars
    <2>1. UNCHANGED <<pc, results, summary>>
      BY <1>2 DEF TimePasses, vars
    <2> QED BY <1>0, <2>1 DEF SummaryOfResults, Ended, WithCode
  <1>3. CASE MainSummary
    BY <1>3 DEF MainSummary, SummaryOfResults, Ended, WithCode
  <1> QED
    BY <1>1, <1>2, <1>3 DEF Next, Terminated

(* The summary lists what runOneTest returned; no thread is between        *)
(* runOneTest and setResult any more.                                      *)
LEMMA SummaryFollows == IInv => SummaryComplete
  <1> SUFFICES ASSUME IInv, summary.printed
               PROVE  /\ summary.failures = {i \in Tests : code[i] = "Fail"}
                      /\ summary.xpasses = {i \in Tests : code[i] = "XPass"}
                      /\ \A i \in Tests :
                           results[i] = NoResult =>
                             \/ \E t \in Testers : pc[t] = "raised" /\ item[t] = i
                             \/ i >= index /\ timeUp
                             \/ i >= index /\ \A t \in Testers : pc[t] = "raised"
    BY DEF SummaryComplete
  <1>1. /\ \A t \in Testers : pc[t] \in {"done", "raised"}
        /\ summary.failures = WithCode("Fail") /\ summary.xpasses = WithCode("XPass")
    BY DEF IInv, SummaryOfResults, Ended
  <1>2. \A i \in Tests : results[i] = code[i]
    BY <1>1 DEF IInv, ResultsAreCodes
  <1>3. /\ WithCode("Fail") = {i \in Tests : code[i] = "Fail"}
        /\ WithCode("XPass") = {i \in Tests : code[i] = "XPass"}
    BY <1>2 DEF WithCode
  <1>4. ASSUME NEW i \in Tests, results[i] = NoResult
        PROVE  \/ \E t \in Testers : pc[t] = "raised" /\ item[t] = i
               \/ i >= index /\ timeUp
               \/ i >= index /\ \A t \in Testers : pc[t] = "raised"
    <2>0. index \in 1..NumTests + 1 /\ NumTests \in Nat
      BY TestsAssumption DEF IInv, TypeOK
    <2>1. CASE i < index
      BY <1>1, <1>4, <2>1 DEF IInv, NoneIsForgotten, Unfinished
    <2>2. CASE ~(i < index)
      BY <1>1, <2>0, <2>2 DEF IInv, DoneForAll, Tests
    <2> QED BY <2>1, <2>2
  <1> QED BY <1>1, <1>3, <1>4

(***************************************************************************)
(* The theorems.                                                           *)
(***************************************************************************)

(* IInv holds of every state the harness can be in.                        *)
THEOREM Invariance == Spec => []IInv
  <1>1. IInv /\ [Next]_vars => IInv'
    BY TypeStep, LocksStep, ItemsStep, ResultsStep, DoneStep, PathsStep,
       ScreenStep, SummaryStep DEF IInv
  <1> QED BY InitIInv, <1>1, PTL DEF Spec

(* Every variable of the harness keeps its type.                           *)
THEOREM TypeCorrect == Spec => []TypeOK
  BY Invariance, PTL DEF IInv

(* TestProvider.get: with any number of threads no two of them run the     *)
(* same test, and no result is there before its test was handed out.       *)
THEOREM OneTesterPerTestTheorem == Spec => []OneTesterPerTest
  BY Invariance, PTL DEF IInv

(* mkdir_p: os.mkdir never fails for want of a parent, whatever the other  *)
(* threads create meanwhile, and the directory of a test is there when it  *)
(* is run, for every tree of output directories.                           *)
THEOREM OutputDirReadyTheorem == Spec => []OutputDirReady
  <1>1. IInv => OutputDirReady
    BY DEF IInv, PathsClimb, PathsOf, OutputDirReady
  <1> QED BY Invariance, <1>1, PTL

(* main and TestingProgressDisplay: the summary lists the failures, no     *)
(* test is left out without a reason, and no report is cut in two.         *)
THEOREM ReportsAreRightTheorem == Spec => []ReportsAreRight
  <1>1. IInv => ReportsAreRight
    BY SummaryFollows DEF IInv, ScreenPaired, ReportsAreRight
  <1> QED BY Invariance, <1>1, PTL
============================================================================

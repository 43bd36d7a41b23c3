-------------------------- MODULE MultiTestRunner --------------------------
(***************************************************************************)
(* The parallel test harness (utils/test/MultiTestRunner.py and            *)
(* TestRunner.py): Tester threads take tests from a TestProvider under its *)
(* lock, create the output directories, run a script, store the result     *)
(* without a lock and report under the display's lock; the main thread     *)
(* joins them and prints a summary.                                        *)
(*                                                                         *)
(* A Python thread may be preempted between any two steps below.  The text *)
(* of the tests and of their output is abstracted to the code that         *)
(* runOneTest returns or to the fact that it raises an exception.          *)
(***************************************************************************)
EXTENDS Naturals, Sequences, FiniteSets

CONSTANTS
  Testers,        \* the threads (-j)
  Dirs, NoDir,    \* the output directories; the empty path
  ParentOf,       \* os.path.dirname on Dirs
  NumTests,       \* len(tests)
  OutputDir,      \* for each test the directory of its output
  Scripts,        \* for each test: has it a RUN line, is it marked XFAIL
  UseValgrind,    \* --vg
  HasMaxTime,     \* --max-time was given
  Quiet,          \* --quiet
  UseProgressBar, \* the terminal can show the progress bar
  NoTester,       \* "nobody holds the lock"
  NoTest,         \* "no item"
  NoResult        \* Python's None in provider.results

Tests == 1..NumTests
TestStatus == {"Pass", "XFail", "Fail", "XPass", "NoRunLine"}
Failed == {"Fail", "XPass"}

(* Every directory has a chain of parents that ends in the empty path.     *)
ASSUME DirsAssumption ==
  /\ NoDir \notin Dirs
  /\ ParentOf \in [Dirs -> Dirs \cup {NoDir}]
  /\ \A d \in Dirs : ParentOf[d] # d

ASSUME TestsAssumption ==
  /\ NumTests \in Nat
  /\ OutputDir \in [Tests -> Dirs]
  /\ Scripts \in [Tests -> [run : BOOLEAN, xfail : BOOLEAN]]
  /\ NoTest \notin Tests
  /\ NoResult \notin TestStatus

ASSUME TestersAssumption == NoTester \notin Testers

ASSUME OptionsAssumption ==
  /\ UseValgrind \in BOOLEAN /\ HasMaxTime \in BOOLEAN
  /\ Quiet \in BOOLEAN /\ UseProgressBar \in BOOLEAN

VARIABLES
  pc,          \* what each thread does next
  item,        \* the test each thread took
  index,       \* provider.index, one more than in the code
  lock,        \* the holder of provider.lock
  timeUp,      \* time.time() - startTime > maxTime
  dirs,        \* the directories that exist
  paths,       \* for each thread, the calls of mkdir_p it is in, inner first
  results,     \* provider.results
  displayLock, \* the holder of display.lock
  progress,    \* display.progress, as a test index
  screen,      \* the parts of failure reports printed so far
  summary,     \* what main prints at the end
  code         \* history: the code of the TestResult made for each test

vars == <<pc, item, index, lock, timeUp, dirs, paths, results, displayLock,
          progress, screen, summary, code>>

NoSummary == [printed |-> FALSE, xfails |-> {}, xpasses |-> {}, failures |-> {}]

Init ==
  /\ pc = [t \in Testers |-> "get"]
  /\ item = [t \in Testers |-> NoTest]
  /\ index = 1
  /\ lock = NoTester
  /\ timeUp = FALSE
  /\ dirs = {}
  /\ paths = [t \in Testers |-> <<>>]
  /\ results = [i \in Tests |-> NoResult]
  /\ displayLock = NoTester
  /\ progress = 0
  /\ screen = <<>>
  /\ summary = NoSummary
  /\ code = [i \in Tests |-> NoResult]

Goto(t, label) == pc' = [pc EXCEPT ![t] = label]

----------------------------------------------------------------------------
(* TestProvider.get: the first statement of the loop in Tester.run.        *)

(* Mutant: the lock is not waited for.                                     *)
AcquireProvider_NoWait(t) ==
  /\ pc[t] = "get"
  /\ lock' = t
  /\ Goto(t, "locked")
  /\ UNCHANGED <<item, index, timeUp, dirs, paths, results, displayLock,
                 progress, screen, summary, code>>

AcquireProvider(t) ==
  /\ pc[t] = "get"
  /\ lock = NoTester
  /\ lock' = t
  /\ Goto(t, "locked")
  /\ UNCHANGED <<item, index, timeUp, dirs, paths, results, displayLock,
                 progress, screen, summary, code>>

(* Mutant: the thread asks again instead of leaving its loop.              *)
TakeNothing_AsksAgain(t) ==
  /\ pc[t] = "locked"
  /\ (HasMaxTime /\ timeUp) \/ index > NumTests
  /\ lock' = NoTester
  /\ Goto(t, "get")
  /\ UNCHANGED <<item, index, timeUp, dirs, paths, results, displayLock,
                 progress, screen, summary, code>>

(* No test is left or the time is over: get returns None, run returns.     *)
TakeNothing(t) ==
  /\ pc[t] = "locked"
  /\ (HasMaxTime /\ timeUp) \/ index > NumTests
  /\ lock' = NoTester
  /\ Goto(t, "done")
  /\ UNCHANGED <<item, index, timeUp, dirs, paths, results, displayLock,
                 progress, screen, summary, code>>

TakeItem(t) ==
  /\ pc[t] = "locked"
  /\ ~(HasMaxTime /\ timeUp) /\ index <= NumTests
  /\ item' = [item EXCEPT ![t] = index]
  /\ Goto(t, "taken")
  /\ UNCHANGED <<index, lock, timeUp, dirs, paths, results, displayLock,
                 progress, screen, summary, code>>

(* The rest of get, and the call of mkdir_p at the start of runTest.       *)
AdvanceIndex(t) ==
  /\ pc[t] = "taken"
  /\ index' = index + 1
  /\ lock' = NoTester
  /\ paths' = [paths EXCEPT ![t] = <<OutputDir[item[t]]>>]
  /\ Goto(t, "exists")
  /\ UNCHANGED <<item, timeUp, dirs, results, displayLock, progress, screen,
                 summary, code>>

(* The clock passes maxTime.                                               *)
TimePasses ==
  /\ HasMaxTime /\ ~timeUp
  /\ timeUp' = TRUE
  /\ UNCHANGED <<pc, item, index, lock, dirs, paths, results, displayLock,
                 progress, screen, summary, code>>

----------------------------------------------------------------------------
(* mkdir_p: test for the directory, recurse on its parent, create it.      *)

(* Mutant: mkdir_p does not create the parents.                            *)
RecurseOnParent_NoParent(t) ==
  /\ pc[t] = "exists"
  /\ Head(paths[t]) \notin dirs
  /\ Goto(t, "mkdir")
  /\ UNCHANGED <<item, index, lock, timeUp, dirs, paths, results, displayLock,
                 progress, screen, summary, code>>

(* os.path.exists(path) is false and the parent is tried first.            *)
RecurseOnParent(t) ==
  /\ pc[t] = "exists"
  /\ LET path == Head(paths[t])
     IN /\ path \notin dirs
        /\ IF ParentOf[path] = NoDir
             THEN Goto(t, "mkdir") /\ UNCHANGED paths
             ELSE /\ paths' = [paths EXCEPT ![t] = <<ParentOf[path]>> \o @]
                  /\ UNCHANGED pc
  /\ UNCHANGED <<item, index, lock, timeUp, dirs, results, displayLock,
                 progress, screen, summary, code>>

(* os.path.exists(path): this call returns to the one for the child, which *)
(* goes on with os.mkdir, or to runTest.                                   *)
DirectoryExists(t) ==
  /\ pc[t] = "exists"
  /\ Head(paths[t]) \in dirs
  /\ paths' = [paths EXCEPT ![t] = Tail(@)]
  /\ Goto(t, IF Len(paths[t]) = 1 THEN "run" ELSE "mkdir")
  /\ UNCHANGED <<item, index, lock, timeUp, dirs, results, displayLock,
                 progress, screen, summary, code>>

(* os.mkdir(path).  EEXIST is ignored: another thread was faster.          *)
MakeDirectory(t) ==
  /\ pc[t] = "mkdir"
  /\ LET path == Head(paths[t])
     IN /\ ParentOf[path] \in dirs \cup {NoDir}
        /\ dirs' = dirs \cup {path}
  /\ paths' = [paths EXCEPT ![t] = Tail(@)]
  /\ Goto(t, IF Len(paths[t]) = 1 THEN "run" ELSE "mkdir")
  /\ UNCHANGED <<item, index, lock, timeUp, results, displayLock, progress,
                 screen, summary, code>>

(* Any other error of os.mkdir (no permission, no space, a missing parent) *)
(* ends the thread.                                                        *)
MakeDirectoryRaises(t) ==
  /\ pc[t] = "mkdir"
  /\ Goto(t, "raised")
  /\ UNCHANGED <<item, index, lock, timeUp, dirs, paths, results, displayLock,
                 progress, screen, summary, code>>

----------------------------------------------------------------------------
(* TestRunner.runOneTest.  Both statuses are truth values: did the script  *)
(* exit with an error, did valgrind write to its log.                      *)
Verdict(i, scriptFails, vgWrites) ==
  LET SCRIPT_STATUS == IF Scripts[i].xfail THEN ~scriptFails ELSE scriptFails
  IN IF ~Scripts[i].run THEN "NoRunLine"
     ELSE IF SCRIPT_STATUS \/ vgWrites
            THEN (IF Scripts[i].xfail THEN "XPass" ELSE "Fail")
            ELSE (IF Scripts[i].xfail THEN "XFail" ELSE "Pass")

RunOneTest(t) ==
  /\ pc[t] = "run"
  /\ \E scriptFails \in BOOLEAN, vgWrites \in {FALSE, UseValgrind} :
       code' = [code EXCEPT ![item[t]] = Verdict(item[t], scriptFails, vgWrites)]
  /\ Goto(t, "setResult")
  /\ UNCHANGED <<item, index, lock, timeUp, dirs, paths, results, displayLock,
                 progress, screen, summary>>

(* The script or the file for its output cannot be opened, or TestResult   *)
(* cannot read that file: the exception ends the thread.                   *)
RunOneTestRaises(t) ==
  /\ pc[t] = "run"
  /\ Goto(t, "raised")
  /\ UNCHANGED <<item, index, lock, timeUp, dirs, paths, results, displayLock,
                 progress, screen, summary, code>>

----------------------------------------------------------------------------
(* TestProvider.setResult and TestingProgressDisplay.update.               *)

(* Mutant: the result is stored at the provider's current index.           *)
SetResult_AtIndex(t) ==
  /\ pc[t] = "setResult"
  /\ results' = [results EXCEPT ![index - 1] = code[item[t]]]
  /\ Goto(t, IF Quiet /\ code[item[t]] \notin Failed THEN "get" ELSE "update")
  /\ UNCHANGED <<item, index, lock, timeUp, dirs, paths, displayLock, progress,
                 screen, summary, code>>

SetResult(t) ==
  /\ pc[t] = "setResult"
  /\ results' = [results EXCEPT ![item[t]] = code[item[t]]]
  /\ Goto(t, IF Quiet /\ code[item[t]] \notin Failed THEN "get" ELSE "update")
  /\ UNCHANGED <<item, index, lock, timeUp, dirs, paths, displayLock, progress,
                 screen, summary, code>>

AcquireDisplay(t) ==
  /\ pc[t] = "update"
  /\ displayLock = NoTester
  /\ displayLock' = t
  /\ Goto(t, "handleUpdate")
  /\ UNCHANGED <<item, index, lock, timeUp, dirs, paths, results, progress,
                 screen, summary, code>>

(* The bar never goes back, and a failed test does not move it.            *)
ProgressWith(i) ==
  IF UseProgressBar /\ results[i] \notin Failed /\ i - 1 > progress
  THEN i - 1 ELSE progress

(* handleUpdate of a test that did not fail: one line, a dot, or the bar.  *)
ShowProgress(t) ==
  /\ pc[t] = "handleUpdate"
  /\ results[item[t]] \notin Failed
  /\ progress' = ProgressWith(item[t])
  /\ displayLock' = NoTester
  /\ Goto(t, "get")
  /\ UNCHANGED <<item, index, lock, timeUp, dirs, paths, results, screen,
                 summary, code>>

Line(i, part) == [test |-> i, part |-> part]
Lines == [test : Tests, part : {"head", "details"}]

(* handleUpdate of a failed test prints several lines.                     *)
ReportFailure(t) ==
  /\ pc[t] = "handleUpdate"
  /\ results[item[t]] \in Failed
  /\ screen' = Append(screen, Line(item[t], "head"))
  /\ Goto(t, "details")
  /\ UNCHANGED <<item, index, lock, timeUp, dirs, paths, results, displayLock,
                 progress, summary, code>>

ReportDetails(t) ==
  /\ pc[t] = "details"
  /\ screen' = Append(screen, Line(item[t], "details"))
  /\ displayLock' = NoTester
  /\ Goto(t, "get")
  /\ UNCHANGED <<item, index, lock, timeUp, dirs, paths, results, progress,
                 summary, code>>

(* A print, the bar or cat raises, before or after the first lines of a    *)
(* report: the finally of update releases the lock and the thread ends.    *)
HandleUpdateRaises(t) ==
  /\ pc[t] \in {"handleUpdate", "details"}
  /\ progress' = ProgressWith(item[t])
  /\ displayLock' = NoTester
  /\ Goto(t, "raised")
  /\ UNCHANGED <<item, index, lock, timeUp, dirs, paths, results, screen,
                 summary, code>>

----------------------------------------------------------------------------
Ended(t) == pc[t] \in {"done", "raised"}

WithCode(c) == {i \in Tests : results[i] = c}

(* main, once every thread is joined.                                      *)
MainSummary ==
  /\ \A t \in Testers : Ended(t)
  /\ ~summary.printed
  /\ summary' = [printed |-> TRUE, xfails |-> WithCode("XFail"),
                 xpasses |-> WithCode("XPass"), failures |-> WithCode("Fail")]
  /\ UNCHANGED <<pc, item, index, lock, timeUp, dirs, paths, results,
                 displayLock, progress, screen, code>>

(* main returned.                                                          *)
Terminated == summary.printed /\ UNCHANGED vars

TesterStep(t) ==
  \/ AcquireProvider(t) \/ TakeNothing(t) \/ TakeItem(t) \/ AdvanceIndex(t)
  \/ RecurseOnParent(t) \/ DirectoryExists(t)
  \/ MakeDirectory(t) \/ MakeDirectoryRaises(t)
  \/ RunOneTest(t) \/ RunOneTestRaises(t)
  \/ SetResult(t)
  \/ AcquireDisplay(t) \/ ShowProgress(t) \/ ReportFailure(t)
  \/ ReportDetails(t) \/ HandleUpdateRaises(t)

Next ==
  \/ \E t \in Testers : TesterStep(t)
  \/ TimePasses
  \/ MainSummary
  \/ Terminated

Spec == Init /\ [][Next]_vars

(* The operating system runs every thread that can run, and test scripts   *)
(* end; nothing is assumed about the clock or about who gets a lock.       *)
FairSpec == /\ Spec
            /\ \A t \in Testers : WF_vars(TesterStep(t))
            /\ WF_vars(MainSummary)

----------------------------------------------------------------------------
(* Properties.                                                             *)

Labels == {"get", "locked", "taken", "exists", "mkdir", "run", "setResult",
           "update", "handleUpdate", "details", "done", "raised"}

(* The variables of the harness have their types; provider.index never     *)
(* passes the list by more than one.                                       *)
TypeOK ==
  /\ pc \in [Testers -> Labels]
  /\ item \in [Testers -> Tests \cup {NoTest}]
  /\ index \in 1..NumTests + 1
  /\ lock \in Testers \cup {NoTester}
  /\ timeUp \in BOOLEAN
  /\ dirs \subseteq Dirs
  /\ paths \in [Testers -> Seq(Dirs)]
  /\ results \in [Tests -> TestStatus \cup {NoResult}]
  /\ displayLock \in Testers \cup {NoTester}
  /\ progress \in 0..NumTests
  /\ screen \in Seq(Lines)
  /\ summary \in [printed : BOOLEAN, xfails : SUBSET Tests,
                  xpasses : SUBSET Tests, failures : SUBSET Tests]
  /\ code \in [Tests -> TestStatus \cup {NoResult}]

(* A thread works on the test it took until its report is printed.         *)
Working(t) == pc[t] \in {"taken", "exists", "mkdir", "run", "setResult",
                         "update", "handleUpdate", "details"}

(* provider.get hands each test to one thread, once: no two threads work   *)
(* on the same test, and a test still to be handed out has no result.      *)
OneTesterPerTest ==
  /\ \A t, u \in Testers :
       t # u /\ Working(t) /\ Working(u) => item[t] # item[u]
  /\ \A i \in Tests : results[i] # NoResult => i < index

(* However the calls of mkdir_p of several threads interleave, none of     *)
(* them fails, and a test is run only when its output directory exists.    *)
OutputDirReady ==
  \A t \in Testers :
    /\ pc[t] = "mkdir" => ParentOf[Head(paths[t])] \in dirs \cup {NoDir}
    /\ pc[t] = "run" => OutputDir[item[t]] \in dirs

(* The details of a failure follow its first lines and nothing is printed  *)
(* in between, whatever the other threads print (display.lock); details    *)
(* that are missing are those of a thread that died.                       *)
ReportsNotInterleaved ==
  \A k \in 1..Len(screen) :
    /\ screen[k].part = "details" => k > 1 /\ screen[k - 1] = Line(screen[k].test, "head")
    /\ screen[k].part = "head" =>
         \/ k < Len(screen) /\ screen[k + 1].part = "details"
         \/ k = Len(screen) /\ \E t \in Testers : item[t] = screen[k].test /\ pc[t] = "details"
         \/ \E t \in Testers : item[t] = screen[k].test /\ pc[t] = "raised"

(* The summary is right: what it lists are the tests that failed, and a    *)
(* test without a result was running when its thread died, or was never    *)
(* handed out because the time was over or every thread had died.          *)
SummaryComplete ==
  summary.printed =>
    /\ summary.failures = {i \in Tests : code[i] = "Fail"}
    /\ summary.xpasses = {i \in Tests : code[i] = "XPass"}
    /\ \A i \in Tests :
         results[i] = NoResult =>
           \/ \E t \in Testers : pc[t] = "raised" /\ item[t] = i
           \/ i >= index /\ timeUp
           \/ i >= index /\ \A t \in Testers : pc[t] = "raised"

(* What the user reads is right, though threads store results without the  *)
(* provider's lock, print between one another, die and run out of time.    *)
ReportsAreRight == SummaryComplete /\ ReportsNotInterleaved

(* The harness ends: no lock is held for ever, also when threads die.      *)
HarnessEnds == <>summary.printed
============================================================================

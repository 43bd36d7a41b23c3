SPECIFICATION FairSpec
CONSTANTS
  Testers = {t1, t2, t3}
  NoTester = NoTester
  NoTest = NoTest
  NoResult = NoResult
  NoDir = NoDir
  Output = Output
  sub1 = sub1
  sub2 = sub2
  Dirs <- MCDirs
  ParentOf <- MCParentOf
  NumTests = 3
  OutputDir <- MCOutputDir
  Scripts <- MCScripts
  UseValgrind = TRUE
  HasMaxTime = TRUE
  Quiet = FALSE
  UseProgressBar = TRUE
INVARIANTS
  OneTesterPerTest
  OutputDirReady
  ReportsAreRight
PROPERTY
  HarnessEnds

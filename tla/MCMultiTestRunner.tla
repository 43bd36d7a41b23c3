------------------------- MODULE MCMultiTestRunner -------------------------
(* Three threads, three tests in two output directories that share a       *)
(* parent.                                                                 *)
EXTENDS MultiTestRunner

CONSTANTS Output, sub1, sub2  \* directories

MCDirs == {Output, sub1, sub2}
MCParentOf == [d \in MCDirs |-> IF d = Output THEN NoDir ELSE Output]
MCOutputDir == [i \in Tests |-> IF i = 2 THEN sub2 ELSE sub1]
MCScripts == [i \in Tests |-> [run |-> i # 3, xfail |-> i = 2]]
============================================================================

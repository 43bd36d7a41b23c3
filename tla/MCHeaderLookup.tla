-------------------------- MODULE MCHeaderLookup --------------------------
(***************************************************************************)
(* An instance of HeaderLookup for TLC: a directory for quoted names, a    *)
(* user framework directory, a system directory and a system framework     *)
(* directory.  Name "plain" is a plain header, "Fg" is FFw/g.h, and "abs"  *)
(* is the absolute name of a header of another framework, which may hold a *)
(* subframework FFw.                                                       *)
(***************************************************************************)
EXTENDS HeaderLookup

CONSTANTS main, f0, f2, g1, g3, gs, u,  \* files
          plain, Fg, abs,               \* names
          FFw, FBundle, UBundle         \* frameworks

MCFiles == {main, f0, f2, g1, g3, gs, u}
MCBundles == {FBundle, UBundle}
MCFrameworkOf == [n \in Names |-> IF n = Fg THEN FFw ELSE NoFramework]

MCSearchDirs ==
  [i \in 0..3 |-> [isFramework |-> i \in {1, 3},
                   DirCharacteristic |->
                     CASE i \in {0, 1} -> C_User [] i = 2 -> C_System
                       [] i = 3 -> C_ExternCSystem]]

IfIn(x, disk) == IF x \in disk THEN x ELSE NoFile

(* The file system that has the headers in "disk" and framework FFw in the *)
(* search directories "dirs"; "here": the main file lies in directory 0.   *)
MCFileSystem(disk, dirs, here) ==
  [inDir |-> [i \in 0..3 |-> [n \in Names |->
     CASE i = 0 /\ n = plain -> IfIn(f0, disk) [] i = 2 /\ n = plain -> IfIn(f2, disk)
       [] i = 1 /\ n = Fg -> IfIn(g1, disk) [] i = 3 /\ n = Fg -> IfIn(g3, disk)
       [] OTHER -> NoFile]],
   hasFramework |-> [i \in 0..3 |-> IF i \in dirs THEN {FFw} ELSE {}],
   beside |-> [x \in MCFiles |-> [n \in Names |->
     CASE n = plain /\ (x = f0 \/ (x = main /\ here)) -> IfIn(f0, disk)
       [] n = plain /\ x = f2 -> IfIn(f2, disk)
       [] OTHER -> NoFile]],
   absolute |-> [n \in Names |-> IF n = abs THEN IfIn(u, disk) ELSE NoFile],
   bundle |-> [x \in MCFiles |-> CASE x \in {u, gs} -> UBundle
                                  [] x \in {g1, g3} -> FBundle
                                  [] OTHER -> NoBundle],
   hasSubframework |-> [b \in MCBundles |-> IF b = UBundle THEN {FFw} ELSE {}],
   inSub |-> [b \in MCBundles |-> [n \in Names |->
     IF b = UBundle /\ n = Fg THEN IfIn(gs, disk) ELSE NoFile]]]

(* Any of the two plain headers may be missing.                            *)
PlainFileSystems ==
  {MCFileSystem({f0, f2}, {}, here) : here \in BOOLEAN}
    \cup {MCFileSystem(disk, {}, FALSE) : disk \in {{f0}, {f2}}}

(* Framework FFw in both framework directories, in one, or in none; its    *)
(* header g.h where the framework is, missing there, or in a subframework  *)
(* of the other framework.                                                 *)
FrameworkFileSystems ==
  {MCFileSystem(disk[1], disk[2], FALSE) :
     disk \in {<<{g1, g3}, {1, 3}>>, <<{u, g3, gs}, {1, 3}>>, <<{u, g3}, {3}>>,
               <<{u, gs}, {1}>>, <<{u, gs}, {}>>}}

(* Plain headers and frameworks together.                                  *)
MCFileSystems ==
  PlainFileSystems \cup FrameworkFileSystems
    \cup {MCFileSystem({f0, f2, g3}, {1, 3}, FALSE),
          MCFileSystem({u, f2, gs}, {}, FALSE)}
============================================================================

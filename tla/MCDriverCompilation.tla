------------------------ MODULE MCDriverCompilation -------------------------
(* Small instances of DriverCompilation.                                   *)
EXTENDS DriverCompilation

File(dir, base, suffix, type) == [file |-> <<dir, base, <<suffix>>>>, type |-> type, exists |-> TRUE]
CFile == File("", "a", "c", "C")
OtherCFile == File("d", "b", "c", "C")
MissingFile == [CFile EXCEPT !.file = <<"", "m", <<"c">>>>, !.exists = FALSE]

InputLists == {<<>>, <<CFile>>, <<CFile, OtherCFile>>,
               <<CFile, File("", "b", "s", "PP_Asm")>>,
               <<File("d", "b", "S", "Asm"), File("", "c", "o", "Object")>>,
               <<File("d", "h", "h", "CHeader")>>,
               <<File("", "c", "i", "PP_C"), MissingFile>>,
               <<CFile, File("d", "a", "c", "C")>>}

AllFlags == {[o |-> o, save_temps |-> s, no_integrated_cpp |-> n, emit_llvm |-> e,
              pipe |-> FALSE, hashes |-> FALSE, print_bindings |-> FALSE] :
               o \in BOOLEAN, s \in BOOLEAN, n \in BOOLEAN, e \in BOOLEAN}
NoFlags == [o |-> FALSE, save_temps |-> FALSE, no_integrated_cpp |-> FALSE,
            emit_llvm |-> FALSE, pipe |-> FALSE, hashes |-> FALSE,
            print_bindings |-> FALSE]

MCCommandLines ==
  [inputs : InputLists, mode : Mode,
   flags : AllFlags \cup {[NoFlags EXCEPT !.hashes = TRUE],
                          [NoFlags EXCEPT !.print_bindings = TRUE, !.pipe = TRUE]}]

(* A temporary file and a result file that cannot be removed.              *)
MCStuck == {<<"/tmp", 2, <<"s">>>>, <<"", "b", <<"o">>>>}

PipeCommandLines ==
  {[inputs |-> <<CFile>>, mode |-> "link",
    flags |-> [NoFlags EXCEPT !.print_bindings = TRUE, !.pipe = TRUE, !.save_temps = TRUE]]}
HeaderCommandLines ==
  {[inputs |-> <<File("d", "h", "h", "CHeader")>>, mode |-> "fsyntax-only", flags |-> NoFlags]}
NoneStuck == {}
=============================================================================

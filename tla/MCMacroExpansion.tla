--------------------------- MODULE MCMacroExpansion ---------------------------
(***************************************************************************)
(* The programs that MacroExpansion is checked on: tables of macros, each  *)
(* with all the short texts over an alphabet.                              *)
(***************************************************************************)
EXTENDS MacroExpansion

Object(ids) ==
  [isFunctionLike |-> FALSE, isVariadic |-> FALSE, isBuiltin |-> FALSE,
   params |-> <<>>, body |-> ids]
Function(names, ids) == [Object(ids) EXCEPT !.isFunctionLike = TRUE, !.params = names]
Variadic(names, ids) == [Function(names, ids) EXCEPT !.isVariadic = TRUE]
Builtin == [Object(<<"0">>) EXCEPT !.isBuiltin = TRUE]

RECURSIVE OfLength(_, _)
OfLength(alphabet, n) ==
  IF n = 0 THEN {<<>>} ELSE {Append(t, a) : t \in OfLength(alphabet, n - 1), a \in alphabet}
Short(alphabet, n) == UNION {OfLength(alphabet, k) : k \in 0..n}
Of(table, texts) == {[table |-> table, text |-> <<>>, includer |-> t] : t \in texts}

(* Macros that use each other and themselves, across the ends of each      *)
(* other's expansions; after C99 6.10.3.4 and macro_rescan2.c.             *)
Mutual ==
  [f |-> Function(<<"a">>, <<"a", "g">>),
   g |-> Function(<<"a">>, <<"f", "(", "a", ")">>),
   X |-> Object(<<"f", "X">>),
   i |-> Function(<<"a">>, <<"a">>)]
MutualTexts ==
  LET inside == Short({"f", "g", "X", "(", ")"}, 4) IN
  Of("Mutual", Short({"f", "g", "X", "(", ")", "1"}, 5)
                 \cup {<<"i", "(">> \o t \o <<")", "(", "1", ")">> : t \in inside}
                 \cup {<<"f", "(", "i", "(">> \o t \o <<")", ")">> : t \in inside})

(* Names that are made by pasting; after macro_disable.c.                  *)
Chain ==
  [M |-> Function(<<"x">>, <<"M", "##", "x">>),
   M1 |-> Function(<<"x">>, <<"x", "+", "M", "(", "0", ")">>),
   M2 |-> Function(<<"x">>, <<"x", "+", "M1", "(", "1", ")">>)]
ChainTexts ==
  Of("Chain", {<<"M", "(", a, ")", "(", b, ")", "(", c, ")">> :
                 a, b, c \in {"0", "1", "2", "M", "M1"}})

(* Macros whose expansion ends inside an invocation, after macro_disable4  *)
(* .c, and macros that expand to nothing.                                  *)
Inner ==
  [i |-> Function(<<"a">>, <<"a">>),
   n |-> Function(<<"a">>, <<>>),
   e |-> Function(<<>>, <<"1", "e">>),
   o |-> Object(<<"i", "(", "o">>),
   O |-> Object(<<>>),
   t |-> Function(<<"a">>, <<"i", "(", "t">>)]
InnerTexts ==
  Of("Inner", Short({"i", "e", "n", "o", "O", "(", ")"}, 4)
                \cup {<<"t", "(", "1", ")", ")">> \o t : t \in Short({"t", "o", "(", ")", "1"}, 4)})

(* Strings, pastes with empty operands and variable arguments, in          *)
(* invocations with all the short arguments.                               *)
Operators ==
  [p |-> Function(<<"a", "b", "c">>, <<"a", "##", "b", "##", "c">>),
   q |-> Function(<<"a", "b">>, <<"#", "a", "y", "##", "b", "a">>),
   v |-> Variadic(<<"a", "w">>, <<"a", ",", "##", "w", "z">>),
   w |-> Variadic(<<"w">>, <<"y", ",", "##", "w", ")">>),
   M |-> Object(<<"x", "M">>),
   N |-> Object(<<"y", "##", "z", "##", "+">>)]
OperatorTexts ==
  Of("Operators", {<<m, "(">> \o t \o <<")">> :
                   m \in {"p", "q", "v", "w"}, t \in Short({"1", "M", ",", "(", ")"}, 4)})
    \cup Of("Operators", {<<"N">>})

(* Arguments that are used twice.                                          *)
Counting ==
  [d |-> Function(<<"a">>, <<"a", "a">>),
   __COUNTER__ |-> Builtin]
CountingTexts == Of("Counting", Short({"d", "__COUNTER__", "(", ")"}, 6))

(* A file that is included and ends with the name of a macro.              *)
IncludedTexts ==
  {[table |-> "Mutual", text |-> t, includer |-> <<"(", "1", ")">>] :
     t \in {<<"f">>, <<"X">>, <<"g", "(", "1", ")">>, <<"f", "(", "g", ")">>}}

MCPrograms ==
  MutualTexts \cup ChainTexts \cup InnerTexts \cup OperatorTexts \cup CountingTexts \cup IncludedTexts

One(table, ids) == {[table |-> table, text |-> <<>>, includer |-> ids]}

(* A macro that is expanded to the name of one that is disabled.           *)
Painted ==
  [f |-> Function(<<"a">>, <<"A", "a">>),
   A |-> Object(<<"f">>),
   h |-> Function(<<"a">>, <<"a">>)]
PaintedPrograms == One("Painted", <<"h", "(", "f", "(", ")", ")", "(", "1", ")">>)

(* An operand of ## behind one that is empty.                              *)
Concatenation == [c |-> Function(<<"a", "b">>, <<"a", "##", "b">>)]
EmptyOperandPrograms ==
  One("Concatenation", <<"c", "(", ",", "c", "(", "x", ",", "y", ")", ")">>)

(* A macro named by a keyword that is found in an argument.                *)
Keyword ==
  [i |-> Function(<<"a">>, <<"a">>),
   while |-> Function(<<"a">>, <<"i", "(", "while">>)]
KeywordPrograms ==
  One("Keyword", <<"while", "(", "1", ")", ")", "(", "1", ")", ")">>)
MCKeywords == {"while"}

Comment == [C |-> Object(<<"/", "##", "/">>)]
CommentPrograms == One("Comment", <<"C", "x">>)

ArgumentPastePrograms == One("Painted", <<"h", "(", "x", "##", ")">>)

NoParameter == [z |-> Function(<<>>, <<"0">>)]
NoParameterPrograms == One("NoParameter", <<"z", "(", "1", ",", "2", ")">>)

MCTables ==
  [Mutual |-> Mutual, Chain |-> Chain, Inner |-> Inner, Operators |-> Operators,
   Counting |-> Counting,
   Painted |-> Painted, Concatenation |-> Concatenation, Keyword |-> Keyword, Comment |-> Comment,
   NoParameter |-> NoParameter]
=============================================================================

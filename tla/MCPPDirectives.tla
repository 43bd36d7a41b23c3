-------------------------- MODULE MCPPDirectives --------------------------
(* Instances of PPDirectives for TLC.                                      *)
EXTENDS PPDirectives

CONSTANTS G, H, main, a, b, builtin  \* model values

Lit(v) == [op |-> "lit", val |-> v]
NotDefined(m) == [op |-> "notdefined", macro |-> m]
Expand(m) == [op |-> "macro", macro |-> m]

One == Lit(TRUE)

Tok == [op |-> "token"]
Other == [op |-> "other"]
Else == [op |-> "else"]
Endif == [op |-> "endif"]
Once == [op |-> "pragma_once"]
Use(m) == [op |-> "use", macro |-> m]
Define(m) == [op |-> "define", macro |-> m, body |-> One]
DefineAs(m, c) == [op |-> "define", macro |-> m, body |-> c]
Undef(m) == [op |-> "undef", macro |-> m]
Ifdef(m) == [op |-> "ifdef", macro |-> m]
Ifndef(m) == [op |-> "ifndef", macro |-> m]
If(c) == [op |-> "if", cond |-> c]
Elif(c) == [op |-> "elif", cond |-> c]
Include(f) == [op |-> "include", file |-> f]
Import(f) == [op |-> "import", file |-> f]

TextsOf(n, alphabet) == [1..n -> alphabet]
TextsUpTo(n, alphabet) == UNION {TextsOf(k, alphabet) : k \in 0..n}

Buffer(p, m, x, y) ==
  [f \in {builtin, main, a, b} |->
     CASE f = builtin -> p [] f = main -> m [] f = a -> x [] f = b -> y]

MCMacros == {G, H}
MCFiles == {main, a, b}

(* A macro expands to 1, or hides an include guard.                        *)
MCBodies == {One, NotDefined(G)}

(* Every header of three lines and an end, alone or behind one of some     *)
(* beginnings, included twice while its guard macro is defined, and first  *)
(* with no macro defined, then with the guard hidden in an expansion.      *)
HeaderLines ==
  {Tok, Define(G), Ifdef(G), Ifndef(G), If(Expand(H)), Elif(Expand(G)), Else, Endif}
HeaderEnds == {Tok, Else, Endif}

DirectiveContents ==
  {Buffer(<<>>, m, first \o x \o <<end>>, <<>>) :
     m \in {<<Define(G), Include(a), Include(a)>>,
            <<Include(a), DefineAs(H, NotDefined(G)), Undef(G), Include(a)>>},
     first \in {<<>>, <<Ifndef(NoMacro)>>, <<If(NotDefined(H)), Tok, Endif>>,
                <<Ifndef(G), Else>>},
     x \in TextsOf(3, HeaderLines), end \in HeaderEnds}

(* Headers that include each other, themselves and the main file, also     *)
(* from the predefines buffer (-include).                                  *)
RecursionContents ==
  {Buffer(p, <<Include(a), Import(b)>>, x, y) :
     p \in {<<DefineAs(H, NotDefined(G)), Include(b)>>, <<>>},
     x \in TextsOf(2, {Include(a), Import(b), Include(main), Import(main),
                       If(Expand(H)), Once}),
     y \in TextsUpTo(2, {Include(a), Include(b), Include(NoFile), Use(H), Other,
                         Undef(H), Once})}
MCContents == DirectiveContents \cup RecursionContents
============================================================================

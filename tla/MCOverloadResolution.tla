------------------------- MODULE MCOverloadResolution -------------------------
(***************************************************************************)
(* Calls of three functions, by the kind of argument they are about.       *)
(* C is derived from B and X, and B from A; Y is made of an int or an A;   *)
(* C is converted to int and double, and Z to an int lvalue.               *)
(***************************************************************************)
EXTENDS OverloadResolution

MCClasses == {"A", "B", "C", "X", "Y", "Z"}
MCDerivations == {<<"B", "A">>, <<"C", "B">>, <<"C", "A">>, <<"C", "X">>}

const == {"const"}
Type(b, q) == [base |-> b, via |-> <<>>, cv |-> <<q>>]
Pointer(b, q) == [base |-> b, via |-> <<"*">>, cv |-> <<{}, q>>]
Member(b, q, c) == [base |-> b, via |-> <<c>>, cv |-> <<{}, q>>]
By(b, way, p, q) == [base |-> b, via |-> way, cv |-> <<{}, p, q>>]
Value(T) == [type |-> T, ref |-> "value"]
LRef(T) == [type |-> T, ref |-> "lref"]
RRef(T) == [type |-> T, ref |-> "rref"]

MCConstructors(c) ==
  {[id |-> c, param |-> LRef(Type(c, const))]} \cup
  IF c # "Y" THEN {}
  ELSE {[id |-> "Y(int)", param |-> Value(Type("int", {}))],
        [id |-> "Y(A)", param |-> LRef(Type("A", const))]}

MCConversions(c) ==
  CASE c = "C" -> {[id |-> "int", to |-> Value(Type("int", {})), quals |-> {}],
                   [id |-> "double", to |-> Value(Type("double", {})), quals |-> const]}
    [] c = "Z" -> {[id |-> "int&", to |-> LRef(Type("int", {})), quals |-> {}]}
    [] OTHER -> {}

Arg(T, form) == [type |-> T, form |-> form]

Function(params, required) ==
  [params |-> params, required |-> required, isVariadic |-> FALSE, isDeleted |-> FALSE,
   isMethod |-> FALSE]
Unary(P) == Function(<<P>>, 1)
Variadic == [Function(<<>>, 0) EXCEPT !.isVariadic = TRUE]

(* Three different functions, in some order or in every order.             *)
Triples(F) == {SetToSeq(S) : S \in kSubset(3, F)}
Orders(F) == UNION {SetToSeqs(S) : S \in kSubset(3, F)}
Ask(args, F) == {[args |-> <<a>>, functions |-> t] : a \in args, t \in Triples(F)}

Numbers ==
  Ask({Arg(Type("char", {}), "lvalue"), Arg(Type("enum", {}), "rvalue"),
       Arg(Type("int", const), "lvalue"), Arg(Type("float", {}), "rvalue")},
      {Unary(Value(Type(b, {}))) : b \in {"bool", "int", "unsigned", "double", "Y"}}
        \cup {Unary(LRef(Type("int", {}))), Unary(LRef(Type("int", const))),
              Unary(RRef(Type("char", {}))), Variadic})

Pointers ==
  Ask({Arg(Pointer("C", {}), "lvalue"), Arg(Pointer("C", const), "rvalue"),
       Arg(Pointer("B", {}), "rvalue")},
      {Unary(Value(Pointer(b, q))) : b \in {"A", "B", "void"}, q \in {{}, const}}
        \cup {Unary(Value(Type("bool", {}))), Unary(RRef(Pointer("B", {}))), Variadic})

Levels ==
  UNION {Ask({Arg(By("int", way, {}, {}), "rvalue"), Arg(By("int", way, const, {}), "rvalue")},
             {Unary(Value(By("int", way, p, q))) : p, q \in {{}, const, {"const", "volatile"}}}
               \cup {Unary(Value(Pointer("void", {})))}) :
           way \in {<<"*", "*">>, <<"A", "*">>, <<"*", "A">>}}

Strings ==
  Ask({Arg(Pointer("char", const), "string"), Arg(Pointer("char", {}), "array")},
      {Unary(Value(Pointer(b, q))) : b \in {"char", "void"}, q \in {{}, const}}
        \cup {Unary(Value(Pointer("char", {"const", "volatile"}))), Unary(Value(Type("bool", {}))),
              Unary(LRef(QualifiedAs(Pointer("char", const), const))), Variadic})

Objects ==
  Ask({Arg(Type("C", {}), "lvalue"), Arg(Type("C", const), "lvalue"),
       Arg(Type("C", {}), "rvalue")},
      {Unary(P) : P \in {Value(Type("A", {})), LRef(Type("A", {})), LRef(Type("A", const)),
                         LRef(Type("B", {"const", "volatile"})), LRef(Type("X", const)),
                         RRef(Type("A", {})), RRef(Type("B", {})), Value(Type("int", {})),
                         LRef(Type("double", const)), Value(Type("Y", {}))}})

Members ==
  Ask({Arg(Member("int", {}, "A"), "lvalue"), Arg(Type("int", {}), "null")},
      {Unary(Value(Member("int", q, c))) : q \in {{}, const}, c \in {"A", "B", "C"}}
        \cup {Unary(Value(Member("char", {}, "B"))),
              Unary(Value(By("int", <<"B", "*">>, {}, {}))),
              Unary(Value(Pointer("A", {}))), Unary(Value(Pointer("void", {}))),
              Unary(Value(Type("int", {})))})

Binary ==
  {[args |-> <<Arg(Type("int", {}), "lvalue"), Arg(Type("char", {}), "rvalue")>>, functions |-> t] :
     t \in Orders({Function(<<Value(Type(b, {})), Value(Type(c, {}))>>, r) :
                      b, c \in {"int", "double"}, r \in {1, 3}}
                     \cup {[Function(<<Value(Type("int", {}))>>, 1) EXCEPT !.isVariadic = v,
                                                                       !.isDeleted = v] :
                             v \in BOOLEAN}
                     \cup {[Function(<<Value(Type("int", {})), Value(Type("int", {}))>>, 2) EXCEPT
                              !.isDeleted = TRUE]})}

Method(class, quals, static, b) ==
  [params |-> <<Value(Type(b, {}))>>, required |-> 1, isVariadic |-> FALSE, isDeleted |-> FALSE,
   isMethod |-> TRUE, isStatic |-> static, class |-> class, quals |-> quals]

Methods ==
  {[args |-> <<Arg(Type("int", {}), "lvalue")>>, object |-> Type("C", q), functions |-> t] :
     q \in {{}, const},
     t \in Orders({Method(c, p, FALSE, b) : c \in {"B", "C"}, p \in {{}, const}, b \in {"int", "double"}}
                     \cup {Method("C", {}, TRUE, b) : b \in {"int", "double"}})}

(* To pointers to two classes that nothing ranks and to a third between.   *)
Circles ==
  Ask({Arg(Pointer("C", {}), "rvalue")},
      {Unary(LRef(QualifiedAs(Pointer("B", {"const", "volatile"}), const))),
       Unary(Value(Pointer("A", const))), Unary(LRef(QualifiedAs(Pointer("A", const), const))),
       Unary(RRef(Pointer("X", {"const", "volatile"})))})

MCCalls ==
  Numbers \cup Pointers \cup Circles \cup Levels \cup Strings \cup Objects \cup Members
    \cup Binary \cup Methods

MCStoredTypes ==
  LET quals == {{}, const, {"const", "volatile"}} IN
  {Pointer(b, q) : b \in {"int", "char"}, q \in quals}
    \cup {Member("int", q, "A") : q \in quals}

(* Calls for the comments that do not hold.                                *)
NullCalls ==
  Ask({Arg(Type("int", {}), "null")},
      {Unary(Value(Pointer("void", {}))), Unary(Value(Pointer("void", const))),
       Unary(Value(Pointer("int", {})))})
MemberCalls ==
  Ask({Arg(Member("int", {}, "A"), "rvalue")},
      {Unary(Value(Type("bool", {}))), Unary(Value(Member("int", {}, "B"))), Variadic})
UnrelatedCalls ==
  Ask({Arg(Pointer("C", {}), "rvalue")},
      {Unary(Value(Pointer("A", const))), Unary(Value(Pointer("X", {"const", "volatile"}))),
       Variadic})
TopLevelCalls ==
  Ask({Arg(Pointer("int", {}), "rvalue")},
      {Unary(Value(Pointer("int", {}))), Unary(LRef(QualifiedAs(Pointer("int", {}), const))),
       Variadic})
CopyCalls ==
  Ask({Arg(Type("C", {}), "lvalue")},
      {Unary(LRef(Type("B", {}))), Unary(Value(Type("A", {}))), Variadic})
BindingCalls ==
  Ask({Arg(Type("Z", {}), "lvalue")},
      {Unary(LRef(Type("double", const))), Unary(Value(Type("Y", {}))), Variadic})
=============================================================================

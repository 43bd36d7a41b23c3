---------------------------- MODULE MacroReference ----------------------------
(***************************************************************************)
(* What C99 6.10.3 says macro expansion gives, as a function of the text:  *)
(* every token carries the set of the macros it may no longer name (its    *)
(* hide set), the operands of ## are replaced by place markers when they   *)
(* are empty, and an argument that is no operand is expanded on its own.   *)
(* GNU's comma before ## __VA_ARGS__ is added to it.                       *)
(*                                                                         *)
(* The texts it is asked about have no invocation with a wrong number of   *)
(* arguments or without its end.                                           *)
(***************************************************************************)
EXTENDS Integers, Sequences, FiniteSets

CONSTANT Glue(_, _)    \* the spelling of two spellings pasted

Hidden(id, hide) == [id |-> id, hide |-> hide]
PlaceMarker == Hidden("placemarker", {})
PasteOperator == Hidden("paste", {})

Hide(toks, hs) == [i \in DOMAIN toks |-> [toks[i] EXCEPT !.hide = @ \cup hs]]

(* The arguments of an invocation, read from behind its parenthesis: they, *)
(* the hide set of the closing parenthesis and the tokens behind that.     *)
RECURSIVE Arguments(_, _, _, _)
Arguments(ts, args, depth, left) ==
  LET t == ts[1]
      n == Len(args)
      More(d) == Arguments(Tail(ts), [args EXCEPT ![n] = Append(@, t)], d, left) IN
  IF t.id = ")" /\ depth = 0 THEN [args |-> args, hide |-> t.hide, rest |-> Tail(ts)]
  ELSE IF t.id = "," /\ depth = 0 /\ left > 0
  THEN Arguments(Tail(ts), Append(args, <<>>), depth, left - 1)
  ELSE More(CASE t.id = "(" -> depth + 1 [] t.id = ")" -> depth - 1 [] OTHER -> depth)

RECURSIVE Spelled(_)
Spelled(ts) == IF ts = <<>> THEN "" ELSE ts[1].id \o Spelled(Tail(ts))

(* The pasting of a sequence with operators and place markers.             *)
RECURSIVE PasteAll(_)
PasteAll(ts) ==
  IF Len(ts) < 3 THEN ts
  ELSE IF ts[2] # PasteOperator THEN <<ts[1]>> \o PasteAll(Tail(ts))
  ELSE LET l == ts[1]
           r == ts[3]
           pasted == IF l = PlaceMarker THEN r ELSE IF r = PlaceMarker THEN l
                     ELSE Hidden(Glue(l.id, r.id), l.hide \cap r.hide) IN
       PasteAll(<<pasted>> \o SubSeq(ts, 4, Len(ts)))

RECURSIVE Concatenated(_)
Concatenated(ss) == IF ss = <<>> THEN <<>> ELSE ss[1] \o Concatenated(Tail(ss))

RECURSIVE Expanded(_, _), Substituted(_, _, _)

(* 6.10.3.1 to 6.10.3.3: the body of MI with the arguments.                *)
Substituted(macros, MI, given) ==
  LET body == MI.body
      n == Len(MI.params)
      missing == MI.isVariadic /\ (Len(given) < n \/ (n = 1 /\ given = << <<>> >>))
      args == IF Len(given) < n THEN Append(given, <<>>) ELSE given
      Param(i) == {k \in 1..n : i \in DOMAIN body /\ MI.params[k] = body[i]}
      Number(i) == CHOOSE k \in Param(i) : TRUE
      Is(i, id) == i \in DOMAIN body /\ body[i] = id
      Operand(i) == Is(i - 1, "##") \/ Is(i + 1, "##")
      (* "," ## __VA_ARGS__, seen from the comma or from the operator *)
      CommaPaste(i) == /\ MI.isVariadic /\ Is(i, ",") /\ Is(i + 1, "##")
                       /\ Param(i + 2) = {n}
      Piece(i) ==
        IF CommaPaste(i) /\ missing THEN <<>>
        ELSE IF CommaPaste(i - 1)
             THEN IF missing \/ args[n] # <<>> THEN <<>> ELSE <<PasteOperator>>
        ELSE IF body[i] = "##" THEN <<PasteOperator>>
        ELSE IF body[i] = "#" THEN <<>>
        ELSE IF Is(i - 1, "#") THEN <<Hidden("'" \o Spelled(args[Number(i)]) \o "'", {})>>
        ELSE IF Param(i) = {} THEN <<Hidden(body[i], {})>>
        ELSE IF ~Operand(i) THEN Expanded(macros, args[Number(i)])
        ELSE IF args[Number(i)] = <<>> THEN <<PlaceMarker>> ELSE args[Number(i)] IN
  SelectSeq(PasteAll(Concatenated([i \in DOMAIN body |-> Piece(i)])),
            LAMBDA t : t # PlaceMarker)

(* 6.10.3.4: the text with its macros replaced, rescanned.                 *)
Expanded(macros, ts) ==
  IF ts = <<>> THEN <<>>
  ELSE LET t == ts[1]
           name == t.id \in DOMAIN macros /\ t.id \notin t.hide IN
    IF name /\ ~macros[t.id].isFunctionLike
    THEN Expanded(macros, Hide(Substituted(macros, macros[t.id], <<>>),
                               t.hide \cup {t.id}) \o Tail(ts))
    ELSE IF name /\ Len(ts) > 1 /\ ts[2].id = "("
    THEN LET MI == macros[t.id]
             call == Arguments(SubSeq(ts, 3, Len(ts)), << <<>> >>, 0, Len(MI.params) - 1) IN
         Expanded(macros, Hide(Substituted(macros, MI, call.args),
                               (t.hide \cap call.hide) \cup {t.id}) \o call.rest)
    ELSE <<t>> \o Expanded(macros, Tail(ts))

(* The spellings a text expands to.                                        *)
Expansion(macros, ids) ==
  LET ts == Expanded(macros, [i \in DOMAIN ids |-> Hidden(ids[i], {})]) IN
  [i \in DOMAIN ts |-> ts[i].id]
=============================================================================

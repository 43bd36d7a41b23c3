------------------------- MODULE MCDiagnosticEngine -------------------------
(* Small instances of DiagnosticEngine.                                    *)
EXTENDS DiagnosticEngine

MCBuiltin == {"note", "warn", "ext", "extwarn", "err", "fatal", "no_changes"}
MCDiagClass ==
  [d \in MCBuiltin |-> CASE d = "note" -> "note"
                         [] d \in {"warn", "no_changes"} -> "warning"
                         [] d \in {"ext", "extwarn"} -> "extension"
                         [] d \in {"err", "fatal"} -> "error"]
MCDefaultMapping ==
  [d \in MCBuiltin |-> CASE d \in {"warn", "no_changes", "extwarn"} -> "warning"
                         [] d = "ext" -> "ignore"
                         [] d = "fatal" -> "fatal"
                         [] OTHER -> "error"]
MCCustom == {"custom_warn", "custom_note"}
MCCustomLevel == [d \in MCCustom |-> IF d = "custom_warn" THEN "Warning" ELSE "Note"]

(* The group "all" has the group "pedantry" as a subgroup.                 *)
MCGroupMembers == [all |-> {"warn", "ext", "extwarn"}, pedantry |-> {"ext", "extwarn"}]

Opt(k, p, g) == [kind |-> k, positive |-> p, group |-> g]
NegWerror == Opt("error", FALSE, "all")
Werror == Opt("error", TRUE, "all")
GroupOptions == {Opt(k, p, g) : k \in {"group", "error="}, p \in BOOLEAN,
                                g \in DOMAIN MCGroupMembers}

(* Without and with the fix-it client.                                     *)
Line(w, ped, pe, W) == [w |-> w, pedantic |-> ped, pedanticErrors |-> pe,
                        W |-> W, fixIt |-> FALSE, fixItAt |-> FALSE]
FixItLine(W, at) == [Line(FALSE, FALSE, FALSE, W) EXCEPT !.fixIt = TRUE, !.fixItAt = at]

(* An option about a group and one about its subgroup, in each order, or   *)
(* one of them and the global flags.                                       *)
InGroup(g) == {o \in GroupOptions : o.group = g}
OptionLines ==
  {Line(FALSE, FALSE, FALSE, W) :
     W \in {<<Opt("error=", TRUE, "all"), q>> : q \in InGroup("pedantry")}
           \cup {<<Opt("group", FALSE, "pedantry"), q>> : q \in InGroup("all")}}
  \cup {Line(FALSE, FALSE, TRUE, <<o, Werror, Opt("system-headers", TRUE, "all")>>) :
          o \in InGroup("pedantry")}
  \cup {Line(TRUE, FALSE, TRUE, <<Opt("error=", TRUE, "pedantry")>>)}

MCCommandLines ==
  OptionLines \cup {FixItLine(<<>>, TRUE), FixItLine(<<Opt("group", FALSE, "all")>>, FALSE)}

(* Where the warning flags are not honoured.                               *)
PedanticLines == {Line(FALSE, TRUE, FALSE, <<>>), Line(FALSE, TRUE, FALSE, <<Werror>>)}
NoErrorLines ==
  {Line(FALSE, FALSE, FALSE, W) :
     W \in {<<>>, <<Werror>>, <<NegWerror>>, <<Werror, NegWerror>>}}
============================================================================

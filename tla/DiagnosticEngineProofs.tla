----------------------- MODULE DiagnosticEngineProofs -----------------------
(***************************************************************************)
(* Machine-checked proofs about DiagnosticEngine, for every set of         *)
(* diagnostics, groups and command lines.                                  *)
(***************************************************************************)
EXTENDS DiagnosticEngine, Integers, SequenceTheorems, FiniteSetTheorems,
        TLAPS

-----------------------------------------------------------------------------
(* Sequences                                                               *)

(* What appending one element to a sequence gives.                         *)
LEMMA AppendFacts ==
  ASSUME NEW S, NEW s \in Seq(S), NEW e \in S
  PROVE  /\ Append(s, e) \in Seq(S)
         /\ Len(Append(s, e)) = Len(s) + 1
         /\ \A i \in 1..Len(s) : Append(s, e)[i] = s[i]
         /\ Append(s, e)[Len(s) + 1] = e
  OBVIOUS

-----------------------------------------------------------------------------
IDs == Builtin \cup Custom \cup {"note_fixit"}

(* A diagnostic with its level, and what the history remembers of it.      *)
Diagnostic == [id : IDs, inSystemHeader : BOOLEAN, level : Level,
               ShouldEmitInSystemHeader : BOOLEAN]
Entry == [id : IDs, level : Level, delivered : BOOLEAN, silenced : BOOLEAN,
          fix : {"none", "fails", "applies"}]
DiagState == [ErrorOccurred : BOOLEAN, FatalErrorOccurred : BOOLEAN,
              LastDiagLevel : Level \ {"Note"}, NumErrors : Nat,
              NumDiagnostics : Nat]

-----------------------------------------------------------------------------
(* What the state of ProcessDiag tells about the diagnostics reported      *)
(* before, as a relation between a state s and a history l.                *)

NonNotes(l, k) == {j \in 1..k - 1 : l[j].level # "Note"}
OwnerShown(l, k) == NonNotes(l, k) # {} /\ l[Latest(NonNotes(l, k))].delivered

Shown(l) == {k \in 1..Len(l) : l[k].delivered}
ErrorsIn(l) == {k \in Shown(l) : l[k].level \in {"Error", "Fatal"}}

NotesFollow(l) ==
  \A k \in 1..Len(l) :
    l[k].level = "Note" => (l[k].delivered <=> OwnerShown(l, k))

SilentAfter(l) ==
  \A j, k \in 1..Len(l) :
    j < k /\ l[j].delivered /\ l[j].level = "Fatal" /\ l[k].delivered
      => \A i \in j + 1..k : l[i].level = "Note"

(* Of the diagnostics before one that are not notes there is a latest.     *)
LatestKnown(l) ==
  \A k \in 1..Len(l) + 1 :
    NonNotes(l, k) # {} => Latest(NonNotes(l, k)) \in NonNotes(l, k)

(* A note is shown exactly if the diagnostic before it was.                *)
LastRemembered(s, l) ==
  (~s.FatalErrorOccurred /\ s.LastDiagLevel # "Ignored")
    <=> OwnerShown(l, Len(l) + 1)

(* A fatal error that was shown is remembered; until the next diagnostic   *)
(* only by its level, so that its notes are shown.                         *)
FatalRemembered(s, l) ==
  \A j \in 1..Len(l) :
    l[j].delivered /\ l[j].level = "Fatal" =>
      \/ s.FatalErrorOccurred
      \/ /\ s.LastDiagLevel = "Fatal"
         /\ \A i \in j + 1..Len(l) : l[i].level = "Note"

Counted(s, l) ==
  /\ s.NumErrors = Cardinality(ErrorsIn(l))
  /\ s.NumDiagnostics = Cardinality(Shown(l))
  /\ s.ErrorOccurred <=> ErrorsIn(l) # {}

Accounts(s, l) ==
  /\ LatestKnown(l)
  /\ NotesFollow(l)
  /\ SilentAfter(l)
  /\ LastRemembered(s, l)
  /\ FatalRemembered(s, l)
  /\ Counted(s, l)

-----------------------------------------------------------------------------
(* What the options processed so far say about a diagnostic.               *)
OptionsBefore(d) == {i \in OptionsAbout(d) : i < nextOption}

MappingsFollowOptions ==
  \A d \in Builtin :
    OptionsBefore(d) # {} =>
      /\ Latest(OptionsBefore(d)) \in OptionsBefore(d)
      /\ DiagMappings[d] =
           [map |-> OptionMapping(commandLine.W[Latest(OptionsBefore(d))]),
            user |-> TRUE]

(* Nothing is reported before all options were processed.                  *)
OptionsFirst == log # <<>> => nextOption > Len(commandLine.W)

(* As long as no failure was counted no hint failed, and every error that  *)
(* was shown is fixed unless fixes at given places were asked for.         *)
Repaired(e) ==
  /\ e.fix # "fails"
  /\ e.delivered /\ e.level \in {"Error", "Fatal"}
       => commandLine.fixItAt \/ e.fix = "applies"

FixesComplete ==
  /\ commandLine.fixIt /\ NumFailures = 0 =>
       \A k \in 1..Len(log) : Repaired(log[k])
  /\ written = "yes" => commandLine.fixIt /\ NumFailures = 0

DInv ==
  /\ TypeOK
  /\ log \in Seq(Entry)
  /\ Accounts(Diags, log)
  /\ MappingsFollowOptions
  /\ OptionsFirst
  /\ OptionsHonoured
  /\ FixesComplete

-----------------------------------------------------------------------------
(* ProcessDiag.                                                            *)

IsErrorLevel(v) == v \in {"Error", "Fatal"}

(* The errors are the levels from Error up.                                *)
LEMMA RankFacts ==
  ASSUME NEW v \in Level
  PROVE  Rank[v] >= Rank["Error"] <=> IsErrorLevel(v)
  BY DEF Rank, Level, IsErrorLevel

(* How the state of ProcessDiag goes from s to m by a diagnostic of which  *)
(* the history remembers e.                                                *)
Follows(s, m, e) ==
  /\ e.level = "Note" =>
       /\ e.delivered <=> ~s.FatalErrorOccurred /\ s.LastDiagLevel # "Ignored"
       /\ m.FatalErrorOccurred <=> s.FatalErrorOccurred
       /\ m.LastDiagLevel = s.LastDiagLevel
  /\ e.level # "Note" =>
       /\ m.FatalErrorOccurred <=> s.FatalErrorOccurred \/ s.LastDiagLevel = "Fatal"
       /\ e.delivered => /\ ~m.FatalErrorOccurred
                         /\ m.LastDiagLevel = e.level
                         /\ e.level # "Ignored"
       /\ ~e.delivered => m.FatalErrorOccurred \/ m.LastDiagLevel = "Ignored"
  /\ m.NumErrors = IF e.delivered /\ IsErrorLevel(e.level) THEN s.NumErrors + 1
                                                          ELSE s.NumErrors
  /\ m.NumDiagnostics = IF e.delivered THEN s.NumDiagnostics + 1
                                       ELSE s.NumDiagnostics
  /\ m.ErrorOccurred <=> s.ErrorOccurred \/ (e.delivered /\ IsErrorLevel(e.level))

(* Two states that agree on their fields, the Boolean ones being Booleans. *)
LEMMA RememberFacts ==
  ASSUME NEW s \in DiagState, NEW c \in Diagnostic
  PROVE  LET r == Remember(s, c)
         IN /\ r \in DiagState
            /\ r.ErrorOccurred = s.ErrorOccurred
            /\ r.NumErrors = s.NumErrors
            /\ r.NumDiagnostics = s.NumDiagnostics
            /\ c.level = "Note" => r = s
            /\ c.level # "Note" =>
                 /\ r.FatalErrorOccurred
                      <=> s.FatalErrorOccurred \/ s.LastDiagLevel = "Fatal"
                 /\ r.LastDiagLevel = c.level
  BY DEF Remember, DiagState, Diagnostic

LEMMA ProcessDiagFacts ==
  ASSUME NEW s \in DiagState, NEW c \in Diagnostic,
         NEW fix \in {"none", "fails", "applies"}
  PROVE  /\ ProcessDiag(s, c) \in DiagState
         /\ LogEntry(s, c, fix) \in Entry
         /\ Follows(s, ProcessDiag(s, c), LogEntry(s, c, fix))
<1> DEFINE r == Remember(s, c)
           m == ProcessDiag(s, c)
           e == LogEntry(s, c, fix)
           d == Delivered(r, c)
           error == Rank[c.level] >= Rank["Error"]
<1>1. /\ r \in DiagState
      /\ r.ErrorOccurred = s.ErrorOccurred
      /\ r.NumErrors = s.NumErrors
      /\ r.NumDiagnostics = s.NumDiagnostics
      /\ c.level = "Note" => r = s
      /\ c.level # "Note" =>
           /\ r.FatalErrorOccurred
                <=> s.FatalErrorOccurred \/ s.LastDiagLevel = "Fatal"
           /\ r.LastDiagLevel = c.level
  BY RememberFacts
<1>2. /\ c.id \in IDs /\ c.level \in Level /\ c.inSystemHeader \in BOOLEAN
      /\ error <=> IsErrorLevel(c.level)
      /\ error \in BOOLEAN
  BY RankFacts DEF Diagnostic
<1>3. d \in BOOLEAN
  BY DEF Delivered
<1>4. /\ e \in Entry /\ e.level = c.level /\ e.delivered = d
  BY <1>2, <1>3 DEF LogEntry, Entry
<1>5. m = IF d THEN [r EXCEPT !.ErrorOccurred = @ \/ error,
                              !.NumErrors = IF error THEN @ + 1 ELSE @,
                              !.NumDiagnostics = @ + 1]
          ELSE IF ~r.FatalErrorOccurred /\ c.level # "Ignored" /\ c.level # "Note"
            THEN [r EXCEPT !.LastDiagLevel = "Ignored"]
          ELSE r
  BY DEF ProcessDiag
<1>6. /\ d => ~r.FatalErrorOccurred /\ c.level # "Ignored"
      /\ c.level = "Note" =>
           (d <=> ~r.FatalErrorOccurred /\ r.LastDiagLevel # "Ignored")
  BY DEF Delivered, SuppressedInSystemHeader
<1> HIDE DEF r, m, d, e, error
<1>7. m \in DiagState
  <2>1. CASE d
    <3> DEFINE errors == IF error THEN r.NumErrors + 1 ELSE r.NumErrors
               shown == r.NumDiagnostics + 1
               any == r.ErrorOccurred \/ error
    <3>1. errors \in Nat /\ shown \in Nat /\ any \in BOOLEAN
      BY <1>1, <1>2 DEF DiagState
    <3>2. m = [r EXCEPT !.ErrorOccurred = any, !.NumErrors = errors,
                        !.NumDiagnostics = shown]
      BY <1>1, <1>5, <2>1 DEF DiagState
    <3> HIDE DEF errors, shown, any
    <3> QED BY <1>1, <3>1, <3>2 DEF DiagState
  <2>2. CASE ~d
    BY <1>1, <1>5, <2>2 DEF DiagState, Level
  <2> QED BY <2>1, <2>2
<1>8. /\ m.FatalErrorOccurred = r.FatalErrorOccurred
      /\ m.LastDiagLevel =
           IF ~d /\ ~r.FatalErrorOccurred /\ c.level # "Ignored" /\ c.level # "Note"
             THEN "Ignored" ELSE r.LastDiagLevel
      /\ m.NumErrors = IF d /\ error THEN r.NumErrors + 1 ELSE r.NumErrors
      /\ m.NumDiagnostics = IF d THEN r.NumDiagnostics + 1 ELSE r.NumDiagnostics
      /\ m.ErrorOccurred = (r.ErrorOccurred \/ (d /\ error))
  BY <1>1, <1>2, <1>5, SMT DEF DiagState, Level
<1>9. Follows(s, m, e)
  BY <1>1, <1>2, <1>3, <1>4, <1>6, <1>8 DEF Follows
<1> QED BY <1>4, <1>7, <1>9 DEF m, e

-----------------------------------------------------------------------------
(* The history grows.                                                      *)

LEMMA LatestAdded ==
  ASSUME NEW n \in Nat, NEW S, S \subseteq 1..n
  PROVE  Latest(S \cup {n + 1}) = n + 1
<1> DEFINE T == S \cup {n + 1}
<1>1. n + 1 \in T /\ \A i \in T : i <= n + 1
  OBVIOUS
<1>2. \A j \in T : (\A i \in T : i <= j) => j = n + 1
  BY <1>1
<1>3. Latest(T) \in T /\ \A i \in T : i <= Latest(T)
  BY <1>1 DEF Latest
<1> QED BY <1>2, <1>3

LEMMA NonNotesAdded ==
  ASSUME NEW l \in Seq(Entry), NEW e \in Entry
  PROVE  LET n == Len(l)
             L == Append(l, e)
         IN /\ n \in Nat /\ Len(L) = n + 1 /\ L[n + 1] = e
            /\ \A i \in 1..n : L[i] = l[i]
            /\ \A k \in 1..n + 1 : NonNotes(L, k) = NonNotes(l, k)
            /\ NonNotes(L, n + 2) = IF e.level = "Note" THEN NonNotes(l, n + 1)
                                    ELSE NonNotes(l, n + 1) \cup {n + 1}
            /\ \A k \in 1..n + 1 : NonNotes(l, k) \subseteq 1..n
<1> DEFINE n == Len(l)
           L == Append(l, e)
<1>1. n \in Nat /\ Len(L) = n + 1 /\ L[n + 1] = e /\ \A i \in 1..n : L[i] = l[i]
  BY AppendFacts
<1> HIDE DEF L, n
<1>2. \A k \in 1..n + 1 : NonNotes(l, k) \subseteq 1..n
  BY <1>1 DEF NonNotes
<1>3. ASSUME NEW k \in 1..n + 1
      PROVE  NonNotes(L, k) = NonNotes(l, k)
  <2>1. \A j \in 1..k - 1 : j \in 1..n
    BY <1>1
  <2> QED BY <1>1, <2>1 DEF NonNotes
<1>4. NonNotes(L, n + 2) = IF e.level = "Note" THEN NonNotes(l, n + 1)
                           ELSE NonNotes(l, n + 1) \cup {n + 1}
  <2>1. 1..(n + 2) - 1 = (1..n) \cup {n + 1} /\ n + 1 \notin 1..n /\ 1..(n + 1) - 1 = 1..n
    BY <1>1
  <2> QED BY <1>1, <2>1 DEF NonNotes
<1> QED BY <1>1, <1>2, <1>3, <1>4 DEF n, L

(* One more diagnostic keeps the account.                                  *)
LEMMA OneMore ==
  ASSUME NEW s \in DiagState, NEW m \in DiagState,
         NEW l \in Seq(Entry), NEW e \in Entry,
         Follows(s, m, e), Accounts(s, l)
  PROVE  Accounts(m, Append(l, e)) /\ Append(l, e) \in Seq(Entry)
<1> DEFINE n == Len(l)
           L == Append(l, e)
           before == NonNotes(l, n + 1)
<1>1. /\ n \in Nat /\ Len(L) = n + 1 /\ L[n + 1] = e
      /\ \A i \in 1..n : L[i] = l[i]
      /\ \A k \in 1..n + 1 : NonNotes(L, k) = NonNotes(l, k)
      /\ NonNotes(L, n + 2) = IF e.level = "Note" THEN before
                              ELSE before \cup {n + 1}
      /\ \A k \in 1..n + 1 : NonNotes(l, k) \subseteq 1..n
  BY NonNotesAdded
<1>2. L \in Seq(Entry)
  BY AppendFacts
<1>3. \A k \in 1..n + 1 :
        NonNotes(l, k) # {} => Latest(NonNotes(l, k)) \in NonNotes(l, k)
  BY DEF Accounts, LatestKnown, n
<1>4. Latest(before \cup {n + 1}) = n + 1
  <2>1. n \in Nat /\ n + 1 \in 1..n + 1
    BY <1>1
  <2>2. before \subseteq 1..n
    BY <1>1, <2>1
  <2> HIDE DEF n, before
  <2> QED BY <2>1, <2>2, LatestAdded
<1>5. \A k \in 1..n + 1 : OwnerShown(L, k) <=> OwnerShown(l, k)
  <2> SUFFICES ASSUME NEW k \in 1..n + 1, NonNotes(l, k) # {}
               PROVE  L[Latest(NonNotes(l, k))] = l[Latest(NonNotes(l, k))]
    BY <1>1 DEF OwnerShown
  <2>1. Latest(NonNotes(l, k)) \in 1..n
    BY <1>1, <1>3
  <2> QED BY <1>1, <2>1
<1>6. OwnerShown(L, n + 2) <=> IF e.level = "Note" THEN OwnerShown(l, n + 1)
                                                  ELSE e.delivered
  <2>1. CASE e.level = "Note"
    <3>1. NonNotes(L, n + 2) = NonNotes(L, n + 1)
      BY <1>1, <2>1
    <3>2. OwnerShown(L, n + 1) <=> OwnerShown(l, n + 1)
      BY <1>1, <1>5
    <3> QED BY <2>1, <3>1, <3>2 DEF OwnerShown
  <2>2. CASE e.level # "Note"
    <3>1. NonNotes(L, n + 2) # {} /\ L[Latest(NonNotes(L, n + 2))] = e
      BY <1>1, <1>4, <2>2
    <3> QED BY <2>2, <3>1 DEF OwnerShown
  <2> QED BY <2>1, <2>2
<1>7. e.level \in Level /\ e.delivered \in BOOLEAN
  BY DEF Entry
<1>8. 1..Len(L) = (1..n) \cup {n + 1} /\ n + 1 \notin 1..n
  BY <1>1
<1> HIDE DEF n, L, before
<1>9. LatestKnown(L)
  <2> SUFFICES ASSUME NEW k \in 1..n + 2, NonNotes(L, k) # {}
               PROVE  Latest(NonNotes(L, k)) \in NonNotes(L, k)
    BY <1>1 DEF LatestKnown
  <2>1. CASE k \in 1..n + 1
    BY <1>1, <1>3, <2>1
  <2>2. CASE k = n + 2 /\ e.level = "Note"
    BY <1>1, <1>3, <2>2 DEF before
  <2>3. CASE k = n + 2 /\ e.level # "Note"
    BY <1>1, <1>4, <2>3
  <2> QED BY <1>1, <2>1, <2>2, <2>3
<1>10. NotesFollow(L)
  <2> SUFFICES ASSUME NEW k \in 1..Len(L), L[k].level = "Note"
               PROVE  L[k].delivered <=> OwnerShown(L, k)
    BY DEF NotesFollow
  <2>1. CASE k \in 1..n
    <3>1. l[k].delivered <=> OwnerShown(l, k)
      BY <1>1, <2>1 DEF Accounts, NotesFollow, n
    <3> QED BY <1>1, <1>5, <2>1, <3>1
  <2>2. CASE k = n + 1
    <3>1. LastRemembered(s, l)
      BY DEF Accounts
    <3>2. e.level = "Note" /\ (e.delivered <=> OwnerShown(l, n + 1))
      BY <1>1, <2>2, <3>1 DEF Follows, LastRemembered, n
    <3>3. OwnerShown(L, n + 1) <=> OwnerShown(l, n + 1)
      BY <1>1, <1>5
    <3> QED BY <1>1, <2>2, <3>2, <3>3
  <2> QED BY <1>8, <2>1, <2>2
<1>11. LastRemembered(m, L)
  <2>1. LastRemembered(s, l)
    BY DEF Accounts
  <2>2. (~m.FatalErrorOccurred /\ m.LastDiagLevel # "Ignored")
          <=> IF e.level = "Note" THEN OwnerShown(l, n + 1) ELSE e.delivered
    BY <2>1 DEF Follows, LastRemembered, n
  <2> QED BY <1>1, <1>6, <2>2 DEF LastRemembered
<1>12. FatalRemembered(m, L)
  <2> SUFFICES ASSUME NEW j \in 1..Len(L), L[j].delivered, L[j].level = "Fatal"
               PROVE  \/ m.FatalErrorOccurred
                      \/ /\ m.LastDiagLevel = "Fatal"
                         /\ \A i \in j + 1..Len(L) : L[i].level = "Note"
    BY DEF FatalRemembered
  <2>1. CASE j \in 1..n
    <3>1. \/ s.FatalErrorOccurred
          \/ /\ s.LastDiagLevel = "Fatal"
             /\ \A i \in j + 1..n : l[i].level = "Note"
      BY <1>1, <2>1 DEF Accounts, FatalRemembered, n
    <3>2. CASE e.level # "Note"
      BY <3>1, <3>2 DEF Follows
    <3>3. CASE e.level = "Note" /\ s.FatalErrorOccurred
      BY <3>3 DEF Follows
    <3>4. CASE /\ e.level = "Note" /\ s.LastDiagLevel = "Fatal"
               /\ \A i \in j + 1..n : l[i].level = "Note"
      <4>1. \A i \in j + 1..Len(L) : i \in j + 1..n \/ i = n + 1
        BY <1>1, <2>1
      <4>2. \A i \in j + 1..n : L[i].level = "Note"
        BY <1>1, <2>1, <3>4
      <4> QED BY <1>1, <3>4, <4>1, <4>2 DEF Follows
    <3> QED BY <3>1, <3>2, <3>3, <3>4
  <2>2. CASE j = n + 1
    <3>1. e.delivered /\ e.level = "Fatal"
      BY <1>1, <2>2
    <3>2. m.LastDiagLevel = "Fatal"
      BY <3>1 DEF Follows
    <3>3. j + 1..Len(L) = {}
      BY <1>1, <2>2
    <3> QED BY <3>2, <3>3
  <2> QED BY <1>8, <2>1, <2>2
<1>13. SilentAfter(L)
  <2> SUFFICES ASSUME NEW j \in 1..Len(L), NEW k \in 1..Len(L), j < k,
                      L[j].delivered, L[j].level = "Fatal", L[k].delivered
               PROVE  \A i \in j + 1..k : L[i].level = "Note"
    BY DEF SilentAfter
  <2>0. j \in 1..n
    BY <1>1
  <2>1. l[j].delivered /\ l[j].level = "Fatal"
    BY <1>1, <2>0
  <2>2. CASE k \in 1..n
    <3>1. \A i \in j + 1..k : l[i].level = "Note"
      BY <1>1, <2>0, <2>1, <2>2 DEF Accounts, SilentAfter, n
    <3>2. \A i \in j + 1..k : i \in 1..n
      BY <1>1, <2>0, <2>2
    <3> QED BY <1>1, <3>1, <3>2
  <2>3. CASE k = n + 1
    <3>1. \/ s.FatalErrorOccurred
          \/ /\ s.LastDiagLevel = "Fatal"
             /\ \A i \in j + 1..n : l[i].level = "Note"
      BY <2>0, <2>1 DEF Accounts, FatalRemembered, n
    <3>2. e.delivered
      BY <1>1, <2>3
    <3>3. e.level = "Note" /\ ~s.FatalErrorOccurred
      BY <3>1, <3>2 DEF Follows
    <3>4. \A i \in j + 1..k : i = n + 1 \/ (i \in j + 1..n /\ i \in 1..n)
      BY <1>1, <2>0, <2>3
    <3> QED BY <1>1, <3>1, <3>3, <3>4
  <2> QED BY <1>8, <2>2, <2>3
<1>14. Counted(m, L)
  <2>1. Shown(L) = IF e.delivered THEN Shown(l) \cup {n + 1} ELSE Shown(l)
    BY <1>1, <1>8 DEF Shown, n
  <2>2. ErrorsIn(L) = IF e.delivered /\ IsErrorLevel(e.level)
                        THEN ErrorsIn(l) \cup {n + 1} ELSE ErrorsIn(l)
    BY <1>1, <1>8 DEF ErrorsIn, Shown, IsErrorLevel, n
  <2>3. Shown(l) \subseteq 1..n /\ ErrorsIn(l) \subseteq 1..n
    BY DEF Shown, ErrorsIn, n
  <2>4. IsFiniteSet(1..n)
    BY <1>1, FS_Interval
  <2>5. IsFiniteSet(Shown(l)) /\ IsFiniteSet(ErrorsIn(l))
    BY <2>3, <2>4, FS_Subset
  <2>6. /\ Cardinality(Shown(l) \cup {n + 1}) = Cardinality(Shown(l)) + 1
        /\ Cardinality(ErrorsIn(l) \cup {n + 1}) = Cardinality(ErrorsIn(l)) + 1
    <3>1. n + 1 \notin Shown(l) /\ n + 1 \notin ErrorsIn(l)
      BY <1>8, <2>3
    <3> QED BY <2>5, <3>1, FS_AddElement
  <2>7. /\ s.NumErrors = Cardinality(ErrorsIn(l))
        /\ s.NumDiagnostics = Cardinality(Shown(l))
        /\ s.ErrorOccurred <=> ErrorsIn(l) # {}
    BY DEF Accounts, Counted
  <2>8. m.NumErrors = Cardinality(ErrorsIn(L))
    BY <2>2, <2>6, <2>7 DEF Follows
  <2>9. m.NumDiagnostics = Cardinality(Shown(L))
    BY <2>1, <2>6, <2>7 DEF Follows
  <2>10. m.ErrorOccurred <=> ErrorsIn(L) # {}
    BY <2>2, <2>7 DEF Follows
  <2> QED BY <2>8, <2>9, <2>10 DEF Counted
<1> QED BY <1>2, <1>9, <1>10, <1>11, <1>12, <1>13, <1>14 DEF Accounts, L

-----------------------------------------------------------------------------
(* The diagnostics that are reported, and their levels.                    *)

LEMMA MappingInfoFacts ==
  ASSUME TypeOK, NEW d \in Builtin
  PROVE  /\ MappingInfo(d) \in MappingEntry
         /\ MappingInfo(d).map \in Mapping
         /\ DiagMappings[d].map # "unset" => MappingInfo(d) = DiagMappings[d]
<1>1. DefaultMapping[d] \in Mapping /\ DiagMappings[d] \in MappingEntry
  BY DiagnosticsAssumption DEF TypeOK
<1>2. "unset" \notin Mapping
  BY DEF Mapping
<1>3. CASE DiagMappings[d].map = "unset"
  BY <1>1, <1>2, <1>3 DEF MappingInfo, MappingEntry
<1>4. CASE DiagMappings[d].map # "unset"
  BY <1>1, <1>2, <1>4 DEF MappingInfo, MappingEntry
<1> QED BY <1>3, <1>4

LEMMA LevelType ==
  ASSUME TypeOK, NEW d \in Builtin
  PROVE  getDiagnosticLevel(d) \in Level
  BY MappingInfoFacts DEF getDiagnosticLevel, Level, Mapping

LEMMA ClassifiedType ==
  ASSUME TypeOK, NEW d \in Builtin \cup Custom, NEW sys \in BOOLEAN
  PROVE  /\ Classified(d, sys) \in Diagnostic
         /\ NestedNote(sys) \in Diagnostic
<1>1. /\ d \in Custom => CustomLevel[d] \in Level
      /\ d \notin Custom => getDiagnosticLevel(d) \in Level
      /\ "Note" \in Level
  BY LevelType, DiagnosticsAssumption DEF Level
<1>2. (d \in Custom \/ DiagClass[d] = "error") \in BOOLEAN
  OBVIOUS
<1> QED BY <1>1, <1>2 DEF Classified, NestedNote, Diagnostic, IDs

LEMMA AppendAsConcat ==
  ASSUME NEW S, NEW s \in Seq(S), NEW e \in S
  PROVE  s \o <<e>> = Append(s, e) /\ s \o <<>> = s
  OBVIOUS

(* What a report adds to the history: the diagnostic e, and notes of the   *)
(* fix-it client.                                                          *)
Extends(new, old, e) ==
  /\ new \in Seq(Entry) /\ new # <<>>
  /\ \A k \in 1..Len(new) :
       \/ k \in 1..Len(old) /\ new[k] = old[k]
       \/ new[k] = e
       \/ /\ new[k].id = "note_fixit" /\ new[k].level = "Note"
          /\ new[k].fix = "none"

LEMMA ExtendsByOne ==
  ASSUME NEW l \in Seq(Entry), NEW e \in Entry
  PROVE  Extends(Append(l, e), l, e)
<1>1. /\ Append(l, e) \in Seq(Entry) /\ Len(l) \in Nat
      /\ Len(Append(l, e)) = Len(l) + 1
      /\ \A i \in 1..Len(l) : Append(l, e)[i] = l[i]
      /\ Append(l, e)[Len(l) + 1] = e
  BY AppendFacts
<1>2. \A k \in 1..Len(l) + 1 : k \in 1..Len(l) \/ k = Len(l) + 1
  BY <1>1
<1> QED BY <1>1, <1>2 DEF Extends

LEMMA ExtendsByNote ==
  ASSUME NEW l \in Seq(Entry), NEW new, NEW e, Extends(new, l, e),
         NEW note \in Entry, note.id = "note_fixit", note.level = "Note",
         note.fix = "none"
  PROVE  Extends(Append(new, note), l, e)
<1> DEFINE more == Append(new, note)
<1>0. new \in Seq(Entry)
  BY DEF Extends
<1>1. /\ more \in Seq(Entry) /\ Len(new) \in Nat
      /\ Len(more) = Len(new) + 1
      /\ \A i \in 1..Len(new) : more[i] = new[i]
      /\ more[Len(new) + 1] = note
  BY <1>0, AppendFacts
<1>2. \A k \in 1..Len(new) + 1 : k \in 1..Len(new) \/ k = Len(new) + 1
  BY <1>1
<1>3. more # <<>>
  BY <1>1
<1> HIDE DEF more
<1>4. ASSUME NEW k \in 1..Len(more)
      PROVE  \/ k \in 1..Len(l) /\ more[k] = l[k]
             \/ more[k] = e
             \/ /\ more[k].id = "note_fixit" /\ more[k].level = "Note"
                /\ more[k].fix = "none"
  <2>1. CASE k \in 1..Len(new)
    BY <1>1, <2>1 DEF Extends
  <2>2. CASE k = Len(new) + 1
    BY <1>1, <2>2
  <2> QED BY <1>1, <1>2, <2>1, <2>2
<1> QED BY <1>1, <1>3, <1>4 DEF Extends, more

(* The history and the state of ProcessDiag after a report, its nested     *)
(* notes included.                                                         *)
LEMMA ReportFacts ==
  ASSUME DInv, NEW d \in Builtin \cup Custom, NEW sys \in BOOLEAN,
         NEW hints, NEW here, Report(d, sys, hints, here)
  PROVE  LET c == Classified(d, sys)
             delivered == LogEntry(Diags, c, "none").delivered
             considered == commandLine.fixIt /\ delivered /\ Considered(hints, here)
         IN /\ Diags' \in DiagState
            /\ Accounts(Diags', log')
            /\ Extends(log', log, LogEntry(Diags, c, Tried(considered, hints)))
<1> DEFINE c == Classified(d, sys)
           own == ProcessDiag(Diags, c)
           delivered == LogEntry(Diags, c, "none").delivered
           considered == commandLine.fixIt /\ delivered /\ Considered(hints, here)
           note == NestedNote(sys)
           notes == IF considered THEN NumNotes(c, hints) ELSE 0
           one == ProcessDiag(own, note)
           two == ProcessDiag(one, note)
           e == LogEntry(Diags, c, Tried(considered, hints))
           first == LogEntry(own, note, "none")
           second == LogEntry(one, note, "none")
           l1 == Append(log, e)
           l2 == Append(l1, first)
           l3 == Append(l2, second)
<1>1. /\ Diags' = IF notes = 0 THEN own ELSE IF notes = 1 THEN one ELSE two
      /\ log' = log \o <<e>> \o (IF notes >= 1 THEN <<first>> ELSE <<>>)
                           \o (IF notes = 2 THEN <<second>> ELSE <<>>)
  BY DEF Report
<1>2. notes \in {0, 1, 2}
  <2> DEFINE macro == IF hints = "unrewritable" THEN 1 ELSE 0
             unfixed == IF IsError(c) /\ NumFailures = 0 THEN 1 ELSE 0
  <2>1. hints \in {"none", "unrewritable"} => NumNotes(c, hints) = macro + unfixed
    BY DEF NumNotes
  <2>2. hints \notin {"none", "unrewritable"} => NumNotes(c, hints) = 1
    BY DEF NumNotes
  <2>3. macro \in {0, 1} /\ unfixed \in {0, 1}
    OBVIOUS
  <2>4. macro + unfixed \in {0, 1, 2}
    <3> HIDE DEF macro, unfixed
    <3> QED BY <2>3
  <2>5. NumNotes(c, hints) \in {0, 1, 2}
    <3> HIDE DEF macro, unfixed, c
    <3> QED BY <2>1, <2>2, <2>4
  <2> HIDE DEF macro, unfixed, c, considered
  <2> QED BY <2>5
<1>3. c \in Diagnostic /\ note \in Diagnostic
  BY ClassifiedType DEF DInv
<1>4. note.id = "note_fixit" /\ note.level = "Note"
  BY DEF NestedNote
<1>5. Diags \in DiagState /\ log \in Seq(Entry) /\ Accounts(Diags, log)
  BY DEF DInv, TypeOK, DiagState
<1>6. Tried(considered, hints) \in {"none", "fails", "applies"}
  BY DEF Tried
<1>7. own \in DiagState /\ e \in Entry /\ Follows(Diags, own, e)
  BY <1>3, <1>5, <1>6, ProcessDiagFacts
<1>8. one \in DiagState /\ first \in Entry /\ Follows(own, one, first)
  BY <1>3, <1>7, ProcessDiagFacts
<1>9. two \in DiagState /\ second \in Entry /\ Follows(one, two, second)
  BY <1>3, <1>8, ProcessDiagFacts
<1>10. /\ first.id = "note_fixit" /\ first.level = "Note"
       /\ first.fix = "none"
       /\ second.id = "note_fixit" /\ second.level = "Note"
       /\ second.fix = "none"
  BY <1>4 DEF LogEntry
<1> HIDE DEF c, own, notes, note, one, two, e, first, second, considered
<1>11. Accounts(own, l1) /\ l1 \in Seq(Entry) /\ Extends(l1, log, e)
  BY <1>5, <1>7, OneMore, ExtendsByOne
<1> HIDE DEF l1
<1>12. Accounts(one, l2) /\ l2 \in Seq(Entry) /\ Extends(l2, log, e)
  BY <1>5, <1>7, <1>8, <1>10, <1>11, OneMore, ExtendsByNote
<1> HIDE DEF l2
<1>13. Accounts(two, l3) /\ l3 \in Seq(Entry) /\ Extends(l3, log, e)
  BY <1>5, <1>8, <1>9, <1>10, <1>12, OneMore, ExtendsByNote
<1>14. log \o <<e>> = l1 /\ l1 \o <<>> = l1 /\ l1 \o <<first>> = l2 /\ l2 \o <<>> = l2
       /\ l2 \o <<second>> = l3
  BY <1>5, <1>7, <1>8, <1>9, <1>11, <1>12, AppendAsConcat DEF l1, l2
<1> HIDE DEF l3
<1>15. Diags' \in DiagState /\ Accounts(Diags', log') /\ Extends(log', log, e)
  <2>1. CASE notes = 0
    <3>1. /\ Diags' = own
          /\ log' = log \o <<e>> \o <<>> \o <<>>
      BY <1>1, <2>1
    <3>2. Diags' = own /\ log' = l1
      BY <1>14, <3>1
    <3> QED BY <1>7, <1>11, <3>2
  <2>2. CASE notes = 1
    <3>1. /\ Diags' = one
          /\ log' = log \o <<e>> \o <<first>> \o <<>>
      BY <1>1, <2>2
    <3>2. Diags' = one /\ log' = l2
      BY <1>14, <3>1
    <3> QED BY <1>8, <1>12, <3>2
  <2>3. CASE notes = 2
    <3>1. /\ Diags' = two
          /\ log' = log \o <<e>> \o <<first>> \o <<second>>
      BY <1>1, <2>3
    <3>2. Diags' = two /\ log' = l3
      BY <1>14, <3>1
    <3> QED BY <1>9, <1>13, <3>2
  <2> QED BY <1>2, <2>1, <2>2, <2>3
<1> QED BY <1>15 DEF e, considered, c

-----------------------------------------------------------------------------
(* The options.                                                            *)

LEMMA OptionType ==
  ASSUME TypeOK, NEW i \in 1..Len(commandLine.W)
  PROVE  /\ commandLine.W[i] \in Option
         /\ commandLine.W[i].group \in Groups
         /\ commandLine.W[i].positive \in BOOLEAN
         /\ OptionMapping(commandLine.W[i]) \in Mapping
<1>1. commandLine.W \in Seq(Option)
  BY DEF TypeOK, CommandLine
<1>2. commandLine.W[i] \in Option
  BY <1>1
<1> QED BY <1>2 DEF Option, OptionMapping, Mapping

(* Options are about warnings and extensions only, never about a note the  *)
(* fix-it client adds or a custom diagnostic.                              *)
LEMMA OnlyMappable ==
  ASSUME TypeOK, NEW d, OptionsAbout(d) # {}
  PROVE  d \in Builtin /\ DiagClass[d] \in {"warning", "extension"}
<1>1. PICK i \in 1..Len(commandLine.W) : d \in GroupMembers[commandLine.W[i].group]
  BY DEF OptionsAbout
<1>2. commandLine.W[i].group \in Groups
  BY OptionType
<1> QED BY <1>1, <1>2, GroupsAssumption

(* The level of a diagnostic the user mapped by an option.                 *)
LEMMA LevelFollowsOption ==
  ASSUME TypeOK, NEW d \in Builtin, NEW o \in Option,
         o.kind \in {"error=", "group"},
         DiagMappings[d] = [map |-> OptionMapping(o), user |-> TRUE],
         getDiagnosticLevel(d) # "Ignored"
  PROVE  /\ o.kind = "error=" /\ o.positive => getDiagnosticLevel(d) = "Error"
         /\ o.kind = "error=" /\ ~o.positive => getDiagnosticLevel(d) = "Warning"
         /\ o.kind = "group" /\ o.positive =>
              getDiagnosticLevel(d) = IF flags.WarningsAsErrors THEN "Error"
                                                                ELSE "Warning"
         /\ o.kind = "group" => o.positive
<1>1. OptionMapping(o) # "unset"
  BY DEF OptionMapping
<1>2. MappingInfo(d) = [map |-> OptionMapping(o), user |-> TRUE]
  BY <1>1 DEF MappingInfo
<1>3. CASE o.kind = "error=" /\ o.positive
  <2>1. MappingInfo(d).map = "error"
    BY <1>2, <1>3 DEF OptionMapping
  <2> QED BY <1>3, <2>1 DEF getDiagnosticLevel
<1>4. CASE o.kind = "error=" /\ ~o.positive
  <2>1. MappingInfo(d).map = "warning_no_werror"
    BY <1>2, <1>4 DEF OptionMapping
  <2> QED BY <1>4, <2>1 DEF getDiagnosticLevel
<1>5. CASE o.kind = "group" /\ o.positive
  <2>1. MappingInfo(d).map = "warning" /\ MappingInfo(d).user
    BY <1>2, <1>5 DEF OptionMapping
  <2> QED BY <1>5, <2>1 DEF getDiagnosticLevel
<1>6. CASE o.kind = "group" /\ ~o.positive
  <2>1. MappingInfo(d).map = "ignore" /\ MappingInfo(d).user
    BY <1>2, <1>6 DEF OptionMapping
  <2> QED BY <1>6, <2>1 DEF getDiagnosticLevel
<1> QED BY <1>3, <1>4, <1>5, <1>6

(* What OptionsHonoured says of an entry of the history.                   *)
Honoured(e) ==
  (e.delivered /\ OptionsAbout(e.id) # {}) =>
    LET o == commandLine.W[Latest(OptionsAbout(e.id))]
    IN CASE o.kind = "error=" /\ o.positive -> e.level = "Error"
         [] o.kind = "error=" /\ ~o.positive -> e.level = "Warning"
         [] o.kind = "group" /\ o.positive ->
              e.level = (IF flags.WarningsAsErrors THEN "Error" ELSE "Warning")
         [] OTHER -> FALSE

(* A diagnostic that is reported once all options were processed.          *)
LEMMA ReportHonours ==
  ASSUME TypeOK, MappingsFollowOptions, nextOption > Len(commandLine.W),
         NEW d \in Builtin \cup Custom, NEW sys, NEW fix
  PROVE  Honoured(LogEntry(Diags, Classified(d, sys), fix))
<1> DEFINE c == Classified(d, sys)
           e == LogEntry(Diags, c, fix)
           about == OptionsAbout(d)
           o == commandLine.W[Latest(about)]
<1> SUFFICES ASSUME e.delivered, about # {}
             PROVE  Honoured(e)
  BY DEF Honoured, LogEntry, Classified
<1>1. d \in Builtin /\ DiagClass[d] \in {"warning", "extension"}
  BY OnlyMappable
<1>2. OptionsBefore(d) = about
  BY DEF OptionsBefore, OptionsAbout, TypeOK
<1>3. /\ Latest(about) \in about
      /\ DiagMappings[d] = [map |-> OptionMapping(o), user |-> TRUE]
  BY <1>1, <1>2 DEF MappingsFollowOptions
<1>4. o \in Option /\ o.kind \in {"error=", "group"}
  BY <1>3, OptionType DEF OptionsAbout
<1>5. c.level = getDiagnosticLevel(d)
  BY <1>1, DiagnosticsAssumption DEF Classified
<1>6. e.level = c.level /\ e.id = d /\ c.level # "Ignored"
  BY DEF LogEntry, Classified, Delivered
<1> HIDE DEF o, about, c, e
<1>7. /\ o.kind = "error=" /\ o.positive => e.level = "Error"
      /\ o.kind = "error=" /\ ~o.positive => e.level = "Warning"
      /\ o.kind = "group" /\ o.positive =>
           e.level = IF flags.WarningsAsErrors THEN "Error" ELSE "Warning"
      /\ o.kind = "group" => o.positive
  BY <1>1, <1>3, <1>4, <1>5, <1>6, LevelFollowsOption
<1>8. o.kind = "error=" \/ o.kind = "group"
  BY <1>4
<1>9. o.positive \in BOOLEAN
  BY <1>4 DEF Option
<1> QED BY <1>6, <1>7, <1>8, <1>9 DEF Honoured, o, about

LEMMA HonouredIs ==
  OptionsHonoured <=> \A k \in 1..Len(log) : Honoured(log[k])
  BY DEF OptionsHonoured, Honoured

-----------------------------------------------------------------------------
(* The invariant is inductive: one lemma per action.                       *)

LEMMA InitLemma ==
  ASSUME Init
  PROVE  DInv
<1>1. commandLine \in CommandLine
  BY EnvironmentAssumption DEF Init
<1>2. Len(commandLine.W) \in Nat
  BY <1>1 DEF CommandLine
<1>3. TypeOK
  <2>1. flags \in [IgnoreAllWarnings : BOOLEAN, WarningsAsErrors : BOOLEAN,
                   SuppressSystemWarnings : BOOLEAN,
                   ExtBehavior : {"Ext_Ignore", "Ext_Warn", "Ext_Error"}]
    BY <1>1 DEF Init, CommandLine
  <2>2. DiagMappings \in [Builtin -> MappingEntry]
    BY DEF Init, MappingEntry
  <2>3. \A d \in Builtin : DiagMappings[d].user => DiagMappings[d].map # "unset"
    BY DEF Init
  <2>4. Diags \in DiagState
    BY DEF Init, DiagState, Level
  <2>5. /\ nextOption \in 1..Len(commandLine.W) + 1
        /\ AllExtensionsSilenced \in 0..CounterModulus - 1
        /\ NumFailures \in Nat
        /\ extensionDepth \in 0..MaxExtensionDepth
    BY <1>2, EnvironmentAssumption DEF Init, CounterModulus
  <2>6. /\ customIDs \subseteq Custom /\ aborted \in BOOLEAN
        /\ written \in {"no", "yes", "refused"}
    BY DEF Init
  <2> QED BY <1>1, <2>1, <2>2, <2>3, <2>4, <2>5, <2>6 DEF TypeOK, DiagState
<1>4. log = <<>> /\ log \in Seq(Entry) /\ Len(log) = 0
  BY DEF Init
<1>5. Accounts(Diags, log)
  <2>1. NonNotes(log, 1) = {}
    BY DEF NonNotes
  <2>2. Shown(log) = {} /\ ErrorsIn(log) = {}
    BY <1>4 DEF Shown, ErrorsIn
  <2>3. Cardinality({}) = 0
    BY FS_EmptySet
  <2>4. LatestKnown(log)
    BY <1>4, <2>1 DEF LatestKnown
  <2>5. NotesFollow(log) /\ SilentAfter(log) /\ FatalRemembered(Diags, log)
    BY <1>4 DEF NotesFollow, SilentAfter, FatalRemembered
  <2>6. LastRemembered(Diags, log)
    BY <1>4, <2>1 DEF LastRemembered, OwnerShown, Init
  <2>7. Counted(Diags, log)
    BY <2>2, <2>3 DEF Counted, Init
  <2> QED BY <2>4, <2>5, <2>6, <2>7 DEF Accounts
<1>6. MappingsFollowOptions
  <2>1. \A d : OptionsAbout(d) \subseteq 1..Len(commandLine.W)
    BY DEF OptionsAbout
  <2>2. \A i \in 1..Len(commandLine.W) : ~(i < nextOption)
    BY <1>2 DEF Init
  <2>3. \A d : OptionsBefore(d) = {}
    BY <2>1, <2>2 DEF OptionsBefore
  <2> QED BY <2>3 DEF MappingsFollowOptions
<1>7. OptionsFirst /\ OptionsHonoured /\ FixesComplete
  BY <1>4 DEF OptionsFirst, OptionsHonoured, FixesComplete, Init
<1> QED BY <1>3, <1>4, <1>5, <1>6, <1>7 DEF DInv

(* The options: the last one about a diagnostic decides its mapping.       *)
LEMMA ProcessWarningOptionLemma ==
  ASSUME DInv, ProcessWarningOption
  PROVE  DInv'
<1> DEFINE n == nextOption
           o == commandLine.W[n]
<1>0. TypeOK
  BY DEF DInv
<1>1. /\ n \in 1..Len(commandLine.W) /\ n' = n + 1 /\ Len(commandLine.W) \in Nat
      /\ UNCHANGED <<commandLine, AllExtensionsSilenced, Diags, customIDs, aborted,
                     NumFailures, written, extensionDepth, log>>
  BY <1>0 DEF ProcessWarningOption, TypeOK, CommandLine
<1>2. o.group \in Groups /\ OptionMapping(o) \in Mapping
  BY <1>0, <1>1, OptionType
<1>3. log = <<>>
  BY <1>1 DEF DInv, OptionsFirst
<1>4. \/ /\ o.kind \in {"system-headers", "error"}
         /\ UNCHANGED DiagMappings
      \/ /\ o.kind \in {"error=", "group"}
         /\ DiagMappings' = [d \in Builtin |-> IF d \in GroupMembers[o.group]
                                THEN [map |-> OptionMapping(o), user |-> TRUE]
                                ELSE DiagMappings[d]]
  BY DEF ProcessWarningOption, MapGroupMembers
<1>5. flags' \in [IgnoreAllWarnings : BOOLEAN, WarningsAsErrors : BOOLEAN,
                  SuppressSystemWarnings : BOOLEAN,
                  ExtBehavior : {"Ext_Ignore", "Ext_Warn", "Ext_Error"}]
  <2>1. o.positive \in BOOLEAN
    BY <1>0, <1>1, OptionType
  <2>2. \/ flags' = [flags EXCEPT !.SuppressSystemWarnings = ~o.positive]
        \/ flags' = [flags EXCEPT !.WarningsAsErrors = TRUE]
        \/ flags' = flags
    BY DEF ProcessWarningOption
  <2>3. (~o.positive) \in BOOLEAN
    OBVIOUS
  <2> HIDE DEF o, n
  <2> QED BY <1>0, <2>2, <2>3 DEF TypeOK
<1> HIDE DEF o
<1>6. DiagMappings' \in [Builtin -> MappingEntry]
  <2>1. [map |-> OptionMapping(o), user |-> TRUE] \in MappingEntry
    BY <1>2 DEF MappingEntry
  <2> QED BY <1>0, <1>4, <2>1 DEF TypeOK
<1>7. \A d \in Builtin : DiagMappings'[d].user => DiagMappings'[d].map # "unset"
  <2>1. OptionMapping(o) # "unset"
    BY <1>2 DEF Mapping
  <2> QED BY <1>0, <1>4, <2>1 DEF TypeOK
<1>8. TypeOK'
  BY <1>0, <1>1, <1>5, <1>6, <1>7 DEF TypeOK
<1>9. MappingsFollowOptions'
  <2> SUFFICES ASSUME NEW d \in Builtin, OptionsBefore(d)' # {}
               PROVE  /\ Latest(OptionsBefore(d)') \in OptionsBefore(d)'
                      /\ DiagMappings'[d] =
                           [map |-> OptionMapping(commandLine.W[Latest(OptionsBefore(d)')]),
                            user |-> TRUE]
    BY <1>1 DEF MappingsFollowOptions
  <2>1. OptionsAbout(d)' = OptionsAbout(d) /\ OptionsAbout(d) \subseteq 1..Len(commandLine.W)
    BY <1>1 DEF OptionsAbout
  <2>2. OptionsBefore(d)' = {i \in OptionsAbout(d) : i < n + 1}
    BY <1>1, <2>1 DEF OptionsBefore
  <2>3. OptionsBefore(d) \subseteq 1..n - 1
    BY <1>1, <2>1 DEF OptionsBefore
  <2>4. CASE n \in OptionsAbout(d)
    <3>1. OptionsBefore(d)' = OptionsBefore(d) \cup {n}
      BY <1>1, <2>1, <2>2, <2>4 DEF OptionsBefore
    <3>2. Latest(OptionsBefore(d)') = n
      <4> DEFINE S == OptionsBefore(d)
                 m == n - 1
      <4>1. m \in Nat /\ m + 1 = n /\ S \subseteq 1..m
        BY <1>1, <2>3
      <4> HIDE DEF S, m, n
      <4>2. Latest(S \cup {m + 1}) = m + 1
        BY <4>1, LatestAdded
      <4> QED BY <3>1, <4>1, <4>2 DEF S
    <3>3. d \in GroupMembers[o.group] /\ o.kind \in {"error=", "group"}
      BY <2>4 DEF OptionsAbout, o
    <3>4. DiagMappings'[d] = [map |-> OptionMapping(o), user |-> TRUE]
      BY <1>4, <3>3
    <3> QED BY <3>1, <3>2, <3>4 DEF o
  <2>5. CASE n \notin OptionsAbout(d)
    <3>1. OptionsBefore(d)' = OptionsBefore(d)
      BY <1>1, <2>1, <2>2, <2>5 DEF OptionsBefore
    <3>2. o.kind \notin {"error=", "group"} \/ d \notin GroupMembers[o.group]
      BY <1>1, <2>5 DEF OptionsAbout, o
    <3>3. DiagMappings'[d] = DiagMappings[d]
      BY <1>4, <3>2
    <3> QED BY <3>1, <3>3 DEF DInv, MappingsFollowOptions
  <2> QED BY <2>4, <2>5
<1>10. OptionsFirst' /\ OptionsHonoured'
  BY <1>1, <1>3 DEF OptionsFirst, OptionsHonoured
<1>11. FixesComplete'
  BY <1>1 DEF DInv, FixesComplete, Repaired
<1>12. log' \in Seq(Entry) /\ Accounts(Diags, log)'
  BY <1>1 DEF DInv
<1> QED BY <1>8, <1>9, <1>10, <1>11, <1>12 DEF DInv

LEMMA StillHonoured ==
  ASSUME OptionsHonoured, UNCHANGED <<commandLine, flags, log>>
  PROVE  OptionsHonoured'
<1>1. commandLine' = commandLine /\ flags' = flags /\ log' = log
  OBVIOUS
<1>2. \A d : OptionsAbout(d)' = OptionsAbout(d)
  BY <1>1 DEF OptionsAbout
<1>3. \A k \in 1..Len(log) : Honoured(log[k])
  BY HonouredIs
<1> QED BY <1>1, <1>2, <1>3, ZenonT(120) DEF OptionsHonoured, Honoured

(* What the other actions leave alone.                                     *)
LEMMA Undisturbed ==
  ASSUME DInv, UNCHANGED <<commandLine, nextOption, flags, DiagMappings, Diags,
                           NumFailures, written, log>>
  PROVE  TypeOK' => DInv'
<1>1. /\ log' \in Seq(Entry) /\ Accounts(Diags, log)'
      /\ OptionsFirst' /\ FixesComplete'
  BY DEF DInv, OptionsFirst, FixesComplete, Repaired
<1>2. MappingsFollowOptions'
  BY DEF DInv, MappingsFollowOptions, OptionsBefore, OptionsAbout
<1>3. OptionsHonoured'
  BY StillHonoured DEF DInv
<1> SUFFICES ASSUME TypeOK' PROVE DInv'
  OBVIOUS
<1> QED BY <1>1, <1>2, <1>3 DEF DInv

LEMMA ExtensionLemma ==
  ASSUME DInv, IncrementAllExtensionsSilenced \/ DecrementAllExtensionsSilenced
  PROVE  DInv'
<1>1. UNCHANGED <<commandLine, nextOption, flags, DiagMappings, Diags, customIDs,
                  aborted, NumFailures, written, log>>
  BY DEF IncrementAllExtensionsSilenced, DecrementAllExtensionsSilenced
<1>2. AllExtensionsSilenced' \in 0..CounterModulus - 1
  <2>1. AllExtensionsSilenced \in 0..255
    BY DEF DInv, TypeOK, CounterModulus
  <2>2. \/ AllExtensionsSilenced' = (AllExtensionsSilenced + 1) % 256
        \/ AllExtensionsSilenced' = (AllExtensionsSilenced + 256 - 1) % 256
    BY DEF IncrementAllExtensionsSilenced, DecrementAllExtensionsSilenced,
           CounterModulus
  <2>3. AllExtensionsSilenced' \in 0..255
    BY <2>1, <2>2
  <2> QED BY <2>3 DEF CounterModulus
<1>3. extensionDepth' \in 0..MaxExtensionDepth
  BY EnvironmentAssumption
     DEF IncrementAllExtensionsSilenced, DecrementAllExtensionsSilenced, DInv, TypeOK
<1>4. TypeOK'
  BY <1>1, <1>2, <1>3 DEF DInv, TypeOK
<1> QED BY <1>1, <1>4, Undisturbed

LEMMA GetCustomDiagIDLemma ==
  ASSUME DInv, NEW c \in Custom, GetCustomDiagID(c)
  PROVE  DInv'
<1>1. UNCHANGED <<commandLine, nextOption, flags, DiagMappings, Diags,
                  AllExtensionsSilenced, extensionDepth, NumFailures, written, log>>
  BY DEF GetCustomDiagID
<1>2. customIDs' \subseteq Custom /\ aborted' \in BOOLEAN
  BY DEF GetCustomDiagID, DInv, TypeOK
<1>3. TypeOK'
  BY <1>1, <1>2 DEF DInv, TypeOK
<1> QED BY <1>1, <1>3, Undisturbed

(* The lazily computed mapping of a diagnostic changes nothing that an     *)
(* option chose.                                                           *)
LEMMA LazyMapping ==
  ASSUME DInv, NEW d \in Builtin,
         \/ DiagMappings' = [DiagMappings EXCEPT ![d] = MappingInfo(d)]
         \/ UNCHANGED DiagMappings,
         UNCHANGED <<commandLine, nextOption>>
  PROVE  /\ DiagMappings' \in [Builtin -> MappingEntry]
         /\ \A b \in Builtin : DiagMappings'[b].user => DiagMappings'[b].map # "unset"
         /\ MappingsFollowOptions'
<1>0. TypeOK
  BY DEF DInv
<1>1. /\ MappingInfo(d) \in MappingEntry /\ MappingInfo(d).map # "unset"
      /\ DiagMappings[d].map # "unset" => MappingInfo(d) = DiagMappings[d]
  BY <1>0, MappingInfoFacts DEF Mapping
<1>2. DiagMappings' \in [Builtin -> MappingEntry]
  BY <1>0, <1>1 DEF TypeOK
<1>3. \A b \in Builtin : \/ DiagMappings'[b] = DiagMappings[b]
                         \/ b = d /\ DiagMappings'[b] = MappingInfo(d)
  BY <1>0 DEF TypeOK
<1>4. \A b \in Builtin : DiagMappings'[b].user => DiagMappings'[b].map # "unset"
  <2>1. \A b \in Builtin : DiagMappings[b].user => DiagMappings[b].map # "unset"
    BY <1>0 DEF TypeOK
  <2> TAKE b \in Builtin
  <2>2. CASE DiagMappings'[b] = DiagMappings[b]
    BY <2>1, <2>2
  <2>3. CASE DiagMappings'[b] = MappingInfo(d)
    BY <1>1, <2>3
  <2> QED BY <1>3, <2>2, <2>3
<1>5. MappingsFollowOptions'
  <2>0. commandLine' = commandLine /\ nextOption' = nextOption
    OBVIOUS
  <2>1. MappingsFollowOptions
    BY DEF DInv
  <2>2. ASSUME NEW b \in Builtin, OptionsBefore(b) # {}
        PROVE  DiagMappings'[b] = DiagMappings[b]
    <3> DEFINE i == Latest(OptionsBefore(b))
    <3>1. /\ i \in OptionsBefore(b)
          /\ DiagMappings[b] = [map |-> OptionMapping(commandLine.W[i]), user |-> TRUE]
      BY <2>1, <2>2 DEF MappingsFollowOptions
    <3> HIDE DEF i
    <3>2. i \in 1..Len(commandLine.W)
      BY <3>1 DEF OptionsBefore, OptionsAbout
    <3>3. OptionMapping(commandLine.W[i]) # "unset"
      BY <1>0, <3>2, OptionType DEF Mapping
    <3>4. DiagMappings[b].map # "unset"
      BY <3>1, <3>3
    <3> QED BY <1>1, <1>3, <3>4
  <2>3. \A b : OptionsBefore(b)' = OptionsBefore(b)
    BY <2>0 DEF OptionsBefore, OptionsAbout
  <2>4. SUFFICES ASSUME NEW b \in Builtin, OptionsBefore(b) # {}
                 PROVE  /\ Latest(OptionsBefore(b)) \in OptionsBefore(b)
                        /\ DiagMappings'[b] =
                             [map |-> OptionMapping(commandLine.W[Latest(OptionsBefore(b))]),
                              user |-> TRUE]
    BY <2>0, <2>3 DEF MappingsFollowOptions
  <2> QED BY <2>1, <2>2, <2>4 DEF MappingsFollowOptions
<1> QED BY <1>2, <1>4, <1>5

(* What a diagnostic adds to the history keeps what the options ask for.   *)
LEMMA ExtendsHonours ==
  ASSUME DInv, nextOption > Len(commandLine.W),
         NEW d \in Builtin \cup Custom, NEW sys, NEW fix,
         Extends(log', log, LogEntry(Diags, Classified(d, sys), fix)),
         UNCHANGED <<commandLine, flags>>
  PROVE  OptionsHonoured'
<1>1. \A k \in 1..Len(log) : Honoured(log[k])
  BY HonouredIs DEF DInv
<1>2. Honoured(LogEntry(Diags, Classified(d, sys), fix))
  BY ReportHonours DEF DInv
<1>3. OptionsAbout("note_fixit") = {}
  BY OnlyMappable, DiagnosticsAssumption DEF DInv
<1>4. ASSUME NEW k \in 1..Len(log')
      PROVE  Honoured(log'[k])
  <2>1. CASE log'[k].id = "note_fixit"
    BY <1>3, <2>1 DEF Honoured
  <2>2. CASE log'[k].id # "note_fixit"
    BY <1>1, <1>2, <2>2 DEF Extends
  <2> QED BY <2>1, <2>2
<1>5. commandLine' = commandLine /\ flags' = flags
  OBVIOUS
<1> QED BY <1>4, <1>5, Zenon DEF OptionsHonoured, OptionsAbout, Honoured

LEMMA ReportLemma ==
  ASSUME DInv, NEW d \in Builtin \cup Custom, NEW sys \in BOOLEAN,
         NEW hints \in (IF commandLine.fixIt THEN Hints ELSE {"none"}), NEW here,
         Report(d, sys, hints, here)
  PROVE  DInv'
<1> DEFINE c == Classified(d, sys)
           delivered == LogEntry(Diags, c, "none").delivered
           considered == commandLine.fixIt /\ delivered /\ Considered(hints, here)
           tried == Tried(considered, hints)
           e == LogEntry(Diags, c, tried)
<1>0. TypeOK
  BY DEF DInv
<1>1. UNCHANGED <<commandLine, nextOption, flags, AllExtensionsSilenced,
                  customIDs, aborted, written, extensionDepth>>
  BY DEF Report
<1>2. nextOption > Len(commandLine.W) /\ written = "no"
  BY DEF Report, Running
<1>3. NumFailures' = IF considered /\ IsFailure(c, hints) THEN NumFailures + 1
                                                          ELSE NumFailures
  BY DEF Report
<1>4. /\ Diags' \in DiagState
      /\ Accounts(Diags', log')
      /\ Extends(log', log, e)
  BY ReportFacts
<1>5. /\ DiagMappings' \in [Builtin -> MappingEntry]
      /\ \A b \in Builtin : DiagMappings'[b].user => DiagMappings'[b].map # "unset"
      /\ MappingsFollowOptions'
  <2>1. CASE d \in Builtin
    <3>1. \/ DiagMappings' = [DiagMappings EXCEPT ![d] = MappingInfo(d)]
          \/ UNCHANGED DiagMappings
      BY DEF Report
    <3> QED BY <1>1, <2>1, <3>1, LazyMapping
  <2>2. CASE d \notin Builtin
    <3>1. UNCHANGED DiagMappings
      BY <2>2 DEF Report
    <3>2. NoChanges \in Builtin
      BY DiagnosticsAssumption
    <3> QED BY <1>1, <3>1, <3>2, LazyMapping
  <2> QED BY <2>1, <2>2
<1>6. NumFailures \in Nat /\ NumFailures' \in Nat
  <2>1. NumFailures \in Nat
    BY <1>0 DEF TypeOK
  <2>2. NumFailures' = NumFailures + 1 \/ NumFailures' = NumFailures
    <3> HIDE DEF considered, c
    <3> QED BY <1>3
  <2> QED BY <2>1, <2>2
<1>7. TypeOK'
  <2>1. Diags' \in [ErrorOccurred : BOOLEAN, FatalErrorOccurred : BOOLEAN,
                    LastDiagLevel : Level \ {"Note"}, NumErrors : Nat,
                    NumDiagnostics : Nat]
    BY <1>4 DEF DiagState
  <2> HIDE DEF e
  <2> QED BY <1>0, <1>1, <1>5, <1>6, <2>1 DEF TypeOK
<1>8. log' \in Seq(Entry) /\ log' # <<>>
  BY <1>4 DEF Extends
<1>9. OptionsFirst'
  BY <1>1, <1>2 DEF OptionsFirst
<1>10. OptionsHonoured'
  BY <1>1, <1>2, <1>4, ExtendsHonours
<1>11. FixesComplete'
  <2>1. (written = "yes")' => FALSE
    BY <1>1, <1>2
  <2> SUFFICES ASSUME commandLine.fixIt, NumFailures' = 0, NEW k \in 1..Len(log')
               PROVE  Repaired(log'[k])
    BY <1>1, <2>1 DEF FixesComplete, Repaired
  <2>2. NumFailures = 0 /\ ~(considered /\ IsFailure(c, hints))
    <3> HIDE DEF considered, c
    <3> QED BY <1>3, <1>6
  <2>3. CASE k \in 1..Len(log) /\ log'[k] = log[k]
    BY <2>2, <2>3 DEF DInv, FixesComplete
  <2>4. CASE log'[k] = e
    <3>1. e.delivered = delivered /\ e.level = c.level /\ e.fix = tried
      BY DEF LogEntry
    <3>2. e.fix # "fails"
      BY <2>2, <3>1 DEF Tried, IsFailure
    <3>3. ASSUME delivered, IsError(c), ~commandLine.fixItAt
          PROVE  e.fix = "applies"
      <4>1. considered
        BY <3>3 DEF Considered
      <4>2. hints \in Hints /\ hints \notin {"none", "unrewritable", "fails"}
        BY <2>2, <3>3, <4>1 DEF IsFailure
      <4>3. hints = "applies"
        BY <4>2 DEF Hints
      <4> HIDE DEF considered
      <4> QED BY <3>1, <4>1, <4>3 DEF Tried
    <3> HIDE DEF e, delivered, c, tried
    <3> QED BY <2>4, <3>1, <3>2, <3>3 DEF Repaired, IsError
  <2>5. CASE log'[k].level = "Note" /\ log'[k].fix = "none"
    BY <2>5 DEF Repaired
  <2> QED BY <1>4, <2>3, <2>4, <2>5 DEF Extends
<1>12. Accounts(Diags, log)'
  BY <1>4
<1> QED BY <1>5, <1>7, <1>8, <1>9, <1>10, <1>11, <1>12 DEF DInv

(* The file is written or refused; the refusal is itself a diagnostic.     *)
LEMMA WriteFixedFileLemma ==
  ASSUME DInv, WriteFixedFile
  PROVE  DInv'
<1>0. TypeOK
  BY DEF DInv
<1>1. UNCHANGED <<commandLine, nextOption, flags, AllExtensionsSilenced,
                  customIDs, aborted, NumFailures, extensionDepth>>
  BY DEF WriteFixedFile
<1>2. /\ nextOption > Len(commandLine.W) /\ commandLine.fixIt
      /\ NoChanges \in Builtin
  BY DiagnosticsAssumption DEF WriteFixedFile, Running
<1>3. CASE NumFailures > 0
  <2> DEFINE c == Classified(NoChanges, FALSE)
             e == LogEntry(Diags, c, "none")
             m == ProcessDiag(Diags, c)
  <2>1. /\ Diags' = m /\ log' = Append(log, e)
        /\ DiagMappings' = [DiagMappings EXCEPT ![NoChanges] = MappingInfo(NoChanges)]
        /\ written' = "refused"
    BY <1>3 DEF WriteFixedFile
  <2>2. Diags \in DiagState /\ log \in Seq(Entry) /\ Accounts(Diags, log)
    BY DEF DInv, TypeOK, DiagState
  <2>3. c \in Diagnostic
    BY <1>0, <1>2, ClassifiedType
  <2>4. m \in DiagState /\ e \in Entry /\ Follows(Diags, m, e)
    BY <2>2, <2>3, ProcessDiagFacts
  <2>5. Extends(log', log, e)
    BY <2>1, <2>2, <2>4, ExtendsByOne
  <2>6. OptionsHonoured'
    BY <1>1, <1>2, <2>5, ExtendsHonours
  <2> HIDE DEF c, e, m
  <2>7. Accounts(Diags', log')
    BY <2>1, <2>2, <2>4, OneMore
  <2>8. /\ DiagMappings' \in [Builtin -> MappingEntry]
        /\ \A b \in Builtin : DiagMappings'[b].user => DiagMappings'[b].map # "unset"
        /\ MappingsFollowOptions'
    BY <1>1, <1>2, <2>1, LazyMapping
  <2>9. TypeOK'
    BY <1>0, <1>1, <2>1, <2>4, <2>8 DEF TypeOK, DiagState
  <2>10. log' \in Seq(Entry) /\ OptionsFirst'
    BY <1>1, <1>2, <2>5 DEF Extends, OptionsFirst
  <2>11. FixesComplete'
    BY <1>1, <1>3, <2>1 DEF FixesComplete
  <2> QED BY <2>6, <2>7, <2>8, <2>9, <2>10, <2>11 DEF DInv
<1>4. CASE ~(NumFailures > 0)
  <2>1. written' = "yes" /\ UNCHANGED <<Diags, log, DiagMappings>>
    BY <1>4 DEF WriteFixedFile
  <2>2. NumFailures = 0
    BY <1>0, <1>4 DEF TypeOK
  <2>3. TypeOK'
    BY <1>0, <1>1, <2>1 DEF TypeOK
  <2>4. FixesComplete'
    BY <1>1, <1>2, <2>1, <2>2 DEF DInv, FixesComplete, Repaired
  <2>5. log' \in Seq(Entry) /\ Accounts(Diags, log)' /\ OptionsFirst'
    BY <1>1, <2>1 DEF DInv, OptionsFirst
  <2>6. MappingsFollowOptions'
    BY <1>1, <2>1 DEF DInv, MappingsFollowOptions, OptionsBefore, OptionsAbout
  <2>7. OptionsHonoured'
    BY <1>1, <2>1, StillHonoured DEF DInv
  <2> QED BY <2>3, <2>4, <2>5, <2>6, <2>7 DEF DInv
<1> QED BY <1>3, <1>4

LEMMA StutterLemma ==
  ASSUME DInv, UNCHANGED vars
  PROVE  DInv'
<1>1. TypeOK'
  BY DEF DInv, TypeOK, vars
<1>2. UNCHANGED <<commandLine, nextOption, flags, DiagMappings, Diags,
                  NumFailures, written, log>>
  BY DEF vars
<1> QED BY <1>1, <1>2, Undisturbed

LEMMA Invariance == Spec => []DInv
<1>1. Init => DInv
  BY InitLemma
<1>2. DInv /\ [Next]_vars => DInv'
  <2> SUFFICES ASSUME DInv, [Next]_vars
               PROVE  DInv'
    OBVIOUS
  <2>1. CASE ProcessWarningOption
    BY <2>1, ProcessWarningOptionLemma
  <2>2. CASE IncrementAllExtensionsSilenced \/ DecrementAllExtensionsSilenced
    BY <2>2, ExtensionLemma
  <2>3. ASSUME NEW c \in Custom, GetCustomDiagID(c)
        PROVE  DInv'
    BY <2>3, GetCustomDiagIDLemma
  <2>4. ASSUME NEW d \in Builtin \cup Custom, NEW sys \in BOOLEAN,
               NEW hints \in (IF commandLine.fixIt THEN Hints ELSE {"none"}),
               NEW here \in {TRUE, ~commandLine.fixItAt},
               Report(d, sys, hints, here)
        PROVE  DInv'
    BY <2>4, ReportLemma
  <2>5. CASE WriteFixedFile
    BY <2>5, WriteFixedFileLemma
  <2>6. CASE UNCHANGED vars
    BY <2>6, StutterLemma
  <2> QED BY <2>1, <2>2, <2>3, <2>4, <2>5, <2>6 DEF Next
<1> QED BY <1>1, <1>2, PTL DEF Spec

-----------------------------------------------------------------------------
(* The theorems.                                                           *)

(* The engine's variables keep their types, and a mapping the user chose   *)
(* is never unset by the lazily computed default (getDiagnosticLevel).     *)
THEOREM TypeCorrect == Spec => []TypeOK
<1>1. DInv => TypeOK
  BY DEF DInv
<1> QED BY <1>1, Invariance, PTL

(* In every history ProcessDiag shows a note exactly with the diagnostic   *)
(* it belongs to, shows nothing after a fatal error but its notes, and     *)
(* counts what it shows.                                                   *)
THEOREM ShownWithNotesAndCountedTheorem == Spec => []ShownWithNotesAndCounted
<1>1. DInv => ShownWithNotesAndCounted
  <2> SUFFICES ASSUME DInv
               PROVE  ShownWithNotesAndCounted
    OBVIOUS
  <2>1. NotesFollowTheirDiagnostic
    <3>1. \A k : Before(k) = NonNotes(log, k)
      BY DEF Before, NonNotes
    <3>2. NotesFollow(log)
      BY DEF DInv, Accounts
    <3> QED BY <3>1, <3>2 DEF NotesFollowTheirDiagnostic, NotesFollow, OwnerShown
  <2>2. SilentAfterFatal
    BY DEF DInv, Accounts, SilentAfterFatal, SilentAfter
  <2>3. ErrorsCounted
    <3>1. \A k \in Shown(log) : Rank[log[k].level] >= Rank["Error"]
                                  <=> log[k].level \in {"Error", "Fatal"}
      <4>1. \A k \in Shown(log) : log[k] \in Entry
        BY DEF DInv, Shown
      <4>2. \A k \in Shown(log) : log[k].level \in Level
        BY <4>1 DEF Entry
      <4> QED BY <4>2, RankFacts DEF IsErrorLevel
    <3> DEFINE shown == {k \in 1..Len(log) : log[k].delivered}
               errors == {k \in shown : Rank[log[k].level] >= Rank["Error"]}
    <3>2. shown = Shown(log)
      BY DEF Shown
    <3>3. errors = ErrorsIn(log)
      BY <3>1, <3>2, Zenon DEF ErrorsIn
    <3>4. Counted(Diags, log)
      BY DEF DInv, Accounts
    <3> HIDE DEF shown, errors
    <3>5. /\ Diags.NumErrors = Cardinality(errors)
          /\ Diags.NumDiagnostics = Cardinality(shown)
          /\ Diags.ErrorOccurred <=> errors # {}
      BY <3>2, <3>3, <3>4 DEF Counted
    <3> QED BY <3>5 DEF ErrorsCounted, shown, errors
  <2> QED BY <2>1, <2>2, <2>3 DEF ShownWithNotesAndCounted
<1> QED BY <1>1, Invariance, PTL

(* Whatever the -W options and their order, the level a diagnostic is      *)
(* shown with is the one the last option about it asks for                 *)
(* (ProcessWarningOptions, then getDiagnosticLevel).                       *)
THEOREM OptionsHonouredTheorem == Spec => []OptionsHonoured
<1>1. DInv => OptionsHonoured
  BY DEF DInv
<1> QED BY <1>1, Invariance, PTL

(* FixItRewriter writes the fixed file only if no hint it tried failed, of *)
(* whatever diagnostic, and, unless it was asked to fix given places only, *)
(* it fixed every error shown.                                             *)
THEOREM FixedFileOnlyIfFixedTheorem == Spec => []FixedFileOnlyIfFixed
<1>1. DInv => FixedFileOnlyIfFixed
  BY DEF DInv, FixesComplete, FixedFileOnlyIfFixed, Repaired
<1> QED BY <1>1, Invariance, PTL
=============================================================================

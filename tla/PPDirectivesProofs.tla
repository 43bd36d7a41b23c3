------------------------ MODULE PPDirectivesProofs ------------------------
(***************************************************************************)
(* Machine-checked proofs about PPDirectives, for every set of files,      *)
(* macros and texts.                                                       *)
(***************************************************************************)
EXTENDS PPDirectives, SequenceTheorems, FiniteSetTheorems, TLAPS

-----------------------------------------------------------------------------
(* Sequences                                                               *)

(* Front and Last of a non-empty sequence.                                 *)
LEMMA FrontLast ==
  ASSUME NEW S, NEW s \in Seq(S), s # <<>>
  PROVE  /\ Front(s) \in Seq(S)
         /\ Len(Front(s)) = Len(s) - 1
         /\ \A i \in 1..Len(s) - 1 : Front(s)[i] = s[i]
         /\ Last(s) \in S
         /\ Len(s) \in DOMAIN s
  <1>1. Len(s) \in Nat \ {0} /\ DOMAIN s = 1..Len(s)
    BY EmptySeq, LenProperties
  <1>2. \A i \in 1..Len(s) : s[i] \in S
    BY ElementOfSeq
  <1>3. DEFINE n == Len(s) - 1
  <1>4. n \in Int /\ (\A i \in 1..n : s[i] \in S) /\ (1 <= n \/ n = 0)
    BY <1>1, <1>2
  <1>5. /\ SubSeq(s, 1, n) \in Seq(S)
        /\ Len(SubSeq(s, 1, n)) = IF 1 <= n THEN n - 1 + 1 ELSE 0
        /\ \A i \in 1..n - 1 + 1 : SubSeq(s, 1, n)[i] = s[1 + i - 1]
    <2> HIDE DEF n
    <2> QED BY <1>4, SubSeqProperties
  <1>6. \A i \in 1..n : SubSeq(s, 1, n)[i] = s[i]
    BY <1>4, <1>5
  <1>7. Len(SubSeq(s, 1, n)) = n
    BY <1>4, <1>5
  <1> QED
    BY <1>1, <1>2, <1>5, <1>6, <1>7 DEF Front, Last

(* What appending one element to a sequence gives.                         *)
LEMMA AppendFacts ==
  ASSUME NEW S, NEW s \in Seq(S), NEW e \in S
  PROVE  /\ Append(s, e) \in Seq(S)
         /\ Len(Append(s, e)) = Len(s) + 1
         /\ \A i \in 1..Len(s) : Append(s, e)[i] = s[i]
         /\ Append(s, e)[Len(s) + 1] = e
  OBVIOUS

-----------------------------------------------------------------------------
(* The methods of MultipleIncludeOpt return states of the object.          *)
LEMMA MIOptType ==
  ASSUME NEW mi \in MIOptState
  PROVE  /\ InitialMIOpt \in MIOptState
         /\ ReadToken(mi) \in MIOptState
         /\ ExpandedMacro(mi) \in MIOptState
         /\ \A m \in Macros \cup {NoMacro} :
              EnterTopLevelIFNDEF(mi, m) \in MIOptState
         /\ EnterTopLevelConditional(mi) \in MIOptState
         /\ ExitTopLevelConditional(mi) \in MIOptState
         /\ GetControllingMacroAtEndOfFile(mi) \in Macros \cup {NoMacro}
  BY DEF MIOptState, InitialMIOpt, ReadToken, ExpandedMacro, Invalidate,
         EnterTopLevelIFNDEF, EnterTopLevelConditional,
         ExitTopLevelConditional, GetControllingMacroAtEndOfFile

-----------------------------------------------------------------------------
(* The inductive invariant, as a predicate of one lexer: its type, its     *)
(* position and the shape of its conditional stack.                        *)

GoodLexer(lx) == lx \in Lexer /\ InsideBuffer(lx) /\ WellNested(lx)

IInv == TypeOK /\ SkipStateConsistent

(* Operations that change only the MIOpt state keep a lexer good.          *)
LEMMA TellMIOptGood ==
  ASSUME NEW lx, GoodLexer(lx), NEW mi \in MIOptState
  PROVE  /\ GoodLexer(TellMIOpt(lx, mi))
         /\ TellMIOpt(lx, mi).LexingRawMode = lx.LexingRawMode
         /\ TellMIOpt(lx, mi).ConditionalStack = lx.ConditionalStack
         /\ TellMIOpt(lx, mi).pos = lx.pos
         /\ TellMIOpt(lx, mi).MIOpt = mi
  BY DEF GoodLexer, TellMIOpt, Lexer, InsideBuffer, WellNested

LEMMA IfExpandedGood ==
  ASSUME NEW lx, GoodLexer(lx), NEW yes
  PROVE  /\ GoodLexer(IfExpanded(lx, yes))
         /\ IfExpanded(lx, yes).LexingRawMode = lx.LexingRawMode
         /\ IfExpanded(lx, yes).ConditionalStack = lx.ConditionalStack
         /\ IfExpanded(lx, yes).pos = lx.pos
  <1>1. lx.MIOpt \in MIOptState
    BY DEF GoodLexer, Lexer
  <1>2. ExpandedMacro(lx.MIOpt) \in MIOptState
    BY <1>1, MIOptType
  <1> QED
    BY <1>2, TellMIOptGood DEF IfExpanded

(* An entered block is pushed.                                             *)
LEMMA PushEnteredGood ==
  ASSUME NEW lx, GoodLexer(lx), ~lx.LexingRawMode, NEW loc \in Nat
  PROVE  GoodLexer(pushConditionalLevel(lx, loc, FALSE, TRUE, FALSE))
  <1> DEFINE ci == [IfLoc |-> loc, WasSkipping |-> FALSE,
                    FoundNonSkip |-> TRUE, FoundElse |-> FALSE]
             cs == lx.ConditionalStack
             new == pushConditionalLevel(lx, loc, FALSE, TRUE, FALSE)
  <1>1. ci \in CondInfo /\ Entered(ci)
    BY DEF CondInfo, Entered
  <1>2. cs \in Seq(CondInfo)
    BY DEF GoodLexer, Lexer
  <1>3. /\ Append(cs, ci) \in Seq(CondInfo)
        /\ Len(Append(cs, ci)) = Len(cs) + 1
        /\ \A i \in 1..Len(cs) : Append(cs, ci)[i] = cs[i]
        /\ Append(cs, ci)[Len(cs) + 1] = ci
    BY <1>1, <1>2, AppendFacts
  <1>4. /\ new = [lx EXCEPT !.ConditionalStack = Append(cs, ci)]
        /\ new.ConditionalStack = Append(cs, ci)
        /\ new.LexingRawMode = FALSE
    BY DEF pushConditionalLevel, GoodLexer, Lexer
  <1>5. \A j \in DOMAIN cs : Entered(cs[j])
    BY DEF GoodLexer, WellNested
  <1>6. \A j \in DOMAIN Append(cs, ci) : Entered(Append(cs, ci)[j])
    BY <1>1, <1>2, <1>3, <1>5
  <1>7. WellNested(new)
    BY <1>4, <1>6 DEF WellNested
  <1>8. new \in Lexer /\ InsideBuffer(new)
    BY <1>3, <1>4 DEF GoodLexer, Lexer, InsideBuffer
  <1> QED
    BY <1>7, <1>8 DEF GoodLexer

(* The current block of a live conditional ends: the entry is popped.      *)
LEMMA PopLiveGood ==
  ASSUME NEW lx, GoodLexer(lx), ~lx.LexingRawMode,
         lx.ConditionalStack # <<>>
  PROVE  /\ GoodLexer(popConditionalLevel(lx))
         /\ ~popConditionalLevel(lx).LexingRawMode
         /\ popConditionalLevel(lx).MIOpt = lx.MIOpt
         /\ peekConditionalLevel(lx) \in CondInfo
  <1> DEFINE cs == lx.ConditionalStack
             new == popConditionalLevel(lx)
  <1>1. cs \in Seq(CondInfo)
    BY DEF GoodLexer, Lexer
  <1>2. /\ Front(cs) \in Seq(CondInfo)
        /\ Len(Front(cs)) = Len(cs) - 1
        /\ \A i \in 1..Len(cs) - 1 : Front(cs)[i] = cs[i]
        /\ Last(cs) \in CondInfo
    BY <1>1, FrontLast
  <1>3. /\ new = [lx EXCEPT !.ConditionalStack = Front(cs)]
        /\ new.ConditionalStack = Front(cs)
        /\ new.LexingRawMode = FALSE
        /\ new.MIOpt = lx.MIOpt
    BY DEF popConditionalLevel, GoodLexer, Lexer
  <1>4. \A j \in DOMAIN cs : Entered(cs[j])
    BY DEF GoodLexer, WellNested
  <1>5. \A j \in DOMAIN Front(cs) : Entered(Front(cs)[j])
    BY <1>1, <1>2, <1>4
  <1>6. WellNested(new)
    BY <1>3, <1>5 DEF WellNested
  <1>7. new \in Lexer /\ InsideBuffer(new)
    BY <1>2, <1>3 DEF GoodLexer, Lexer, InsideBuffer
  <1> QED
    BY <1>2, <1>3, <1>6, <1>7 DEF GoodLexer, peekConditionalLevel

(* A live lexer starts to skip: the new entry is the outermost skipped one. *)
LEMMA StartSkippingGood ==
  ASSUME NEW lx, GoodLexer(lx), ~lx.LexingRawMode, NEW loc \in Nat,
         NEW y \in BOOLEAN, NEW z \in BOOLEAN
  PROVE  GoodLexer(SkipExcludedConditionalBlock(lx, loc, y, z))
  <1> DEFINE ci == [IfLoc |-> loc, WasSkipping |-> FALSE,
                    FoundNonSkip |-> y, FoundElse |-> z]
             cs == lx.ConditionalStack
             new == SkipExcludedConditionalBlock(lx, loc, y, z)
  <1>1. ci \in CondInfo /\ ~ci.WasSkipping
    BY DEF CondInfo
  <1>2. cs \in Seq(CondInfo)
    BY DEF GoodLexer, Lexer
  <1>3. /\ Append(cs, ci) \in Seq(CondInfo)
        /\ Len(Append(cs, ci)) = Len(cs) + 1
        /\ \A i \in 1..Len(cs) : Append(cs, ci)[i] = cs[i]
        /\ Append(cs, ci)[Len(cs) + 1] = ci
    BY <1>1, <1>2, AppendFacts
  <1>4. /\ new = [lx EXCEPT !.ConditionalStack = Append(cs, ci),
                            !.LexingRawMode = TRUE]
        /\ new.ConditionalStack = Append(cs, ci)
        /\ new.LexingRawMode = TRUE
    BY DEF SkipExcludedConditionalBlock, pushConditionalLevel, GoodLexer, Lexer
  <1>5. \A j \in DOMAIN cs : Entered(cs[j])
    BY DEF GoodLexer, WellNested
  <1>6. DEFINE k == Len(cs) + 1
  <1>7. /\ k \in DOMAIN Append(cs, ci)
        /\ ~Append(cs, ci)[k].WasSkipping
        /\ \A j \in DOMAIN Append(cs, ci) :
             /\ j < k => Entered(Append(cs, ci)[j])
             /\ j > k => Append(cs, ci)[j].WasSkipping
    BY <1>1, <1>2, <1>3, <1>5
  <1>8. WellNested(new)
    BY <1>4, <1>7 DEF WellNested
  <1>9. new \in Lexer /\ InsideBuffer(new)
    BY <1>3, <1>4 DEF GoodLexer, Lexer, InsideBuffer
  <1> QED
    BY <1>8, <1>9 DEF GoodLexer

(* A conditional inside a skipped block is pushed.                         *)
LEMMA PushSkippedGood ==
  ASSUME NEW lx, GoodLexer(lx), lx.LexingRawMode, NEW loc \in Nat
  PROVE  GoodLexer(pushConditionalLevel(lx, loc, TRUE, FALSE, FALSE))
  <1> DEFINE ci == [IfLoc |-> loc, WasSkipping |-> TRUE,
                    FoundNonSkip |-> FALSE, FoundElse |-> FALSE]
             cs == lx.ConditionalStack
             new == pushConditionalLevel(lx, loc, TRUE, FALSE, FALSE)
  <1>1. ci \in CondInfo /\ ci.WasSkipping
    BY DEF CondInfo
  <1>2. cs \in Seq(CondInfo)
    BY DEF GoodLexer, Lexer
  <1>3. /\ Append(cs, ci) \in Seq(CondInfo)
        /\ Len(Append(cs, ci)) = Len(cs) + 1
        /\ \A i \in 1..Len(cs) : Append(cs, ci)[i] = cs[i]
        /\ Append(cs, ci)[Len(cs) + 1] = ci
    BY <1>1, <1>2, AppendFacts
  <1>4. /\ new = [lx EXCEPT !.ConditionalStack = Append(cs, ci)]
        /\ new.ConditionalStack = Append(cs, ci)
        /\ new.LexingRawMode = lx.LexingRawMode
    BY DEF pushConditionalLevel, GoodLexer, Lexer
  <1>5. PICK k \in DOMAIN cs :
               /\ ~cs[k].WasSkipping
               /\ \A j \in DOMAIN cs : /\ j < k => Entered(cs[j])
                                       /\ j > k => cs[j].WasSkipping
    BY DEF GoodLexer, WellNested
  <1>6. /\ k \in DOMAIN Append(cs, ci)
        /\ ~Append(cs, ci)[k].WasSkipping
        /\ \A j \in DOMAIN Append(cs, ci) :
             /\ j < k => Entered(Append(cs, ci)[j])
             /\ j > k => Append(cs, ci)[j].WasSkipping
    BY <1>1, <1>2, <1>3, <1>5
  <1>7. WellNested(new)
    BY <1>4, <1>6 DEF WellNested
  <1>8. new \in Lexer /\ InsideBuffer(new)
    BY <1>3, <1>4 DEF GoodLexer, Lexer, InsideBuffer
  <1> QED
    BY <1>7, <1>8 DEF GoodLexer

(* While skipping there is a conditional to look at, and the lexer leaves  *)
(* raw mode only when that conditional is the outermost skipped one: either *)
(* it is popped (#endif), or one of its blocks is entered (#else, #elif).  *)
LEMMA SkipTop ==
  ASSUME NEW lx, GoodLexer(lx), lx.LexingRawMode
  PROVE  /\ lx.ConditionalStack # <<>>
         /\ peekConditionalLevel(lx) \in CondInfo
         /\ GoodLexer([popConditionalLevel(lx) EXCEPT
                         !.LexingRawMode = peekConditionalLevel(lx).WasSkipping])
         /\ \A ci \in CondInfo, stay \in BOOLEAN :
              /\ ci.WasSkipping = peekConditionalLevel(lx).WasSkipping
              /\ ~stay => Entered(ci)
              => GoodLexer([SetTop(lx, ci) EXCEPT !.LexingRawMode = stay])
  <1> DEFINE cs == lx.ConditionalStack
             n == Len(cs)
  <1>1. cs \in Seq(CondInfo) /\ n \in Nat
    BY DEF GoodLexer, Lexer
  <1>2. PICK k \in DOMAIN cs :
               /\ ~cs[k].WasSkipping
               /\ \A j \in DOMAIN cs : /\ j < k => Entered(cs[j])
                                       /\ j > k => cs[j].WasSkipping
    BY DEF GoodLexer, WellNested
  <1>3. cs # <<>> /\ k \in 1..n /\ n \in DOMAIN cs
    BY <1>1, <1>2, EmptySeq
  <1>4. /\ Front(cs) \in Seq(CondInfo)
        /\ Len(Front(cs)) = n - 1
        /\ \A i \in 1..n - 1 : Front(cs)[i] = cs[i]
        /\ Last(cs) \in CondInfo
    BY <1>1, <1>3, FrontLast
  <1>5. peekConditionalLevel(lx) = cs[n] /\ cs[n] \in CondInfo
    BY <1>4 DEF peekConditionalLevel, Last
  <1>6. cs[n].WasSkipping \in BOOLEAN /\ (cs[n].WasSkipping <=> k < n)
    BY <1>1, <1>2, <1>3, <1>5 DEF CondInfo
  <1>7. GoodLexer([popConditionalLevel(lx) EXCEPT
                     !.LexingRawMode = peekConditionalLevel(lx).WasSkipping])
    <2> DEFINE new == [popConditionalLevel(lx) EXCEPT
                         !.LexingRawMode = peekConditionalLevel(lx).WasSkipping]
    <2>1. /\ new = [lx EXCEPT !.ConditionalStack = Front(cs),
                              !.LexingRawMode = cs[n].WasSkipping]
          /\ new.ConditionalStack = Front(cs)
          /\ new.LexingRawMode = cs[n].WasSkipping
      BY <1>5 DEF popConditionalLevel, GoodLexer, Lexer
    <2>2. new \in Lexer /\ InsideBuffer(new)
      BY <1>4, <1>6, <2>1 DEF GoodLexer, Lexer, InsideBuffer
    <2>3. CASE k < n
      <3>1. DOMAIN Front(cs) = 1..n - 1 /\ DOMAIN cs = 1..n
        BY <1>1, <1>4, LenProperties
      <3>2. k \in DOMAIN Front(cs) /\ Front(cs)[k] = cs[k]
        BY <1>1, <1>3, <1>4, <2>3, <3>1
      <3>3. ASSUME NEW j \in DOMAIN Front(cs)
            PROVE  /\ j < k => Entered(Front(cs)[j])
                   /\ j > k => Front(cs)[j].WasSkipping
        <4>1. j \in DOMAIN cs /\ Front(cs)[j] = cs[j]
          BY <1>1, <1>4, <3>1
        <4> QED BY <1>2, <4>1
      <3>4. WellNested(new)
        BY <1>2, <1>6, <2>1, <2>3, <3>2, <3>3 DEF WellNested
      <3> QED BY <2>2, <3>4 DEF GoodLexer
    <2>4. CASE k = n
      <3>1. \A j \in DOMAIN Front(cs) : Entered(Front(cs)[j])
        BY <1>1, <1>2, <1>3, <1>4, <2>4
      <3>2. WellNested(new)
        BY <1>6, <2>1, <2>4, <3>1 DEF WellNested
      <3> QED BY <2>2, <3>2 DEF GoodLexer
    <2> QED BY <1>1, <1>3, <2>3, <2>4
  <1>8. ASSUME NEW ci \in CondInfo, NEW stay \in BOOLEAN,
               ci.WasSkipping = peekConditionalLevel(lx).WasSkipping,
               ~stay => Entered(ci)
        PROVE  GoodLexer([SetTop(lx, ci) EXCEPT !.LexingRawMode = stay])
    <2> DEFINE new == [SetTop(lx, ci) EXCEPT !.LexingRawMode = stay]
               ns == Append(Front(cs), ci)
    <2>1. /\ new = [lx EXCEPT !.ConditionalStack = ns, !.LexingRawMode = stay]
          /\ new.ConditionalStack = ns
          /\ new.LexingRawMode = stay
      BY DEF SetTop, GoodLexer, Lexer
    <2>2. /\ ns \in Seq(CondInfo)
          /\ Len(ns) = Len(Front(cs)) + 1
          /\ \A i \in 1..Len(Front(cs)) : ns[i] = Front(cs)[i]
          /\ ns[Len(Front(cs)) + 1] = ci
      BY <1>4, AppendFacts
    <2>3. /\ Len(ns) = n
          /\ \A i \in 1..n - 1 : ns[i] = cs[i]
          /\ ns[n] = ci
          /\ DOMAIN ns = 1..n
      BY <1>1, <1>4, <2>2
    <2>4. new \in Lexer /\ InsideBuffer(new)
      BY <2>1, <2>2 DEF GoodLexer, Lexer, InsideBuffer
    <2>5. CASE stay
      <3>1. /\ k \in DOMAIN ns
            /\ ~ns[k].WasSkipping
            /\ \A j \in DOMAIN ns : /\ j < k => Entered(ns[j])
                                    /\ j > k => ns[j].WasSkipping
        BY <1>1, <1>2, <1>3, <1>5, <1>6, <1>8, <2>3
      <3>2. WellNested(new)
        BY <2>1, <2>5, <3>1 DEF WellNested
      <3> QED BY <2>4, <3>2 DEF GoodLexer
    <2>6. CASE ~stay
      <3>1. k = n
        BY <1>1, <1>3, <1>5, <1>6, <1>8, <2>6 DEF Entered
      <3>2. \A j \in DOMAIN ns : Entered(ns[j])
        BY <1>1, <1>2, <1>3, <1>8, <2>3, <2>6, <3>1
      <3>3. WellNested(new)
        BY <2>1, <2>6, <3>2 DEF WellNested
      <3> QED BY <2>4, <3>3 DEF GoodLexer
    <2> QED BY <2>5, <2>6
  <1> QED
    BY <1>3, <1>5, <1>7, <1>8

-----------------------------------------------------------------------------
(* Steps that change only the current lexer                                *)

(* Under the invariant every lexer is good, and the line to be read, if    *)
(* any, is a line.                                                         *)
LEMMA LexersGood ==
  ASSUME IInv
  PROVE  /\ GoodLexer(CurPPLexer)
         /\ \A i \in DOMAIN IncludeMacroStack :
              GoodLexer(IncludeMacroStack[i])
              /\ ~IncludeMacroStack[i].LexingRawMode
         /\ text \in Seq(Line)
         /\ ~AtEnd => line \in Line
  <1>1. GoodLexer(CurPPLexer)
    BY DEF IInv, TypeOK, SkipStateConsistent, GoodLexer, Lexers
  <1>2. ASSUME NEW i \in DOMAIN IncludeMacroStack
        PROVE  GoodLexer(IncludeMacroStack[i])
               /\ ~IncludeMacroStack[i].LexingRawMode
    <2>1. IncludeMacroStack[i] \in Lexer
      BY DEF IInv, TypeOK
    <2> QED
      BY <2>1 DEF IInv, TypeOK, SkipStateConsistent, GoodLexer, Lexers
  <1>3. text \in Seq(Line)
    BY <1>1 DEF text, GoodLexer, Lexer, IInv, TypeOK
  <1>4. ~AtEnd => line \in Line
    <2>1. CurPPLexer.pos \in Nat /\ CurPPLexer.pos <= Len(text)
      BY <1>1 DEF GoodLexer, Lexer, InsideBuffer, text
    <2> QED
      BY <1>3, <2>1 DEF AtEnd, line
  <1> QED
    BY <1>1, <1>2, <1>3, <1>4

(* Reading a line keeps the lexer good and its conditionals as they are.   *)
LEMMA LineReadGood ==
  ASSUME IInv, ~AtEnd
  PROVE  /\ GoodLexer(LineRead)
         /\ LineRead.LexingRawMode = CurPPLexer.LexingRawMode
         /\ LineRead.ConditionalStack = CurPPLexer.ConditionalStack
         /\ LineRead.pos \in Nat
         /\ LineRead.file = CurPPLexer.file
         /\ LineRead.MIOpt \in MIOptState
  <1>1. GoodLexer(CurPPLexer) /\ CurPPLexer \in Lexer
    BY LexersGood DEF GoodLexer
  <1>2. CurPPLexer.MIOpt \in MIOptState /\ CurPPLexer.pos \in Nat
    BY <1>1 DEF Lexer
  <1>3. ReadToken(CurPPLexer.MIOpt) \in MIOptState
    BY <1>2, MIOptType
  <1>4. macros \in Definitions
    BY DEF IInv, TypeOK
  <1>5. /\ CurPPLexer.env \in Seq(Definitions)
        /\ Len(CurPPLexer.env) = CurPPLexer.pos
    BY <1>1 DEF GoodLexer, Lexer, InsideBuffer
  <1>6. /\ Append(CurPPLexer.env, macros) \in Seq(Definitions)
        /\ Len(Append(CurPPLexer.env, macros)) = CurPPLexer.pos + 1
    BY <1>4, <1>5
  <1>7. /\ LineRead \in Lexer
        /\ LineRead.pos = CurPPLexer.pos + 1
        /\ LineRead.env = Append(CurPPLexer.env, macros)
        /\ LineRead.file = CurPPLexer.file
        /\ LineRead.ConditionalStack = CurPPLexer.ConditionalStack
        /\ LineRead.LexingRawMode = CurPPLexer.LexingRawMode
        /\ LineRead.MIOpt = ReadToken(CurPPLexer.MIOpt)
    <2> DEFINE p == CurPPLexer.pos + 1
               mi == ReadToken(CurPPLexer.MIOpt)
               e == Append(CurPPLexer.env, macros)
    <2>1. p \in Nat /\ mi \in MIOptState /\ e \in Seq(Definitions)
      BY <1>2, <1>3, <1>6
    <2>2. LineRead = [CurPPLexer EXCEPT !.pos = p, !.MIOpt = mi, !.env = e]
      BY DEF LineRead
    <2> HIDE DEF p, mi, e
    <2>3. /\ LineRead \in Lexer
          /\ LineRead.pos = p /\ LineRead.MIOpt = mi /\ LineRead.env = e
          /\ LineRead.file = CurPPLexer.file
          /\ LineRead.ConditionalStack = CurPPLexer.ConditionalStack
          /\ LineRead.LexingRawMode = CurPPLexer.LexingRawMode
      BY <1>1, <2>1, <2>2 DEF Lexer
    <2> QED BY <2>3 DEF p, mi, e
  <1>8. CurPPLexer.pos + 1 <= Len(text)
    <2>1. CurPPLexer.pos <= Len(text) /\ CurPPLexer.pos # Len(text)
      BY <1>1 DEF GoodLexer, InsideBuffer, text, AtEnd
    <2>2. Len(text) \in Nat
      BY LexersGood
    <2> QED BY <1>2, <2>1, <2>2
  <1>9. InsideBuffer(LineRead)
    BY <1>6, <1>7, <1>8 DEF InsideBuffer, text
  <1>10. WellNested(LineRead)
    BY <1>1, <1>7 DEF GoodLexer, WellNested
  <1> QED
    BY <1>2, <1>3, <1>7, <1>9, <1>10 DEF GoodLexer

(* A step that leaves the include stack and the texts alone preserves the  *)
(* invariant if the new lexer is good and the other values have their type. *)
LEMMA SetLexerInv ==
  ASSUME IInv, NEW lx, GoodLexer(lx), CurPPLexer' = lx,
         UNCHANGED <<content, IncludeMacroStack>>,
         (macros \in Definitions)', (FileInfo \in [Files -> PerFileInfo])',
         (eof \in BOOLEAN)', (entered \in [Files -> Nat])'
  PROVE  IInv'
  <1>1. lx \in Lexer /\ InsideBuffer(lx) /\ WellNested(lx)
    BY DEF GoodLexer
  <1>2. InsideBuffer(CurPPLexer)' /\ WellNested(CurPPLexer)'
    BY <1>1 DEF InsideBuffer, WellNested, Entered
  <1>3. ASSUME NEW i \in DOMAIN IncludeMacroStack
        PROVE  /\ InsideBuffer(IncludeMacroStack[i])'
               /\ WellNested(IncludeMacroStack[i])'
               /\ ~IncludeMacroStack[i].LexingRawMode
    BY <1>3, LexersGood DEF GoodLexer, InsideBuffer, WellNested, Entered
  <1>4. SkipStateConsistent'
    BY <1>2, <1>3 DEF SkipStateConsistent
  <1>5. (\A l \in Lexers : InsideBuffer(l))'
    BY <1>2, <1>3 DEF Lexers
  <1>6. TypeOK'
    BY <1>1, <1>5 DEF TypeOK, IInv
  <1> QED
    BY <1>4, <1>6 DEF IInv

LEMMA SetLexerAloneInv ==
  ASSUME IInv, NEW lx, GoodLexer(lx), SetLexer(lx)
  PROVE  IInv'
  BY SetLexerInv DEF SetLexer, IInv, TypeOK

(* A macro that stands for a condition expands to a plain one.             *)
LEMMA ExpansionType ==
  ASSUME NEW c \in Cond, NEW defs \in Definitions
  PROVE  Expansion(c, defs) \in PlainCond
  <1>1. CASE c.op # "macro"
    BY <1>1 DEF Expansion, Cond
  <1>2. CASE c.op = "macro"
    <2>1. c.macro \in Macros
      BY <1>2 DEF Cond, PlainCond
    <2>2. defs[c.macro] \in Bodies \cup {NoBody}
      BY <2>1 DEF Definitions
    <2>3. [op |-> "lit", val |-> FALSE] \in PlainCond
      BY DEF PlainCond
    <2> QED
      BY <1>2, <2>2, <2>3, BodiesAssumption
      DEF Expansion, hasMacroDefinition
  <1> QED BY <1>1, <1>2

(* The guard that EvaluateDirectiveExpression reports is a macro or none.  *)
LEMMA IfNDefMacroType ==
  ASSUME NEW c \in Cond, NEW defs \in Definitions
  PROVE  EvaluateDirectiveExpression(c, defs).IfNDefMacro \in Macros \cup {NoMacro}
  <1>1. Expansion(c, defs) \in PlainCond
    BY ExpansionType
  <1>2. Expansion(c, defs).op = "notdefined" => Expansion(c, defs).macro \in Macros
    BY <1>1 DEF PlainCond
  <1> QED
    BY <1>2 DEF EvaluateDirectiveExpression

(* The #if-like directives, live: enter the block or start to skip it.     *)
LEMMA OpenConditionalGood ==
  ASSUME NEW lx, GoodLexer(lx), ~lx.LexingRawMode, lx.pos \in Nat, NEW enter
  PROVE  GoodLexer(OpenConditional(lx, enter))
  <1>1. GoodLexer(pushConditionalLevel(lx, lx.pos, FALSE, TRUE, FALSE))
    BY PushEnteredGood
  <1>2. GoodLexer(SkipExcludedConditionalBlock(lx, lx.pos, FALSE, FALSE))
    BY StartSkippingGood
  <1> QED
    BY <1>1, <1>2 DEF OpenConditional

LEMMA IfdefInv ==
  ASSUME IInv, HandleIfdefDirective
  PROVE  IInv'
  <1>1. /\ ~AtEnd /\ ~CurPPLexer.LexingRawMode
        /\ line.op \in {"ifdef", "ifndef"}
    BY DEF HandleIfdefDirective, Live
  <1>2. line \in Line
    BY <1>1, LexersGood
  <1>3. line.macro \in Macros \cup {NoMacro}
    BY <1>1, <1>2 DEF Line
  <1>4. /\ GoodLexer(LineRead) /\ ~LineRead.LexingRawMode
        /\ LineRead.pos \in Nat /\ LineRead.MIOpt \in MIOptState
    BY <1>1, LineReadGood
  <1> DEFINE told == IF line.op = "ifndef" => CurPPLexer.MIOpt.ReadAnyTokens
                       THEN EnterTopLevelConditional(LineRead.MIOpt)
                       ELSE EnterTopLevelIFNDEF(LineRead.MIOpt, line.macro)
             informed == IF depth = 0 THEN TellMIOpt(LineRead, told)
                                      ELSE LineRead
             enter == hasMacroDefinition(line.macro, macros)
                        # (line.op = "ifndef")
  <1>5. told \in MIOptState
    BY <1>3, <1>4, MIOptType
  <1>6. GoodLexer(informed) /\ ~informed.LexingRawMode /\ informed.pos \in Nat
    <2> HIDE DEF told
    <2> QED BY <1>4, <1>5, TellMIOptGood
  <1>7. GoodLexer(SkipExcludedConditionalBlock(
                    LineRead, LineRead.pos, FALSE, FALSE))
    BY <1>4, StartSkippingGood
  <1>8. GoodLexer(OpenConditional(informed, enter))
    <2> HIDE DEF informed, enter
    <2> QED BY <1>6, OpenConditionalGood
  <1>9. SetLexer(IF line.macro = NoMacro
                   THEN SkipExcludedConditionalBlock(
                          LineRead, LineRead.pos, FALSE, FALSE)
                   ELSE OpenConditional(informed, enter))
    BY DEF HandleIfdefDirective
  <1> HIDE DEF informed, enter
  <1> QED
    BY <1>7, <1>8, <1>9, SetLexerAloneInv

LEMMA IfInv ==
  ASSUME IInv, HandleIfDirective
  PROVE  IInv'
  <1>1. ~AtEnd /\ ~CurPPLexer.LexingRawMode /\ line.op = "if"
    BY DEF HandleIfDirective, Live
  <1>2. line.cond \in Cond /\ macros \in Definitions
    BY <1>1, LexersGood DEF Line, IInv, TypeOK
  <1> DEFINE result == EvaluateDirectiveExpression(line.cond, macros)
             read == IfExpanded(LineRead, result.expanded)
             told == IF CurPPLexer.MIOpt.ReadAnyTokens
                          \/ result.IfNDefMacro = NoMacro
                       THEN EnterTopLevelConditional(read.MIOpt)
                       ELSE EnterTopLevelIFNDEF(read.MIOpt, result.IfNDefMacro)
             informed == IF depth = 0 THEN TellMIOpt(read, told) ELSE read
  <1>3. result.IfNDefMacro \in Macros \cup {NoMacro}
    BY <1>2, IfNDefMacroType
  <1>4. GoodLexer(LineRead) /\ ~LineRead.LexingRawMode /\ LineRead.pos \in Nat
    BY <1>1, LineReadGood
  <1>5. GoodLexer(read) /\ ~read.LexingRawMode /\ read.pos \in Nat
    BY <1>4, IfExpandedGood
  <1>6. read.MIOpt \in MIOptState
    BY <1>5 DEF GoodLexer, Lexer
  <1>7. told \in MIOptState
    <2> HIDE DEF result, read
    <2> QED BY <1>3, <1>6, MIOptType
  <1>8. GoodLexer(informed) /\ ~informed.LexingRawMode /\ informed.pos \in Nat
    <2> HIDE DEF read, told
    <2> QED BY <1>5, <1>7, TellMIOptGood
  <1>9. GoodLexer(OpenConditional(informed, result.ConditionalTrue))
    <2> HIDE DEF informed, result
    <2> QED BY <1>8, OpenConditionalGood
  <1>10. SetLexer(OpenConditional(informed, result.ConditionalTrue))
    BY DEF HandleIfDirective
  <1> HIDE DEF informed, result
  <1> QED
    BY <1>9, <1>10, SetLexerAloneInv

LEMMA DepthZero ==
  ASSUME IInv
  PROVE  /\ depth \in Nat
         /\ depth = 0 <=> CurPPLexer.ConditionalStack = <<>>
  <1>1. CurPPLexer.ConditionalStack \in Seq(CondInfo)
    BY LexersGood DEF GoodLexer, Lexer
  <1> QED
    BY <1>1, EmptySeq DEF depth

LEMMA EndifInv ==
  ASSUME IInv, HandleEndifDirective
  PROVE  IInv'
  <1>1. ~AtEnd /\ ~CurPPLexer.LexingRawMode
    BY DEF HandleEndifDirective, Live
  <1>2. /\ GoodLexer(LineRead) /\ ~LineRead.LexingRawMode
        /\ LineRead.ConditionalStack = CurPPLexer.ConditionalStack
        /\ LineRead.MIOpt \in MIOptState
    BY <1>1, LineReadGood
  <1> DEFINE popped == popConditionalLevel(LineRead)
             told == TellMIOpt(popped, ExitTopLevelConditional(popped.MIOpt))
  <1>3. depth # 0 => /\ GoodLexer(popped)
                     /\ popped.MIOpt \in MIOptState
    BY <1>2, DepthZero, PopLiveGood
  <1>4. depth # 0 => GoodLexer(told)
    BY <1>3, MIOptType, TellMIOptGood
  <1> HIDE DEF popped, told
  <1>5. PICK lx : GoodLexer(lx) /\ SetLexer(lx)
    BY <1>2, <1>3, <1>4, DepthZero DEF HandleEndifDirective, popped, told
  <1> QED
    BY <1>5, SetLexerAloneInv

(* A live #else or #elif: pop the entered block, then skip the rest.       *)
LEMMA SkipRestGood ==
  ASSUME IInv, ~AtEnd, ~CurPPLexer.LexingRawMode, depth # 0,
         NEW fndelse \in BOOLEAN
  PROVE  GoodLexer(SkipRestOfConditional(fndelse))
  <1>1. /\ GoodLexer(LineRead) /\ ~LineRead.LexingRawMode
        /\ LineRead.ConditionalStack = CurPPLexer.ConditionalStack
        /\ LineRead.MIOpt \in MIOptState
    BY LineReadGood
  <1> DEFINE popped == popConditionalLevel(LineRead)
             told == TellMIOpt(popped, EnterTopLevelConditional(popped.MIOpt))
  <1>2. GoodLexer(popped) /\ popped.MIOpt \in MIOptState /\ ~popped.LexingRawMode
    BY <1>1, DepthZero, PopLiveGood
  <1>3. GoodLexer(told) /\ ~told.LexingRawMode
    <2>1. EnterTopLevelConditional(popped.MIOpt) \in MIOptState
      BY <1>2, MIOptType
    <2> HIDE DEF popped
    <2> QED BY <1>2, <2>1, TellMIOptGood
  <1>4. peekConditionalLevel(CurPPLexer) \in CondInfo
    BY DepthZero, LexersGood, PopLiveGood
  <1>5. peekConditionalLevel(CurPPLexer).IfLoc \in Nat
    BY <1>4 DEF CondInfo
  <1> DEFINE loc == peekConditionalLevel(CurPPLexer).IfLoc
  <1>6. /\ GoodLexer(SkipExcludedConditionalBlock(popped, loc, TRUE, fndelse))
        /\ GoodLexer(SkipExcludedConditionalBlock(told, loc, TRUE, fndelse))
    BY <1>2, <1>3, <1>5, StartSkippingGood
  <1> HIDE DEF popped, told, loc
  <1> QED
    BY <1>6 DEF SkipRestOfConditional, popped, told, loc

LEMMA ElseElifInv ==
  ASSUME IInv, HandleElseDirective \/ HandleElifDirective
  PROVE  IInv'
  <1>1. ~AtEnd /\ ~CurPPLexer.LexingRawMode
    BY DEF HandleElseDirective, HandleElifDirective, Live
  <1>2. GoodLexer(LineRead)
    BY <1>1, LineReadGood
  <1>3. depth # 0 => peekConditionalLevel(CurPPLexer) \in CondInfo
    BY <1>1, DepthZero, LexersGood, PopLiveGood
  <1>4. depth # 0 => peekConditionalLevel(CurPPLexer).FoundElse \in BOOLEAN
    BY <1>3 DEF CondInfo
  <1>5. depth # 0 =>
          /\ GoodLexer(SkipRestOfConditional(TRUE))
          /\ GoodLexer(SkipRestOfConditional(
                         peekConditionalLevel(CurPPLexer).FoundElse))
    BY <1>1, <1>4, SkipRestGood
  <1>6. PICK lx : GoodLexer(lx) /\ SetLexer(lx)
    BY <1>2, <1>5 DEF HandleElseDirective, HandleElifDirective
  <1> QED
    BY <1>6, SetLexerAloneInv

(* The loop of SkipExcludedConditionalBlock.                               *)
LEMMA SkipLoopInv ==
  ASSUME IInv, SkipNestedIf \/ SkipEndif \/ SkipElse \/ SkipElif
  PROVE  IInv'
  <1>1. ~AtEnd /\ CurPPLexer.LexingRawMode
    BY DEF SkipNestedIf, SkipEndif, SkipElse, SkipElif, Skipping
  <1>2. /\ GoodLexer(LineRead) /\ LineRead.LexingRawMode
        /\ LineRead.ConditionalStack = CurPPLexer.ConditionalStack
        /\ LineRead.pos \in Nat
    BY <1>1, LineReadGood
  <1>3. top = peekConditionalLevel(LineRead) /\ top \in CondInfo
    BY <1>2, SkipTop DEF top, peekConditionalLevel
  <1>4. CASE SkipNestedIf
    <2>1. GoodLexer(pushConditionalLevel(LineRead, LineRead.pos,
                                         TRUE, FALSE, FALSE))
      BY <1>2, PushSkippedGood
    <2> QED
      BY <1>4, <2>1, SetLexerAloneInv DEF SkipNestedIf
  <1>5. CASE SkipEndif
    <2>1. GoodLexer([popConditionalLevel(LineRead)
                       EXCEPT !.LexingRawMode = top.WasSkipping])
      BY <1>2, <1>3, SkipTop
    <2> QED
      BY <1>5, <2>1, SetLexerAloneInv DEF SkipEndif
  <1>6. CASE SkipElse
    <2> DEFINE enter == ~top.WasSkipping /\ ~top.FoundNonSkip
               ci == [top EXCEPT !.FoundElse = TRUE,
                                 !.FoundNonSkip = top.FoundNonSkip \/ enter]
               new == [SetTop(LineRead, ci) EXCEPT !.LexingRawMode = ~enter]
    <2>1. /\ ci \in CondInfo
          /\ ci.WasSkipping = top.WasSkipping
          /\ enter => Entered(ci)
      BY <1>3 DEF CondInfo, Entered
    <2>2. GoodLexer(new)
      <3>1. (~enter) \in BOOLEAN
        OBVIOUS
      <3> HIDE DEF enter, ci
      <3> QED BY <1>2, <1>3, <2>1, <3>1, SkipTop
    <2>3. SetLexer(new)
      BY <1>6 DEF SkipElse
    <2> HIDE DEF new
    <2> QED BY <2>2, <2>3, SetLexerAloneInv
  <1>7. CASE SkipElif
    <2> DEFINE examined == ~top.WasSkipping /\ ~top.FoundNonSkip
               result == EvaluateDirectiveExpression(line.cond, macros)
               ShouldEnter == examined /\ result.ConditionalTrue
               read == IfExpanded(LineRead, examined /\ result.expanded)
               ci == [top EXCEPT !.FoundNonSkip =
                                   top.FoundNonSkip \/ ShouldEnter]
               new == [SetTop(read, ci) EXCEPT !.LexingRawMode = ~ShouldEnter]
    <2>1. /\ ShouldEnter \in BOOLEAN
          /\ ShouldEnter => ~top.WasSkipping
      OBVIOUS
    <2>2. /\ ci \in CondInfo
          /\ ci.WasSkipping = top.WasSkipping
          /\ ShouldEnter => Entered(ci)
      <3> HIDE DEF ShouldEnter
      <3> QED BY <1>3, <2>1 DEF CondInfo, Entered
    <2>3. /\ GoodLexer(read) /\ read.LexingRawMode
          /\ read.ConditionalStack = LineRead.ConditionalStack
      BY <1>2, IfExpandedGood
    <2>4. top = peekConditionalLevel(read)
      BY <1>3, <2>3 DEF peekConditionalLevel
    <2>5. GoodLexer(new)
      <3>1. (~ShouldEnter) \in BOOLEAN
        OBVIOUS
      <3> HIDE DEF ShouldEnter, read, ci
      <3> QED BY <2>2, <2>3, <2>4, <3>1, SkipTop
    <2>6. SetLexer(new)
      BY <1>7 DEF SkipElif
    <2> HIDE DEF new
    <2> QED BY <2>5, <2>6, SetLexerAloneInv
  <1> QED
    BY <1>4, <1>5, <1>6, <1>7

(* A lexer with no open conditional that does not skip.                    *)
LEMMA EmptiedGood ==
  ASSUME NEW lx, GoodLexer(lx)
  PROVE  GoodLexer([lx EXCEPT !.ConditionalStack = <<>>,
                              !.LexingRawMode = FALSE])
  <1> DEFINE none == <<>>
             new == [lx EXCEPT !.ConditionalStack = none,
                               !.LexingRawMode = FALSE]
  <1>1. none \in Seq(CondInfo) /\ DOMAIN none = {}
    OBVIOUS
  <1> HIDE DEF none
  <1>2. /\ new \in Lexer
        /\ new.ConditionalStack = none /\ new.LexingRawMode = FALSE
        /\ new.pos = lx.pos /\ new.file = lx.file /\ new.env = lx.env
    BY <1>1 DEF GoodLexer, Lexer
  <1> HIDE DEF new
  <1>3. InsideBuffer(new)
    BY <1>2 DEF GoodLexer, InsideBuffer
  <1>4. WellNested(new)
    BY <1>1, <1>2 DEF WellNested
  <1>5. GoodLexer(new)
    BY <1>2, <1>3, <1>4 DEF GoodLexer
  <1> QED
    BY <1>5 DEF new, none

LEMMA SkipEndOfFileInv ==
  ASSUME IInv, SkipEndOfFile
  PROVE  IInv'
  <1> DEFINE new == [CurPPLexer EXCEPT !.ConditionalStack = <<>>,
                                       !.LexingRawMode = FALSE]
  <1>1. GoodLexer(CurPPLexer)
    BY LexersGood
  <1>2. GoodLexer(new)
    BY <1>1, EmptiedGood
  <1>3. SetLexer(new)
    BY DEF SkipEndOfFile
  <1> HIDE DEF new
  <1> QED
    BY <1>2, <1>3, SetLexerAloneInv

-----------------------------------------------------------------------------
(* Steps that change other variables                                       *)

LEMMA DefineUndefInv ==
  ASSUME IInv, HandleDefineDirective \/ HandleUndefDirective
  PROVE  IInv'
  <1>1. ~AtEnd /\ line.op \in {"define", "undef"}
    BY DEF HandleDefineDirective, HandleUndefDirective, Live
  <1>2. line \in Line
    BY <1>1, LexersGood
  <1>3. line.op = "define" => line.body \in Bodies
    BY <1>2 DEF Line
  <1>4. line.macro \in Macros
    BY <1>1, <1>2 DEF Line
  <1>5. macros \in [Macros -> Bodies \cup {NoBody}]
    BY DEF IInv, TypeOK, Definitions
  <1>6. (macros \in Definitions)'
    <2>1. CASE HandleDefineDirective
      <3>1. line.op = "define"
        BY <2>1 DEF HandleDefineDirective, Live
      <3> QED
        BY <1>3, <1>4, <1>5, <2>1, <3>1 DEF HandleDefineDirective, Definitions
    <2>2. CASE HandleUndefDirective
      BY <1>4, <1>5, <2>2 DEF HandleUndefDirective, Definitions
    <2> QED BY <2>1, <2>2
  <1>7. GoodLexer(LineRead)
    BY <1>1, LineReadGood
  <1>8. /\ CurPPLexer' = LineRead
        /\ UNCHANGED <<content, IncludeMacroStack, FileInfo, eof, entered>>
    BY DEF HandleDefineDirective, HandleUndefDirective
  <1>9. /\ (FileInfo \in [Files -> PerFileInfo])'
        /\ (eof \in BOOLEAN)' /\ (entered \in [Files -> Nat])'
    BY <1>8 DEF IInv, TypeOK
  <1> QED
    BY <1>6, <1>7, <1>8, <1>9, SetLexerInv

(* A buffer whose text has a #pragma once has a FileEntry.                 *)
LEMMA PragmaOnceInFile ==
  ASSUME IInv, content \in Contents, Live({"pragma_once"})
  PROVE  CurPPLexer.file \in Files
  <1>1. CurPPLexer \in Lexer /\ InsideBuffer(CurPPLexer)
    BY LexersGood DEF GoodLexer
  <1>2. CurPPLexer.file \in Files \cup {Predefines} /\ CurPPLexer.pos \in Nat
    BY <1>1 DEF Lexer, Buffers
  <1>3. text \in Seq(Line) /\ CurPPLexer.pos < Len(text)
    <2>1. text \in Seq(Line) /\ Len(text) \in Nat
      BY LexersGood
    <2>2. CurPPLexer.pos <= Len(text) /\ CurPPLexer.pos # Len(text)
      BY <1>1 DEF InsideBuffer, Live, AtEnd, text
    <2> QED BY <1>2, <2>1, <2>2
  <1>4. CurPPLexer.pos + 1 \in DOMAIN text /\ line.op = "pragma_once"
    BY <1>2, <1>3 DEF Live, line
  <1>5. CurPPLexer.file # Predefines
    BY <1>4, ContentsAssumption DEF text, line
  <1> QED
    BY <1>2, <1>5

LEMMA PragmaOnceInv ==
  ASSUME IInv, content \in Contents, HandlePragmaOnce
  PROVE  IInv'
  <1>1. Live({"pragma_once"}) /\ ~AtEnd
    BY DEF HandlePragmaOnce, Live
  <1>2. CurPPLexer.file \in Files
    BY <1>1, PragmaOnceInFile
  <1>3. FileInfo \in [Files -> PerFileInfo]
    BY DEF IInv, TypeOK
  <1>4. [FileInfo EXCEPT ![CurPPLexer.file].isImport = TRUE]
          \in [Files -> PerFileInfo]
    BY <1>2, <1>3 DEF PerFileInfo
  <1>5. (FileInfo \in [Files -> PerFileInfo])'
    BY <1>3, <1>4 DEF HandlePragmaOnce
  <1>6. GoodLexer(LineRead)
    BY <1>1, LineReadGood
  <1>7. /\ CurPPLexer' = LineRead
        /\ UNCHANGED <<content, IncludeMacroStack, macros, eof, entered>>
    BY DEF HandlePragmaOnce
  <1>8. /\ (macros \in Definitions)' /\ (eof \in BOOLEAN)'
        /\ (entered \in [Files -> Nat])'
    BY <1>7 DEF IInv, TypeOK
  <1> QED
    BY <1>5, <1>6, <1>7, <1>8, SetLexerInv

(* Reading a line and doing nothing else.                                  *)
LEMMA ReadLineInv ==
  ASSUME IInv, LexToken \/ LexMacroUse \/ HandleOtherDirective \/ SkipLine
  PROVE  IInv'
  <1>1. ~AtEnd
    BY DEF LexToken, LexMacroUse, HandleOtherDirective, SkipLine, Live,
           Skipping
  <1>2. GoodLexer(LineRead)
    BY <1>1, LineReadGood
  <1>3. GoodLexer(IfExpanded(LineRead, hasMacroDefinition(line.macro, macros)))
    BY <1>2, IfExpandedGood
  <1>4. PICK lx : GoodLexer(lx) /\ SetLexer(lx)
    BY <1>2, <1>3 DEF LexToken, LexMacroUse, HandleOtherDirective, SkipLine
  <1> QED
    BY <1>4, SetLexerAloneInv

-----------------------------------------------------------------------------
(* Steps that push or pop the include stack                                *)

LEMMA StackStepInv ==
  ASSUME IInv, NEW lx, GoodLexer(lx), CurPPLexer' = lx,
         NEW st \in Seq(Lexer), IncludeMacroStack' = st,
         \A i \in DOMAIN st : GoodLexer(st[i]) /\ ~st[i].LexingRawMode,
         UNCHANGED content,
         (macros \in Definitions)', (FileInfo \in [Files -> PerFileInfo])',
         (eof \in BOOLEAN)', (entered \in [Files -> Nat])'
  PROVE  IInv'
  <1>1. lx \in Lexer /\ InsideBuffer(lx) /\ WellNested(lx)
    BY DEF GoodLexer
  <1>2. InsideBuffer(CurPPLexer)' /\ WellNested(CurPPLexer)'
    BY <1>1 DEF InsideBuffer, WellNested, Entered
  <1>3. ASSUME NEW i \in DOMAIN st
        PROVE  /\ InsideBuffer(IncludeMacroStack[i])'
               /\ WellNested(IncludeMacroStack[i])'
               /\ ~IncludeMacroStack'[i].LexingRawMode
    BY <1>3 DEF GoodLexer, InsideBuffer, WellNested, Entered
  <1>4. SkipStateConsistent'
    BY <1>2, <1>3 DEF SkipStateConsistent
  <1>5. (\A l \in Lexers : InsideBuffer(l))'
    BY <1>2, <1>3 DEF Lexers
  <1>6. TypeOK'
    BY <1>1, <1>5 DEF TypeOK, IInv
  <1> QED
    BY <1>4, <1>6 DEF IInv

LEMMA NewLexerGood ==
  ASSUME NEW f \in Buffers, content[f] \in Seq(Line)
  PROVE  GoodLexer(NewLexer(f)) /\ ~NewLexer(f).LexingRawMode
  <1> DEFINE none == <<>>
             mi == InitialMIOpt
             new == [file |-> f, pos |-> 0, ConditionalStack |-> none,
                     LexingRawMode |-> FALSE, MIOpt |-> mi, env |-> none]
  <1>1. /\ none \in Seq(CondInfo) /\ none \in Seq(Definitions)
        /\ DOMAIN none = {} /\ Len(none) = 0
    OBVIOUS
  <1>2. mi \in MIOptState
    BY DEF InitialMIOpt, MIOptState
  <1>3. Len(content[f]) \in Nat
    OBVIOUS
  <1> HIDE DEF none, mi
  <1>4. new \in Lexer
    BY <1>1, <1>2 DEF Lexer
  <1>5. InsideBuffer(new)
    BY <1>1, <1>3 DEF InsideBuffer
  <1>6. WellNested(new)
    BY <1>1 DEF WellNested
  <1>7. GoodLexer(new) /\ ~new.LexingRawMode
    BY <1>4, <1>5, <1>6 DEF GoodLexer
  <1> QED
    BY <1>7 DEF NewLexer, none, mi, new

(* The 16-bit counter.                                                     *)
LEMMA Increment ==
  /\ NumIncludesModulus \in Nat \ {0}
  /\ \A k \in 0..NumIncludesModulus - 1 :
       /\ k \in Nat
       /\ (k + 1) % NumIncludesModulus \in 0..NumIncludesModulus - 1
       /\ k + 1 < NumIncludesModulus => (k + 1) % NumIncludesModulus = k + 1
  <1>1. NumIncludesModulus \in Nat \ {0}
    BY DEF NumIncludesModulus
  <1>2. ASSUME NEW m \in Nat \ {0}, NEW k \in 0..m - 1
        PROVE  /\ k \in Nat
               /\ (k + 1) % m \in 0..m - 1
               /\ k + 1 < m => (k + 1) % m = k + 1
    OBVIOUS
  <1> QED
    BY <1>1, <1>2

(* What ShouldEnterIncludeFile leaves in FileInfo.                         *)
LEMMA ShouldEnterInfo ==
  ASSUME NEW info \in PerFileInfo, NEW isImport \in BOOLEAN
  PROVE  /\ ShouldEnterIncludeFile(info, isImport).info \in PerFileInfo
         /\ ShouldEnterIncludeFile(info, isImport).enter =>
              /\ IF isImport THEN info.NumIncludes = 0 ELSE ~info.isImport
              /\ ShouldEnterIncludeFile(info, isImport).info.NumIncludes
                    = (info.NumIncludes + 1) % NumIncludesModulus
         /\ ~ShouldEnterIncludeFile(info, isImport).enter =>
              ShouldEnterIncludeFile(info, isImport).info.NumIncludes
                = info.NumIncludes
  <1> DEFINE marked == [info EXCEPT !.isImport = info.isImport \/ isImport]
             n == (info.NumIncludes + 1) % NumIncludesModulus
             refused == \/ IF isImport THEN info.NumIncludes # 0
                                       ELSE info.isImport
                        \/ /\ info.ControllingMacro # NoMacro
                           /\ hasMacroDefinition(info.ControllingMacro, macros)
             counted == [marked EXCEPT !.NumIncludes = n]
  <1>1. marked \in PerFileInfo /\ marked.NumIncludes = info.NumIncludes
    BY DEF PerFileInfo
  <1>2. info.NumIncludes \in Nat /\ n \in 0..NumIncludesModulus - 1
    <2>1. info.NumIncludes \in 0..NumIncludesModulus - 1
      BY DEF PerFileInfo
    <2> QED
      BY <2>1, Increment
  <1>3. counted \in PerFileInfo /\ counted.NumIncludes = n
    <2> HIDE DEF marked, n
    <2> QED BY <1>1, <1>2 DEF PerFileInfo
  <1>4. ShouldEnterIncludeFile(info, isImport) =
          [enter |-> ~refused, info |-> IF refused THEN marked ELSE counted]
    <2>1. counted = [marked EXCEPT !.NumIncludes =
                       (marked.NumIncludes + 1) % NumIncludesModulus]
      BY <1>1
    <2> QED
      BY <2>1 DEF ShouldEnterIncludeFile
  <1>5. ~refused => IF isImport THEN info.NumIncludes = 0 ELSE ~info.isImport
    OBVIOUS
  <1> DEFINE answer == ShouldEnterIncludeFile(info, isImport)
  <1>6. /\ answer.enter = ~refused
        /\ answer.info = IF refused THEN marked ELSE counted
    BY <1>4
  <1>7. refused \in BOOLEAN
    BY DEF PerFileInfo
  <1> HIDE DEF marked, refused, counted, answer
  <1>8. /\ answer.info \in PerFileInfo
        /\ answer.enter =>
             /\ IF isImport THEN info.NumIncludes = 0 ELSE ~info.isImport
             /\ answer.info.NumIncludes = n
        /\ ~answer.enter => answer.info.NumIncludes = info.NumIncludes
    <2> HIDE DEF n
    <2>1. CASE refused
      BY <1>1, <1>6, <2>1
    <2>2. CASE ~refused
      BY <1>3, <1>5, <1>6, <2>2
    <2> QED BY <2>1, <2>2
  <1> QED
    BY <1>8 DEF answer

LEMMA IncludeInv ==
  ASSUME IInv, NEW isImport \in BOOLEAN, HandleIncludeDirective(isImport)
  PROVE  IInv'
  <1>1. ~AtEnd /\ ~CurPPLexer.LexingRawMode
    BY DEF HandleIncludeDirective, Live
  <1>2. GoodLexer(LineRead) /\ ~LineRead.LexingRawMode
    BY <1>1, LineReadGood
  <1>3. CASE IncludeRefused /\ SetLexer(LineRead)
    BY <1>2, <1>3, SetLexerAloneInv
  <1>4. CASE ~(IncludeRefused /\ SetLexer(LineRead))
    <2> DEFINE f == line.file
               answer == ShouldEnterIncludeFile(FileInfo[f], isImport)
    <2>1. /\ ~IncludeRefused
          /\ FileInfo' = [FileInfo EXCEPT ![f] = answer.info]
          /\ UNCHANGED <<content, macros, eof>>
          /\ \/ EnterSourceFile(f, LineRead)
             \/ /\ CurPPLexer' = LineRead
                /\ UNCHANGED <<IncludeMacroStack, entered>>
      BY <1>4 DEF HandleIncludeDirective
    <2>2. f \in Files /\ f \in Buffers
      BY <2>1 DEF IncludeRefused, Buffers
    <2>3. /\ FileInfo \in [Files -> PerFileInfo] /\ FileInfo[f] \in PerFileInfo
          /\ entered \in [Files -> Nat] /\ entered[f] \in Nat
          /\ content[f] \in Seq(Line)
      BY <2>2 DEF IInv, TypeOK
    <2>4. answer.info \in PerFileInfo
      BY <2>3, ShouldEnterInfo
    <2>5. (FileInfo \in [Files -> PerFileInfo])'
      <3> HIDE DEF f, answer
      <3> QED BY <2>1, <2>2, <2>3, <2>4
    <2>6. (macros \in Definitions)' /\ (eof \in BOOLEAN)'
      BY <2>1 DEF IInv, TypeOK
    <2> HIDE DEF answer
    <2>7. CASE EnterSourceFile(f, LineRead)
      <3> DEFINE st == Append(IncludeMacroStack, LineRead)
      <3>1. /\ IncludeMacroStack' = st
            /\ CurPPLexer' = NewLexer(f)
            /\ entered' = [entered EXCEPT ![f] = entered[f] + 1]
        BY <2>7 DEF EnterSourceFile
      <3>2. IncludeMacroStack \in Seq(Lexer) /\ LineRead \in Lexer
        BY <1>2 DEF IInv, TypeOK, GoodLexer
      <3>3. /\ st \in Seq(Lexer)
            /\ Len(st) = Len(IncludeMacroStack) + 1
            /\ \A i \in 1..Len(IncludeMacroStack) : st[i] = IncludeMacroStack[i]
            /\ st[Len(IncludeMacroStack) + 1] = LineRead
        BY <3>2, AppendFacts
      <3>4. /\ DOMAIN st = 1..Len(IncludeMacroStack) + 1
            /\ DOMAIN IncludeMacroStack = 1..Len(IncludeMacroStack)
            /\ Len(IncludeMacroStack) \in Nat
        BY <3>2, <3>3, LenProperties
      <3>5. ASSUME NEW i \in DOMAIN st
            PROVE  GoodLexer(st[i]) /\ ~st[i].LexingRawMode
        <4> HIDE DEF st
        <4>1. i \in 1..Len(IncludeMacroStack) \/ i = Len(IncludeMacroStack) + 1
          BY <3>4
        <4> QED BY <1>2, <3>3, <3>4, <4>1, LexersGood
      <3>6. (entered \in [Files -> Nat])'
        BY <2>2, <2>3, <3>1
      <3>7. GoodLexer(NewLexer(f))
        BY <2>2, <2>3, NewLexerGood
      <3> HIDE DEF st, f
      <3> QED
        BY <2>1, <2>5, <2>6, <3>1, <3>3, <3>5, <3>6, <3>7, StackStepInv
    <2>8. CASE /\ CurPPLexer' = LineRead
               /\ UNCHANGED <<IncludeMacroStack, entered>>
      BY <1>2, <2>1, <2>3, <2>5, <2>6, <2>8, SetLexerInv
    <2> QED
      BY <2>1, <2>7, <2>8
  <1> QED
    BY <1>3, <1>4

LEMMA EndOfFileInv ==
  ASSUME IInv, HandleEndOfFile
  PROVE  IInv'
  <1> DEFINE macro == GetControllingMacroAtEndOfFile(CurPPLexer.MIOpt)
             st == IncludeMacroStack
  <1>1. GoodLexer(CurPPLexer) /\ ~CurPPLexer.LexingRawMode
    BY LexersGood DEF HandleEndOfFile
  <1>2. macro \in Macros \cup {NoMacro}
    <2>1. CurPPLexer.MIOpt \in MIOptState
      BY <1>1 DEF GoodLexer, Lexer
    <2> QED BY <2>1, MIOptType
  <1>3. (FileInfo \in [Files -> PerFileInfo])'
    <2>1. FileInfo \in [Files -> PerFileInfo]
      BY DEF IInv, TypeOK
    <2>2. FileInfo' \in {FileInfo, [FileInfo EXCEPT
                            ![CurPPLexer.file].ControllingMacro = macro]}
      BY DEF HandleEndOfFile
    <2>3. CurPPLexer.file \in Files \/ FileInfo' = FileInfo
      BY DEF HandleEndOfFile
    <2> HIDE DEF macro
    <2> QED
      BY <1>2, <2>1, <2>2, <2>3 DEF PerFileInfo
  <1>4. UNCHANGED <<content, macros, entered>>
    BY DEF HandleEndOfFile
  <1>5. /\ (macros \in Definitions)' /\ (entered \in [Files -> Nat])'
        /\ eof \in BOOLEAN
    BY <1>4 DEF IInv, TypeOK
  <1>6. CASE st # <<>>
    <2>1. st \in Seq(Lexer)
      BY DEF IInv, TypeOK
    <2>2. /\ Front(st) \in Seq(Lexer)
          /\ Len(Front(st)) = Len(st) - 1
          /\ \A i \in 1..Len(st) - 1 : Front(st)[i] = st[i]
          /\ Len(st) \in DOMAIN st
      BY <1>6, <2>1, FrontLast
    <2>3. GoodLexer(Last(st))
      BY <2>2, LexersGood DEF Last
    <2>4. \A i \in DOMAIN Front(st) :
            GoodLexer(Front(st)[i]) /\ ~Front(st)[i].LexingRawMode
      BY <2>1, <2>2, LexersGood
    <2>5. CurPPLexer' = Last(st) /\ IncludeMacroStack' = Front(st) /\ eof' = eof
      BY <1>6 DEF HandleEndOfFile
    <2> HIDE DEF st
    <2> QED
      BY <1>3, <1>4, <1>5, <2>2, <2>3, <2>4, <2>5, StackStepInv
  <1>7. CASE st = <<>>
    <2> DEFINE new == [CurPPLexer EXCEPT !.ConditionalStack = <<>>,
                                         !.LexingRawMode = FALSE]
    <2>1. GoodLexer(new)
      BY <1>1, EmptiedGood
    <2>2. /\ CurPPLexer' = [CurPPLexer EXCEPT !.ConditionalStack = <<>>]
          /\ eof' = TRUE /\ UNCHANGED IncludeMacroStack
      BY <1>7 DEF HandleEndOfFile
    <2>3. CurPPLexer' = new
      BY <1>1, <2>2 DEF GoodLexer, Lexer
    <2>4. (eof \in BOOLEAN)'
      BY <2>2
    <2> HIDE DEF new
    <2> QED
      BY <1>3, <1>4, <1>5, <2>1, <2>2, <2>3, <2>4, SetLexerInv
  <1> QED
    BY <1>6, <1>7

LEMMA InitInv ==
  ASSUME Init
  PROVE  IInv
  <1>1. content \in [Buffers -> Seq(Line)]
    BY ContentsAssumption DEF Init
  <1>2. Predefines \in Buffers /\ MainFile \in Buffers
    BY FilesAssumption DEF Buffers
  <1>3. /\ GoodLexer(NewLexer(Predefines))
        /\ GoodLexer(NewLexer(MainFile)) /\ ~NewLexer(MainFile).LexingRawMode
    BY <1>1, <1>2, NewLexerGood
  <1>4. /\ CurPPLexer = NewLexer(Predefines)
        /\ IncludeMacroStack = <<NewLexer(MainFile)>>
    BY DEF Init
  <1>5. /\ IncludeMacroStack \in Seq(Lexer)
        /\ \A i \in DOMAIN IncludeMacroStack :
             IncludeMacroStack[i] = NewLexer(MainFile)
    <2>1. NewLexer(MainFile) \in Lexer
      BY <1>3 DEF GoodLexer
    <2> HIDE DEF NewLexer
    <2> QED BY <1>4, <2>1
  <1>6. FileInfo \in [Files -> PerFileInfo]
    <2>1. {0, 1} \subseteq 0..NumIncludesModulus - 1
      BY DEF NumIncludesModulus
    <2> QED
      BY <2>1 DEF Init, PerFileInfo
  <1>7. /\ macros \in Definitions /\ eof \in BOOLEAN
        /\ entered \in [Files -> Nat]
    BY DEF Init, Definitions
  <1>8. SkipStateConsistent
    BY <1>3, <1>4, <1>5 DEF SkipStateConsistent, GoodLexer
  <1>9. \A lx \in Lexers : InsideBuffer(lx)
    BY <1>3, <1>4, <1>5 DEF Lexers, GoodLexer
  <1>10. CurPPLexer \in Lexer
    BY <1>3, <1>4 DEF GoodLexer
  <1> QED
    BY <1>1, <1>5, <1>6, <1>7, <1>8, <1>9, <1>10 DEF IInv, TypeOK

LEMMA NextInv ==
  ASSUME IInv, content \in Contents, [Next]_vars
  PROVE  (IInv /\ content \in Contents)'
  <1>1. CASE UNCHANGED vars
    BY <1>1 DEF vars, IInv, TypeOK, SkipStateConsistent, Lexers, InsideBuffer,
                WellNested, Entered
  <1>2. CASE Next
    <2>1. content' = content
      BY <1>2 DEF Next, LexToken, LexMacroUse, HandleOtherDirective,
        HandleDefineDirective, HandleUndefDirective, HandleIfdefDirective,
        HandleIfDirective, HandleEndifDirective, HandleElseDirective,
        HandleElifDirective, SkipLine, SkipNestedIf, SkipEndif, SkipElse,
        SkipElif, SkipEndOfFile, HandleIncludeDirective,
        HandleImportDirective, HandlePragmaOnce, HandleEndOfFile, Terminated,
        SetLexer, vars
    <2>2. CASE LexToken \/ LexMacroUse \/ HandleOtherDirective \/ SkipLine
      BY <2>1, <2>2, ReadLineInv
    <2>3. CASE HandleDefineDirective \/ HandleUndefDirective
      BY <2>1, <2>3, DefineUndefInv
    <2>4. CASE HandleIfdefDirective
      BY <2>1, <2>4, IfdefInv
    <2>5. CASE HandleIfDirective
      BY <2>1, <2>5, IfInv
    <2>6. CASE HandleEndifDirective
      BY <2>1, <2>6, EndifInv
    <2>7. CASE HandleElseDirective \/ HandleElifDirective
      BY <2>1, <2>7, ElseElifInv
    <2>8. CASE SkipNestedIf \/ SkipEndif \/ SkipElse \/ SkipElif
      BY <2>1, <2>8, SkipLoopInv
    <2>9. CASE SkipEndOfFile
      BY <2>1, <2>9, SkipEndOfFileInv
    <2>10. CASE HandleIncludeDirective(FALSE)
      BY <2>1, <2>10, IncludeInv
    <2>11. CASE HandleImportDirective
      BY <2>1, <2>11, IncludeInv DEF HandleImportDirective
    <2>12. CASE HandlePragmaOnce
      BY <2>1, <2>12, PragmaOnceInv
    <2>13. CASE HandleEndOfFile
      BY <2>1, <2>13, EndOfFileInv
    <2>14. CASE Terminated
      BY <2>1, <2>14, <1>1 DEF Terminated
    <2> QED
      BY <1>2, <2>2, <2>3, <2>4, <2>5, <2>6, <2>7, <2>8, <2>9, <2>10, <2>11, <2>12, <2>13, <2>14
      DEF Next
  <1> QED
    BY <1>1, <1>2

(* Type correctness: in every reachable state every variable has its type  *)
(* and no lexer reads past the end of its buffer, for all texts.           *)
THEOREM TypeCorrect == Spec => []TypeOK
  <1>1. Init => IInv /\ content \in Contents
    BY InitInv DEF Init
  <1>2. (IInv /\ content \in Contents) /\ [Next]_vars
          => (IInv /\ content \in Contents)'
    BY NextInv
  <1>3. IInv => TypeOK
    BY DEF IInv
  <1> QED
    BY <1>1, <1>2, <1>3, PTL DEF Spec

(* The assertions of the skipping code hold: the conditional stack has the *)
(* entry the loop of SkipExcludedConditionalBlock looks at, whatever the   *)
(* nesting, and a suspended #includer is never skipping.                   *)
THEOREM SkipStateCorrect == Spec => []SkipStateConsistent
  <1>1. Init => IInv /\ content \in Contents
    BY InitInv DEF Init
  <1>2. (IInv /\ content \in Contents) /\ [Next]_vars
          => (IInv /\ content \in Contents)'
    BY NextInv
  <1>3. IInv => SkipStateConsistent
    BY DEF IInv
  <1> QED
    BY <1>1, <1>2, <1>3, PTL DEF Spec

-----------------------------------------------------------------------------
(* Counting inclusions                                                     *)

(* A step that enters no file, and a step that enters f.                   *)
EntersNothing ==
  /\ entered' = entered
  /\ \A g \in Files : FileInfo'[g].NumIncludes = FileInfo[g].NumIncludes
  /\ Len(IncludeMacroStack') <= Len(IncludeMacroStack)

Enters(f) ==
  /\ entered' = [entered EXCEPT ![f] = entered[f] + 1]
  /\ \A g \in Files \ {f} : FileInfo'[g] = FileInfo[g]
  /\ FileInfo'[f].NumIncludes =
       (FileInfo[f].NumIncludes + 1) % NumIncludesModulus
  /\ FileInfo[f].isImport => FileInfo[f].NumIncludes = 0
  /\ Len(IncludeMacroStack) # MaxAllowedIncludeStackDepth - 1
  /\ Len(IncludeMacroStack') = Len(IncludeMacroStack) + 1

LEMMA IncludeEnters ==
  ASSUME IInv, NEW isImport \in BOOLEAN, HandleIncludeDirective(isImport)
  PROVE  EntersNothing \/ \E f \in Files : Enters(f)
  <1>1. IncludeMacroStack \in Seq(Lexer) /\ Len(IncludeMacroStack) \in Nat
    BY DEF IInv, TypeOK
  <1>2. CASE IncludeRefused /\ SetLexer(LineRead)
    BY <1>1, <1>2 DEF SetLexer, EntersNothing
  <1>3. CASE ~(IncludeRefused /\ SetLexer(LineRead))
    <2> DEFINE f == line.file
               answer == ShouldEnterIncludeFile(FileInfo[f], isImport)
    <2>1. /\ ~IncludeRefused
          /\ FileInfo' = [FileInfo EXCEPT ![f] = answer.info]
          /\ \/ answer.enter /\ EnterSourceFile(f, LineRead)
             \/ /\ ~answer.enter
                /\ UNCHANGED <<IncludeMacroStack, entered>>
      BY <1>3 DEF HandleIncludeDirective
    <2>2. /\ f \in Files
          /\ Len(IncludeMacroStack) # MaxAllowedIncludeStackDepth - 1
      BY <2>1 DEF IncludeRefused
    <2>3. FileInfo \in [Files -> PerFileInfo] /\ FileInfo[f] \in PerFileInfo
      BY <2>2 DEF IInv, TypeOK
    <2>4. /\ answer.enter =>
               /\ IF isImport THEN FileInfo[f].NumIncludes = 0
                              ELSE ~FileInfo[f].isImport
               /\ answer.info.NumIncludes
                     = (FileInfo[f].NumIncludes + 1) % NumIncludesModulus
          /\ ~answer.enter =>
               answer.info.NumIncludes = FileInfo[f].NumIncludes
      BY <2>3, ShouldEnterInfo
    <2> HIDE DEF answer, f
    <2>5. CASE answer.enter /\ EnterSourceFile(f, LineRead)
      <3>1. /\ IncludeMacroStack' = Append(IncludeMacroStack, LineRead)
            /\ entered' = [entered EXCEPT ![f] = entered[f] + 1]
        BY <2>5 DEF EnterSourceFile
      <3>2. LineRead \in Lexer
        BY LineReadGood DEF GoodLexer, HandleIncludeDirective, Live
      <3>3. Len(IncludeMacroStack') = Len(IncludeMacroStack) + 1
        BY <1>1, <3>1, <3>2, AppendFacts
      <3>4. /\ FileInfo'[f] = answer.info
            /\ \A g \in Files \ {f} : FileInfo'[g] = FileInfo[g]
        BY <2>1, <2>2, <2>3
      <3>5. FileInfo[f].isImport => FileInfo[f].NumIncludes = 0
        BY <2>4, <2>5
      <3> QED
        BY <2>2, <2>4, <2>5, <3>1, <3>3, <3>4, <3>5 DEF Enters
    <2>6. CASE ~answer.enter /\ UNCHANGED <<IncludeMacroStack, entered>>
      BY <1>1, <2>1, <2>2, <2>3, <2>4, <2>6 DEF EntersNothing
    <2> QED
      BY <2>1, <2>5, <2>6
  <1> QED
    BY <1>2, <1>3

LEMMA NextEnters ==
  ASSUME IInv, content \in Contents, [Next]_vars
  PROVE  EntersNothing \/ \E f \in Files : Enters(f)
  <1>1. IncludeMacroStack \in Seq(Lexer) /\ Len(IncludeMacroStack) \in Nat
    BY DEF IInv, TypeOK
  <1>2. FileInfo \in [Files -> PerFileInfo]
    BY DEF IInv, TypeOK
  <1>3. ASSUME UNCHANGED <<IncludeMacroStack, FileInfo, entered>>
        PROVE  EntersNothing
    BY <1>1, <1>3 DEF EntersNothing
  <1>4. CASE HandleIncludeDirective(FALSE) \/ HandleImportDirective
    BY <1>4, IncludeEnters DEF HandleImportDirective
  <1>5. CASE HandlePragmaOnce
    <2>1. CurPPLexer.file \in Files
      BY <1>5, PragmaOnceInFile DEF HandlePragmaOnce
    <2>2. /\ FileInfo' \in {FileInfo, [FileInfo EXCEPT
                                          ![CurPPLexer.file].isImport = TRUE]}
          /\ UNCHANGED <<IncludeMacroStack, entered>>
      BY <1>5 DEF HandlePragmaOnce
    <2>3. \A g \in Files : FileInfo'[g].NumIncludes = FileInfo[g].NumIncludes
      BY <1>2, <2>1, <2>2 DEF PerFileInfo
    <2> QED
      BY <1>1, <2>2, <2>3 DEF EntersNothing
  <1>6. CASE HandleEndOfFile
    <2> DEFINE macro == GetControllingMacroAtEndOfFile(CurPPLexer.MIOpt)
    <2>1. /\ FileInfo' \in {FileInfo, [FileInfo EXCEPT
                             ![CurPPLexer.file].ControllingMacro = macro]}
          /\ FileInfo' = FileInfo \/ CurPPLexer.file \in Files
          /\ entered' = entered
      BY <1>6 DEF HandleEndOfFile
    <2>2. \A g \in Files : FileInfo'[g].NumIncludes = FileInfo[g].NumIncludes
      <3> HIDE DEF macro
      <3> QED BY <1>2, <2>1 DEF PerFileInfo
    <2>3. Len(IncludeMacroStack') <= Len(IncludeMacroStack)
      <3>1. CASE IncludeMacroStack # <<>>
        <4>1. IncludeMacroStack' = Front(IncludeMacroStack)
          BY <1>6, <3>1 DEF HandleEndOfFile
        <4>2. Len(Front(IncludeMacroStack)) = Len(IncludeMacroStack) - 1
          BY <1>1, <3>1, FrontLast
        <4> QED BY <1>1, <4>1, <4>2
      <3>2. CASE IncludeMacroStack = <<>>
        <4>1. IncludeMacroStack' = IncludeMacroStack
          BY <1>6, <3>2 DEF HandleEndOfFile
        <4> QED BY <1>1, <4>1
      <3> QED BY <3>1, <3>2
    <2> QED
      BY <2>1, <2>2, <2>3 DEF EntersNothing
  <1>7. CASE UNCHANGED vars
    BY <1>3, <1>7 DEF vars
  <1>8. CASE \/ LexToken \/ LexMacroUse \/ HandleOtherDirective
            \/ HandleDefineDirective \/ HandleUndefDirective
            \/ HandleIfdefDirective \/ HandleIfDirective
            \/ HandleEndifDirective \/ HandleElseDirective
            \/ HandleElifDirective
    <2>1. UNCHANGED <<IncludeMacroStack, FileInfo, entered>>
      BY <1>8 DEF LexToken, LexMacroUse, HandleOtherDirective,
        HandleDefineDirective, HandleUndefDirective, HandleIfdefDirective,
        HandleIfDirective, HandleEndifDirective, HandleElseDirective,
        HandleElifDirective, SetLexer
    <2> QED BY <1>3, <2>1
  <1>9. CASE \/ SkipLine \/ SkipNestedIf \/ SkipEndif \/ SkipElse
            \/ SkipElif \/ SkipEndOfFile
    <2>1. UNCHANGED <<IncludeMacroStack, FileInfo, entered>>
      BY <1>9 DEF SkipLine, SkipNestedIf, SkipEndif, SkipElse, SkipElif,
                  SkipEndOfFile, SetLexer
    <2> QED BY <1>3, <2>1
  <1> QED
    BY <1>4, <1>5, <1>6, <1>7, <1>8, <1>9 DEF Next, Terminated

(* The include stack never reaches the limit, however headers include each *)
(* other: the equality test of HandleIncludeDirective is never stepped     *)
(* over.                                                                   *)
THEOREM IncludeDepthCorrect == Spec => []IncludeDepthBounded
  <1> DEFINE Inv == IInv /\ content \in Contents /\ IncludeDepthBounded
  <1>1. Init => Inv
    <2> SUFFICES ASSUME Init PROVE Inv
      OBVIOUS
    <2>1. IInv /\ content \in Contents
      BY InitInv DEF Init
    <2>2. Len(IncludeMacroStack) = 1
      BY DEF Init
    <2> QED
      BY <2>1, <2>2, DepthAssumption DEF IncludeDepthBounded
  <1>2. Inv /\ [Next]_vars => Inv'
    <2> SUFFICES ASSUME Inv, [Next]_vars PROVE Inv'
      OBVIOUS
    <2>1. (IInv /\ content \in Contents)'
      BY NextInv
    <2>2. Len(IncludeMacroStack) \in Nat /\ Len(IncludeMacroStack') \in Nat
      BY <2>1 DEF IInv, TypeOK
    <2>3. CASE EntersNothing
      BY <2>1, <2>2, <2>3, DepthAssumption
      DEF EntersNothing, IncludeDepthBounded
    <2>4. CASE \E f \in Files : Enters(f)
      BY <2>1, <2>2, <2>4, DepthAssumption DEF Enters, IncludeDepthBounded
    <2> QED
      BY <2>3, <2>4, NextEnters
  <1>3. Inv => IncludeDepthBounded
    OBVIOUS
  <1> QED
    BY <1>1, <1>2, <1>3, PTL DEF Spec

(* NumIncludes counts the times a file was entered until it wraps.         *)
CountsInclusions ==
  \A f \in Files :
    entered[f] < NumIncludesModulus => FileInfo[f].NumIncludes = entered[f]

LEMMA CountsInclusionsNext ==
  ASSUME IInv, content \in Contents, CountsInclusions, [Next]_vars
  PROVE  CountsInclusions'
  <1>1. /\ \A f \in Files : FileInfo[f].NumIncludes \in 0..NumIncludesModulus - 1
        /\ entered \in [Files -> Nat]
    BY DEF IInv, TypeOK, PerFileInfo
  <1>2. CASE EntersNothing
    BY <1>2 DEF EntersNothing, CountsInclusions
  <1>3. ASSUME NEW g \in Files, Enters(g)
        PROVE  CountsInclusions'
    <2> SUFFICES ASSUME NEW f \in Files, entered'[f] < NumIncludesModulus
                 PROVE  FileInfo'[f].NumIncludes = entered'[f]
      BY DEF CountsInclusions
    <2>1. CASE f = g
      <3>1. entered'[f] = entered[f] + 1 /\ entered[f] \in Nat
        BY <1>1, <1>3, <2>1 DEF Enters
      <3>2. entered[f] < NumIncludesModulus
        BY <3>1, Increment
      <3>3. FileInfo[f].NumIncludes = entered[f]
        BY <3>2 DEF CountsInclusions
      <3>4. FileInfo'[f].NumIncludes = (entered[f] + 1) % NumIncludesModulus
        BY <1>3, <2>1, <3>3 DEF Enters
      <3> QED
        BY <1>1, <3>1, <3>3, <3>4, Increment
    <2>2. CASE f # g
      BY <1>1, <1>3, <2>2 DEF Enters, CountsInclusions
    <2> QED BY <2>1, <2>2
  <1> QED
    BY <1>2, <1>3, NextEnters

(* #import and #pragma once: a marked file that was entered is not entered *)
(* again by any #include or #import, in whatever order the directives come, *)
(* until its 16-bit counter wraps.                                         *)
THEOREM ImportedOnceCorrect == Spec => ImportedOnce
  <1> DEFINE Inv == IInv /\ content \in Contents /\ CountsInclusions
             Once == \A f \in Files :
                       FileInfo[f].isImport
                       /\ entered[f] \in 1..NumIncludesModulus - 1
                         => entered'[f] = entered[f]
  <1>1. Init => Inv
    <2> SUFFICES ASSUME Init PROVE Inv
      OBVIOUS
    <2>1. IInv /\ content \in Contents
      BY InitInv DEF Init
    <2>2. CountsInclusions
      BY DEF Init, CountsInclusions
    <2> QED BY <2>1, <2>2
  <1>2. Inv /\ [Next]_vars => Inv'
    BY NextInv, CountsInclusionsNext
  <1>3. Inv /\ [Next]_vars => [Once]_vars
    <2> SUFFICES ASSUME Inv, [Next]_vars,
                        NEW f \in Files, FileInfo[f].isImport,
                        entered[f] \in 1..NumIncludesModulus - 1
                 PROVE  entered'[f] = entered[f]
      OBVIOUS
    <2>1. FileInfo[f].NumIncludes = entered[f] /\ entered[f] # 0
      BY Increment DEF CountsInclusions
    <2>2. entered \in [Files -> Nat]
      BY DEF IInv, TypeOK
    <2>3. CASE EntersNothing
      BY <2>3 DEF EntersNothing
    <2>4. ASSUME NEW g \in Files, Enters(g)
          PROVE  entered'[f] = entered[f]
      <3>1. f # g
        BY <2>1, <2>4 DEF Enters
      <3> QED BY <2>2, <2>4, <3>1 DEF Enters
    <2> QED
      BY <2>3, <2>4, NextEnters
  <1> QED
    BY <1>1, <1>2, <1>3, PTL DEF Spec, ImportedOnce

-----------------------------------------------------------------------------
(* The reference line by line                                              *)

(* What a line adds to Balance.                                            *)
Weight(l) == IF l.op \in Openers THEN 1 ELSE IF l.op = "endif" THEN -1 ELSE 0

LinesIn(c, o, m, ops) == {i \in o..m : c[i].op \in ops}

LEMMA LinesInStep ==
  ASSUME NEW c, NEW o \in Nat, NEW k \in Nat, o <= k + 1, NEW ops
  PROVE  /\ Cardinality(LinesIn(c, o, k, ops)) \in Nat
         /\ Cardinality(LinesIn(c, o, k + 1, ops)) =
              IF c[k + 1].op \in ops THEN Cardinality(LinesIn(c, o, k, ops)) + 1
                                     ELSE Cardinality(LinesIn(c, o, k, ops))
  <1> DEFINE L == LinesIn(c, o, k, ops)
  <1>1. L \subseteq o..k /\ IsFiniteSet(o..k)
    BY FS_Interval DEF LinesIn
  <1>2. IsFiniteSet(L) /\ Cardinality(L) \in Nat
    BY <1>1, FS_Subset, FS_CardinalityType
  <1>3. o..k + 1 = (o..k) \cup {k + 1} /\ k + 1 \notin o..k
    OBVIOUS
  <1>4. LinesIn(c, o, k + 1, ops) = IF c[k + 1].op \in ops THEN L \cup {k + 1} ELSE L
    BY <1>3 DEF LinesIn
  <1>5. k + 1 \notin L
    BY <1>1, <1>3
  <1> HIDE DEF L
  <1>6. Cardinality(L \cup {k + 1}) = Cardinality(L) + 1
    BY <1>2, <1>5, FS_AddElement
  <1> QED BY <1>2, <1>4, <1>6 DEF L

LEMMA BalanceIs ==
  ASSUME NEW c, NEW o, NEW k
  PROVE  Balance(c, o, k) = Cardinality(LinesIn(c, o, k, Openers))
                              - Cardinality(LinesIn(c, o, k, {"endif"}))
  <1>1. LinesIn(c, o, k, {"endif"}) = {i \in o..k : c[i].op = "endif"}
    BY DEF LinesIn
  <1> QED BY <1>1 DEF Balance, LinesIn

LEMMA BalanceStep ==
  ASSUME NEW c, NEW o \in Nat, NEW k \in Nat, o <= k + 1
  PROVE  /\ Balance(c, o, k) \in Int
         /\ Balance(c, o, k + 1) = Balance(c, o, k) + Weight(c[k + 1])
  <1> DEFINE F(m) == Cardinality(LinesIn(c, o, m, Openers))
             G(m) == Cardinality(LinesIn(c, o, m, {"endif"}))
  <1>1. Balance(c, o, k) = F(k) - G(k) /\ Balance(c, o, k + 1) = F(k + 1) - G(k + 1)
    BY BalanceIs
  <1>2. F(k) \in Nat /\ F(k + 1) = IF c[k + 1].op \in Openers THEN F(k) + 1 ELSE F(k)
    BY LinesInStep
  <1>3. G(k) \in Nat /\ G(k + 1) = IF c[k + 1].op \in {"endif"} THEN G(k) + 1 ELSE G(k)
    BY LinesInStep
  <1>4. "endif" \notin Openers
    BY DEF Openers
  <1> HIDE DEF F, G
  <1> QED BY <1>1, <1>2, <1>3, <1>4 DEF Weight

LEMMA BalanceStart ==
  ASSUME NEW c, NEW o \in Nat \ {0}
  PROVE  Balance(c, o, o) = Weight(c[o])
  <1> DEFINE k == o - 1
  <1>1. k \in Nat /\ k + 1 = o /\ o <= k + 1 /\ o..k = {}
    OBVIOUS
  <1>2. \A ops : LinesIn(c, o, k, ops) = {}
    BY <1>1 DEF LinesIn
  <1>3. Balance(c, o, k) = 0
    BY <1>2, FS_EmptySet, BalanceIs
  <1> HIDE DEF k
  <1>4. Balance(c, o, k + 1) = Balance(c, o, k) + Weight(c[k + 1])
    BY <1>1, BalanceStep
  <1>5. Weight(c[o]) \in Int
    BY DEF Weight
  <1> QED BY <1>1, <1>3, <1>4, <1>5

(* The #if lines open after one more line.                                 *)
LEMMA EnclosesStep ==
  ASSUME NEW c, NEW p \in Nat, NEW o \in 1..p
  PROVE  Encloses(c, o, p + 2) <=>
           Encloses(c, o, p + 1) /\ Balance(c, o, p) + Weight(c[p + 1]) > 0
  <1>1. o..(p + 2) - 1 = (o..(p + 1) - 1) \cup {p + 1}
    OBVIOUS
  <1>2. Balance(c, o, p + 1) = Balance(c, o, p) + Weight(c[p + 1])
    BY BalanceStep
  <1> QED BY <1>1, <1>2 DEF Encloses

LEMMA EnclosesItself ==
  ASSUME NEW c, NEW o \in Nat \ {0}
  PROVE  Encloses(c, o, o + 1) <=> c[o].op \in Openers
  <1>1. o..(o + 1) - 1 = {o}
    OBVIOUS
  <1>2. Balance(c, o, o) = Weight(c[o])
    BY BalanceStart
  <1> QED BY <1>1, <1>2 DEF Encloses, Weight

LEMMA OpenersStep ==
  ASSUME NEW c, NEW p \in Nat
  PROVE  /\ EnclosingOpeners(c, p + 1) \subseteq 1..p
         /\ p + 1 \in EnclosingOpeners(c, p + 2) <=> c[p + 1].op \in Openers
         /\ \A o \in 1..p :
              o \in EnclosingOpeners(c, p + 2) <=>
                /\ o \in EnclosingOpeners(c, p + 1)
                /\ Balance(c, o, p) + Weight(c[p + 1]) > 0
         /\ EnclosingOpeners(c, p + 2) \subseteq 1..p + 1
  <1>1. 1..(p + 1) - 1 = 1..p /\ 1..(p + 2) - 1 = 1..p + 1
    OBVIOUS
  <1>2. Encloses(c, p + 1, p + 2) <=> c[p + 1].op \in Openers
    <2>1. (p + 1) + 1 = p + 2 /\ p + 1 \in Nat \ {0}
      OBVIOUS
    <2>2. Encloses(c, p + 1, (p + 1) + 1) <=> c[p + 1].op \in Openers
      BY <2>1, EnclosesItself
    <2> QED BY <2>1, <2>2
  <1>3. \A o \in 1..p : Encloses(c, o, p + 2) <=>
             Encloses(c, o, p + 1) /\ Balance(c, o, p) + Weight(c[p + 1]) > 0
    BY EnclosesStep
  <1>4. p + 1 \in 1..p + 1 /\ 1..p \subseteq 1..p + 1
    OBVIOUS
  <1> QED BY <1>1, <1>2, <1>3, <1>4 DEF EnclosingOpeners

(* Is the line after p a head of the section that begins on line o?        *)
IsHeadOf(c, o, p) == /\ c[p + 1].op \in {"elif", "else"}
                     /\ Encloses(c, o, p + 1)
                     /\ Balance(c, o, p) = 1

LEMMA HeadsStep ==
  ASSUME NEW c, NEW p \in Nat
  PROVE  /\ GroupHeads(c, p + 1, p + 2) = {p + 1}
         /\ \A o \in 1..p :
              /\ GroupHeads(c, o, p + 2) = GroupHeads(c, o, p + 1)
                   \cup (IF IsHeadOf(c, o, p) THEN {p + 1} ELSE {})
              /\ GroupHeads(c, o, p + 1) \subseteq 1..p
              /\ \A j \in GroupHeads(c, o, p + 1) :
                   j = o \/ c[j].op \in {"elif", "else"}
  <1>1. (p + 1) + 1..(p + 2) - 1 = {}
    OBVIOUS
  <1>2. ASSUME NEW o \in 1..p
        PROVE  /\ GroupHeads(c, o, p + 2) = GroupHeads(c, o, p + 1)
                    \cup (IF IsHeadOf(c, o, p) THEN {p + 1} ELSE {})
               /\ GroupHeads(c, o, p + 1) \subseteq 1..p
               /\ \A j \in GroupHeads(c, o, p + 1) :
                    j = o \/ c[j].op \in {"elif", "else"}
    <2> DEFINE P(j) == /\ c[j].op \in {"elif", "else"}
                       /\ Encloses(c, o, j)
                       /\ Balance(c, o, j - 1) = 1
    <2>1. /\ GroupHeads(c, o, p + 2) = {o} \cup {j \in o + 1..(p + 2) - 1 : P(j)}
          /\ GroupHeads(c, o, p + 1) = {o} \cup {j \in o + 1..(p + 1) - 1 : P(j)}
      BY DEF GroupHeads
    <2>2. (p + 1) - 1 = p
      OBVIOUS
    <2>3. P(p + 1) <=> IsHeadOf(c, o, p)
      BY <2>2 DEF IsHeadOf
    <2>4. \A j \in o + 1..(p + 1) - 1 : P(j) => c[j].op \in {"elif", "else"}
      OBVIOUS
    <2> HIDE DEF P
    <2>5. o + 1..(p + 2) - 1 = (o + 1..(p + 1) - 1) \cup {p + 1}
      OBVIOUS
    <2>6. {j \in o + 1..(p + 2) - 1 : P(j)} =
            {j \in o + 1..(p + 1) - 1 : P(j)} \cup (IF P(p + 1) THEN {p + 1} ELSE {})
      BY <2>5
    <2>7. (o + 1..(p + 1) - 1) \subseteq 1..p
      OBVIOUS
    <2>8. GroupHeads(c, o, p + 1) \subseteq 1..p
      BY <2>1, <2>7
    <2>9. \A j \in GroupHeads(c, o, p + 1) : j = o \/ c[j].op \in {"elif", "else"}
      BY <2>1, <2>4
    <2> QED BY <2>1, <2>3, <2>6, <2>8, <2>9
  <1> QED BY <1>1, <1>2 DEF GroupHeads

(* The largest of numbers to which a larger one is added.                  *)
LEMMA MaxAdded ==
  ASSUME NEW p \in Nat, NEW S, S \subseteq 1..p
  PROVE  Max(S \cup {p + 1}) = p + 1
  <1> DEFINE T == S \cup {p + 1}
  <1>1. p + 1 \in T /\ \A i \in T : p + 1 >= i
    OBVIOUS
  <1>2. \A j \in T : (\A i \in T : j >= i) => j = p + 1
    BY <1>1
  <1>3. Max(T) = CHOOSE x \in T : \A y \in T : x >= y
    BY DEF Max
  <1> HIDE DEF T
  <1>4. Max(T) \in T /\ \A i \in T : Max(T) >= i
    BY <1>1, <1>3
  <1> QED BY <1>2, <1>4 DEF T

(* The truth of a group's condition is a truth value.                      *)
LEMMA HeadIsTrueType ==
  ASSUME NEW l \in Line, l.op \in Openers \cup {"elif", "else"}, NEW defs \in Definitions
  PROVE  HeadIsTrue(l, defs) \in BOOLEAN
  <1>1. CASE l.op = "else"
    BY <1>1 DEF HeadIsTrue
  <1>2. CASE l.op \in {"ifdef", "ifndef"}
    BY <1>2 DEF HeadIsTrue, hasMacroDefinition
  <1>3. CASE l.op \in {"if", "elif"}
    <2>1. l.cond \in Cond
      BY <1>3 DEF Line
    <2>2. Expansion(l.cond, defs) \in PlainCond
      BY <2>1, ExpansionType
    <2>3. \A e \in PlainCond : Value(e, defs) \in BOOLEAN
      <3> TAKE e \in PlainCond
      <3>1. CASE e.op = "lit"
        BY <3>1 DEF Value, PlainCond
      <3>2. CASE e.op = "defined"
        BY <3>2 DEF Value, hasMacroDefinition
      <3>3. CASE e.op = "notdefined"
        BY <3>3 DEF Value, hasMacroDefinition
      <3> QED BY <3>1, <3>2, <3>3 DEF PlainCond
    <2>4. HeadIsTrue(l, defs) = Value(Expansion(l.cond, defs), defs)
      BY <1>3 DEF HeadIsTrue
    <2> QED BY <2>2, <2>3, <2>4
  <1> QED BY <1>1, <1>2, <1>3 DEF Openers

-----------------------------------------------------------------------------
(* The conditional stack and the text                                      *)

(* p lines of the text c were read, the i-th with the definitions env[i],  *)
(* and the next is read with the definitions d.                            *)
Reading(c, p, env, d) ==
  /\ c \in Seq(Line) /\ p \in Nat /\ p < Len(c)
  /\ env \in Seq(Definitions) /\ Len(env) = p /\ d \in Definitions

HasElse(c, o, p) == \E j \in GroupHeads(c, o, p + 1) : c[j].op = "else"

(* The stack lists the open #if lines from the outermost to the innermost, *)
(* and has seen their #else lines.                                         *)
Tracks(c, p, cs) ==
  /\ \A o \in EnclosingOpeners(c, p + 1) : \E k \in DOMAIN cs : cs[k].IfLoc = o
  /\ \A k \in DOMAIN cs :
       /\ cs[k].IfLoc \in EnclosingOpeners(c, p + 1)
       /\ Balance(c, cs[k].IfLoc, p) = Len(cs) - k + 1
       /\ cs[k].FoundElse <=> HasElse(c, cs[k].IfLoc, p)
  /\ \A j, k \in DOMAIN cs : j < k => cs[j].IfLoc < cs[k].IfLoc

(* A group of the section on line o was true; and the last one is the      *)
(* first true one.                                                         *)
Taken(c, env, o, p) ==
  \E j \in GroupHeads(c, o, p + 1) : HeadIsTrue(c[j], env[j])

Current(c, env, o, p) ==
  LET heads == GroupHeads(c, o, p + 1)
  IN  \A j \in heads : HeadIsTrue(c[j], env[j]) = (j = Max(heads))

(* An entry of the stack whose block is being read, and one whose block is *)
(* skipped although those around it are not.                               *)
Chosen(c, env, p, info) ==
  /\ Entered(info)
  /\ Taken(c, env, info.IfLoc, p)
  /\ Current(c, env, info.IfLoc, p)

Passed(c, env, p, info) ==
  /\ ~info.WasSkipping
  /\ info.FoundNonSkip <=> Taken(c, env, info.IfLoc, p)
  /\ ~Current(c, env, info.IfLoc, p)

Decides(c, p, env, cs, raw) ==
  IF raw
    THEN \E k \in DOMAIN cs :
           /\ Passed(c, env, p, cs[k])
           /\ \A j \in DOMAIN cs : /\ j < k => Chosen(c, env, p, cs[j])
                                   /\ j > k => cs[j].WasSkipping
    ELSE \A j \in DOMAIN cs : Chosen(c, env, p, cs[j])

(* The section on line o gets no new group.                                *)
LEMMA HeadsKept ==
  ASSUME NEW c, NEW p, NEW env, NEW d, Reading(c, p, env, d),
         NEW o \in 1..p, ~IsHeadOf(c, o, p)
  PROVE  /\ HasElse(c, o, p + 1) <=> HasElse(c, o, p)
         /\ Taken(c, Append(env, d), o, p + 1) <=> Taken(c, env, o, p)
         /\ Current(c, Append(env, d), o, p + 1) <=> Current(c, env, o, p)
  <1> DEFINE heads == GroupHeads(c, o, p + 1)
             new == Append(env, d)
  <1>0. p \in Nat /\ (p + 1) + 1 = p + 2
    BY DEF Reading
  <1>1. GroupHeads(c, o, (p + 1) + 1) = heads /\ heads \subseteq 1..p
    <2>1. /\ GroupHeads(c, o, p + 2) = heads \cup (IF IsHeadOf(c, o, p) THEN {p + 1} ELSE {})
          /\ heads \subseteq 1..p
      BY <1>0, HeadsStep
    <2> QED BY <1>0, <2>1
  <1>2. \A j \in heads : new[j] = env[j]
    BY <1>1, AppendFacts DEF Reading
  <1> HIDE DEF heads, new
  <1>3. HasElse(c, o, p + 1) <=> HasElse(c, o, p)
    BY <1>1 DEF HasElse, heads
  <1>4. Taken(c, new, o, p + 1) <=> Taken(c, env, o, p)
    BY <1>1, <1>2 DEF Taken, heads
  <1>5. Current(c, new, o, p + 1) <=> Current(c, env, o, p)
    <2>1. Current(c, new, o, p + 1) <=>
            \A j \in heads : HeadIsTrue(c[j], new[j]) = (j = Max(heads))
      BY <1>1 DEF Current
    <2>2. Current(c, env, o, p) <=>
            \A j \in heads : HeadIsTrue(c[j], env[j]) = (j = Max(heads))
      BY DEF Current, heads
    <2>3. \A j \in heads : HeadIsTrue(c[j], new[j]) = HeadIsTrue(c[j], env[j])
      BY <1>2
    <2> QED BY <2>1, <2>2, <2>3
  <1> QED BY <1>3, <1>4, <1>5 DEF new

(* The section on line o gets the next line as the head of a new group.    *)
LEMMA HeadAdded ==
  ASSUME NEW c, NEW p, NEW env, NEW d, Reading(c, p, env, d),
         NEW o \in 1..p, c[o].op \in Openers, IsHeadOf(c, o, p)
  PROVE  /\ HasElse(c, o, p + 1) <=> HasElse(c, o, p) \/ c[p + 1].op = "else"
         /\ Taken(c, Append(env, d), o, p + 1)
              <=> Taken(c, env, o, p) \/ HeadIsTrue(c[p + 1], d)
         /\ Current(c, Append(env, d), o, p + 1)
              <=> ~Taken(c, env, o, p) /\ HeadIsTrue(c[p + 1], d)
  <1> DEFINE heads == GroupHeads(c, o, p + 1)
             new == Append(env, d)
  <1>0. p \in Nat /\ (p + 1) + 1 = p + 2 /\ p + 1 \notin 1..p
    BY DEF Reading
  <1>1. GroupHeads(c, o, (p + 1) + 1) = heads \cup {p + 1} /\ heads \subseteq 1..p
    BY <1>0, HeadsStep
  <1>2. (\A j \in heads : new[j] = env[j]) /\ new[p + 1] = d
    BY <1>1, AppendFacts DEF Reading
  <1>3. \A j \in heads : c[j].op \in Openers \cup {"elif", "else"}
    BY <1>0, HeadsStep
  <1>4. Max(heads \cup {p + 1}) = p + 1
    BY <1>0, <1>1, MaxAdded
  <1>5. \A j \in heads : HeadIsTrue(c[j], env[j]) \in BOOLEAN
    <2> TAKE j \in heads
    <2>1. j \in 1..p /\ c[j] \in Line /\ env[j] \in Definitions
      BY <1>1 DEF Reading
    <2> QED BY <1>3, <2>1, HeadIsTrueType
  <1>6. HeadIsTrue(c[p + 1], d) \in BOOLEAN
    <2>1. c[p + 1] \in Line /\ d \in Definitions
      BY <1>0 DEF Reading
    <2>2. c[p + 1].op \in Openers \cup {"elif", "else"}
      BY DEF IsHeadOf
    <2> QED BY <2>1, <2>2, HeadIsTrueType
  <1> HIDE DEF heads, new
  <1>7. HasElse(c, o, p + 1) <=> HasElse(c, o, p) \/ c[p + 1].op = "else"
    BY <1>1 DEF HasElse, heads
  <1>8. Taken(c, new, o, p + 1) <=> Taken(c, env, o, p) \/ HeadIsTrue(c[p + 1], d)
    BY <1>1, <1>2 DEF Taken, heads
  <1>9. Current(c, new, o, p + 1) <=> ~Taken(c, env, o, p) /\ HeadIsTrue(c[p + 1], d)
    <2>1. Current(c, new, o, p + 1) <=>
            \A j \in heads \cup {p + 1} : HeadIsTrue(c[j], new[j]) = (j = p + 1)
      BY <1>1, <1>4 DEF Current
    <2>2. \A j \in heads : j # p + 1
      BY <1>0, <1>1
    <2>3. Current(c, new, o, p + 1) <=>
            /\ \A j \in heads : HeadIsTrue(c[j], env[j]) = FALSE
            /\ HeadIsTrue(c[p + 1], d) = TRUE
      BY <1>2, <2>1, <2>2
    <2> QED BY <1>5, <1>6, <2>3 DEF Taken, heads
  <1> QED BY <1>7, <1>8, <1>9 DEF new

(* A section that begins on the next line.                                 *)
LEMMA SectionBegins ==
  ASSUME NEW c, NEW p, NEW env, NEW d, Reading(c, p, env, d),
         c[p + 1].op \in Openers
  PROVE  /\ ~HasElse(c, p + 1, p + 1)
         /\ Taken(c, Append(env, d), p + 1, p + 1) <=> HeadIsTrue(c[p + 1], d)
         /\ Current(c, Append(env, d), p + 1, p + 1) <=> HeadIsTrue(c[p + 1], d)
  <1> DEFINE new == Append(env, d)
  <1>0. p \in Nat /\ (p + 1) + 1 = p + 2
    BY DEF Reading
  <1>1. GroupHeads(c, p + 1, (p + 1) + 1) = {p + 1}
    BY <1>0, HeadsStep
  <1>2. new[p + 1] = d
    BY AppendFacts DEF Reading
  <1>3. Max({p + 1}) = p + 1
    <2>1. Max({} \cup {p + 1}) = p + 1
      BY <1>0, MaxAdded
    <2>2. {} \cup {p + 1} = {p + 1}
      OBVIOUS
    <2> QED BY <2>1, <2>2
  <1>4. HeadIsTrue(c[p + 1], d) \in BOOLEAN
    <2>1. c[p + 1] \in Line /\ d \in Definitions
      BY <1>0 DEF Reading
    <2> QED BY <2>1, HeadIsTrueType
  <1> HIDE DEF new
  <1>5. ~HasElse(c, p + 1, p + 1)
    BY <1>1 DEF HasElse, Openers
  <1>6. Taken(c, new, p + 1, p + 1) <=> HeadIsTrue(c[p + 1], d)
    BY <1>1, <1>2 DEF Taken
  <1>7. Current(c, new, p + 1, p + 1) <=> HeadIsTrue(c[p + 1], d)
    BY <1>1, <1>2, <1>3, <1>4 DEF Current
  <1> QED BY <1>5, <1>6, <1>7 DEF new

LEMMA EntryKept ==
  ASSUME NEW c, NEW p, NEW env, NEW d, Reading(c, p, env, d),
         NEW info, info.IfLoc \in 1..p, ~IsHeadOf(c, info.IfLoc, p)
  PROVE  /\ HasElse(c, info.IfLoc, p + 1) <=> HasElse(c, info.IfLoc, p)
         /\ Chosen(c, Append(env, d), p + 1, info) <=> Chosen(c, env, p, info)
         /\ Passed(c, Append(env, d), p + 1, info) <=> Passed(c, env, p, info)
  <1> DEFINE o == info.IfLoc
  <1>1. /\ HasElse(c, o, p + 1) <=> HasElse(c, o, p)
        /\ Taken(c, Append(env, d), o, p + 1) <=> Taken(c, env, o, p)
        /\ Current(c, Append(env, d), o, p + 1) <=> Current(c, env, o, p)
    BY HeadsKept
  <1> QED BY <1>1 DEF Chosen, Passed

(* Only the innermost open section can get a new group.                    *)
TracksEntry(c, p, cs, k) ==
  /\ cs[k] \in CondInfo
  /\ cs[k].IfLoc \in 1..p /\ c[cs[k].IfLoc].op \in Openers
  /\ cs[k].IfLoc \in EnclosingOpeners(c, p + 1)
  /\ Balance(c, cs[k].IfLoc, p) = Len(cs) - k + 1
  /\ IsHeadOf(c, cs[k].IfLoc, p)
       <=> c[p + 1].op \in {"elif", "else"} /\ k = Len(cs)

LEMMA StackEntries ==
  ASSUME NEW c, NEW p \in Nat, NEW cs \in Seq(CondInfo), Tracks(c, p, cs),
         NEW k \in 1..Len(cs)
  PROVE  TracksEntry(c, p, cs, k)
  <1>0. k \in DOMAIN cs /\ Len(cs) \in Nat
    OBVIOUS
  <1>1. /\ cs[k].IfLoc \in EnclosingOpeners(c, p + 1)
        /\ Balance(c, cs[k].IfLoc, p) = Len(cs) - k + 1
    BY <1>0 DEF Tracks
  <1>2. cs[k].IfLoc \in 1..p /\ Encloses(c, cs[k].IfLoc, p + 1)
    BY <1>1, OpenersStep DEF EnclosingOpeners
  <1>3. Len(cs) - k + 1 = 1 <=> k = Len(cs)
    BY <1>0
  <1> QED BY <1>0, <1>1, <1>2, <1>3 DEF Encloses, IsHeadOf, TracksEntry

(* Balance and the open sections after one more line.                      *)
NextLine(c, p) ==
  /\ \A o \in 1..p : /\ Balance(c, o, p) \in Int
                     /\ Balance(c, o, p + 1) = Balance(c, o, p) + Weight(c[p + 1])
  /\ \A o \in 1..p : o \in EnclosingOpeners(c, (p + 1) + 1) <=>
        o \in EnclosingOpeners(c, p + 1) /\ Balance(c, o, p + 1) > 0
  /\ p + 1 \in EnclosingOpeners(c, (p + 1) + 1) <=> c[p + 1].op \in Openers
  /\ \A o \in EnclosingOpeners(c, (p + 1) + 1) : o \in 1..p \/ o = p + 1

LEMMA OneLineMore ==
  ASSUME NEW c, NEW p \in Nat
  PROVE  NextLine(c, p)
  <1>1. (p + 1) + 1 = p + 2 /\ \A o \in 1..p + 1 : o \in 1..p \/ o = p + 1
    OBVIOUS
  <1>2. \A o \in 1..p : /\ Balance(c, o, p) \in Int
                       /\ Balance(c, o, p + 1) = Balance(c, o, p) + Weight(c[p + 1])
    <2> TAKE o \in 1..p
    <2>1. o \in Nat /\ o <= p + 1
      OBVIOUS
    <2> QED BY <2>1, BalanceStep
  <1>3. /\ \A o \in 1..p : o \in EnclosingOpeners(c, p + 2) <=>
             o \in EnclosingOpeners(c, p + 1) /\ Balance(c, o, p + 1) > 0
        /\ p + 1 \in EnclosingOpeners(c, p + 2) <=> c[p + 1].op \in Openers
        /\ \A o \in EnclosingOpeners(c, p + 2) : o \in 1..p \/ o = p + 1
    BY <1>1, <1>2, OpenersStep
  <1> QED BY <1>1, <1>2, <1>3 DEF NextLine

(* A line that opens, closes or divides no section.                        *)
LEMMA QuietLine ==
  ASSUME NEW c, NEW p, NEW env, NEW d, Reading(c, p, env, d),
         NEW cs \in Seq(CondInfo), Tracks(c, p, cs), NEW raw \in BOOLEAN,
         Decides(c, p, env, cs, raw),
         c[p + 1].op \notin Openers,
         cs = <<>> \/ c[p + 1].op \notin {"endif", "elif", "else"}
  PROVE  Tracks(c, p + 1, cs) /\ Decides(c, p + 1, Append(env, d), cs, raw)
  <1> DEFINE n == Len(cs)
             new == Append(env, d)
  <1>0. p \in Nat /\ n \in Nat /\ DOMAIN cs = 1..n
    BY DEF Reading
  <1>20. NextLine(c, p)
    BY <1>0, OneLineMore
  <1>1. \A k \in 1..n : /\ cs[k].IfLoc \in 1..p
                        /\ cs[k].IfLoc \in EnclosingOpeners(c, p + 1)
                        /\ Balance(c, cs[k].IfLoc, p) = n - k + 1
                        /\ ~IsHeadOf(c, cs[k].IfLoc, p)
    <2> TAKE k \in 1..n
    <2>1. cs # <<>>
      OBVIOUS
    <2>2. TracksEntry(c, p, cs, k)
      BY <1>0, StackEntries
    <2> QED BY <2>1, <2>2 DEF TracksEntry
  <1>2. \A k \in 1..n :
          /\ HasElse(c, cs[k].IfLoc, p + 1) <=> HasElse(c, cs[k].IfLoc, p)
          /\ Chosen(c, new, p + 1, cs[k]) <=> Chosen(c, env, p, cs[k])
          /\ Passed(c, new, p + 1, cs[k]) <=> Passed(c, env, p, cs[k])
    BY <1>1, EntryKept
  <1>3. cs # <<>> => Weight(c[p + 1]) = 0
    BY DEF Weight
  <1>4. \A k \in 1..n : cs # <<>>
    OBVIOUS
  <1>5. \A o \in 1..p : Balance(c, o, p) \in Int
                        /\ Balance(c, o, p + 1) = Balance(c, o, p) + Weight(c[p + 1])
    BY <1>0, <1>20 DEF NextLine
  <1>6. EnclosingOpeners(c, (p + 1) + 1) \subseteq EnclosingOpeners(c, p + 1)
    BY <1>0, <1>20 DEF NextLine
  <1> HIDE DEF n, new
  <1>7. \A k \in 1..n : Balance(c, cs[k].IfLoc, p + 1) = n - k + 1
    BY <1>0, <1>1, <1>3, <1>4, <1>5
  <1>8. \A k \in 1..n : cs[k].IfLoc \in EnclosingOpeners(c, (p + 1) + 1)
    <2> TAKE k \in 1..n
    <2>1. n - k + 1 > 0
      BY <1>0
    <2> QED BY <1>0, <1>1, <1>7, <2>1, <1>20 DEF NextLine
  <1>9. Tracks(c, p + 1, cs)
    BY <1>0, <1>2, <1>6, <1>7, <1>8 DEF Tracks, n
  <1>10. Decides(c, p + 1, new, cs, raw)
    BY <1>0, <1>2 DEF Decides
  <1> QED BY <1>9, <1>10 DEF new

(* An #if line: its section is opened.                                     *)
LEMMA OpeningLine ==
  ASSUME NEW c, NEW p, NEW env, NEW d, Reading(c, p, env, d),
         NEW cs \in Seq(CondInfo), Tracks(c, p, cs),
         c[p + 1].op \in Openers,
         NEW ci \in CondInfo, ci.IfLoc = p + 1, ~ci.FoundElse
  PROVE  /\ Tracks(c, p + 1, Append(cs, ci))
         /\ Decides(c, p, env, cs, FALSE) /\ Entered(ci) /\ HeadIsTrue(c[p + 1], d)
              => Decides(c, p + 1, Append(env, d), Append(cs, ci), FALSE)
         /\ Decides(c, p, env, cs, FALSE) /\ ~ci.WasSkipping /\ ~ci.FoundNonSkip
              /\ ~HeadIsTrue(c[p + 1], d)
              => Decides(c, p + 1, Append(env, d), Append(cs, ci), TRUE)
         /\ Decides(c, p, env, cs, TRUE) /\ ci.WasSkipping
              => Decides(c, p + 1, Append(env, d), Append(cs, ci), TRUE)
  <1> DEFINE n == Len(cs)
             new == Append(env, d)
             t == Append(cs, ci)
  <1>0. p \in Nat /\ n \in Nat /\ DOMAIN cs = 1..n
    BY DEF Reading
  <1>20. NextLine(c, p)
    BY <1>0, OneLineMore
  <1>1. /\ Len(t) = n + 1 /\ DOMAIN t = 1..n + 1 /\ t[n + 1] = ci
        /\ \A k \in 1..n : t[k] = cs[k]
    BY AppendFacts
  <1>2. \A k \in 1..n : /\ cs[k].IfLoc \in 1..p
                        /\ cs[k].IfLoc \in EnclosingOpeners(c, p + 1)
                        /\ Balance(c, cs[k].IfLoc, p) = n - k + 1
                        /\ ~IsHeadOf(c, cs[k].IfLoc, p)
    <2> TAKE k \in 1..n
    <2>1. TracksEntry(c, p, cs, k)
      BY <1>0, StackEntries
    <2> QED BY <2>1 DEF TracksEntry, Openers
  <1>3. \A k \in 1..n :
          /\ HasElse(c, cs[k].IfLoc, p + 1) <=> HasElse(c, cs[k].IfLoc, p)
          /\ Chosen(c, new, p + 1, cs[k]) <=> Chosen(c, env, p, cs[k])
          /\ Passed(c, new, p + 1, cs[k]) <=> Passed(c, env, p, cs[k])
    BY <1>2, EntryKept
  <1>4. /\ ~HasElse(c, p + 1, p + 1)
        /\ Taken(c, new, p + 1, p + 1) <=> HeadIsTrue(c[p + 1], d)
        /\ Current(c, new, p + 1, p + 1) <=> HeadIsTrue(c[p + 1], d)
    BY SectionBegins
  <1>5. Weight(c[p + 1]) = 1
    BY DEF Weight
  <1>6. Balance(c, p + 1, p + 1) = 1
    BY <1>0, <1>5, BalanceStart
  <1> HIDE DEF n, t, new
  <1>7. \A k \in 1..n : Balance(c, cs[k].IfLoc, p + 1) = (n + 1) - k + 1
    BY <1>0, <1>2, <1>5, <1>20 DEF NextLine
  <1>8. \A k \in 1..n : cs[k].IfLoc \in EnclosingOpeners(c, (p + 1) + 1)
    <2> TAKE k \in 1..n
    <2>1. (n + 1) - k + 1 > 0
      BY <1>0
    <2> QED BY <1>0, <1>2, <1>7, <2>1, <1>20 DEF NextLine
  <1>9. p + 1 \in EnclosingOpeners(c, (p + 1) + 1)
    BY <1>20 DEF NextLine
  <1>10. /\ \A o \in EnclosingOpeners(c, p + 1) : \E k \in 1..n : cs[k].IfLoc = o
         /\ \A k \in 1..n : cs[k].FoundElse <=> HasElse(c, cs[k].IfLoc, p)
         /\ \A j, k \in 1..n : j < k => cs[j].IfLoc < cs[k].IfLoc
    BY <1>0 DEF Tracks
  <1>11. 1..n + 1 = (1..n) \cup {n + 1} /\ n + 1 \notin 1..n
    BY <1>0
  <1>12. Tracks(c, p + 1, t)
    <2>1. \A o \in EnclosingOpeners(c, (p + 1) + 1) : \E k \in 1..n + 1 : t[k].IfLoc = o
      <3> TAKE o \in EnclosingOpeners(c, (p + 1) + 1)
      <3>1. CASE o = p + 1
        BY <1>1, <1>11, <3>1
      <3>2. CASE o \in 1..p
        <4>1. o \in EnclosingOpeners(c, p + 1)
          BY <1>0, <3>2, <1>20 DEF NextLine
        <4> QED BY <1>1, <1>10, <1>11, <4>1
      <3> QED BY <1>0, <3>1, <3>2, <1>20 DEF NextLine
    <2>2. \A k \in 1..n + 1 : /\ t[k].IfLoc \in EnclosingOpeners(c, (p + 1) + 1)
                              /\ Balance(c, t[k].IfLoc, p + 1) = (n + 1) - k + 1
                              /\ t[k].FoundElse <=> HasElse(c, t[k].IfLoc, p + 1)
      <3> TAKE k \in 1..n + 1
      <3>1. CASE k \in 1..n
        BY <1>1, <1>3, <1>7, <1>8, <1>10, <3>1
      <3>2. CASE k = n + 1
        BY <1>0, <1>1, <1>4, <1>6, <1>9, <3>2
      <3> QED BY <1>11, <3>1, <3>2
    <2>3. \A j, k \in 1..n + 1 : j < k => t[j].IfLoc < t[k].IfLoc
      <3> SUFFICES ASSUME NEW j \in 1..n + 1, NEW k \in 1..n + 1, j < k
                   PROVE  t[j].IfLoc < t[k].IfLoc
        OBVIOUS
      <3>1. j \in 1..n
        BY <1>0
      <3>2. CASE k \in 1..n
        BY <1>1, <1>10, <3>1, <3>2
      <3>3. CASE k = n + 1
        BY <1>0, <1>1, <1>2, <3>1, <3>3
      <3> QED BY <1>11, <3>2, <3>3
    <2> QED BY <1>1, <2>1, <2>2, <2>3 DEF Tracks
  <1>13. ASSUME Decides(c, p, env, cs, FALSE)
         PROVE  \A k \in 1..n : Chosen(c, new, p + 1, t[k])
    BY <1>0, <1>1, <1>3, <1>13 DEF Decides
  <1>14. ASSUME Decides(c, p, env, cs, FALSE), Entered(ci), HeadIsTrue(c[p + 1], d)
         PROVE  Decides(c, p + 1, new, t, FALSE)
    <2>1. Chosen(c, new, p + 1, t[n + 1])
      BY <1>1, <1>4, <1>14 DEF Chosen
    <2> QED BY <1>1, <1>11, <1>13, <1>14, <2>1 DEF Decides
  <1>15. ASSUME Decides(c, p, env, cs, FALSE), ~ci.WasSkipping, ~ci.FoundNonSkip,
                ~HeadIsTrue(c[p + 1], d)
         PROVE  Decides(c, p + 1, new, t, TRUE)
    <2>1. Passed(c, new, p + 1, t[n + 1])
      BY <1>1, <1>4, <1>15 DEF Passed
    <2>2. n + 1 \in DOMAIN t
          /\ \A j \in DOMAIN t : /\ j < n + 1 => Chosen(c, new, p + 1, t[j])
                                 /\ j > n + 1 => t[j].WasSkipping
      <3>1. \A j \in 1..n + 1 : (j < n + 1 => j \in 1..n) /\ ~(j > n + 1)
        BY <1>0
      <3> QED BY <1>1, <1>11, <1>13, <1>15, <3>1
    <2> QED BY <2>1, <2>2 DEF Decides
  <1>16. ASSUME Decides(c, p, env, cs, TRUE), ci.WasSkipping
         PROVE  Decides(c, p + 1, new, t, TRUE)
    <2>1. PICK k \in 1..n :
            /\ Passed(c, env, p, cs[k])
            /\ \A j \in 1..n : /\ j < k => Chosen(c, env, p, cs[j])
                               /\ j > k => cs[j].WasSkipping
      BY <1>0, <1>16 DEF Decides
    <2>2. k \in DOMAIN t /\ Passed(c, new, p + 1, t[k])
      BY <1>1, <1>3, <1>11, <2>1
    <2>3. \A j \in DOMAIN t : /\ j < k => Chosen(c, new, p + 1, t[j])
                              /\ j > k => t[j].WasSkipping
      <3>1. ~(n + 1 < k)
        BY <1>0
      <3> QED BY <1>1, <1>3, <1>11, <1>16, <2>1, <3>1
    <2> QED BY <2>2, <2>3 DEF Decides
  <1> QED BY <1>12, <1>14, <1>15, <1>16 DEF new, t

(* An #endif line: the innermost section is closed.                        *)
LEMMA ClosingLine ==
  ASSUME NEW c, NEW p, NEW env, NEW d, Reading(c, p, env, d),
         NEW cs \in Seq(CondInfo), Tracks(c, p, cs), cs # <<>>,
         c[p + 1].op = "endif"
  PROVE  /\ Tracks(c, p + 1, Front(cs))
         /\ Decides(c, p, env, cs, FALSE)
              => Decides(c, p + 1, Append(env, d), Front(cs), FALSE)
         /\ Decides(c, p, env, cs, TRUE)
              => Decides(c, p + 1, Append(env, d), Front(cs), Last(cs).WasSkipping)
  <1> DEFINE m == Len(cs) - 1
             n == Len(cs)
             new == Append(env, d)
             t == Front(cs)
  <1>0. p \in Nat /\ m \in Nat /\ n = m + 1 /\ DOMAIN cs = 1..m + 1
    BY DEF Reading
  <1>20. NextLine(c, p)
    BY <1>0, OneLineMore
  <1>1. /\ Len(t) = m /\ DOMAIN t = 1..m
        /\ \A k \in 1..m : t[k] = cs[k]
    <2>1. t \in Seq(CondInfo) /\ Len(t) = m /\ \A k \in 1..m : t[k] = cs[k]
      BY FrontLast
    <2> QED BY <2>1
  <1>2. \A k \in 1..m + 1 : /\ cs[k] \in CondInfo
                            /\ cs[k].IfLoc \in 1..p
                            /\ cs[k].IfLoc \in EnclosingOpeners(c, p + 1)
                            /\ Balance(c, cs[k].IfLoc, p) = (m + 1) - k + 1
                            /\ ~IsHeadOf(c, cs[k].IfLoc, p)
    <2> TAKE k \in 1..m + 1
    <2>1. k \in 1..n
      BY <1>0
    <2>2. TracksEntry(c, p, cs, k)
      BY <1>0, <2>1, StackEntries
    <2> QED BY <1>0, <2>2 DEF TracksEntry
  <1>3. \A k \in 1..m + 1 :
          /\ HasElse(c, cs[k].IfLoc, p + 1) <=> HasElse(c, cs[k].IfLoc, p)
          /\ Chosen(c, new, p + 1, cs[k]) <=> Chosen(c, env, p, cs[k])
          /\ Passed(c, new, p + 1, cs[k]) <=> Passed(c, env, p, cs[k])
    BY <1>2, EntryKept
  <1>4. Last(cs) = cs[m + 1]
    BY <1>0 DEF Last
  <1>5. Weight(c[p + 1]) = -1
    BY DEF Weight, Openers
  <1> HIDE DEF m, n, t, new
  <1>6. \A k \in 1..m + 1 : Balance(c, cs[k].IfLoc, p + 1) = m - k + 1
    <2> TAKE k \in 1..m + 1
    <2>1. Balance(c, cs[k].IfLoc, p) = (m + 1) - k + 1
      BY <1>2
    <2>2. Balance(c, cs[k].IfLoc, p + 1) = Balance(c, cs[k].IfLoc, p) + Weight(c[p + 1])
      BY <1>2, <1>20 DEF NextLine
    <2>3. Balance(c, cs[k].IfLoc, p + 1) = ((m + 1) - k + 1) + (-1)
      BY <1>5, <2>1, <2>2
    <2> QED BY <1>0, <2>3
  <1>7. \A k \in 1..m : cs[k].IfLoc \in EnclosingOpeners(c, (p + 1) + 1)
    <2> TAKE k \in 1..m
    <2>1. m - k + 1 > 0 /\ k \in 1..m + 1
      BY <1>0
    <2> QED BY <1>0, <1>2, <1>6, <2>1, <1>20 DEF NextLine
  <1>8. /\ \A o \in EnclosingOpeners(c, p + 1) : \E k \in 1..m + 1 : cs[k].IfLoc = o
        /\ \A k \in 1..m + 1 : cs[k].FoundElse <=> HasElse(c, cs[k].IfLoc, p)
        /\ \A j, k \in 1..m + 1 : j < k => cs[j].IfLoc < cs[k].IfLoc
    BY <1>0 DEF Tracks
  <1>9. 1..m + 1 = (1..m) \cup {m + 1} /\ m + 1 \notin 1..m
    BY <1>0
  <1>10. Tracks(c, p + 1, t)
    <2>1. \A o \in EnclosingOpeners(c, (p + 1) + 1) : \E k \in 1..m : t[k].IfLoc = o
      <3> TAKE o \in EnclosingOpeners(c, (p + 1) + 1)
      <3>1. c[p + 1].op \notin Openers
        BY DEF Openers
      <3>2. o \in EnclosingOpeners(c, p + 1) /\ Balance(c, o, p + 1) > 0
        BY <1>0, <3>1, <1>20 DEF NextLine
      <3>3. PICK k \in 1..m + 1 : cs[k].IfLoc = o
        BY <1>8, <3>2
      <3>4. m - k + 1 > 0
        BY <1>6, <3>2, <3>3
      <3>5. k \in 1..m
        BY <1>0, <3>4
      <3> QED BY <1>1, <3>3, <3>5
    <2>2. \A k \in 1..m : /\ t[k].IfLoc \in EnclosingOpeners(c, (p + 1) + 1)
                          /\ Balance(c, t[k].IfLoc, p + 1) = m - k + 1
                          /\ t[k].FoundElse <=> HasElse(c, t[k].IfLoc, p + 1)
      BY <1>1, <1>3, <1>6, <1>7, <1>8, <1>9
    <2>3. \A j, k \in 1..m : j < k => t[j].IfLoc < t[k].IfLoc
      BY <1>1, <1>8, <1>9
    <2> QED BY <1>1, <2>1, <2>2, <2>3 DEF Tracks
  <1>11. ASSUME Decides(c, p, env, cs, FALSE)
         PROVE  Decides(c, p + 1, new, t, FALSE)
    BY <1>0, <1>1, <1>3, <1>9, <1>11 DEF Decides
  <1>12. ASSUME Decides(c, p, env, cs, TRUE)
         PROVE  Decides(c, p + 1, new, t, Last(cs).WasSkipping)
    <2>1. PICK k \in 1..m + 1 :
            /\ Passed(c, env, p, cs[k])
            /\ \A j \in 1..m + 1 : /\ j < k => Chosen(c, env, p, cs[j])
                                   /\ j > k => cs[j].WasSkipping
      BY <1>0, <1>12 DEF Decides
    <2>2. CASE k = m + 1
      <3>1. ~Last(cs).WasSkipping
        BY <1>4, <2>1, <2>2 DEF Passed
      <3>2. \A j \in 1..m : j < k /\ j \in 1..m + 1
        BY <1>0, <2>2
      <3>3. \A j \in 1..m : Chosen(c, new, p + 1, t[j])
        BY <1>1, <1>3, <2>1, <3>2
      <3> QED BY <1>1, <3>1, <3>3 DEF Decides
    <2>3. CASE k \in 1..m
      <3>1. m + 1 > k
        BY <1>0, <2>3
      <3>2. Last(cs).WasSkipping
        BY <1>4, <1>9, <2>1, <3>1
      <3>3. Passed(c, new, p + 1, t[k])
        BY <1>1, <1>3, <2>1, <2>3
      <3>4. \A j \in 1..m : /\ j < k => Chosen(c, new, p + 1, t[j])
                            /\ j > k => t[j].WasSkipping
        BY <1>1, <1>3, <1>9, <2>1
      <3> QED BY <1>1, <2>3, <3>2, <3>3, <3>4 DEF Decides
    <2> QED BY <1>9, <2>2, <2>3
  <1> QED BY <1>10, <1>11, <1>12 DEF new, t

(* An #elif or #else line: the innermost section gets a new group.         *)
LEMMA NextGroup ==
  ASSUME NEW c, NEW p, NEW env, NEW d, Reading(c, p, env, d),
         NEW cs \in Seq(CondInfo), Tracks(c, p, cs), cs # <<>>,
         c[p + 1].op \in {"elif", "else"},
         NEW ci \in CondInfo, ci.IfLoc = Last(cs).IfLoc,
         ci.FoundElse <=> Last(cs).FoundElse \/ c[p + 1].op = "else"
  PROVE  LET enter == HeadIsTrue(c[p + 1], d)
             new == Append(env, d)
             t == Append(Front(cs), ci)
         IN  /\ Tracks(c, p + 1, t)
             /\ Decides(c, p, env, cs, FALSE) /\ ~ci.WasSkipping /\ ci.FoundNonSkip
                  => Decides(c, p + 1, new, t, TRUE)
             /\ Decides(c, p, env, cs, TRUE) /\ Last(cs).WasSkipping /\ ci.WasSkipping
                  => Decides(c, p + 1, new, t, TRUE)
             /\ Decides(c, p, env, cs, TRUE) /\ ~Last(cs).WasSkipping
                  /\ Last(cs).FoundNonSkip /\ ~ci.WasSkipping /\ ci.FoundNonSkip
                  => Decides(c, p + 1, new, t, TRUE)
             /\ Decides(c, p, env, cs, TRUE) /\ ~Last(cs).WasSkipping
                  /\ ~Last(cs).FoundNonSkip /\ ~ci.WasSkipping
                  /\ (ci.FoundNonSkip <=> enter)
                  => IF enter THEN Decides(c, p + 1, new, t, FALSE)
                              ELSE Decides(c, p + 1, new, t, TRUE)
  <1> DEFINE m == Len(cs) - 1
             n == Len(cs)
             new == Append(env, d)
             t == Append(Front(cs), ci)
             o == ci.IfLoc
             enter == HeadIsTrue(c[p + 1], d)
  <1>0. p \in Nat /\ m \in Nat /\ n = m + 1 /\ DOMAIN cs = 1..m + 1
    BY DEF Reading
  <1>20. NextLine(c, p)
    BY <1>0, OneLineMore
  <1>1. /\ Len(t) = m + 1 /\ DOMAIN t = 1..m + 1 /\ t[m + 1] = ci
        /\ \A k \in 1..m : t[k] = cs[k]
    <2>1. /\ Front(cs) \in Seq(CondInfo) /\ Len(Front(cs)) = m
          /\ \A k \in 1..m : Front(cs)[k] = cs[k]
      BY FrontLast
    <2> QED BY <2>1, AppendFacts
  <1>2. Last(cs) = cs[m + 1] /\ o = cs[m + 1].IfLoc
    BY <1>0 DEF Last
  <1>3. \A k \in 1..m + 1 : /\ cs[k] \in CondInfo
                            /\ cs[k].IfLoc \in 1..p /\ c[cs[k].IfLoc].op \in Openers
                            /\ cs[k].IfLoc \in EnclosingOpeners(c, p + 1)
                            /\ Balance(c, cs[k].IfLoc, p) = (m + 1) - k + 1
                            /\ IsHeadOf(c, cs[k].IfLoc, p) <=> k = m + 1
    <2> TAKE k \in 1..m + 1
    <2>1. k \in 1..n
      BY <1>0
    <2>2. TracksEntry(c, p, cs, k)
      BY <1>0, <2>1, StackEntries
    <2> QED BY <1>0, <2>2 DEF TracksEntry
  <1>4. 1..m + 1 = (1..m) \cup {m + 1} /\ m + 1 \notin 1..m
    BY <1>0
  <1>5. \A k \in 1..m :
          /\ HasElse(c, cs[k].IfLoc, p + 1) <=> HasElse(c, cs[k].IfLoc, p)
          /\ Chosen(c, new, p + 1, cs[k]) <=> Chosen(c, env, p, cs[k])
          /\ Passed(c, new, p + 1, cs[k]) <=> Passed(c, env, p, cs[k])
    <2> TAKE k \in 1..m
    <2>1. cs[k].IfLoc \in 1..p /\ ~IsHeadOf(c, cs[k].IfLoc, p)
      BY <1>3, <1>4
    <2> QED BY <2>1, EntryKept
  <1>6. /\ HasElse(c, o, p + 1) <=> HasElse(c, o, p) \/ c[p + 1].op = "else"
        /\ Taken(c, new, o, p + 1) <=> Taken(c, env, o, p) \/ enter
        /\ Current(c, new, o, p + 1) <=> ~Taken(c, env, o, p) /\ enter
    <2>1. o \in 1..p /\ c[o].op \in Openers /\ IsHeadOf(c, o, p)
      BY <1>2, <1>3, <1>4
    <2> QED BY <2>1, HeadAdded
  <1>7. Weight(c[p + 1]) = 0
    BY DEF Weight, Openers
  <1> HIDE DEF m, n, t, new, o, enter
  <1>8. \A k \in 1..m + 1 : Balance(c, cs[k].IfLoc, p + 1) = (m + 1) - k + 1
    <2> TAKE k \in 1..m + 1
    <2>1. Balance(c, cs[k].IfLoc, p + 1) = Balance(c, cs[k].IfLoc, p) + Weight(c[p + 1])
      BY <1>3, <1>20 DEF NextLine
    <2> QED BY <1>0, <1>3, <1>7, <2>1
  <1>9. \A k \in 1..m + 1 : cs[k].IfLoc \in EnclosingOpeners(c, (p + 1) + 1)
    <2> TAKE k \in 1..m + 1
    <2>1. (m + 1) - k + 1 > 0
      BY <1>0
    <2> QED BY <1>3, <1>8, <2>1, <1>20 DEF NextLine
  <1>10. /\ \A i \in EnclosingOpeners(c, p + 1) : \E k \in 1..m + 1 : cs[k].IfLoc = i
         /\ \A k \in 1..m + 1 : cs[k].FoundElse <=> HasElse(c, cs[k].IfLoc, p)
         /\ \A j, k \in 1..m + 1 : j < k => cs[j].IfLoc < cs[k].IfLoc
    BY <1>0 DEF Tracks
  <1>11. \A k \in 1..m + 1 : t[k].IfLoc = cs[k].IfLoc
    BY <1>1, <1>2, <1>4 DEF o
  <1>12. Tracks(c, p + 1, t)
    <2>1. \A i \in EnclosingOpeners(c, (p + 1) + 1) : \E k \in 1..m + 1 : t[k].IfLoc = i
      <3> TAKE i \in EnclosingOpeners(c, (p + 1) + 1)
      <3>1. c[p + 1].op \notin Openers
        BY DEF Openers
      <3>2. i \in EnclosingOpeners(c, p + 1)
        BY <3>1, <1>20 DEF NextLine
      <3> QED BY <1>10, <1>11, <3>2
    <2>2. \A k \in 1..m + 1 : t[k].FoundElse <=> HasElse(c, t[k].IfLoc, p + 1)
      <3> TAKE k \in 1..m + 1
      <3>1. CASE k \in 1..m
        BY <1>1, <1>4, <1>5, <1>10, <3>1
      <3>2. CASE k = m + 1
        BY <1>1, <1>2, <1>4, <1>6, <1>10, <3>2 DEF o
      <3> QED BY <1>4, <3>1, <3>2
    <2>3. \A k \in 1..m + 1 : /\ t[k].IfLoc \in EnclosingOpeners(c, (p + 1) + 1)
                              /\ Balance(c, t[k].IfLoc, p + 1) = (m + 1) - k + 1
      BY <1>8, <1>9, <1>11
    <2>4. \A j, k \in 1..m + 1 : j < k => t[j].IfLoc < t[k].IfLoc
      BY <1>10, <1>11
    <2> QED BY <1>1, <2>1, <2>2, <2>3, <2>4 DEF Tracks
  <1>13. ASSUME \A k \in 1..m : Chosen(c, env, p, cs[k]), Chosen(c, new, p + 1, ci)
         PROVE  Decides(c, p + 1, new, t, FALSE)
    BY <1>1, <1>4, <1>5, <1>13 DEF Decides
  <1>14. ASSUME \A k \in 1..m : Chosen(c, env, p, cs[k]), Passed(c, new, p + 1, ci)
         PROVE  Decides(c, p + 1, new, t, TRUE)
    <2>1. \A j \in 1..m + 1 : (j < m + 1 => j \in 1..m) /\ ~(j > m + 1)
      BY <1>0
    <2>2. \A j \in 1..m : Chosen(c, new, p + 1, t[j])
      BY <1>1, <1>5, <1>14
    <2>3. m + 1 \in DOMAIN t /\ Passed(c, new, p + 1, t[m + 1])
      BY <1>1, <1>4, <1>14
    <2> QED BY <1>1, <2>1, <2>2, <2>3 DEF Decides
  <1>15. ASSUME Decides(c, p, env, cs, FALSE), ~ci.WasSkipping, ci.FoundNonSkip
         PROVE  Decides(c, p + 1, new, t, TRUE)
    <2>1. \A k \in 1..m + 1 : Chosen(c, env, p, cs[k])
      BY <1>0, <1>15 DEF Decides
    <2>2. Taken(c, env, o, p)
      BY <1>2, <1>4, <2>1 DEF Chosen
    <2>3. Passed(c, new, p + 1, ci)
      BY <1>6, <1>15, <2>2 DEF Passed, o
    <2> QED BY <1>4, <1>14, <2>1, <2>3
  <1>16. ASSUME Decides(c, p, env, cs, TRUE), Last(cs).WasSkipping, ci.WasSkipping
         PROVE  Decides(c, p + 1, new, t, TRUE)
    <2>1. PICK k \in 1..m + 1 :
            /\ Passed(c, env, p, cs[k])
            /\ \A j \in 1..m + 1 : /\ j < k => Chosen(c, env, p, cs[j])
                                   /\ j > k => cs[j].WasSkipping
      BY <1>0, <1>16 DEF Decides
    <2>2. k \in 1..m /\ k \in DOMAIN t
      BY <1>1, <1>2, <1>4, <1>16, <2>1 DEF Passed
    <2>3. Passed(c, new, p + 1, t[k])
      BY <1>1, <1>5, <2>1, <2>2
    <2>4. ~(m + 1 < k)
      BY <1>0, <2>2
    <2>5. \A j \in DOMAIN t : /\ j < k => Chosen(c, new, p + 1, t[j])
                              /\ j > k => t[j].WasSkipping
      BY <1>1, <1>4, <1>5, <1>16, <2>1, <2>4
    <2> QED BY <2>2, <2>3, <2>5 DEF Decides
  <1>17. ASSUME Decides(c, p, env, cs, TRUE), ~Last(cs).WasSkipping
         PROVE  /\ \A k \in 1..m : Chosen(c, env, p, cs[k])
                /\ Last(cs).FoundNonSkip <=> Taken(c, env, o, p)
    <2>1. PICK k \in 1..m + 1 :
            /\ Passed(c, env, p, cs[k])
            /\ \A j \in 1..m + 1 : /\ j < k => Chosen(c, env, p, cs[j])
                                   /\ j > k => cs[j].WasSkipping
      BY <1>0, <1>17 DEF Decides
    <2>2. k = m + 1
      BY <1>0, <1>2, <1>4, <1>17, <2>1
    <2>3. \A j \in 1..m : j < k /\ j \in 1..m + 1
      BY <1>0, <2>2
    <2> QED BY <1>2, <2>1, <2>2, <2>3 DEF Passed
  <1>18. ASSUME Decides(c, p, env, cs, TRUE), ~Last(cs).WasSkipping,
                Last(cs).FoundNonSkip, ~ci.WasSkipping, ci.FoundNonSkip
         PROVE  Decides(c, p + 1, new, t, TRUE)
    <2>1. Passed(c, new, p + 1, ci)
      BY <1>6, <1>17, <1>18 DEF Passed, o
    <2> QED BY <1>14, <1>17, <1>18, <2>1
  <1>19. ASSUME Decides(c, p, env, cs, TRUE), ~Last(cs).WasSkipping,
                ~Last(cs).FoundNonSkip, ~ci.WasSkipping, ci.FoundNonSkip <=> enter
         PROVE  IF enter THEN Decides(c, p + 1, new, t, FALSE)
                         ELSE Decides(c, p + 1, new, t, TRUE)
    <2>1. CASE enter
      <3>1. Chosen(c, new, p + 1, ci)
        BY <1>6, <1>17, <1>19, <2>1 DEF Chosen, Entered, o
      <3> QED BY <1>13, <1>17, <1>19, <2>1, <3>1
    <2>2. CASE ~enter
      <3>1. Passed(c, new, p + 1, ci)
        BY <1>6, <1>17, <1>19, <2>2 DEF Passed, o
      <3> QED BY <1>14, <1>17, <1>19, <2>2, <3>1
    <2> QED BY <2>1, <2>2
  <1> QED BY <1>12, <1>15, <1>16, <1>18, <1>19 DEF new, t, enter

-----------------------------------------------------------------------------
(* Steps                                                                   *)

(* What every lexer on the include stack keeps while it has a line to read. *)
FollowsText(c, lx) ==
  lx.pos < Len(c) =>
    /\ Tracks(c, lx.pos, lx.ConditionalStack)
    /\ Decides(c, lx.pos, lx.env, lx.ConditionalStack, lx.LexingRawMode)

AllFollowTheText ==
  /\ FollowsText(text, CurPPLexer)
  /\ \A i \in DOMAIN IncludeMacroStack :
       FollowsText(content[IncludeMacroStack[i].file], IncludeMacroStack[i])

(* The current lexer before and after the line.                            *)
BeforeLine ==
  /\ Reading(text, CurPPLexer.pos, CurPPLexer.env, macros)
  /\ text[CurPPLexer.pos + 1] = line
  /\ line \in Line
  /\ CurPPLexer.ConditionalStack \in Seq(CondInfo)
  /\ CurPPLexer.LexingRawMode \in BOOLEAN
  /\ Tracks(text, CurPPLexer.pos, CurPPLexer.ConditionalStack)
  /\ Decides(text, CurPPLexer.pos, CurPPLexer.env,
             CurPPLexer.ConditionalStack, CurPPLexer.LexingRawMode)

LEMMA ALineToRead ==
  ASSUME IInv, AllFollowTheText, ~AtEnd
  PROVE  BeforeLine
  <1>1. GoodLexer(CurPPLexer) /\ text \in Seq(Line) /\ line \in Line
    BY LexersGood
  <1>2. macros \in Definitions
    BY DEF IInv, TypeOK
  <1>3. /\ CurPPLexer.pos \in Nat /\ CurPPLexer.env \in Seq(Definitions)
        /\ Len(CurPPLexer.env) = CurPPLexer.pos /\ CurPPLexer.pos <= Len(text)
        /\ CurPPLexer.ConditionalStack \in Seq(CondInfo)
        /\ CurPPLexer.LexingRawMode \in BOOLEAN
    BY <1>1 DEF GoodLexer, Lexer, InsideBuffer, text
  <1>4. CurPPLexer.pos < Len(text)
    BY <1>1, <1>3 DEF AtEnd
  <1>5. /\ Tracks(text, CurPPLexer.pos, CurPPLexer.ConditionalStack)
        /\ Decides(text, CurPPLexer.pos, CurPPLexer.env,
                   CurPPLexer.ConditionalStack, CurPPLexer.LexingRawMode)
    BY <1>4 DEF AllFollowTheText, FollowsText
  <1> QED BY <1>1, <1>2, <1>3, <1>4, <1>5 DEF BeforeLine, Reading, line

(* lx has read the line and done nothing else to its conditionals.         *)
Reads(lx) ==
  /\ lx \in Lexer
  /\ lx.file = CurPPLexer.file
  /\ lx.pos = CurPPLexer.pos + 1
  /\ lx.env = Append(CurPPLexer.env, macros)
  /\ lx.ConditionalStack = CurPPLexer.ConditionalStack
  /\ lx.LexingRawMode = CurPPLexer.LexingRawMode

LEMMA LineReadReads ==
  ASSUME IInv, ~AtEnd
  PROVE  Reads(LineRead)
  <1>1. CurPPLexer \in Lexer
    BY LexersGood DEF GoodLexer
  <1>2. LineRead \in Lexer
    BY LineReadGood DEF GoodLexer
  <1>3. /\ LineRead.file = CurPPLexer.file
        /\ LineRead.pos = CurPPLexer.pos + 1
        /\ LineRead.env = Append(CurPPLexer.env, macros)
        /\ LineRead.ConditionalStack = CurPPLexer.ConditionalStack
        /\ LineRead.LexingRawMode = CurPPLexer.LexingRawMode
    BY <1>1 DEF LineRead, Lexer
  <1> QED BY <1>2, <1>3 DEF Reads

LEMMA InformedReads ==
  ASSUME NEW lx, Reads(lx), NEW mi \in MIOptState
  PROVE  Reads(TellMIOpt(lx, mi))
  BY DEF Reads, TellMIOpt, Lexer

LEMMA ExpandedReads ==
  ASSUME NEW lx, Reads(lx), NEW yes
  PROVE  Reads(IfExpanded(lx, yes))
  <1>1. lx.MIOpt \in MIOptState
    BY DEF Reads, Lexer
  <1>2. ExpandedMacro(lx.MIOpt) \in MIOptState
    BY <1>1, MIOptType
  <1> QED BY <1>2, InformedReads DEF IfExpanded

(* A lexer that went on to the next line.                                  *)
LEMMA AfterLine ==
  ASSUME NEW lx, lx.pos = CurPPLexer.pos + 1,
         lx.env = Append(CurPPLexer.env, macros),
         Tracks(text, CurPPLexer.pos + 1, lx.ConditionalStack),
         Decides(text, CurPPLexer.pos + 1, Append(CurPPLexer.env, macros),
                 lx.ConditionalStack, lx.LexingRawMode)
  PROVE  FollowsText(text, lx)
  BY DEF FollowsText

LEMMA QuietLexer ==
  ASSUME BeforeLine, line.op \notin Openers,
         CurPPLexer.ConditionalStack = <<>> \/ line.op \notin {"endif", "elif", "else"},
         NEW lx, Reads(lx)
  PROVE  FollowsText(text, lx)
  <1>1. /\ Tracks(text, CurPPLexer.pos + 1, CurPPLexer.ConditionalStack)
        /\ Decides(text, CurPPLexer.pos + 1, Append(CurPPLexer.env, macros),
                   CurPPLexer.ConditionalStack, CurPPLexer.LexingRawMode)
    BY QuietLine DEF BeforeLine
  <1> QED BY <1>1, AfterLine DEF Reads

(* Live #if-like lines.                                                    *)
LEMMA OpeningLexer ==
  ASSUME BeforeLine, line.op \in Openers, ~CurPPLexer.LexingRawMode,
         NEW lx, Reads(lx), NEW enter \in BOOLEAN, enter <=> HeadIsTrue(line, macros)
  PROVE  /\ FollowsText(text, OpenConditional(lx, enter))
         /\ OpenConditional(lx, enter).file = CurPPLexer.file
  <1> DEFINE cs == CurPPLexer.ConditionalStack
             p == CurPPLexer.pos
             new == Append(CurPPLexer.env, macros)
             ci == [IfLoc |-> p + 1, WasSkipping |-> FALSE,
                    FoundNonSkip |-> enter, FoundElse |-> FALSE]
             t == Append(cs, ci)
             after == OpenConditional(lx, enter)
  <1>1. p \in Nat /\ ci \in CondInfo
    BY DEF BeforeLine, Reading, CondInfo
  <1>2. CurPPLexer.LexingRawMode = FALSE
    BY DEF BeforeLine
  <1>3. /\ after.file = CurPPLexer.file
        /\ after.pos = p + 1
        /\ after.env = new
        /\ after.ConditionalStack = t
        /\ after.LexingRawMode = ~enter
    <2>1. CASE enter
      BY <1>2, <2>1 DEF Reads, Lexer, OpenConditional, pushConditionalLevel
    <2>2. CASE ~enter
      BY <1>2, <2>2 DEF Reads, Lexer, OpenConditional, pushConditionalLevel,
                        SkipExcludedConditionalBlock
    <2> QED BY <2>1, <2>2
  <1>4. /\ Tracks(text, p + 1, t)
        /\ enter => Decides(text, p + 1, new, t, FALSE)
        /\ ~enter => Decides(text, p + 1, new, t, TRUE)
    <2>1. ci.IfLoc = p + 1 /\ ~ci.FoundElse /\ ~ci.WasSkipping
          /\ (ci.FoundNonSkip <=> enter)
      OBVIOUS
    <2>2. Decides(text, p, CurPPLexer.env, cs, FALSE)
      BY <1>2 DEF BeforeLine
    <2> HIDE DEF ci
    <2> QED BY <1>1, <2>1, <2>2, OpeningLine DEF BeforeLine, Entered
  <1> HIDE DEF after, t, new
  <1>5. Decides(text, p + 1, new, t, after.LexingRawMode)
    BY <1>3, <1>4
  <1> QED BY <1>3, <1>4, <1>5, AfterLine DEF after, new

(* A live #elif or #else after a block that was entered.                   *)
LEMMA RestLexer ==
  ASSUME BeforeLine, IInv, ~AtEnd, ~CurPPLexer.LexingRawMode,
         CurPPLexer.ConditionalStack # <<>>,
         line.op \in {"elif", "else"}, NEW fndelse \in BOOLEAN,
         fndelse <=> Last(CurPPLexer.ConditionalStack).FoundElse \/ line.op = "else"
  PROVE  /\ FollowsText(text, SkipRestOfConditional(fndelse))
         /\ SkipRestOfConditional(fndelse).file = CurPPLexer.file
  <1> DEFINE cs == CurPPLexer.ConditionalStack
             p == CurPPLexer.pos
             new == Append(CurPPLexer.env, macros)
             ci == [IfLoc |-> Last(cs).IfLoc, WasSkipping |-> FALSE,
                    FoundNonSkip |-> TRUE, FoundElse |-> fndelse]
             t == Append(Front(cs), ci)
             after == SkipRestOfConditional(fndelse)
             popped == popConditionalLevel(LineRead)
  <1>1. p \in Nat /\ ci \in CondInfo /\ Front(cs) \in Seq(CondInfo)
    <2>1. Last(cs) \in CondInfo /\ Front(cs) \in Seq(CondInfo)
      BY FrontLast DEF BeforeLine
    <2> QED BY <2>1 DEF BeforeLine, Reading, CondInfo
  <1>2. CurPPLexer.LexingRawMode = FALSE
    BY DEF BeforeLine
  <1>3. Reads(LineRead)
    BY LineReadReads
  <1>4. /\ popped \in Lexer
        /\ popped.file = CurPPLexer.file /\ popped.pos = p + 1 /\ popped.env = new
        /\ popped.ConditionalStack = Front(cs)
        /\ popped.MIOpt \in MIOptState
    BY <1>1, <1>3 DEF Reads, Lexer, popConditionalLevel
  <1>5. EnterTopLevelConditional(popped.MIOpt) \in MIOptState
    BY <1>4, MIOptType
  <1>6. ASSUME NEW lx \in {popped, TellMIOpt(popped, EnterTopLevelConditional(popped.MIOpt))}
        PROVE  /\ lx \in Lexer
               /\ lx.file = CurPPLexer.file /\ lx.pos = p + 1 /\ lx.env = new
               /\ lx.ConditionalStack = Front(cs)
    <2> DEFINE mi == EnterTopLevelConditional(popped.MIOpt)
    <2> HIDE DEF mi, popped, new
    <2>1. TellMIOpt(popped, mi) = [popped EXCEPT !.MIOpt = mi]
      BY DEF TellMIOpt
    <2>2. mi \in MIOptState
      BY <1>5 DEF mi
    <2>3. lx = popped \/ lx = TellMIOpt(popped, mi)
      BY <1>6 DEF mi
    <2> QED BY <1>4, <2>1, <2>2, <2>3 DEF Lexer
  <1>7. \E lx \in {popped, TellMIOpt(popped, EnterTopLevelConditional(popped.MIOpt))} :
          after = SkipExcludedConditionalBlock(lx, Last(cs).IfLoc, TRUE, fndelse)
    BY DEF SkipRestOfConditional, peekConditionalLevel
  <1> HIDE DEF popped, after, new
  <1>8. /\ after.file = CurPPLexer.file
        /\ after.pos = p + 1
        /\ after.env = new
        /\ after.ConditionalStack = t
        /\ after.LexingRawMode = TRUE
    BY <1>6, <1>7 DEF Lexer, SkipExcludedConditionalBlock, pushConditionalLevel
  <1>9. Tracks(text, p + 1, t) /\ Decides(text, p + 1, new, t, TRUE)
    <2>1. /\ ci.IfLoc = Last(cs).IfLoc /\ ~ci.WasSkipping /\ ci.FoundNonSkip
          /\ (ci.FoundElse <=> Last(cs).FoundElse \/ line.op = "else")
      OBVIOUS
    <2>2. Decides(text, p, CurPPLexer.env, cs, FALSE)
      BY <1>2 DEF BeforeLine
    <2> HIDE DEF ci
    <2> QED BY <1>1, <2>1, <2>2, NextGroup DEF BeforeLine, new
  <1> HIDE DEF t
  <1>10. Decides(text, p + 1, new, t, after.LexingRawMode)
    BY <1>8, <1>9
  <1> QED BY <1>8, <1>9, <1>10, AfterLine DEF after, new

(* An #endif, live or not.                                                 *)
LEMMA ClosingLexer ==
  ASSUME BeforeLine, IInv, ~AtEnd, line.op = "endif",
         CurPPLexer.ConditionalStack # <<>>,
         NEW lx, lx.pos = CurPPLexer.pos + 1,
         lx.env = Append(CurPPLexer.env, macros),
         lx.ConditionalStack = Front(CurPPLexer.ConditionalStack),
         lx.LexingRawMode = (IF CurPPLexer.LexingRawMode
                               THEN Last(CurPPLexer.ConditionalStack).WasSkipping
                               ELSE FALSE)
  PROVE  FollowsText(text, lx)
  <1> DEFINE cs == CurPPLexer.ConditionalStack
             p == CurPPLexer.pos
             new == Append(CurPPLexer.env, macros)
  <1>1. /\ Tracks(text, p + 1, Front(cs))
        /\ Decides(text, p, CurPPLexer.env, cs, FALSE)
             => Decides(text, p + 1, new, Front(cs), FALSE)
        /\ Decides(text, p, CurPPLexer.env, cs, TRUE)
             => Decides(text, p + 1, new, Front(cs), Last(cs).WasSkipping)
    BY ClosingLine DEF BeforeLine
  <1>2. CASE CurPPLexer.LexingRawMode = TRUE
    <2>1. Decides(text, p + 1, new, Front(cs), lx.LexingRawMode)
      BY <1>1, <1>2 DEF BeforeLine
    <2> QED BY <1>1, <2>1, AfterLine
  <1>3. CASE CurPPLexer.LexingRawMode = FALSE
    <2>1. Decides(text, p + 1, new, Front(cs), lx.LexingRawMode)
      BY <1>1, <1>3 DEF BeforeLine
    <2> QED BY <1>1, <2>1, AfterLine
  <1> QED BY <1>2, <1>3 DEF BeforeLine

(* An #else or #elif in the skipping loop.                                 *)
LEMMA NextGroupLexer ==
  ASSUME BeforeLine, line.op \in {"elif", "else"}, CurPPLexer.LexingRawMode,
         CurPPLexer.ConditionalStack # <<>>,
         NEW lx, Reads(lx), NEW ci \in CondInfo, NEW enter \in BOOLEAN,
         ci.IfLoc = top.IfLoc, ci.WasSkipping = top.WasSkipping,
         ci.FoundElse <=> top.FoundElse \/ line.op = "else",
         ci.FoundNonSkip <=> top.FoundNonSkip \/ enter,
         enter <=> ~top.WasSkipping /\ ~top.FoundNonSkip /\ HeadIsTrue(line, macros)
  PROVE  /\ FollowsText(text, [SetTop(lx, ci) EXCEPT !.LexingRawMode = ~enter])
         /\ [SetTop(lx, ci) EXCEPT !.LexingRawMode = ~enter].file = CurPPLexer.file
  <1> DEFINE cs == CurPPLexer.ConditionalStack
             p == CurPPLexer.pos
             new == Append(CurPPLexer.env, macros)
             t == Append(Front(cs), ci)
             after == [SetTop(lx, ci) EXCEPT !.LexingRawMode = ~enter]
  <1>1. Last(cs) \in CondInfo /\ top = Last(cs)
    BY FrontLast DEF BeforeLine, top, peekConditionalLevel
  <1>2. CurPPLexer.LexingRawMode = TRUE
    BY DEF BeforeLine
  <1>3. /\ after.file = CurPPLexer.file
        /\ after.pos = p + 1
        /\ after.env = new
        /\ after.ConditionalStack = t
        /\ after.LexingRawMode = ~enter
    BY DEF Reads, Lexer, SetTop
  <1>4. Decides(text, p, CurPPLexer.env, cs, TRUE)
    BY <1>2 DEF BeforeLine
  <1> DEFINE now == HeadIsTrue(line, macros)
  <1>5. /\ Tracks(text, p + 1, t)
        /\ Last(cs).WasSkipping /\ ci.WasSkipping
             => Decides(text, p + 1, new, t, TRUE)
        /\ ~Last(cs).WasSkipping /\ Last(cs).FoundNonSkip /\ ~ci.WasSkipping
             /\ ci.FoundNonSkip
             => Decides(text, p + 1, new, t, TRUE)
        /\ ~Last(cs).WasSkipping /\ ~Last(cs).FoundNonSkip /\ ~ci.WasSkipping
             /\ (ci.FoundNonSkip <=> now)
             => IF now THEN Decides(text, p + 1, new, t, FALSE)
                       ELSE Decides(text, p + 1, new, t, TRUE)
    BY <1>1, <1>4, NextGroup DEF BeforeLine
  <1> HIDE DEF after, t, new, now
  <1>6. Decides(text, p + 1, new, t, ~enter)
    <2>1. CASE top.WasSkipping
      BY <1>1, <1>5, <2>1
    <2>2. CASE ~top.WasSkipping /\ top.FoundNonSkip
      BY <1>1, <1>5, <2>2
    <2>3. CASE ~top.WasSkipping /\ ~top.FoundNonSkip
      <3>1. enter <=> now
        BY <2>3 DEF now
      <3>2. CASE now
        <4>1. enter = TRUE
          BY <3>1, <3>2
        <4> QED BY <1>1, <1>5, <2>3, <3>1, <3>2, <4>1
      <3>3. CASE ~now
        <4>1. enter = FALSE
          BY <3>1, <3>3
        <4> QED BY <1>1, <1>5, <2>3, <3>1, <3>3, <4>1
      <3> QED BY <3>2, <3>3
    <2> QED BY <2>1, <2>2, <2>3
  <1> QED BY <1>3, <1>5, <1>6, AfterLine DEF after, new

(* A conditional nested in a skipped block.                                *)
LEMMA NestedLexer ==
  ASSUME BeforeLine, line.op \in Openers, CurPPLexer.LexingRawMode,
         NEW lx, Reads(lx)
  PROVE  LET after == pushConditionalLevel(lx, lx.pos, TRUE, FALSE, FALSE)
         IN  FollowsText(text, after) /\ after.file = CurPPLexer.file
  <1> DEFINE cs == CurPPLexer.ConditionalStack
             p == CurPPLexer.pos
             new == Append(CurPPLexer.env, macros)
             ci == [IfLoc |-> p + 1, WasSkipping |-> TRUE,
                    FoundNonSkip |-> FALSE, FoundElse |-> FALSE]
             t == Append(cs, ci)
             after == pushConditionalLevel(lx, lx.pos, TRUE, FALSE, FALSE)
  <1>1. p \in Nat /\ ci \in CondInfo
    BY DEF BeforeLine, Reading, CondInfo
  <1>2. CurPPLexer.LexingRawMode = TRUE
    BY DEF BeforeLine
  <1>3. /\ after.file = CurPPLexer.file
        /\ after.pos = p + 1
        /\ after.env = new
        /\ after.ConditionalStack = t
        /\ after.LexingRawMode = TRUE
    BY <1>2 DEF Reads, Lexer, pushConditionalLevel
  <1>4. Tracks(text, p + 1, t) /\ Decides(text, p + 1, new, t, TRUE)
    <2>1. ci.IfLoc = p + 1 /\ ~ci.FoundElse /\ ci.WasSkipping
      OBVIOUS
    <2>2. Decides(text, p, CurPPLexer.env, cs, TRUE)
      BY <1>2 DEF BeforeLine
    <2> HIDE DEF ci
    <2> QED BY <1>1, <2>1, <2>2, OpeningLine DEF BeforeLine
  <1> HIDE DEF after, t, new
  <1>5. Decides(text, p + 1, new, t, after.LexingRawMode)
    BY <1>3, <1>4
  <1> QED BY <1>3, <1>4, <1>5, AfterLine DEF after, new

-----------------------------------------------------------------------------
(* The invariant                                                           *)

(* A step that changes only the current lexer.                             *)
LEMMA SetLexerFollows ==
  ASSUME AllFollowTheText, NEW lx, CurPPLexer' = lx,
         lx.file = CurPPLexer.file, FollowsText(text, lx),
         UNCHANGED <<content, IncludeMacroStack>>
  PROVE  AllFollowTheText'
  <1>1. text' = text
    BY DEF text
  <1>2. FollowsText(text', CurPPLexer')
    BY <1>1
  <1>3. \A i \in DOMAIN IncludeMacroStack' :
          FollowsText(content'[IncludeMacroStack'[i].file], IncludeMacroStack'[i])
    BY DEF AllFollowTheText
  <1> QED BY <1>2, <1>3 DEF AllFollowTheText

(* Lines that touch no conditional.                                        *)
LEMMA QuietFollows ==
  ASSUME IInv, AllFollowTheText,
         \/ LexToken \/ LexMacroUse \/ HandleOtherDirective \/ SkipLine
         \/ HandleDefineDirective \/ HandleUndefDirective \/ HandlePragmaOnce
  PROVE  AllFollowTheText'
  <1>1. /\ ~AtEnd
        /\ line.op \in {"token", "use", "other", "define", "undef", "include",
                        "import", "pragma_once"}
        /\ UNCHANGED <<content, IncludeMacroStack>>
    BY DEF LexToken, LexMacroUse, HandleOtherDirective, SkipLine,
           HandleDefineDirective, HandleUndefDirective, HandlePragmaOnce,
           Live, Skipping, SetLexer
  <1>2. BeforeLine /\ Reads(LineRead)
    BY <1>1, ALineToRead, LineReadReads
  <1>3. line.op \notin Openers \cup {"endif", "elif", "else"}
    BY <1>1 DEF Openers
  <1>4. PICK lx : CurPPLexer' = lx /\ Reads(lx)
    <2> DEFINE yes == hasMacroDefinition(line.macro, macros)
               expanded == IfExpanded(LineRead, yes)
    <2>1. CurPPLexer' = LineRead \/ CurPPLexer' = expanded
      BY DEF LexToken, LexMacroUse, HandleOtherDirective, SkipLine,
             HandleDefineDirective, HandleUndefDirective, HandlePragmaOnce, SetLexer
    <2> HIDE DEF yes
    <2>2. Reads(expanded)
      BY <1>2, ExpandedReads
    <2> QED BY <1>2, <2>1, <2>2
  <1>5. FollowsText(text, lx) /\ lx.file = CurPPLexer.file
    BY <1>2, <1>3, <1>4, QuietLexer DEF Reads
  <1> QED BY <1>1, <1>4, <1>5, SetLexerFollows

LEMMA IfdefFollows ==
  ASSUME IInv, AllFollowTheText, HandleIfdefDirective
  PROVE  AllFollowTheText'
  <1>1. /\ ~AtEnd /\ ~CurPPLexer.LexingRawMode /\ line.op \in {"ifdef", "ifndef"}
        /\ UNCHANGED <<content, IncludeMacroStack>>
    BY DEF HandleIfdefDirective, Live, SetLexer
  <1>2. BeforeLine /\ Reads(LineRead)
    BY <1>1, ALineToRead, LineReadReads
  <1>3. line.op \in Openers /\ line.macro \in Macros \cup {NoMacro}
    BY <1>1, <1>2 DEF BeforeLine, Line, Openers
  <1> DEFINE isIfndef == line.op = "ifndef"
             ReadAnyTokensBeforeDirective ==
               isIfndef => CurPPLexer.MIOpt.ReadAnyTokens
             told == IF ReadAnyTokensBeforeDirective
                       THEN EnterTopLevelConditional(LineRead.MIOpt)
                       ELSE EnterTopLevelIFNDEF(LineRead.MIOpt, line.macro)
             informed == IF depth = 0 THEN TellMIOpt(LineRead, told) ELSE LineRead
             enter == hasMacroDefinition(line.macro, macros) # isIfndef
  <1>4. Reads(informed)
    <2>1. LineRead.MIOpt \in MIOptState
      BY <1>2 DEF Reads, Lexer
    <2>2. told \in MIOptState
      BY <1>3, <2>1, MIOptType
    <2> HIDE DEF told
    <2> QED BY <1>2, <2>2, InformedReads
  <1>5. SetLexer(IF line.macro = NoMacro
                   THEN OpenConditional(LineRead, FALSE)
                   ELSE OpenConditional(informed, enter))
    <2>1. OpenConditional(LineRead, FALSE) =
            SkipExcludedConditionalBlock(LineRead, LineRead.pos, FALSE, FALSE)
      BY DEF OpenConditional
    <2> QED BY <2>1 DEF HandleIfdefDirective
  <1> HIDE DEF informed
  <1>6. CASE line.macro = NoMacro
    <2>1. FALSE <=> HeadIsTrue(line, macros)
      BY <1>1, <1>6 DEF HeadIsTrue
    <2>2. /\ FollowsText(text, OpenConditional(LineRead, FALSE))
          /\ OpenConditional(LineRead, FALSE).file = CurPPLexer.file
      BY <1>1, <1>2, <1>3, <2>1, OpeningLexer
    <2> QED BY <1>1, <1>5, <1>6, <2>2, SetLexerFollows DEF SetLexer
  <1>7. CASE line.macro # NoMacro
    <2>1. enter <=> HeadIsTrue(line, macros)
      BY <1>1, <1>7 DEF HeadIsTrue, hasMacroDefinition
    <2>2. enter \in BOOLEAN
      OBVIOUS
    <2> HIDE DEF enter
    <2>3. /\ FollowsText(text, OpenConditional(informed, enter))
          /\ OpenConditional(informed, enter).file = CurPPLexer.file
      BY <1>1, <1>2, <1>3, <1>4, <2>1, <2>2, OpeningLexer
    <2> QED BY <1>1, <1>5, <1>7, <2>3, SetLexerFollows DEF SetLexer
  <1> QED BY <1>6, <1>7

LEMMA IfFollows ==
  ASSUME IInv, AllFollowTheText, HandleIfDirective
  PROVE  AllFollowTheText'
  <1>1. /\ ~AtEnd /\ ~CurPPLexer.LexingRawMode /\ line.op = "if"
        /\ UNCHANGED <<content, IncludeMacroStack>>
    BY DEF HandleIfDirective, Live, SetLexer
  <1>2. BeforeLine /\ Reads(LineRead)
    BY <1>1, ALineToRead, LineReadReads
  <1>3. line.op \in Openers /\ line.cond \in Cond /\ macros \in Definitions
    BY <1>1, <1>2 DEF BeforeLine, Reading, Line, Openers
  <1> DEFINE result == EvaluateDirectiveExpression(line.cond, macros)
             read == IfExpanded(LineRead, result.expanded)
             told == IF CurPPLexer.MIOpt.ReadAnyTokens
                          \/ result.IfNDefMacro = NoMacro
                       THEN EnterTopLevelConditional(read.MIOpt)
                       ELSE EnterTopLevelIFNDEF(read.MIOpt, result.IfNDefMacro)
             informed == IF depth = 0 THEN TellMIOpt(read, told) ELSE read
             enter == result.ConditionalTrue
  <1>4. Reads(informed)
    <2>1. result.IfNDefMacro \in Macros \cup {NoMacro}
      BY <1>3, IfNDefMacroType
    <2>2. Reads(read)
      BY <1>2, ExpandedReads
    <2> HIDE DEF read, result
    <2>3. read.MIOpt \in MIOptState
      BY <2>2 DEF Reads, Lexer
    <2>4. told \in MIOptState
      BY <2>1, <2>3, MIOptType
    <2> HIDE DEF told
    <2> QED BY <2>2, <2>4, InformedReads
  <1>5. SetLexer(OpenConditional(informed, enter))
    BY DEF HandleIfDirective
  <1>6. enter = HeadIsTrue(line, macros)
    BY <1>1 DEF HeadIsTrue, EvaluateDirectiveExpression
  <1>7. enter \in BOOLEAN
    BY <1>2, <1>3, <1>6, HeadIsTrueType DEF BeforeLine
  <1> HIDE DEF informed, enter
  <1>8. /\ FollowsText(text, OpenConditional(informed, enter))
        /\ OpenConditional(informed, enter).file = CurPPLexer.file
    BY <1>1, <1>2, <1>3, <1>4, <1>6, <1>7, OpeningLexer
  <1> QED BY <1>1, <1>5, <1>8, SetLexerFollows DEF SetLexer

LEMMA EndifFollows ==
  ASSUME IInv, AllFollowTheText, HandleEndifDirective \/ SkipEndif
  PROVE  AllFollowTheText'
  <1> DEFINE cs == CurPPLexer.ConditionalStack
             popped == popConditionalLevel(LineRead)
  <1>1. /\ ~AtEnd /\ line.op = "endif"
        /\ UNCHANGED <<content, IncludeMacroStack>>
    BY DEF HandleEndifDirective, SkipEndif, Live, Skipping, SetLexer
  <1>2. BeforeLine /\ Reads(LineRead)
    BY <1>1, ALineToRead, LineReadReads
  <1>3. cs \in Seq(CondInfo) /\ CurPPLexer.LexingRawMode \in BOOLEAN
    BY <1>2 DEF BeforeLine
  <1>4. cs # <<>> => /\ popped \in Lexer /\ popped.file = CurPPLexer.file
                     /\ popped.pos = CurPPLexer.pos + 1
                     /\ popped.env = Append(CurPPLexer.env, macros)
                     /\ popped.ConditionalStack = Front(cs)
                     /\ popped.LexingRawMode = CurPPLexer.LexingRawMode
                     /\ popped.MIOpt \in MIOptState
    <2>1. cs # <<>> => Front(cs) \in Seq(CondInfo)
      BY <1>3, FrontLast
    <2> QED BY <1>2, <2>1 DEF Reads, Lexer, popConditionalLevel
  <1> HIDE DEF popped
  <1>5. CASE HandleEndifDirective
    <2>1. CurPPLexer.LexingRawMode = FALSE
      BY <1>3, <1>5 DEF HandleEndifDirective, Live
    <2>2. CASE depth = 0
      <3>1. CurPPLexer' = LineRead
        BY <1>5, <2>2 DEF HandleEndifDirective, SetLexer
      <3>2. cs = <<>>
        BY <1>3, <2>2, EmptySeq DEF depth
      <3>3. FollowsText(text, LineRead) /\ LineRead.file = CurPPLexer.file
        BY <1>1, <1>2, <3>2, QuietLexer DEF Reads, Openers
      <3> QED BY <1>1, <3>1, <3>3, SetLexerFollows
    <2>3. CASE depth > 0
      <3>1. cs # <<>> /\ depth \in Nat
        BY <1>3, <2>3 DEF depth
      <3> DEFINE told == TellMIOpt(popped, ExitTopLevelConditional(popped.MIOpt))
      <3>2. CurPPLexer' = IF depth = 1 THEN told ELSE popped
        <4>1. CASE depth = 1
          BY <1>5, <4>1 DEF HandleEndifDirective, SetLexer, popped
        <4>2. CASE depth > 1
          BY <1>5, <4>2 DEF HandleEndifDirective, SetLexer, popped
        <4> QED BY <2>3, <3>1, <4>1, <4>2
      <3>3. ASSUME NEW lx \in {popped, told}
            PROVE  /\ lx.file = CurPPLexer.file
                   /\ lx.pos = CurPPLexer.pos + 1
                   /\ lx.env = Append(CurPPLexer.env, macros)
                   /\ lx.ConditionalStack = Front(cs)
                   /\ lx.LexingRawMode = FALSE
        <4>1. CASE lx = popped
          BY <1>4, <2>1, <3>1, <4>1
        <4>2. CASE lx = told
          BY <1>4, <2>1, <3>1, <4>2 DEF TellMIOpt, Lexer
        <4> QED BY <3>3, <4>1, <4>2
      <3>4. CurPPLexer' \in {popped, told}
        BY <3>2
      <3> HIDE DEF told
      <3>5. FollowsText(text, CurPPLexer') /\ CurPPLexer'.file = CurPPLexer.file
        BY <1>1, <1>2, <2>1, <3>1, <3>3, <3>4, ClosingLexer
      <3> QED BY <1>1, <3>5, SetLexerFollows
    <2> QED BY <1>3, <2>2, <2>3 DEF depth
  <1>6. CASE SkipEndif
    <2>1. CurPPLexer.LexingRawMode = TRUE
      BY <1>3, <1>6 DEF SkipEndif, Skipping
    <2>2. cs # <<>>
      BY <2>1, LexersGood, SkipTop
    <2> DEFINE lx == [popped EXCEPT !.LexingRawMode = top.WasSkipping]
    <2>3. CurPPLexer' = lx
      BY <1>6 DEF SkipEndif, SetLexer, popped
    <2>4. /\ lx.file = CurPPLexer.file
          /\ lx.pos = CurPPLexer.pos + 1
          /\ lx.env = Append(CurPPLexer.env, macros)
          /\ lx.ConditionalStack = Front(cs)
          /\ lx.LexingRawMode = Last(cs).WasSkipping
      BY <1>4, <2>2 DEF Lexer, top, peekConditionalLevel
    <2> HIDE DEF lx
    <2>5. FollowsText(text, lx)
      BY <1>1, <1>2, <2>1, <2>2, <2>4, ClosingLexer
    <2> QED BY <1>1, <2>3, <2>4, <2>5, SetLexerFollows
  <1> QED BY <1>5, <1>6

LEMMA ElseElifFollows ==
  ASSUME IInv, AllFollowTheText, HandleElseDirective \/ HandleElifDirective
  PROVE  AllFollowTheText'
  <1> DEFINE cs == CurPPLexer.ConditionalStack
             fndelse == line.op = "else" \/ Last(cs).FoundElse
  <1>1. /\ ~AtEnd /\ ~CurPPLexer.LexingRawMode /\ line.op \in {"elif", "else"}
        /\ UNCHANGED <<content, IncludeMacroStack>>
    BY DEF HandleElseDirective, HandleElifDirective, Live, SetLexer
  <1>2. BeforeLine /\ Reads(LineRead)
    BY <1>1, ALineToRead, LineReadReads
  <1>3. cs \in Seq(CondInfo)
    BY <1>2 DEF BeforeLine
  <1>4. CASE depth = 0
    <2>1. CurPPLexer' = LineRead
      BY <1>4 DEF HandleElseDirective, HandleElifDirective, SetLexer
    <2>2. cs = <<>>
      BY <1>3, <1>4, EmptySeq DEF depth
    <2>3. FollowsText(text, LineRead) /\ LineRead.file = CurPPLexer.file
      BY <1>1, <1>2, <2>2, QuietLexer DEF Reads, Openers
    <2> QED BY <1>1, <2>1, <2>3, SetLexerFollows
  <1>5. CASE depth # 0
    <2>1. cs # <<>>
      BY <1>5 DEF depth
    <2>2. Last(cs) \in CondInfo
      BY <1>3, <2>1, FrontLast
    <2>3. CurPPLexer' = SkipRestOfConditional(fndelse)
      <3>1. CASE HandleElseDirective
        <4>1. fndelse = TRUE
          BY <3>1 DEF HandleElseDirective, Live
        <4> QED BY <1>5, <3>1, <4>1 DEF HandleElseDirective, SetLexer
      <3>2. CASE HandleElifDirective
        <4>1. fndelse = Last(cs).FoundElse
          BY <2>2, <3>2 DEF HandleElifDirective, Live, CondInfo
        <4> QED BY <1>5, <3>2, <4>1
                DEF HandleElifDirective, SetLexer, peekConditionalLevel
      <3> QED BY <3>1, <3>2
    <2>4. fndelse \in BOOLEAN /\ (fndelse <=> Last(cs).FoundElse \/ line.op = "else")
      OBVIOUS
    <2> HIDE DEF fndelse
    <2>5. /\ FollowsText(text, SkipRestOfConditional(fndelse))
          /\ SkipRestOfConditional(fndelse).file = CurPPLexer.file
      BY <1>1, <1>2, <2>1, <2>4, RestLexer
    <2> QED BY <1>1, <2>3, <2>5, SetLexerFollows
  <1> QED BY <1>4, <1>5

LEMMA SkipElseElifFollows ==
  ASSUME IInv, AllFollowTheText, SkipElse \/ SkipElif
  PROVE  AllFollowTheText'
  <1> DEFINE cs == CurPPLexer.ConditionalStack
  <1>1. /\ ~AtEnd /\ CurPPLexer.LexingRawMode /\ line.op \in {"elif", "else"}
        /\ UNCHANGED <<content, IncludeMacroStack>>
    BY DEF SkipElse, SkipElif, Skipping, SetLexer
  <1>2. BeforeLine /\ Reads(LineRead)
    BY <1>1, ALineToRead, LineReadReads
  <1>3. cs # <<>> /\ top \in CondInfo
    BY <1>1, LexersGood, SkipTop DEF top
  <1>4. top.FoundNonSkip \in BOOLEAN /\ top.WasSkipping \in BOOLEAN
        /\ top.FoundElse \in BOOLEAN
    BY <1>3 DEF CondInfo
  <1>5. CASE SkipElse
    <2> DEFINE enter == ~top.WasSkipping /\ ~top.FoundNonSkip
               ci == [top EXCEPT !.FoundElse = TRUE, !.FoundNonSkip = @ \/ enter]
    <2>1. line.op = "else" /\ HeadIsTrue(line, macros)
      BY <1>5 DEF SkipElse, Skipping, HeadIsTrue
    <2>2. CurPPLexer' = [SetTop(LineRead, ci) EXCEPT !.LexingRawMode = ~enter]
      BY <1>5 DEF SkipElse, SetLexer
    <2>3. enter \in BOOLEAN
      OBVIOUS
    <2>4. /\ ci \in CondInfo /\ ci.IfLoc = top.IfLoc
          /\ ci.WasSkipping = top.WasSkipping /\ ci.FoundElse
          /\ ci.FoundNonSkip <=> top.FoundNonSkip \/ enter
      BY <1>3, <1>4 DEF CondInfo
    <2>5. enter <=> ~top.WasSkipping /\ ~top.FoundNonSkip /\ HeadIsTrue(line, macros)
      BY <2>1
    <2> DEFINE after == [SetTop(LineRead, ci) EXCEPT !.LexingRawMode = ~enter]
    <2> HIDE DEF enter, ci
    <2>6. FollowsText(text, after) /\ after.file = CurPPLexer.file
      BY <1>1, <1>2, <1>3, <2>1, <2>3, <2>4, <2>5, NextGroupLexer
    <2> QED BY <1>1, <2>2, <2>6, SetLexerFollows
  <1>6. CASE SkipElif
    <2> DEFINE examined == ~top.WasSkipping /\ ~top.FoundNonSkip
               result == EvaluateDirectiveExpression(line.cond, macros)
               enter == examined /\ result.ConditionalTrue
               lx == IfExpanded(LineRead, examined /\ result.expanded)
               ci == [top EXCEPT !.FoundNonSkip = @ \/ enter]
    <2>1. line.op = "elif"
      BY <1>6 DEF SkipElif, Skipping
    <2>2. CurPPLexer' = [SetTop(lx, ci) EXCEPT !.LexingRawMode = ~enter]
      BY <1>6 DEF SkipElif, SetLexer
    <2>3. enter \in BOOLEAN
      OBVIOUS
    <2>4. enter <=> ~top.WasSkipping /\ ~top.FoundNonSkip /\ HeadIsTrue(line, macros)
      BY <2>1 DEF HeadIsTrue, EvaluateDirectiveExpression
    <2>5. Reads(lx)
      BY <1>2, ExpandedReads
    <2> HIDE DEF examined, result, lx
    <2>6. /\ ci \in CondInfo /\ ci.IfLoc = top.IfLoc
          /\ ci.WasSkipping = top.WasSkipping /\ ci.FoundElse = top.FoundElse
          /\ ci.FoundNonSkip <=> top.FoundNonSkip \/ enter
      BY <1>3, <1>4 DEF CondInfo
    <2> DEFINE after == [SetTop(lx, ci) EXCEPT !.LexingRawMode = ~enter]
    <2> HIDE DEF enter, ci
    <2>7. FollowsText(text, after) /\ after.file = CurPPLexer.file
      BY <1>1, <1>2, <1>3, <2>1, <2>3, <2>4, <2>5, <2>6, NextGroupLexer
    <2> QED BY <1>1, <2>2, <2>7, SetLexerFollows
  <1> QED BY <1>5, <1>6

LEMMA SkipNestedIfFollows ==
  ASSUME IInv, AllFollowTheText, SkipNestedIf
  PROVE  AllFollowTheText'
  <1>1. /\ ~AtEnd /\ CurPPLexer.LexingRawMode /\ line.op \in Openers
        /\ UNCHANGED <<content, IncludeMacroStack>>
        /\ CurPPLexer' = pushConditionalLevel(LineRead, LineRead.pos, TRUE, FALSE, FALSE)
    BY DEF SkipNestedIf, Skipping, SetLexer, Openers
  <1>2. BeforeLine /\ Reads(LineRead)
    BY <1>1, ALineToRead, LineReadReads
  <1> QED BY <1>1, <1>2, NestedLexer, SetLexerFollows

(* A lexer at the start of its buffer.                                     *)
LEMMA NewLexerFollows ==
  ASSUME NEW c, NEW f
  PROVE  FollowsText(c, NewLexer(f))
  <1>1. EnclosingOpeners(c, 0 + 1) = {}
    BY DEF EnclosingOpeners
  <1>2. DOMAIN <<>> = {}
    BY EmptySeq
  <1>3. Tracks(c, 0, <<>>) /\ Decides(c, 0, <<>>, <<>>, FALSE)
    BY <1>1, <1>2 DEF Tracks, Decides
  <1>4. /\ NewLexer(f).pos = 0 /\ NewLexer(f).env = <<>>
        /\ NewLexer(f).ConditionalStack = <<>> /\ NewLexer(f).LexingRawMode = FALSE
    BY DEF NewLexer
  <1> QED BY <1>3, <1>4 DEF FollowsText

(* A lexer at the end of its buffer has no line to read.                   *)
LEMMA AtEndFollows ==
  ASSUME IInv, AtEnd, NEW lx, lx.pos = CurPPLexer.pos
  PROVE  FollowsText(text, lx)
  <1>1. CurPPLexer.pos \in Nat
    BY LexersGood DEF GoodLexer, Lexer
  <1> QED BY <1>1 DEF FollowsText, AtEnd

LEMMA SkipEndOfFileFollows ==
  ASSUME IInv, AllFollowTheText, SkipEndOfFile
  PROVE  AllFollowTheText'
  <1> DEFINE lx == [CurPPLexer EXCEPT !.ConditionalStack = <<>>, !.LexingRawMode = FALSE]
  <1>1. AtEnd /\ CurPPLexer' = lx /\ UNCHANGED <<content, IncludeMacroStack>>
    BY DEF SkipEndOfFile, SetLexer
  <1>2. CurPPLexer \in Lexer
    BY LexersGood DEF GoodLexer
  <1>3. lx.pos = CurPPLexer.pos /\ lx.file = CurPPLexer.file
    BY <1>2 DEF Lexer
  <1> HIDE DEF lx
  <1> QED BY <1>1, <1>3, AtEndFollows, SetLexerFollows

LEMMA IncludeFollows ==
  ASSUME IInv, AllFollowTheText, NEW isImport \in BOOLEAN,
         HandleIncludeDirective(isImport)
  PROVE  AllFollowTheText'
  <1>1. /\ ~AtEnd /\ line.op \in {"include", "import"} /\ content' = content
    BY DEF HandleIncludeDirective, Live, SetLexer
  <1>2. BeforeLine /\ Reads(LineRead)
    BY <1>1, ALineToRead, LineReadReads
  <1>3. FollowsText(text, LineRead) /\ LineRead.file = CurPPLexer.file
    BY <1>1, <1>2, QuietLexer DEF Reads, Openers
  <1>4. CASE CurPPLexer' = LineRead /\ IncludeMacroStack' = IncludeMacroStack
    BY <1>1, <1>3, <1>4, SetLexerFollows
  <1>5. CASE EnterSourceFile(line.file, LineRead)
    <2>1. IncludeMacroStack \in Seq(Lexer) /\ LineRead \in Lexer
      BY <1>2 DEF IInv, TypeOK, Reads
    <2>2. /\ IncludeMacroStack' = Append(IncludeMacroStack, LineRead)
          /\ CurPPLexer' = NewLexer(line.file)
      BY <1>5 DEF EnterSourceFile
    <2>3. FollowsText(text', CurPPLexer')
      BY <2>2, NewLexerFollows
    <2>4. /\ DOMAIN IncludeMacroStack' = 1..Len(IncludeMacroStack) + 1
          /\ DOMAIN IncludeMacroStack = 1..Len(IncludeMacroStack)
          /\ \A i \in 1..Len(IncludeMacroStack) :
               IncludeMacroStack'[i] = IncludeMacroStack[i]
          /\ IncludeMacroStack'[Len(IncludeMacroStack) + 1] = LineRead
          /\ Len(IncludeMacroStack) \in Nat
      BY <2>1, <2>2, AppendFacts
    <2>5. ASSUME NEW i \in DOMAIN IncludeMacroStack'
          PROVE  FollowsText(content'[IncludeMacroStack'[i].file], IncludeMacroStack'[i])
      <3>1. CASE i \in DOMAIN IncludeMacroStack
        BY <1>1, <2>4, <3>1 DEF AllFollowTheText
      <3>2. CASE i = Len(IncludeMacroStack) + 1
        <4>1. content'[IncludeMacroStack'[i].file] = text
          BY <1>1, <1>3, <2>4, <3>2 DEF text
        <4> QED BY <1>3, <2>4, <3>2, <4>1
      <3> QED BY <2>4, <3>1, <3>2
    <2> QED BY <2>3, <2>5 DEF AllFollowTheText
  <1> QED BY <1>4, <1>5 DEF HandleIncludeDirective, SetLexer

LEMMA EndOfFileFollows ==
  ASSUME IInv, AllFollowTheText, HandleEndOfFile
  PROVE  AllFollowTheText'
  <1>1. AtEnd /\ content' = content
    BY DEF HandleEndOfFile
  <1>2. CASE IncludeMacroStack # <<>>
    <2>1. /\ CurPPLexer' = Last(IncludeMacroStack)
          /\ IncludeMacroStack' = Front(IncludeMacroStack)
      BY <1>2 DEF HandleEndOfFile
    <2> DEFINE n == Len(IncludeMacroStack)
    <2>2. IncludeMacroStack \in Seq(Lexer) /\ n \in Nat
      BY DEF IInv, TypeOK
    <2>3. /\ Front(IncludeMacroStack) \in Seq(Lexer)
          /\ Len(Front(IncludeMacroStack)) = n - 1
          /\ \A i \in 1..n - 1 : Front(IncludeMacroStack)[i] = IncludeMacroStack[i]
      BY <1>2, <2>2, FrontLast
    <2>4. n # 0
      BY <1>2, <2>2, EmptySeq
    <2>5. /\ Last(IncludeMacroStack) = IncludeMacroStack[n]
          /\ n \in DOMAIN IncludeMacroStack
          /\ DOMAIN IncludeMacroStack' = 1..n - 1
          /\ \A i \in 1..n - 1 : /\ IncludeMacroStack'[i] = IncludeMacroStack[i]
                                 /\ i \in DOMAIN IncludeMacroStack
      BY <2>1, <2>2, <2>3, <2>4 DEF Last
    <2>6. FollowsText(text', CurPPLexer')
      <3>1. text' = content[IncludeMacroStack[n].file]
        BY <1>1, <2>1, <2>5 DEF text
      <3> QED BY <2>1, <2>5, <3>1 DEF AllFollowTheText
    <2>7. \A i \in DOMAIN IncludeMacroStack' :
            FollowsText(content'[IncludeMacroStack'[i].file], IncludeMacroStack'[i])
      BY <1>1, <2>5 DEF AllFollowTheText
    <2> QED BY <2>6, <2>7 DEF AllFollowTheText
  <1>3. CASE IncludeMacroStack = <<>>
    <2> DEFINE lx == [CurPPLexer EXCEPT !.ConditionalStack = <<>>]
    <2>1. CurPPLexer' = lx /\ UNCHANGED IncludeMacroStack
      BY <1>3 DEF HandleEndOfFile
    <2>2. CurPPLexer \in Lexer
      BY LexersGood DEF GoodLexer
    <2>3. lx.pos = CurPPLexer.pos /\ lx.file = CurPPLexer.file
      BY <2>2 DEF Lexer
    <2> HIDE DEF lx
    <2> QED BY <1>1, <2>1, <2>3, AtEndFollows, SetLexerFollows
  <1> QED BY <1>2, <1>3

LEMMA NextFollows ==
  ASSUME IInv, AllFollowTheText, [Next]_vars
  PROVE  AllFollowTheText'
  <1>1. CASE LexToken \/ LexMacroUse \/ HandleOtherDirective \/ SkipLine
             \/ HandleDefineDirective \/ HandleUndefDirective \/ HandlePragmaOnce
    BY <1>1, QuietFollows
  <1>2. CASE HandleIfdefDirective
    BY <1>2, IfdefFollows
  <1>3. CASE HandleIfDirective
    BY <1>3, IfFollows
  <1>4. CASE HandleEndifDirective \/ SkipEndif
    BY <1>4, EndifFollows
  <1>5. CASE HandleElseDirective \/ HandleElifDirective
    BY <1>5, ElseElifFollows
  <1>6. CASE SkipElse \/ SkipElif
    BY <1>6, SkipElseElifFollows
  <1>7. CASE SkipNestedIf
    BY <1>7, SkipNestedIfFollows
  <1>8. CASE SkipEndOfFile
    BY <1>8, SkipEndOfFileFollows
  <1>9. CASE HandleIncludeDirective(FALSE) \/ HandleImportDirective
    BY <1>9, IncludeFollows DEF HandleImportDirective
  <1>10. CASE HandleEndOfFile
    BY <1>10, EndOfFileFollows
  <1>11. CASE UNCHANGED vars
    <2>1. text' = text /\ CurPPLexer' = CurPPLexer /\ content' = content
          /\ IncludeMacroStack' = IncludeMacroStack
      BY <1>11 DEF vars, text
    <2>2. FollowsText(text', CurPPLexer')
      BY <2>1 DEF AllFollowTheText
    <2>3. \A i \in DOMAIN IncludeMacroStack' :
            FollowsText(content'[IncludeMacroStack'[i].file], IncludeMacroStack'[i])
      BY <2>1 DEF AllFollowTheText
    <2> QED BY <2>2, <2>3 DEF AllFollowTheText
  <1> QED BY <1>1, <1>2, <1>3, <1>4, <1>5, <1>6, <1>7, <1>8, <1>9, <1>10, <1>11
          DEF Next, Terminated

(* The property follows: the decisions recorded on the stack are those of  *)
(* the text.                                                               *)
LEMMA FollowsGivesProperty ==
  ASSUME IInv, AllFollowTheText
  PROVE  SkippingFollowsTheText
  <1> DEFINE cs == CurPPLexer.ConditionalStack
             p == CurPPLexer.pos
             raw == CurPPLexer.LexingRawMode
             env == CurPPLexer.env
  <1>1. ASSUME ~AtEnd
        PROVE  raw = ~IsActive(text, env, p + 1)
    <2>1. BeforeLine
      BY <1>1, ALineToRead
    <2>2. /\ Tracks(text, p, cs) /\ Decides(text, p, env, cs, raw)
          /\ raw \in BOOLEAN
      BY <2>1 DEF BeforeLine
    <2>3. IsActive(text, env, p + 1) <=>
            \A o \in EnclosingOpeners(text, p + 1) : Current(text, env, o, p)
      BY DEF IsActive, Current
    <2>4. CASE raw = TRUE
      <3>1. PICK k \in DOMAIN cs : Passed(text, env, p, cs[k])
        BY <2>2, <2>4 DEF Decides
      <3>2. cs[k].IfLoc \in EnclosingOpeners(text, p + 1)
            /\ ~Current(text, env, cs[k].IfLoc, p)
        BY <2>2, <3>1 DEF Tracks, Passed
      <3>3. ~IsActive(text, env, p + 1)
        BY <2>3, <3>2
      <3> QED BY <2>4, <3>3
    <2>5. CASE raw = FALSE
      <3>1. \A k \in DOMAIN cs : Chosen(text, env, p, cs[k])
        BY <2>2, <2>5 DEF Decides
      <3>2. \A o \in EnclosingOpeners(text, p + 1) : Current(text, env, o, p)
        BY <2>2, <3>1 DEF Tracks, Chosen
      <3>3. IsActive(text, env, p + 1)
        BY <2>3, <3>2
      <3> QED BY <2>5, <3>3
    <2> QED BY <2>2, <2>4, <2>5
  <1>2. ASSUME ~AtEnd
        PROVE  /\ {cs[k].IfLoc : k \in DOMAIN cs} = EnclosingOpeners(text, p + 1)
               /\ \A k \in DOMAIN cs :
                    /\ k > 1 => cs[k - 1].IfLoc < cs[k].IfLoc
                    /\ cs[k].FoundElse =
                         \E j \in GroupHeads(text, cs[k].IfLoc, p + 1) :
                           text[j].op = "else"
    <2>1. BeforeLine
      BY <1>2, ALineToRead
    <2>2. Tracks(text, p, cs) /\ cs \in Seq(CondInfo)
      BY <2>1 DEF BeforeLine
    <2>3. {cs[k].IfLoc : k \in DOMAIN cs} = EnclosingOpeners(text, p + 1)
      BY <2>2 DEF Tracks
    <2>4. ASSUME NEW k \in DOMAIN cs, k > 1
          PROVE  cs[k - 1].IfLoc < cs[k].IfLoc
      <3>1. k - 1 \in DOMAIN cs /\ k - 1 < k
        BY <2>2, <2>4
      <3> QED BY <2>2, <3>1 DEF Tracks
    <2>5. ASSUME NEW k \in DOMAIN cs
          PROVE  cs[k].FoundElse = \E j \in GroupHeads(text, cs[k].IfLoc, p + 1) :
                                     text[j].op = "else"
      <3>0. cs[k] \in CondInfo
        BY <2>2
      <3>1. cs[k].FoundElse \in BOOLEAN
        BY <3>0 DEF CondInfo
      <3>2. cs[k].FoundElse <=> HasElse(text, cs[k].IfLoc, p)
        BY <2>2 DEF Tracks
      <3> QED BY <3>1, <3>2 DEF HasElse
    <2> QED BY <2>3, <2>4, <2>5
  <1> QED BY <1>1, <1>2 DEF SkippingFollowsTheText, SkipsExactlyTheExcludedLines,
                            StackMatchesOpenConditionals

(* The live handlers and the skipping loop select exactly the groups that  *)
(* the text selects, and the conditional stack is the list of the open #if *)
(* lines, for every text with any mix of nested, stray and repeated        *)
(* #if, #elif, #else and #endif lines.                                     *)
THEOREM SkippingFollowsTheTextCorrect == Spec => []SkippingFollowsTheText
  <1> DEFINE Inv == IInv /\ content \in Contents /\ AllFollowTheText
  <1>1. Init => Inv
    <2> SUFFICES ASSUME Init PROVE Inv
      OBVIOUS
    <2>1. IInv /\ content \in Contents
      BY InitInv DEF Init
    <2>2. FollowsText(text, CurPPLexer)
      BY NewLexerFollows DEF Init
    <2>3. \A i \in DOMAIN IncludeMacroStack :
            FollowsText(content[IncludeMacroStack[i].file], IncludeMacroStack[i])
      <3> TAKE i \in DOMAIN IncludeMacroStack
      <3>1. IncludeMacroStack[i] = NewLexer(MainFile)
        BY DEF Init
      <3> QED BY <3>1, NewLexerFollows
    <2> QED BY <2>1, <2>2, <2>3 DEF AllFollowTheText
  <1>2. Inv /\ [Next]_vars => Inv'
    BY NextInv, NextFollows
  <1>3. Inv => SkippingFollowsTheText
    BY FollowsGivesProperty
  <1> QED BY <1>1, <1>2, <1>3, PTL DEF Spec

-----------------------------------------------------------------------------
(* The controlling macro                                                   *)

(* A line that is not entered while m is defined.                          *)
Guards(l, m) ==
  \/ l.op = "ifndef" /\ l.macro = m
  \/ l.op = "if" /\ l.cond.op = "notdefined" /\ l.cond.macro = m

(* Up to line p everything with an effect is in the section that begins on *)
(* the first line.                                                         *)
WrappedSoFar(c, p) == \A i \in 1..p : HasEffect(c[i]) => Encloses(c, 1, i)

(* What MIOpt knows when it holds a macro: the first line tests it, and if *)
(* no token was read since its #endif then nothing is outside its section. *)
Known(c, p, mi) ==
  mi.TheMacro # NoMacro =>
    /\ p >= 1
    /\ Guards(c[1], mi.TheMacro)
    /\ GroupHeads(c, 1, p + 1) = {1}
    /\ ~mi.ReadAnyTokens => WrappedSoFar(c, p)

(* Inside the section of the first line; and behind it, where no line that *)
(* is read can be in a top-level section that MIOpt was not told of.       *)
InGuard(c, p, cs) == cs # <<>> /\ cs[1].IfLoc = 1 /\ WrappedSoFar(c, p)

BehindGuard(cs, raw) ==
  cs = <<>> \/ (raw /\ \A j \in DOMAIN cs : j > 1 => cs[j].WasSkipping)

Position(c, p, mi, cs, raw) ==
  /\ mi.TheMacro = NoMacro /\ ~mi.ReadAnyTokens => p = 0
  /\ mi.TheMacro # NoMacro => InGuard(c, p, cs) \/ BehindGuard(cs, raw)

GuardKnown(c, lx) ==
  ~HasTopLevelElse(c) =>
    /\ Known(c, lx.pos, lx.MIOpt)
    /\ lx.pos < Len(c) =>
         Position(c, lx.pos, lx.MIOpt, lx.ConditionalStack, lx.LexingRawMode)

AllGuardsKnown ==
  /\ GuardKnown(text, CurPPLexer)
  /\ \A i \in DOMAIN IncludeMacroStack :
       GuardKnown(content[IncludeMacroStack[i].file], IncludeMacroStack[i])

(* A macro known at the end of a text makes the text have no effect.       *)
LEMMA KnownIsSound ==
  ASSUME NEW c \in Seq(Line), NEW m \in Macros, Len(c) >= 1,
         Guards(c[1], m), GroupHeads(c, 1, Len(c) + 1) = {1},
         WrappedSoFar(c, Len(c)),
         NEW defs \in Definitions, hasMacroDefinition(m, defs)
  PROVE  ~IncludeHasEffect(c, defs)
  <1> DEFINE env == [j \in DOMAIN c |-> defs]
  <1>0. Len(c) \in Nat /\ DOMAIN c = 1..Len(c) /\ 1 \in DOMAIN c
    OBVIOUS
  <1>1. SUFFICES ASSUME NEW i \in DOMAIN c, HasEffect(c[i]), IsActive(c, env, i)
                 PROVE  FALSE
    BY DEF IncludeHasEffect
  <1>2. Encloses(c, 1, i)
    BY <1>0, <1>1 DEF WrappedSoFar
  <1>3. c[1].op \in Openers
    BY DEF Guards, Openers
  <1>4. i # 1
    BY <1>1, <1>3 DEF HasEffect
  <1>5. 1 \in EnclosingOpeners(c, i)
    BY <1>0, <1>2, <1>4 DEF EnclosingOpeners
  <1>6. GroupHeads(c, 1, i) = {1}
    <2>1. 1 + 1..i - 1 \subseteq 1 + 1..(Len(c) + 1) - 1
      BY <1>0
    <2>2. GroupHeads(c, 1, i) \subseteq GroupHeads(c, 1, Len(c) + 1)
      BY <2>1 DEF GroupHeads
    <2>3. 1 \in GroupHeads(c, 1, i)
      BY DEF GroupHeads
    <2> QED BY <2>2, <2>3
  <1>7. Max({1}) = 1
    <2>1. Max({} \cup {0 + 1}) = 0 + 1
      BY MaxAdded
    <2>2. {} \cup {0 + 1} = {1} /\ 0 + 1 = 1
      OBVIOUS
    <2> QED BY <2>1, <2>2
  <1>8. HeadIsTrue(c[1], env[1]) = TRUE
    <2>1. \A j \in GroupHeads(c, 1, i) :
            HeadIsTrue(c[j], env[j]) = (j = Max(GroupHeads(c, 1, i)))
      BY <1>1, <1>5 DEF IsActive
    <2> QED BY <1>6, <1>7, <2>1
  <1>9. env[1] = defs
    BY <1>0
  <1>10. HeadIsTrue(c[1], defs) = FALSE
    <2>1. CASE c[1].op = "ifndef" /\ c[1].macro = m
      BY <2>1 DEF HeadIsTrue
    <2>2. CASE c[1].op = "if" /\ c[1].cond.op = "notdefined" /\ c[1].cond.macro = m
      <3>1. HeadIsTrue(c[1], defs) = Value(Expansion(c[1].cond, defs), defs)
        BY <2>2 DEF HeadIsTrue
      <3>2. Expansion(c[1].cond, defs) = c[1].cond
        BY <2>2 DEF Expansion
      <3>3. Value(c[1].cond, defs) = ~hasMacroDefinition(c[1].cond.macro, defs)
        BY <2>2 DEF Value
      <3> QED BY <2>2, <3>1, <3>2, <3>3
    <2> QED BY <2>1, <2>2 DEF Guards
  <1> QED BY <1>8, <1>9, <1>10

(* Without a top-level #else the section of the first line has one group.  *)
LEMMA NoHeadOfFirst ==
  ASSUME NEW c \in Seq(Line), NEW p \in Nat, p < Len(c), p >= 1,
         NEW cs \in Seq(CondInfo), Tracks(c, p, cs), ~HasTopLevelElse(c)
  PROVE  GroupHeads(c, 1, (p + 1) + 1) = GroupHeads(c, 1, p + 1)
  <1>1. SUFFICES ASSUME IsHeadOf(c, 1, p) PROVE FALSE
    <2>1. 1 \in 1..p /\ (p + 1) + 1 = p + 2
      OBVIOUS
    <2>2. GroupHeads(c, 1, p + 2) = GroupHeads(c, 1, p + 1)
            \cup (IF IsHeadOf(c, 1, p) THEN {p + 1} ELSE {})
      BY <2>1, HeadsStep
    <2> QED BY <2>1, <2>2
  <1>2. 1 \in EnclosingOpeners(c, p + 1)
    BY <1>1 DEF IsHeadOf, EnclosingOpeners
  <1>3. PICK k \in DOMAIN cs : cs[k].IfLoc = 1
    BY <1>2 DEF Tracks
  <1>4. k \in 1..Len(cs) /\ Len(cs) \in Nat /\ DOMAIN cs = 1..Len(cs)
    BY <1>3
  <1>5. Len(cs) - k + 1 = 1
    BY <1>1, <1>3 DEF IsHeadOf, Tracks
  <1>6. k = 1
    <2>1. CASE k > 1
      <3>1. 1 \in DOMAIN cs
        BY <1>4, <2>1
      <3>2. cs[1].IfLoc < 1
        BY <1>3, <2>1, <3>1 DEF Tracks
      <3>3. cs[1].IfLoc \in 1..p
        BY <3>1, <1>4, StackEntries DEF TracksEntry
      <3> QED BY <3>2, <3>3
    <2> QED BY <1>4, <2>1
  <1>7. DOMAIN cs = {1}
    BY <1>4, <1>5, <1>6
  <1>8. EnclosingOpeners(c, p + 1) = {1}
    BY <1>2, <1>3, <1>6, <1>7 DEF Tracks
  <1>9. Cardinality({1}) = 1
    BY FS_Singleton
  <1>10. p + 1 \in DOMAIN c
    OBVIOUS
  <1> QED BY <1>1, <1>8, <1>9, <1>10 DEF HasTopLevelElse, IsHeadOf

(* Neither is there one when a single conditional is open.                 *)
LEMMA NoTopLevelElse ==
  ASSUME NEW c \in Seq(Line), NEW p \in Nat, p < Len(c),
         NEW cs \in Seq(CondInfo), Tracks(c, p, cs), ~HasTopLevelElse(c),
         c[p + 1].op \in {"elif", "else"}
  PROVE  Len(cs) # 1
  <1>1. SUFFICES ASSUME Len(cs) = 1 PROVE FALSE
    OBVIOUS
  <1>2. DOMAIN cs = {1}
    BY <1>1
  <1>3. EnclosingOpeners(c, p + 1) = {cs[1].IfLoc}
    BY <1>2 DEF Tracks
  <1>4. Cardinality({cs[1].IfLoc}) = 1
    BY FS_Singleton
  <1>5. p + 1 \in DOMAIN c
    OBVIOUS
  <1> QED BY <1>3, <1>4, <1>5 DEF HasTopLevelElse

(* The current lexer before the line, in a text without a top-level #else. *)
BeforeGuardedLine ==
  /\ BeforeLine
  /\ CurPPLexer.MIOpt \in MIOptState
  /\ ~HasTopLevelElse(text)
  /\ Known(text, CurPPLexer.pos, CurPPLexer.MIOpt)
  /\ Position(text, CurPPLexer.pos, CurPPLexer.MIOpt,
              CurPPLexer.ConditionalStack, CurPPLexer.LexingRawMode)

LEMMA AGuardedLineToRead ==
  ASSUME IInv, AllFollowTheText, AllGuardsKnown, ~AtEnd, ~HasTopLevelElse(text)
  PROVE  BeforeGuardedLine
  <1>1. BeforeLine
    BY ALineToRead
  <1>2. CurPPLexer.MIOpt \in MIOptState
    BY LexersGood DEF GoodLexer, Lexer
  <1>3. CurPPLexer.pos < Len(text)
    BY <1>1 DEF BeforeLine, Reading
  <1> QED BY <1>1, <1>2, <1>3 DEF AllGuardsKnown, GuardKnown, BeforeGuardedLine

(* MIOpt was told of the tokens of the line and of no top-level section.   *)
TokensTold(lx) ==
  /\ Reads(lx)
  /\ lx.MIOpt \in MIOptState
  /\ lx.MIOpt.TheMacro = CurPPLexer.MIOpt.TheMacro
  /\ lx.MIOpt.ReadAnyTokens

LEMMA LineReadTokens ==
  ASSUME IInv, ~AtEnd
  PROVE  /\ TokensTold(LineRead)
         /\ \A yes : /\ TokensTold(IfExpanded(LineRead, yes))
                     /\ IfExpanded(LineRead, TRUE).MIOpt.DidMacroExpansion
  <1>1. CurPPLexer \in Lexer /\ Reads(LineRead)
    BY LexersGood, LineReadReads DEF GoodLexer
  <1> DEFINE mi == CurPPLexer.MIOpt
  <1>2. mi \in MIOptState
    BY <1>1 DEF Lexer
  <1>3. LineRead.MIOpt = ReadToken(mi)
    BY <1>1 DEF LineRead, Lexer
  <1>4. TokensTold(LineRead)
    BY <1>1, <1>2, <1>3 DEF TokensTold, ReadToken, MIOptState
  <1>5. Reads(IfExpanded(LineRead, TRUE)) /\ Reads(IfExpanded(LineRead, FALSE))
    BY <1>1, ExpandedReads
  <1>6. /\ IfExpanded(LineRead, FALSE) = LineRead
        /\ IfExpanded(LineRead, TRUE).MIOpt = ExpandedMacro(ReadToken(mi))
    BY <1>1, <1>3 DEF IfExpanded, TellMIOpt, Reads, Lexer
  <1>7. TokensTold(IfExpanded(LineRead, TRUE))
        /\ IfExpanded(LineRead, TRUE).MIOpt.DidMacroExpansion
    BY <1>2, <1>5, <1>6 DEF TokensTold, ReadToken, ExpandedMacro, MIOptState
  <1>8. \A yes : IfExpanded(LineRead, yes) =
                   IF yes THEN IfExpanded(LineRead, TRUE) ELSE IfExpanded(LineRead, FALSE)
    BY DEF IfExpanded
  <1>9. \A yes : TokensTold(IfExpanded(LineRead, yes))
    BY <1>4, <1>6, <1>7, <1>8
  <1> QED BY <1>4, <1>7, <1>9

(* MIOpt forgot: nothing is claimed.                                       *)
LEMMA Forgotten ==
  ASSUME NEW c, NEW lx, lx.MIOpt.TheMacro = NoMacro, lx.MIOpt.ReadAnyTokens
  PROVE  GuardKnown(c, lx)
  BY DEF GuardKnown, Known, Position

(* MIOpt keeps its macro, and the line is counted as a token.              *)
LEMMA MacroKept ==
  ASSUME BeforeGuardedLine, NEW lx, lx.pos = CurPPLexer.pos + 1,
         lx.MIOpt.TheMacro = CurPPLexer.MIOpt.TheMacro,
         lx.MIOpt.ReadAnyTokens,
         CurPPLexer.ConditionalStack # <<>> /\ CurPPLexer.ConditionalStack[1].IfLoc = 1
           => lx.ConditionalStack = <<>> \/ lx.ConditionalStack[1].IfLoc = 1,
         BehindGuard(CurPPLexer.ConditionalStack, CurPPLexer.LexingRawMode)
           => BehindGuard(lx.ConditionalStack, lx.LexingRawMode)
  PROVE  GuardKnown(text, lx)
  <1> DEFINE c == text
             p == CurPPLexer.pos
             cs == CurPPLexer.ConditionalStack
             m == lx.MIOpt.TheMacro
  <1>0. c \in Seq(Line) /\ p \in Nat /\ p < Len(c) /\ cs \in Seq(CondInfo)
        /\ Tracks(c, p, cs)
    BY DEF BeforeGuardedLine, BeforeLine, Reading
  <1> HIDE DEF c, p, cs
  <1>1. CASE m = NoMacro
    BY <1>1, Forgotten
  <1>2. CASE m # NoMacro
    <2>1. p >= 1 /\ Guards(c[1], m) /\ GroupHeads(c, 1, p + 1) = {1}
      BY <1>2 DEF BeforeGuardedLine, Known, c, p
    <2>2. GroupHeads(c, 1, (p + 1) + 1) = {1}
      BY <1>0, <2>1, NoHeadOfFirst DEF BeforeGuardedLine, c
    <2>3. Known(c, p + 1, lx.MIOpt)
      BY <1>0, <2>1, <2>2 DEF Known
    <2>4. CASE InGuard(c, p, cs)
      <3>1. 1 \in DOMAIN cs
        BY <1>0, <2>4, EmptySeq DEF InGuard
      <3>2. Encloses(c, 1, p + 1)
        BY <3>1, <1>0, <2>4 DEF InGuard, Tracks, EnclosingOpeners
      <3>3. \A i \in 1..p + 1 : i \in 1..p \/ i = p + 1
        BY <1>0
      <3>4. WrappedSoFar(c, p + 1)
        BY <2>4, <3>2, <3>3 DEF InGuard, WrappedSoFar
      <3>5. lx.ConditionalStack = <<>> \/ lx.ConditionalStack[1].IfLoc = 1
        BY <2>4 DEF InGuard, cs
      <3> QED BY <1>2, <2>3, <3>4, <3>5
              DEF GuardKnown, Position, InGuard, BehindGuard, c, p
    <2>5. CASE BehindGuard(cs, CurPPLexer.LexingRawMode)
      BY <1>2, <2>3, <2>5 DEF GuardKnown, Position, c, p, cs
    <2> QED BY <1>2, <2>4, <2>5 DEF BeforeGuardedLine, Position, c, p, cs
  <1> QED BY <1>1, <1>2

(* The first line is an #ifndef that MIOpt takes for an include guard.     *)
LEMMA GuardOpens ==
  ASSUME BeforeGuardedLine, NEW lx, lx.pos = CurPPLexer.pos + 1,
         CurPPLexer.pos = 0, Guards(line, lx.MIOpt.TheMacro),
         lx.MIOpt.ReadAnyTokens,
         lx.ConditionalStack # <<>>, lx.ConditionalStack[1].IfLoc = 1
  PROVE  GuardKnown(text, lx)
  <1>1. line = text[1] /\ lx.pos = 1
    BY DEF BeforeGuardedLine, BeforeLine
  <1>2. GroupHeads(text, 1, 1 + 1) = {1}
    <2>1. \A p \in Nat : GroupHeads(text, p + 1, p + 2) = {p + 1}
      BY HeadsStep
    <2>2. 0 \in Nat /\ 0 + 1 = 1 /\ 0 + 2 = 1 + 1
      OBVIOUS
    <2> QED BY <2>1, <2>2
  <1>3. WrappedSoFar(text, 1)
    <2>1. ~HasEffect(text[1])
      BY <1>1 DEF Guards, HasEffect, Openers
    <2>2. \A i \in 1..1 : i = 1
      OBVIOUS
    <2> QED BY <2>1, <2>2 DEF WrappedSoFar
  <1> QED BY <1>1, <1>2, <1>3 DEF GuardKnown, Known, Position, InGuard

(* A top-level section ends.                                               *)
LEMMA TopLevelEnds ==
  ASSUME BeforeGuardedLine, NEW lx, lx.pos = CurPPLexer.pos + 1,
         line.op = "endif", ~CurPPLexer.LexingRawMode,
         CurPPLexer.ConditionalStack # <<>>,
         NEW mi \in MIOptState, mi.TheMacro = CurPPLexer.MIOpt.TheMacro,
         lx.MIOpt = ExitTopLevelConditional(mi), lx.ConditionalStack = <<>>
  PROVE  GuardKnown(text, lx)
  <1> DEFINE c == text
             p == CurPPLexer.pos
             cs == CurPPLexer.ConditionalStack
             m == mi.TheMacro
  <1>0. c \in Seq(Line) /\ p \in Nat /\ p < Len(c) /\ cs \in Seq(CondInfo)
        /\ Tracks(c, p, cs) /\ c[p + 1] = line
    BY DEF BeforeGuardedLine, BeforeLine, Reading
  <1>1. CASE m = NoMacro
    <2>1. lx.MIOpt.TheMacro = NoMacro /\ lx.MIOpt.ReadAnyTokens
      BY <1>1 DEF ExitTopLevelConditional, Invalidate, MIOptState
    <2> QED BY <2>1, Forgotten
  <1>2. CASE m # NoMacro
    <2>0. lx.MIOpt.TheMacro = m
      BY <1>2 DEF ExitTopLevelConditional, MIOptState
    <2> HIDE DEF c, p, cs
    <2>1. p >= 1 /\ Guards(c[1], m) /\ GroupHeads(c, 1, p + 1) = {1}
      BY <1>2 DEF BeforeGuardedLine, Known, c, p
    <2>2. GroupHeads(c, 1, (p + 1) + 1) = {1}
      BY <1>0, <2>1, NoHeadOfFirst DEF BeforeGuardedLine, c
    <2>3. InGuard(c, p, cs)
      BY <1>2 DEF BeforeGuardedLine, Position, BehindGuard, c, p, cs
    <2>4. \A i \in 1..p + 1 : i \in 1..p \/ i = p + 1
      BY <1>0
    <2>5. WrappedSoFar(c, p + 1)
      BY <1>0, <2>3, <2>4 DEF InGuard, WrappedSoFar, HasEffect
    <2>6. Known(c, p + 1, lx.MIOpt)
      BY <1>0, <2>0, <2>1, <2>2, <2>5 DEF Known
    <2>7. Position(c, p + 1, lx.MIOpt, lx.ConditionalStack, lx.LexingRawMode)
      BY <1>2, <2>0 DEF Position, BehindGuard
    <2> QED BY <2>6, <2>7 DEF GuardKnown, c, p
  <1> QED BY <1>1, <1>2

(* A step that changes only the current lexer.                             *)
LEMMA SetLexerGuards ==
  ASSUME AllGuardsKnown, NEW lx, CurPPLexer' = lx,
         lx.file = CurPPLexer.file, GuardKnown(text, lx),
         UNCHANGED <<content, IncludeMacroStack>>
  PROVE  AllGuardsKnown'
  <1>1. text' = text
    BY DEF text
  <1>2. GuardKnown(text', CurPPLexer')
    BY <1>1
  <1>3. \A i \in DOMAIN IncludeMacroStack' :
          GuardKnown(content'[IncludeMacroStack'[i].file], IncludeMacroStack'[i])
    BY DEF AllGuardsKnown
  <1> QED BY <1>2, <1>3 DEF AllGuardsKnown

(* A live #if-like line pushes an entry.                                   *)
LEMMA OpenFields ==
  ASSUME NEW lx \in Lexer, NEW enter \in BOOLEAN, ~lx.LexingRawMode
  PROVE  LET after == OpenConditional(lx, enter)
         IN  /\ after.file = lx.file /\ after.pos = lx.pos
             /\ after.MIOpt = lx.MIOpt
             /\ \E ci : /\ after.ConditionalStack = Append(lx.ConditionalStack, ci)
                        /\ ci \in CondInfo /\ ci.IfLoc = lx.pos
             /\ after.LexingRawMode = ~enter
  <1>0. /\ lx.pos \in Nat /\ lx.LexingRawMode = FALSE
        /\ lx.ConditionalStack \in Seq(CondInfo)
    BY DEF Lexer
  <1>1. CASE enter
    <2> DEFINE ci == [IfLoc |-> lx.pos, WasSkipping |-> FALSE,
                      FoundNonSkip |-> TRUE, FoundElse |-> FALSE]
               after == [lx EXCEPT !.ConditionalStack = Append(@, ci)]
    <2>1. OpenConditional(lx, enter) = after
      BY <1>1 DEF OpenConditional, pushConditionalLevel
    <2>2. ci \in CondInfo /\ ci.IfLoc = lx.pos
      BY <1>0 DEF CondInfo
    <2>3. /\ after.file = lx.file /\ after.pos = lx.pos /\ after.MIOpt = lx.MIOpt
          /\ after.ConditionalStack = Append(lx.ConditionalStack, ci)
          /\ after.LexingRawMode = FALSE
      BY <1>0 DEF Lexer
    <2> HIDE DEF ci, after
    <2> QED BY <1>1, <2>1, <2>2, <2>3
  <1>2. CASE ~enter
    <2> DEFINE ci == [IfLoc |-> lx.pos, WasSkipping |-> FALSE,
                      FoundNonSkip |-> FALSE, FoundElse |-> FALSE]
               after == [[lx EXCEPT !.ConditionalStack = Append(@, ci)]
                           EXCEPT !.LexingRawMode = TRUE]
    <2>1. OpenConditional(lx, enter) = after
      BY <1>2 DEF OpenConditional, pushConditionalLevel, SkipExcludedConditionalBlock
    <2>2. ci \in CondInfo /\ ci.IfLoc = lx.pos
      BY <1>0 DEF CondInfo
    <2>3. /\ after.file = lx.file /\ after.pos = lx.pos /\ after.MIOpt = lx.MIOpt
          /\ after.ConditionalStack = Append(lx.ConditionalStack, ci)
          /\ after.LexingRawMode = TRUE
      BY <1>0 DEF Lexer
    <2> HIDE DEF ci, after
    <2> QED BY <1>2, <2>1, <2>2, <2>3
  <1> QED BY <1>1, <1>2

(* MIOpt is not told of the section: it is nested, or lacks a macro name   *)
(* and is skipped.                                                         *)
LEMMA OpenUntold ==
  ASSUME BeforeGuardedLine, ~CurPPLexer.LexingRawMode,
         NEW lx, TokensTold(lx), NEW enter \in BOOLEAN,
         CurPPLexer.ConditionalStack = <<>> => ~enter
  PROVE  GuardKnown(text, OpenConditional(lx, enter))
  <1> DEFINE cs == CurPPLexer.ConditionalStack
             after == OpenConditional(lx, enter)
             t == after.ConditionalStack
  <1>1. cs \in Seq(CondInfo) /\ CurPPLexer.LexingRawMode = FALSE
    BY DEF BeforeGuardedLine, BeforeLine
  <1>2. PICK ci : /\ after.pos = CurPPLexer.pos + 1
                  /\ after.MIOpt.TheMacro = CurPPLexer.MIOpt.TheMacro
                  /\ after.MIOpt.ReadAnyTokens
                  /\ t = Append(cs, ci) /\ ci \in CondInfo
                  /\ after.LexingRawMode = ~enter
    BY OpenFields DEF TokensTold, Reads
  <1> HIDE DEF after
  <1>3. cs # <<>> => t[1] = cs[1]
    <2>1. cs # <<>> => 1 \in 1..Len(cs)
      BY <1>1, EmptySeq
    <2> QED BY <1>1, <1>2, <2>1, AppendFacts
  <1>4. BehindGuard(cs, CurPPLexer.LexingRawMode) => BehindGuard(t, after.LexingRawMode)
    <2>1. SUFFICES ASSUME cs = <<>> PROVE BehindGuard(t, after.LexingRawMode)
      BY <1>1 DEF BehindGuard
    <2>2. Len(t) = 1 /\ DOMAIN t = 1..1
      <3>1. Len(cs) = 0
        BY <2>1
      <3> QED BY <1>1, <1>2, <3>1, AppendFacts
    <2>3. after.LexingRawMode = TRUE
      BY <1>2, <2>1
    <2>4. \A j \in 1..1 : ~(j > 1)
      OBVIOUS
    <2> QED BY <2>2, <2>3, <2>4 DEF BehindGuard
  <1>5. cs # <<>> /\ cs[1].IfLoc = 1 => t = <<>> \/ t[1].IfLoc = 1
    BY <1>3
  <1> QED BY <1>2, <1>4, <1>5, MacroKept DEF after

(* MIOpt is told of a top-level section.                                   *)
LEMMA OpenTold ==
  ASSUME BeforeGuardedLine, ~CurPPLexer.LexingRawMode,
         CurPPLexer.ConditionalStack = <<>>,
         NEW lx, TokensTold(lx), NEW enter \in BOOLEAN, NEW mi \in MIOptState,
         \/ mi = EnterTopLevelConditional(lx.MIOpt)
         \/ /\ ~CurPPLexer.MIOpt.ReadAnyTokens
            /\ \E m : /\ mi = EnterTopLevelIFNDEF(lx.MIOpt, m)
                      /\ lx.MIOpt.DidMacroExpansion \/ Guards(line, m)
  PROVE  GuardKnown(text, OpenConditional(TellMIOpt(lx, mi), enter))
  <1> DEFINE cs == CurPPLexer.ConditionalStack
             informed == TellMIOpt(lx, mi)
             after == OpenConditional(informed, enter)
             t == after.ConditionalStack
  <1>1. lx \in Lexer /\ lx.MIOpt \in MIOptState
    BY DEF TokensTold, Reads
  <1>2. Reads(informed) /\ informed.MIOpt = mi
    <2>1. Reads(informed)
      BY InformedReads DEF TokensTold
    <2> QED BY <1>1, <2>1 DEF TellMIOpt, Lexer
  <1>3. PICK ci : /\ after.pos = CurPPLexer.pos + 1
                  /\ after.MIOpt = mi
                  /\ t = Append(cs, ci) /\ ci \in CondInfo
                  /\ ci.IfLoc = CurPPLexer.pos + 1
    BY <1>2, OpenFields DEF Reads
  <1> SUFFICES GuardKnown(text, after)
    OBVIOUS
  <1> HIDE DEF after, informed
  <1>4. CASE mi.TheMacro = NoMacro /\ mi.ReadAnyTokens
    BY <1>3, <1>4, Forgotten
  <1>5. CASE ~(mi.TheMacro = NoMacro /\ mi.ReadAnyTokens)
    <2>1. \A x \in MIOptState : /\ Invalidate(x).TheMacro = NoMacro
                                /\ Invalidate(x).ReadAnyTokens
      BY DEF Invalidate, MIOptState
    <2>2. mi # EnterTopLevelConditional(lx.MIOpt)
      BY <1>1, <1>5, <2>1 DEF EnterTopLevelConditional
    <2>3. PICK m : /\ ~CurPPLexer.MIOpt.ReadAnyTokens
                   /\ mi = EnterTopLevelIFNDEF(lx.MIOpt, m)
                   /\ lx.MIOpt.DidMacroExpansion \/ Guards(line, m)
      BY <2>2
    <2>4. lx.MIOpt.TheMacro = NoMacro /\ ~lx.MIOpt.DidMacroExpansion
      BY <1>1, <1>5, <2>1, <2>3 DEF EnterTopLevelIFNDEF
    <2>5. mi.TheMacro = m /\ mi.ReadAnyTokens /\ Guards(line, m)
      BY <1>1, <2>3, <2>4 DEF EnterTopLevelIFNDEF, MIOptState
    <2>6. CurPPLexer.pos = 0
      BY <2>3, <2>4 DEF BeforeGuardedLine, Position, TokensTold
    <2>7. t # <<>> /\ t[1].IfLoc = 1
      <3>1. Len(cs) = 0 /\ cs \in Seq(CondInfo)
        BY DEF BeforeGuardedLine, BeforeLine
      <3>2. Len(t) = 1 /\ t[0 + 1] = ci
        BY <1>3, <3>1, AppendFacts
      <3> QED BY <1>3, <2>6, <3>2
    <2> QED BY <1>3, <2>5, <2>6, <2>7, GuardOpens
  <1> QED BY <1>4, <1>5

LEMMA QuietGuards ==
  ASSUME IInv, AllFollowTheText, AllGuardsKnown,
         \/ LexToken \/ LexMacroUse \/ HandleOtherDirective \/ SkipLine
         \/ HandleDefineDirective \/ HandleUndefDirective \/ HandlePragmaOnce
  PROVE  AllGuardsKnown'
  <1>1. ~AtEnd /\ UNCHANGED <<content, IncludeMacroStack>>
    BY DEF LexToken, LexMacroUse, HandleOtherDirective, SkipLine,
           HandleDefineDirective, HandleUndefDirective, HandlePragmaOnce,
           Live, Skipping, SetLexer
  <1>2. PICK lx : CurPPLexer' = lx /\ TokensTold(lx)
    <2> DEFINE yes == hasMacroDefinition(line.macro, macros)
               expanded == IfExpanded(LineRead, yes)
    <2>1. CurPPLexer' = LineRead \/ CurPPLexer' = expanded
      BY DEF LexToken, LexMacroUse, HandleOtherDirective, SkipLine,
             HandleDefineDirective, HandleUndefDirective, HandlePragmaOnce, SetLexer
    <2> HIDE DEF yes
    <2> QED BY <1>1, <2>1, LineReadTokens
  <1>3. ASSUME ~HasTopLevelElse(text)
        PROVE  GuardKnown(text, lx)
    <2>1. BeforeGuardedLine
      BY <1>1, <1>3, AGuardedLineToRead
    <2> QED BY <1>2, <2>1, MacroKept DEF TokensTold, Reads
  <1>4. GuardKnown(text, lx)
    BY <1>3 DEF GuardKnown
  <1> QED BY <1>1, <1>2, <1>4, SetLexerGuards DEF TokensTold, Reads

LEMMA IfdefGuards ==
  ASSUME IInv, AllFollowTheText, AllGuardsKnown, HandleIfdefDirective
  PROVE  AllGuardsKnown'
  <1>1. /\ ~AtEnd /\ ~CurPPLexer.LexingRawMode /\ line.op \in {"ifdef", "ifndef"}
        /\ UNCHANGED <<content, IncludeMacroStack>>
    BY DEF HandleIfdefDirective, Live, SetLexer
  <1> DEFINE isIfndef == line.op = "ifndef"
             ReadAnyTokensBeforeDirective ==
               isIfndef => CurPPLexer.MIOpt.ReadAnyTokens
             told == IF ReadAnyTokensBeforeDirective
                       THEN EnterTopLevelConditional(LineRead.MIOpt)
                       ELSE EnterTopLevelIFNDEF(LineRead.MIOpt, line.macro)
             informed == IF depth = 0 THEN TellMIOpt(LineRead, told) ELSE LineRead
             defined == hasMacroDefinition(line.macro, macros) # isIfndef
             enter == line.macro # NoMacro /\ defined
             after == OpenConditional(IF line.macro = NoMacro THEN LineRead
                                                              ELSE informed, enter)
  <1>2. CurPPLexer' = after
    <2>1. OpenConditional(LineRead, FALSE) =
            SkipExcludedConditionalBlock(LineRead, LineRead.pos, FALSE, FALSE)
      BY DEF OpenConditional
    <2>2. CASE line.macro = NoMacro
      BY <2>1, <2>2 DEF HandleIfdefDirective, SetLexer
    <2>3. CASE line.macro # NoMacro
      <3>1. enter = defined
        BY <2>3
      <3> QED BY <2>3, <3>1 DEF HandleIfdefDirective, SetLexer
    <2> QED BY <2>2, <2>3
  <1>3. TokensTold(LineRead) /\ enter \in BOOLEAN
    BY <1>1, LineReadTokens
  <1>4. line \in Line /\ LineRead.MIOpt \in MIOptState
    BY <1>1, <1>3, LexersGood DEF TokensTold
  <1>5. line.macro \in Macros \cup {NoMacro}
    BY <1>1, <1>4 DEF Line
  <1>6. told \in MIOptState
    BY <1>4, <1>5, MIOptType
  <1>7. /\ ReadAnyTokensBeforeDirective => told = EnterTopLevelConditional(LineRead.MIOpt)
        /\ ~ReadAnyTokensBeforeDirective =>
             /\ ~CurPPLexer.MIOpt.ReadAnyTokens
             /\ told = EnterTopLevelIFNDEF(LineRead.MIOpt, line.macro)
             /\ Guards(line, line.macro)
    BY DEF Guards
  <1> HIDE DEF told, enter, ReadAnyTokensBeforeDirective
  <1>8. Reads(informed) /\ Reads(LineRead)
    BY <1>3, <1>6, InformedReads DEF TokensTold
  <1>9. after.file = CurPPLexer.file
    BY <1>1, <1>3, <1>8, OpenFields DEF Reads
  <1>10. ASSUME ~HasTopLevelElse(text)
         PROVE  GuardKnown(text, after)
    <2>1. BeforeGuardedLine
      BY <1>1, <1>10, AGuardedLineToRead
    <2>2. CurPPLexer.ConditionalStack \in Seq(CondInfo)
      BY <2>1 DEF BeforeGuardedLine, BeforeLine
    <2>3. CASE line.macro = NoMacro
      <3>1. ~enter /\ after = OpenConditional(LineRead, enter)
        BY <2>3 DEF enter
      <3> QED BY <1>1, <1>3, <2>1, <3>1, OpenUntold
    <2>4. CASE line.macro # NoMacro /\ depth # 0
      <3>1. CurPPLexer.ConditionalStack # <<>>
        BY <2>4 DEF depth
      <3>2. after = OpenConditional(LineRead, enter)
        BY <2>4
      <3> QED BY <1>1, <1>3, <2>1, <3>1, <3>2, OpenUntold
    <2>5. CASE line.macro # NoMacro /\ depth = 0
      <3>1. CurPPLexer.ConditionalStack = <<>>
        BY <2>2, <2>5, EmptySeq DEF depth
      <3>2. after = OpenConditional(TellMIOpt(LineRead, told), enter)
        BY <2>5
      <3> HIDE DEF after
      <3> QED BY <1>1, <1>3, <1>6, <1>7, <2>1, <3>1, <3>2, OpenTold
    <2> QED BY <2>3, <2>4, <2>5
  <1>11. GuardKnown(text, after)
    BY <1>10 DEF GuardKnown
  <1> HIDE DEF after
  <1> QED BY <1>1, <1>2, <1>9, <1>11, SetLexerGuards

LEMMA IfGuards ==
  ASSUME IInv, AllFollowTheText, AllGuardsKnown, HandleIfDirective
  PROVE  AllGuardsKnown'
  <1>1. /\ ~AtEnd /\ ~CurPPLexer.LexingRawMode /\ line.op = "if"
        /\ UNCHANGED <<content, IncludeMacroStack>>
    BY DEF HandleIfDirective, Live, SetLexer
  <1> DEFINE result == EvaluateDirectiveExpression(line.cond, macros)
             read == IfExpanded(LineRead, result.expanded)
             plain == CurPPLexer.MIOpt.ReadAnyTokens \/ result.IfNDefMacro = NoMacro
             told == IF plain
                       THEN EnterTopLevelConditional(read.MIOpt)
                       ELSE EnterTopLevelIFNDEF(read.MIOpt, result.IfNDefMacro)
             informed == IF depth = 0 THEN TellMIOpt(read, told) ELSE read
             enter == result.ConditionalTrue
             after == OpenConditional(informed, enter)
  <1>2. CurPPLexer' = after
    BY DEF HandleIfDirective, SetLexer
  <1>3. line \in Line /\ line.cond \in Cond /\ macros \in Definitions
    <2>1. line \in Line /\ macros \in Definitions
      BY <1>1, LexersGood DEF IInv, TypeOK
    <2> QED BY <1>1, <2>1 DEF Line
  <1>4. TokensTold(read) /\ (result.expanded => read.MIOpt.DidMacroExpansion)
    <2>1. result.expanded \in BOOLEAN
      BY DEF EvaluateDirectiveExpression
    <2>2. result.expanded => result.expanded = TRUE
      BY <2>1
    <2> HIDE DEF result
    <2> QED BY <1>1, <2>2, LineReadTokens
  <1>5. enter \in BOOLEAN
    <2>1. enter = HeadIsTrue(line, macros)
      BY <1>1 DEF HeadIsTrue, EvaluateDirectiveExpression
    <2>2. HeadIsTrue(line, macros) \in BOOLEAN
      BY <1>1, <1>3, HeadIsTrueType DEF Openers
    <2> QED BY <2>1, <2>2
  <1>6. told \in MIOptState
    <2>1. result.IfNDefMacro \in Macros \cup {NoMacro}
      BY <1>3, IfNDefMacroType
    <2>2. read.MIOpt \in MIOptState
      BY <1>4 DEF TokensTold
    <2> HIDE DEF read, result
    <2> QED BY <2>1, <2>2, MIOptType
  <1>7. ~plain => /\ ~CurPPLexer.MIOpt.ReadAnyTokens
                  /\ result.expanded \/ Guards(line, result.IfNDefMacro)
    <2>1. SUFFICES ASSUME ~plain, ~result.expanded
                   PROVE  Guards(line, result.IfNDefMacro)
      OBVIOUS
    <2> DEFINE e == Expansion(line.cond, macros)
    <2>2. e.op = "notdefined" /\ result.IfNDefMacro = e.macro
      BY <2>1 DEF EvaluateDirectiveExpression
    <2>3. line.cond.op = "macro" => e.op = "lit"
      BY <2>1 DEF EvaluateDirectiveExpression, Expansion
    <2>4. e = line.cond
      BY <2>2, <2>3 DEF Expansion
    <2> QED BY <1>1, <2>2, <2>4 DEF Guards
  <1>8. /\ plain => told = EnterTopLevelConditional(read.MIOpt)
        /\ ~plain => told = EnterTopLevelIFNDEF(read.MIOpt, result.IfNDefMacro)
    OBVIOUS
  <1> HIDE DEF told, read, result, enter, plain
  <1>9. Reads(informed)
    BY <1>4, <1>6, InformedReads DEF TokensTold
  <1>10. after.file = CurPPLexer.file
    BY <1>1, <1>5, <1>9, OpenFields DEF Reads
  <1>11. ASSUME ~HasTopLevelElse(text)
         PROVE  GuardKnown(text, after)
    <2>1. BeforeGuardedLine
      BY <1>1, <1>11, AGuardedLineToRead
    <2>2. CurPPLexer.ConditionalStack \in Seq(CondInfo)
      BY <2>1 DEF BeforeGuardedLine, BeforeLine
    <2>3. CASE depth # 0
      <3>1. CurPPLexer.ConditionalStack # <<>>
        BY <2>3 DEF depth
      <3>2. after = OpenConditional(read, enter)
        BY <2>3
      <3> QED BY <1>1, <1>4, <1>5, <2>1, <3>1, <3>2, OpenUntold
    <2>4. CASE depth = 0
      <3>1. CurPPLexer.ConditionalStack = <<>>
        BY <2>2, <2>4, EmptySeq DEF depth
      <3>2. after = OpenConditional(TellMIOpt(read, told), enter)
        BY <2>4
      <3> HIDE DEF after
      <3> QED BY <1>1, <1>4, <1>5, <1>6, <1>7, <1>8, <2>1, <3>1, <3>2, OpenTold
    <2> QED BY <2>3, <2>4
  <1>12. GuardKnown(text, after)
    BY <1>11 DEF GuardKnown
  <1> HIDE DEF after
  <1> QED BY <1>1, <1>2, <1>10, <1>12, SetLexerGuards

(* The outermost entry stays when an inner one is popped or replaced.      *)
LEMMA InnerEntry ==
  ASSUME NEW cs \in Seq(CondInfo), cs # <<>>, NEW ci \in CondInfo
  PROVE  /\ Len(cs) \in Nat /\ Len(cs) >= 1 /\ DOMAIN cs = 1..Len(cs)
         /\ Len(cs) = 1 => Front(cs) = <<>>
         /\ Len(cs) # 1 => /\ Front(cs)[1] = cs[1]
                           /\ Append(Front(cs), ci)[1] = cs[1]
         /\ BehindGuard(cs, TRUE) /\ Len(cs) # 1 => Last(cs).WasSkipping
         /\ BehindGuard(cs, TRUE) => BehindGuard(Front(cs), Last(cs).WasSkipping)
         /\ BehindGuard(cs, TRUE) /\ ci.WasSkipping => BehindGuard(Append(Front(cs), ci), TRUE)
  <1> DEFINE n == Len(cs)
             t == Append(Front(cs), ci)
  <1>1. n \in Nat /\ n # 0 /\ DOMAIN cs = 1..n
    BY EmptySeq
  <1>2. /\ Front(cs) \in Seq(CondInfo) /\ Len(Front(cs)) = n - 1
        /\ \A i \in 1..n - 1 : Front(cs)[i] = cs[i]
        /\ Last(cs) = cs[n] /\ Last(cs) \in CondInfo
    BY FrontLast DEF Last
  <1>3. DOMAIN Front(cs) = 1..n - 1
    BY <1>1, <1>2
  <1>4. /\ Len(t) = n /\ DOMAIN t = 1..n /\ t[n] = ci
        /\ \A i \in 1..n - 1 : t[i] = cs[i]
    <2>1. /\ t \in Seq(CondInfo) /\ Len(t) = (n - 1) + 1 /\ t[(n - 1) + 1] = ci
          /\ \A i \in 1..n - 1 : t[i] = Front(cs)[i]
      BY <1>2, AppendFacts
    <2>2. (n - 1) + 1 = n
      BY <1>1
    <2>3. Len(t) = n /\ t[n] = ci
      BY <2>1, <2>2
    <2>4. DOMAIN t = 1..n
      BY <2>1, <2>3
    <2> QED BY <1>2, <2>1, <2>3, <2>4
  <1> HIDE DEF n, t
  <1>5. n = 1 => Front(cs) = <<>>
    BY <1>2, EmptySeq
  <1>6. n # 1 => 1 \in 1..n - 1 /\ n > 1 /\ n \in 1..n
    BY <1>1
  <1>7. n # 1 => Front(cs)[1] = cs[1] /\ t[1] = cs[1]
    BY <1>2, <1>4, <1>6
  <1>8. BehindGuard(cs, TRUE) => \A j \in 1..n : j > 1 => cs[j].WasSkipping
    BY <1>1 DEF BehindGuard, n
  <1>9. BehindGuard(cs, TRUE) /\ n # 1 => Last(cs).WasSkipping = TRUE
    BY <1>2, <1>6, <1>8 DEF CondInfo
  <1>10. BehindGuard(cs, TRUE) => BehindGuard(Front(cs), Last(cs).WasSkipping)
    <2>1. SUFFICES ASSUME BehindGuard(cs, TRUE), n # 1
                   PROVE  BehindGuard(Front(cs), Last(cs).WasSkipping)
      BY <1>5 DEF BehindGuard
    <2>2. \A j \in 1..n - 1 : j \in 1..n
      BY <1>1
    <2>3. \A j \in 1..n - 1 : j > 1 => Front(cs)[j].WasSkipping
      BY <1>2, <1>8, <2>1, <2>2
    <2> QED BY <1>3, <1>9, <2>1, <2>3 DEF BehindGuard
  <1>11. BehindGuard(cs, TRUE) /\ ci.WasSkipping => BehindGuard(t, TRUE)
    <2>1. SUFFICES ASSUME BehindGuard(cs, TRUE), ci.WasSkipping
                   PROVE  \A j \in 1..n : j > 1 => t[j].WasSkipping
      BY <1>4 DEF BehindGuard
    <2>2. \A j \in 1..n : j = n \/ j \in 1..n - 1
      BY <1>1
    <2> QED BY <1>4, <1>8, <2>1, <2>2
  <1>12. n >= 1
    BY <1>1
  <1> QED BY <1>1, <1>5, <1>7, <1>9, <1>10, <1>11, <1>12 DEF n, t

LEMMA EndifGuards ==
  ASSUME IInv, AllFollowTheText, AllGuardsKnown,
         HandleEndifDirective \/ SkipEndif
  PROVE  AllGuardsKnown'
  <1> DEFINE cs == CurPPLexer.ConditionalStack
             popped == popConditionalLevel(LineRead)
             told == TellMIOpt(popped, ExitTopLevelConditional(popped.MIOpt))
             unskipped == [popped EXCEPT !.LexingRawMode = top.WasSkipping]
  <1>1. /\ ~AtEnd /\ line.op = "endif"
        /\ UNCHANGED <<content, IncludeMacroStack>>
    BY DEF HandleEndifDirective, SkipEndif, Live, Skipping, SetLexer
  <1>2. TokensTold(LineRead) /\ LineRead \in Lexer
    BY <1>1, LineReadTokens DEF TokensTold, Reads
  <1>3. cs \in Seq(CondInfo) /\ CurPPLexer.LexingRawMode \in BOOLEAN
    BY LexersGood DEF GoodLexer, Lexer
  <1>4. cs # <<>> => /\ popped \in Lexer /\ popped.file = CurPPLexer.file
                     /\ popped.pos = CurPPLexer.pos + 1
                     /\ popped.ConditionalStack = Front(cs)
                     /\ popped.LexingRawMode = CurPPLexer.LexingRawMode
                     /\ popped.MIOpt = LineRead.MIOpt
    <2>1. cs # <<>> => Front(cs) \in Seq(CondInfo)
      BY <1>3, FrontLast
    <2> QED BY <1>2, <2>1 DEF TokensTold, Reads, Lexer, popConditionalLevel
  <1> HIDE DEF popped
  <1>5. cs # <<>> => /\ told.file = CurPPLexer.file
                     /\ told.pos = CurPPLexer.pos + 1
                     /\ told.ConditionalStack = Front(cs)
                     /\ told.MIOpt = ExitTopLevelConditional(LineRead.MIOpt)
                     /\ unskipped.file = CurPPLexer.file
                     /\ unskipped.pos = CurPPLexer.pos + 1
                     /\ unskipped.ConditionalStack = Front(cs)
                     /\ unskipped.LexingRawMode = Last(cs).WasSkipping
                     /\ unskipped.MIOpt = LineRead.MIOpt
    BY <1>4 DEF TellMIOpt, Lexer, top, peekConditionalLevel
  <1> HIDE DEF told, unskipped
  <1>6. cs # <<>> => \E ci : ci \in CondInfo
    <2>1. cs # <<>> => Last(cs) \in CondInfo
      BY <1>3, FrontLast
    <2> QED BY <2>1
  <1>7. CASE HandleEndifDirective
    <2>1. CurPPLexer.LexingRawMode = FALSE
      BY <1>3, <1>7 DEF HandleEndifDirective, Live
    <2>2. CASE depth = 0
      <3>1. CurPPLexer' = LineRead /\ LineRead.file = CurPPLexer.file
        BY <1>2, <1>7, <2>2 DEF HandleEndifDirective, SetLexer, TokensTold, Reads
      <3>2. ASSUME ~HasTopLevelElse(text) PROVE GuardKnown(text, LineRead)
        <4>1. BeforeGuardedLine
          BY <1>1, <3>2, AGuardedLineToRead
        <4> QED BY <1>2, <4>1, MacroKept DEF TokensTold, Reads
      <3>3. GuardKnown(text, LineRead)
        BY <3>2 DEF GuardKnown
      <3> QED BY <1>1, <3>1, <3>3, SetLexerGuards
    <2>3. CASE depth = 1
      <3>1. CurPPLexer' = told
        BY <1>7, <2>3 DEF HandleEndifDirective, SetLexer, told, popped
      <3>2. cs # <<>> /\ Front(cs) = <<>>
        <4>1. cs # <<>>
          BY <2>3 DEF depth
        <4> QED BY <1>3, <1>6, <2>3, <4>1, InnerEntry DEF depth
      <3>3. ASSUME ~HasTopLevelElse(text) PROVE GuardKnown(text, told)
        <4>1. BeforeGuardedLine
          BY <1>1, <3>3, AGuardedLineToRead
        <4>2. /\ LineRead.MIOpt \in MIOptState
              /\ LineRead.MIOpt.TheMacro = CurPPLexer.MIOpt.TheMacro
          BY <1>2 DEF TokensTold
        <4> QED BY <1>1, <1>5, <2>1, <3>2, <4>1, <4>2, TopLevelEnds
      <3>4. GuardKnown(text, told)
        BY <3>3 DEF GuardKnown
      <3> QED BY <1>1, <1>5, <3>1, <3>2, <3>4, SetLexerGuards
    <2>4. CASE depth > 1
      <3>1. CurPPLexer' = popped
        BY <1>7, <2>4 DEF HandleEndifDirective, SetLexer, popped
      <3>2. cs # <<>> /\ Len(cs) # 1
        <4>1. Len(cs) \in Nat /\ Len(cs) > 1
          BY <1>3, <2>4 DEF depth
        <4>2. \A x \in Nat : x > 1 => x # 0 /\ x # 1
          OBVIOUS
        <4>3. Len(cs) # 0 /\ Len(cs) # 1
          BY <4>1, <4>2
        <4> QED BY <4>3
      <3>3. Front(cs)[1] = cs[1]
        BY <1>3, <1>6, <3>2, InnerEntry
      <3>4. ASSUME ~HasTopLevelElse(text) PROVE GuardKnown(text, popped)
        <4>1. BeforeGuardedLine
          BY <1>1, <3>4, AGuardedLineToRead
        <4>2. ~BehindGuard(cs, CurPPLexer.LexingRawMode)
          BY <2>1, <3>2 DEF BehindGuard
        <4> QED BY <1>2, <1>4, <3>2, <3>3, <4>1, <4>2, MacroKept DEF TokensTold
      <3>5. GuardKnown(text, popped)
        BY <3>4 DEF GuardKnown
      <3> QED BY <1>1, <1>4, <3>1, <3>2, <3>5, SetLexerGuards
    <2>5. depth \in Nat
      BY <1>3 DEF depth
    <2> QED BY <2>2, <2>3, <2>4, <2>5
  <1>8. CASE SkipEndif
    <2>1. CurPPLexer.LexingRawMode = TRUE
      BY <1>3, <1>8 DEF SkipEndif, Skipping
    <2>2. cs # <<>>
      BY <2>1, LexersGood, SkipTop
    <2>3. CurPPLexer' = unskipped
      BY <1>8 DEF SkipEndif, SetLexer, unskipped, popped
    <2>4. ASSUME ~HasTopLevelElse(text) PROVE GuardKnown(text, unskipped)
      <3>1. BeforeGuardedLine
        BY <1>1, <2>4, AGuardedLineToRead
      <3>2. /\ Front(cs) = <<>> \/ Front(cs)[1] = cs[1]
            /\ BehindGuard(cs, TRUE) => BehindGuard(Front(cs), Last(cs).WasSkipping)
        BY <1>3, <1>6, <2>2, InnerEntry
      <3> QED BY <1>2, <1>5, <2>1, <2>2, <3>1, <3>2, MacroKept DEF TokensTold
    <2>5. GuardKnown(text, unskipped)
      BY <2>4 DEF GuardKnown
    <2> QED BY <1>1, <1>5, <2>2, <2>3, <2>5, SetLexerGuards
  <1> QED BY <1>7, <1>8

LEMMA ElseElifGuards ==
  ASSUME IInv, AllFollowTheText, AllGuardsKnown,
         HandleElseDirective \/ HandleElifDirective
  PROVE  AllGuardsKnown'
  <1> DEFINE cs == CurPPLexer.ConditionalStack
             popped == popConditionalLevel(LineRead)
             fndelse == line.op = "else" \/ Last(cs).FoundElse
             after == SkipRestOfConditional(fndelse)
  <1>1. /\ ~AtEnd /\ ~CurPPLexer.LexingRawMode /\ line.op \in {"elif", "else"}
        /\ UNCHANGED <<content, IncludeMacroStack>>
    BY DEF HandleElseDirective, HandleElifDirective, Live, SetLexer
  <1>2. TokensTold(LineRead) /\ LineRead \in Lexer /\ BeforeLine
    BY <1>1, LineReadTokens, ALineToRead DEF TokensTold, Reads
  <1>3. cs \in Seq(CondInfo) /\ CurPPLexer.LexingRawMode = FALSE
        /\ Tracks(text, CurPPLexer.pos, cs) /\ text \in Seq(Line)
        /\ CurPPLexer.pos \in Nat /\ CurPPLexer.pos < Len(text)
        /\ text[CurPPLexer.pos + 1] = line
    BY <1>1, <1>2 DEF BeforeLine, Reading
  <1>4. CASE depth = 0
    <2>1. CurPPLexer' = LineRead /\ LineRead.file = CurPPLexer.file
      BY <1>2, <1>4 DEF HandleElseDirective, HandleElifDirective, SetLexer,
                        TokensTold, Reads
    <2>2. ASSUME ~HasTopLevelElse(text) PROVE GuardKnown(text, LineRead)
      <3>1. BeforeGuardedLine
        BY <1>1, <2>2, AGuardedLineToRead
      <3> QED BY <1>2, <3>1, MacroKept DEF TokensTold, Reads
    <2>3. GuardKnown(text, LineRead)
      BY <2>2 DEF GuardKnown
    <2> QED BY <1>1, <2>1, <2>3, SetLexerGuards
  <1>5. CASE depth # 0
    <2>1. cs # <<>>
      BY <1>5 DEF depth
    <2>2. Last(cs) \in CondInfo /\ Front(cs) \in Seq(CondInfo)
      BY <1>3, <2>1, FrontLast
    <2>3. CurPPLexer' = after
      <3>1. CASE HandleElseDirective
        <4>1. fndelse = TRUE
          BY <3>1 DEF HandleElseDirective, Live
        <4> QED BY <1>5, <3>1, <4>1 DEF HandleElseDirective, SetLexer
      <3>2. CASE HandleElifDirective
        <4>1. fndelse = Last(cs).FoundElse
          BY <2>2, <3>2 DEF HandleElifDirective, Live, CondInfo
        <4> QED BY <1>5, <3>2, <4>1
                DEF HandleElifDirective, SetLexer, peekConditionalLevel
      <3> QED BY <3>1, <3>2
    <2>4. fndelse \in BOOLEAN /\ (fndelse <=> Last(cs).FoundElse \/ line.op = "else")
      OBVIOUS
    <2> HIDE DEF fndelse
    <2>5. after.file = CurPPLexer.file
      BY <1>1, <1>2, <2>1, <2>4, RestLexer
    <2>6. ASSUME ~HasTopLevelElse(text) PROVE GuardKnown(text, after)
      <3>1. BeforeGuardedLine
        BY <1>1, <2>6, AGuardedLineToRead
      <3>2. Len(cs) # 1
        BY <1>1, <1>3, <2>6, NoTopLevelElse
      <3> DEFINE ci == [IfLoc |-> Last(cs).IfLoc, WasSkipping |-> FALSE,
                        FoundNonSkip |-> TRUE, FoundElse |-> fndelse]
      <3>3. ci \in CondInfo
        BY <2>2, <2>4 DEF CondInfo
      <3>4. after = [[popped EXCEPT !.ConditionalStack = Append(@, ci)]
                       EXCEPT !.LexingRawMode = TRUE]
        BY <3>2 DEF SkipRestOfConditional, SkipExcludedConditionalBlock,
                    pushConditionalLevel, peekConditionalLevel, depth
      <3>5. /\ popped \in Lexer /\ popped.pos = CurPPLexer.pos + 1
            /\ popped.ConditionalStack = Front(cs)
            /\ popped.MIOpt = LineRead.MIOpt
        BY <1>2, <2>2 DEF TokensTold, Reads, Lexer, popConditionalLevel
      <3> HIDE DEF ci, popped, after
      <3>6. /\ after.pos = CurPPLexer.pos + 1
            /\ after.ConditionalStack = Append(Front(cs), ci)
            /\ after.MIOpt = LineRead.MIOpt
        BY <3>4, <3>5 DEF Lexer
      <3>7. Append(Front(cs), ci)[1] = cs[1]
        BY <1>3, <2>1, <3>2, <3>3, InnerEntry
      <3>8. ~BehindGuard(cs, CurPPLexer.LexingRawMode)
        BY <1>3, <2>1 DEF BehindGuard
      <3> QED BY <1>2, <3>1, <3>6, <3>7, <3>8, MacroKept DEF TokensTold
    <2>7. GuardKnown(text, after)
      BY <2>6 DEF GuardKnown
    <2> HIDE DEF after
    <2> QED BY <1>1, <2>3, <2>5, <2>7, SetLexerGuards
  <1> QED BY <1>4, <1>5

LEMMA SkipElseElifGuards ==
  ASSUME IInv, AllFollowTheText, AllGuardsKnown, SkipElse \/ SkipElif
  PROVE  AllGuardsKnown'
  <1> DEFINE cs == CurPPLexer.ConditionalStack
  <1>1. /\ ~AtEnd /\ CurPPLexer.LexingRawMode /\ line.op \in {"elif", "else"}
        /\ UNCHANGED <<content, IncludeMacroStack>>
    BY DEF SkipElse, SkipElif, Skipping, SetLexer
  <1>2. BeforeLine
    BY <1>1, ALineToRead
  <1>3. /\ cs \in Seq(CondInfo) /\ CurPPLexer.LexingRawMode = TRUE
        /\ Tracks(text, CurPPLexer.pos, cs) /\ text \in Seq(Line)
        /\ CurPPLexer.pos \in Nat /\ CurPPLexer.pos < Len(text)
        /\ text[CurPPLexer.pos + 1] = line
    BY <1>1, <1>2 DEF BeforeLine, Reading
  <1>4. cs # <<>> /\ top = Last(cs) /\ top \in CondInfo
    BY <1>1, LexersGood, SkipTop DEF top, peekConditionalLevel
  <1>5. PICK lx, ci, enter :
          /\ TokensTold(lx)
          /\ ci \in CondInfo /\ ci.WasSkipping = top.WasSkipping
          /\ enter \in BOOLEAN /\ (enter => ~top.WasSkipping)
          /\ CurPPLexer' = [SetTop(lx, ci) EXCEPT !.LexingRawMode = ~enter]
    <2>1. top.FoundNonSkip \in BOOLEAN /\ top.WasSkipping \in BOOLEAN
      BY <1>4 DEF CondInfo
    <2>2. CASE SkipElse
      <3> DEFINE enter == ~top.WasSkipping /\ ~top.FoundNonSkip
                 ci == [top EXCEPT !.FoundElse = TRUE, !.FoundNonSkip = @ \/ enter]
      <3>1. CurPPLexer' = [SetTop(LineRead, ci) EXCEPT !.LexingRawMode = ~enter]
        BY <2>2 DEF SkipElse, SetLexer
      <3>2. ci \in CondInfo /\ ci.WasSkipping = top.WasSkipping
            /\ enter \in BOOLEAN /\ (enter => ~top.WasSkipping)
        BY <1>4, <2>1 DEF CondInfo
      <3>3. TokensTold(LineRead)
        BY <1>1, LineReadTokens
      <3> HIDE DEF enter, ci
      <3> QED BY <3>1, <3>2, <3>3
    <2>3. CASE SkipElif
      <3> DEFINE examined == ~top.WasSkipping /\ ~top.FoundNonSkip
                 result == EvaluateDirectiveExpression(line.cond, macros)
                 enter == examined /\ result.ConditionalTrue
                 lx == IfExpanded(LineRead, examined /\ result.expanded)
                 ci == [top EXCEPT !.FoundNonSkip = @ \/ enter]
      <3>1. CurPPLexer' = [SetTop(lx, ci) EXCEPT !.LexingRawMode = ~enter]
        BY <2>3 DEF SkipElif, SetLexer
      <3>2. ci \in CondInfo /\ ci.WasSkipping = top.WasSkipping
            /\ enter \in BOOLEAN /\ (enter => ~top.WasSkipping)
        BY <1>4, <2>1 DEF CondInfo
      <3>3. TokensTold(lx)
        BY <1>1, LineReadTokens
      <3> HIDE DEF enter, ci, lx
      <3> QED BY <3>1, <3>2, <3>3
    <2> QED BY <2>2, <2>3
  <1> DEFINE after == [SetTop(lx, ci) EXCEPT !.LexingRawMode = ~enter]
             t == Append(Front(cs), ci)
  <1>6. /\ after.file = CurPPLexer.file
        /\ after.pos = CurPPLexer.pos + 1
        /\ after.ConditionalStack = t
        /\ after.LexingRawMode = ~enter
        /\ after.MIOpt = lx.MIOpt
    BY <1>5 DEF TokensTold, Reads, Lexer, SetTop
  <1>7. CurPPLexer' = after
    BY <1>5
  <1> HIDE DEF after
  <1>8. ASSUME ~HasTopLevelElse(text) PROVE GuardKnown(text, after)
    <2>1. BeforeGuardedLine
      BY <1>1, <1>8, AGuardedLineToRead
    <2>2. Len(cs) # 1
      BY <1>1, <1>3, <1>8, NoTopLevelElse
    <2>3. t[1] = cs[1]
      BY <1>3, <1>4, <1>5, <2>2, InnerEntry
    <2>4. BehindGuard(cs, CurPPLexer.LexingRawMode)
            => BehindGuard(t, after.LexingRawMode)
      <3>1. SUFFICES ASSUME BehindGuard(cs, TRUE)
                     PROVE  BehindGuard(t, after.LexingRawMode)
        BY <1>3
      <3>2. Last(cs).WasSkipping
        BY <1>3, <1>4, <1>5, <2>2, <3>1, InnerEntry
      <3>3. enter = FALSE /\ ci.WasSkipping
        BY <1>4, <1>5, <3>2
      <3>4. BehindGuard(t, TRUE)
        BY <1>3, <1>4, <1>5, <3>1, <3>3, InnerEntry
      <3>5. after.LexingRawMode = TRUE
        BY <1>6, <3>3
      <3> QED BY <3>4, <3>5
    <2> HIDE DEF t
    <2> QED BY <1>5, <1>6, <2>1, <2>3, <2>4, MacroKept DEF TokensTold
  <1>9. GuardKnown(text, after)
    BY <1>8 DEF GuardKnown
  <1> QED BY <1>1, <1>6, <1>7, <1>9, SetLexerGuards

LEMMA SkipNestedIfGuards ==
  ASSUME IInv, AllFollowTheText, AllGuardsKnown, SkipNestedIf
  PROVE  AllGuardsKnown'
  <1> DEFINE cs == CurPPLexer.ConditionalStack
             ci == [IfLoc |-> LineRead.pos, WasSkipping |-> TRUE,
                    FoundNonSkip |-> FALSE, FoundElse |-> FALSE]
             after == [LineRead EXCEPT !.ConditionalStack = Append(@, ci)]
             t == Append(cs, ci)
             n == Len(cs)
  <1>1. /\ ~AtEnd /\ CurPPLexer.LexingRawMode
        /\ UNCHANGED <<content, IncludeMacroStack>>
        /\ CurPPLexer' = after
    BY DEF SkipNestedIf, Skipping, SetLexer, pushConditionalLevel
  <1>2. TokensTold(LineRead) /\ LineRead \in Lexer
    BY <1>1, LineReadTokens DEF TokensTold, Reads
  <1>3. cs \in Seq(CondInfo) /\ CurPPLexer.LexingRawMode = TRUE /\ cs # <<>>
    <2>1. cs \in Seq(CondInfo) /\ CurPPLexer.LexingRawMode \in BOOLEAN
      BY LexersGood DEF GoodLexer, Lexer
    <2> QED BY <1>1, <2>1, LexersGood, SkipTop
  <1>4. ci \in CondInfo /\ ci.WasSkipping
    BY <1>2 DEF CondInfo, Lexer
  <1>5. /\ after.file = CurPPLexer.file
        /\ after.pos = CurPPLexer.pos + 1
        /\ after.ConditionalStack = t
        /\ after.LexingRawMode = TRUE
        /\ after.MIOpt = LineRead.MIOpt
    BY <1>2, <1>3 DEF TokensTold, Reads, Lexer
  <1> HIDE DEF ci, after
  <1>6. /\ n \in Nat /\ n # 0 /\ DOMAIN cs = 1..n
        /\ DOMAIN t = 1..n + 1 /\ t[n + 1] = ci
        /\ \A j \in 1..n : t[j] = cs[j]
    BY <1>3, <1>4, AppendFacts, EmptySeq
  <1> HIDE DEF n, t
  <1>7. 1 \in 1..n /\ \A j \in 1..n + 1 : j \in 1..n \/ j = n + 1
    BY <1>6
  <1>8. BehindGuard(cs, CurPPLexer.LexingRawMode)
          => BehindGuard(t, after.LexingRawMode)
    BY <1>3, <1>4, <1>5, <1>6, <1>7 DEF BehindGuard
  <1>9. ASSUME ~HasTopLevelElse(text) PROVE GuardKnown(text, after)
    <2>1. BeforeGuardedLine
      BY <1>1, <1>9, AGuardedLineToRead
    <2>2. t[1] = cs[1]
      BY <1>6, <1>7
    <2> QED BY <1>2, <1>5, <1>8, <2>1, <2>2, MacroKept DEF TokensTold
  <1>10. GuardKnown(text, after)
    BY <1>9 DEF GuardKnown
  <1> QED BY <1>1, <1>5, <1>10, SetLexerGuards

LEMMA NewLexerGuards ==
  ASSUME NEW c, NEW f
  PROVE  GuardKnown(c, NewLexer(f))
  <1>1. /\ NewLexer(f).pos = 0
        /\ NewLexer(f).MIOpt.TheMacro = NoMacro
    BY DEF NewLexer, InitialMIOpt
  <1> QED BY <1>1 DEF GuardKnown, Known, Position

(* A lexer that loses its conditionals at the end of its buffer.           *)
LEMMA AtEndGuards ==
  ASSUME IInv, AllGuardsKnown, AtEnd, NEW lx, lx.pos = CurPPLexer.pos,
         lx.MIOpt = CurPPLexer.MIOpt
  PROVE  GuardKnown(text, lx)
  <1>1. CurPPLexer.pos \in Nat /\ ~(CurPPLexer.pos < Len(text))
    BY LexersGood DEF GoodLexer, Lexer, AtEnd
  <1> QED BY <1>1 DEF AllGuardsKnown, GuardKnown

LEMMA SkipEndOfFileGuards ==
  ASSUME IInv, AllGuardsKnown, SkipEndOfFile
  PROVE  AllGuardsKnown'
  <1> DEFINE lx == [CurPPLexer EXCEPT !.ConditionalStack = <<>>, !.LexingRawMode = FALSE]
  <1>1. AtEnd /\ CurPPLexer' = lx /\ UNCHANGED <<content, IncludeMacroStack>>
    BY DEF SkipEndOfFile, SetLexer
  <1>2. CurPPLexer \in Lexer
    BY LexersGood DEF GoodLexer
  <1>3. lx.pos = CurPPLexer.pos /\ lx.file = CurPPLexer.file
        /\ lx.MIOpt = CurPPLexer.MIOpt
    BY <1>2 DEF Lexer
  <1> HIDE DEF lx
  <1> QED BY <1>1, <1>3, AtEndGuards, SetLexerGuards

LEMMA IncludeGuards ==
  ASSUME IInv, AllFollowTheText, AllGuardsKnown, NEW isImport \in BOOLEAN,
         HandleIncludeDirective(isImport)
  PROVE  AllGuardsKnown'
  <1>1. ~AtEnd /\ content' = content
    BY DEF HandleIncludeDirective, Live, SetLexer
  <1>2. TokensTold(LineRead)
    BY <1>1, LineReadTokens
  <1>3. GuardKnown(text, LineRead) /\ LineRead.file = CurPPLexer.file
    <2>1. ASSUME ~HasTopLevelElse(text) PROVE GuardKnown(text, LineRead)
      <3>1. BeforeGuardedLine
        BY <1>1, <2>1, AGuardedLineToRead
      <3> QED BY <1>2, <3>1, MacroKept DEF TokensTold, Reads
    <2>2. GuardKnown(text, LineRead)
      BY <2>1 DEF GuardKnown
    <2> QED BY <1>2, <2>2 DEF TokensTold, Reads
  <1>4. CASE CurPPLexer' = LineRead /\ IncludeMacroStack' = IncludeMacroStack
    BY <1>1, <1>3, <1>4, SetLexerGuards
  <1>5. CASE EnterSourceFile(line.file, LineRead)
    <2>1. IncludeMacroStack \in Seq(Lexer) /\ LineRead \in Lexer
      BY <1>2 DEF IInv, TypeOK, TokensTold, Reads
    <2>2. /\ IncludeMacroStack' = Append(IncludeMacroStack, LineRead)
          /\ CurPPLexer' = NewLexer(line.file)
      BY <1>5 DEF EnterSourceFile
    <2>3. GuardKnown(text', CurPPLexer')
      BY <2>2, NewLexerGuards
    <2>4. /\ DOMAIN IncludeMacroStack' = 1..Len(IncludeMacroStack) + 1
          /\ DOMAIN IncludeMacroStack = 1..Len(IncludeMacroStack)
          /\ \A i \in 1..Len(IncludeMacroStack) :
               IncludeMacroStack'[i] = IncludeMacroStack[i]
          /\ IncludeMacroStack'[Len(IncludeMacroStack) + 1] = LineRead
          /\ Len(IncludeMacroStack) \in Nat
      BY <2>1, <2>2, AppendFacts
    <2>5. ASSUME NEW i \in DOMAIN IncludeMacroStack'
          PROVE  GuardKnown(content'[IncludeMacroStack'[i].file], IncludeMacroStack'[i])
      <3>1. CASE i \in DOMAIN IncludeMacroStack
        BY <1>1, <2>4, <3>1 DEF AllGuardsKnown
      <3>2. CASE i = Len(IncludeMacroStack) + 1
        <4>1. content'[IncludeMacroStack'[i].file] = text
          BY <1>1, <1>3, <2>4, <3>2 DEF text
        <4> QED BY <1>3, <2>4, <3>2, <4>1
      <3> QED BY <2>4, <3>1, <3>2
    <2> QED BY <2>3, <2>5 DEF AllGuardsKnown
  <1> QED BY <1>4, <1>5 DEF HandleIncludeDirective, SetLexer

LEMMA EndOfFileGuards ==
  ASSUME IInv, AllGuardsKnown, HandleEndOfFile
  PROVE  AllGuardsKnown'
  <1>1. AtEnd /\ content' = content
    BY DEF HandleEndOfFile
  <1>2. CASE IncludeMacroStack # <<>>
    <2>1. /\ CurPPLexer' = Last(IncludeMacroStack)
          /\ IncludeMacroStack' = Front(IncludeMacroStack)
      BY <1>2 DEF HandleEndOfFile
    <2> DEFINE n == Len(IncludeMacroStack)
    <2>2. IncludeMacroStack \in Seq(Lexer) /\ n \in Nat
      BY DEF IInv, TypeOK
    <2>3. /\ Front(IncludeMacroStack) \in Seq(Lexer)
          /\ Len(Front(IncludeMacroStack)) = n - 1
          /\ \A i \in 1..n - 1 : Front(IncludeMacroStack)[i] = IncludeMacroStack[i]
      BY <1>2, <2>2, FrontLast
    <2>4. n # 0
      BY <1>2, <2>2, EmptySeq
    <2>5. /\ Last(IncludeMacroStack) = IncludeMacroStack[n]
          /\ n \in DOMAIN IncludeMacroStack
          /\ DOMAIN IncludeMacroStack' = 1..n - 1
          /\ \A i \in 1..n - 1 : /\ IncludeMacroStack'[i] = IncludeMacroStack[i]
                                 /\ i \in DOMAIN IncludeMacroStack
      BY <2>1, <2>2, <2>3, <2>4 DEF Last
    <2>6. GuardKnown(text', CurPPLexer')
      <3>1. text' = content[IncludeMacroStack[n].file]
        BY <1>1, <2>1, <2>5 DEF text
      <3> QED BY <2>1, <2>5, <3>1 DEF AllGuardsKnown
    <2>7. \A i \in DOMAIN IncludeMacroStack' :
            GuardKnown(content'[IncludeMacroStack'[i].file], IncludeMacroStack'[i])
      BY <1>1, <2>5 DEF AllGuardsKnown
    <2> QED BY <2>6, <2>7 DEF AllGuardsKnown
  <1>3. CASE IncludeMacroStack = <<>>
    <2> DEFINE lx == [CurPPLexer EXCEPT !.ConditionalStack = <<>>]
    <2>1. CurPPLexer' = lx /\ UNCHANGED IncludeMacroStack
      BY <1>3 DEF HandleEndOfFile
    <2>2. CurPPLexer \in Lexer
      BY LexersGood DEF GoodLexer
    <2>3. lx.pos = CurPPLexer.pos /\ lx.file = CurPPLexer.file
          /\ lx.MIOpt = CurPPLexer.MIOpt
      BY <2>2 DEF Lexer
    <2> HIDE DEF lx
    <2> QED BY <1>1, <2>1, <2>3, AtEndGuards, SetLexerGuards
  <1> QED BY <1>2, <1>3

LEMMA NextGuards ==
  ASSUME IInv, AllFollowTheText, AllGuardsKnown, [Next]_vars
  PROVE  AllGuardsKnown'
  <1>1. CASE LexToken \/ LexMacroUse \/ HandleOtherDirective \/ SkipLine
             \/ HandleDefineDirective \/ HandleUndefDirective \/ HandlePragmaOnce
    BY <1>1, QuietGuards
  <1>2. CASE HandleIfdefDirective
    BY <1>2, IfdefGuards
  <1>3. CASE HandleIfDirective
    BY <1>3, IfGuards
  <1>4. CASE HandleEndifDirective \/ SkipEndif
    BY <1>4, EndifGuards
  <1>5. CASE HandleElseDirective \/ HandleElifDirective
    BY <1>5, ElseElifGuards
  <1>6. CASE SkipElse \/ SkipElif
    BY <1>6, SkipElseElifGuards
  <1>7. CASE SkipNestedIf
    BY <1>7, SkipNestedIfGuards
  <1>8. CASE SkipEndOfFile
    BY <1>8, SkipEndOfFileGuards
  <1>9. CASE HandleIncludeDirective(FALSE) \/ HandleImportDirective
    BY <1>9, IncludeGuards DEF HandleImportDirective
  <1>10. CASE HandleEndOfFile
    BY <1>10, EndOfFileGuards
  <1>11. CASE UNCHANGED vars
    <2>1. text' = text /\ CurPPLexer' = CurPPLexer /\ content' = content
          /\ IncludeMacroStack' = IncludeMacroStack
      BY <1>11 DEF vars, text
    <2>2. GuardKnown(text', CurPPLexer')
      BY <2>1 DEF AllGuardsKnown
    <2>3. \A i \in DOMAIN IncludeMacroStack' :
            GuardKnown(content'[IncludeMacroStack'[i].file], IncludeMacroStack'[i])
      BY <2>1 DEF AllGuardsKnown
    <2> QED BY <2>2, <2>3 DEF AllGuardsKnown
  <1> QED BY <1>1, <1>2, <1>3, <1>4, <1>5, <1>6, <1>7, <1>8, <1>9, <1>10, <1>11
          DEF Next, Terminated

(* What a recorded controlling macro m of a text c promises.               *)
Harmless(c, m) ==
  \A defs \in Definitions : hasMacroDefinition(m, defs) => ~IncludeHasEffect(c, defs)

GuardRecorded(c, info) ==
  info.ControllingMacro # NoMacro => Harmless(c, info.ControllingMacro)

(* The controlling macro of the current file is recorded at its end only.  *)
LEMMA MacroRecorded ==
  ASSUME IInv, AllGuardsKnown, HandleEndOfFile, ~HasTopLevelElse(text),
         GetControllingMacroAtEndOfFile(CurPPLexer.MIOpt) # NoMacro
  PROVE  Harmless(text, GetControllingMacroAtEndOfFile(CurPPLexer.MIOpt))
  <1> DEFINE mi == CurPPLexer.MIOpt
             m == mi.TheMacro
             p == CurPPLexer.pos
             c == text
  <1>1. CurPPLexer \in Lexer /\ mi \in MIOptState /\ content \in [Buffers -> Seq(Line)]
    BY LexersGood DEF GoodLexer, Lexer, IInv, TypeOK
  <1>2. c \in Seq(Line) /\ p \in Nat /\ p = Len(c)
    BY <1>1 DEF HandleEndOfFile, AtEnd, Lexer, text
  <1>3. /\ GetControllingMacroAtEndOfFile(mi) = m
        /\ m \in Macros /\ m # NoMacro /\ ~mi.ReadAnyTokens
    BY <1>1 DEF GetControllingMacroAtEndOfFile, MIOptState
  <1>4. Known(c, p, mi)
    BY DEF AllGuardsKnown, GuardKnown
  <1>5. /\ p >= 1 /\ Guards(c[1], m) /\ GroupHeads(c, 1, p + 1) = {1}
        /\ WrappedSoFar(c, p)
    BY <1>3, <1>4 DEF Known
  <1> HIDE DEF c, p, m, mi
  <1>6. Harmless(c, m)
    BY <1>2, <1>3, <1>5, KnownIsSound DEF Harmless
  <1> QED BY <1>3, <1>6 DEF c, mi

(* Entering a file, or refusing to, keeps what is recorded of it.          *)
LEMMA ShouldEnterKeepsMacro ==
  ASSUME NEW info \in PerFileInfo, NEW isImport \in BOOLEAN
  PROVE  ShouldEnterIncludeFile(info, isImport).info.ControllingMacro
           = info.ControllingMacro
  BY DEF ShouldEnterIncludeFile, PerFileInfo

LEMMA NextRecords ==
  ASSUME IInv, AllGuardsKnown, [Next]_vars, NEW f \in Files,
         HasTopLevelElse(content[f]) \/ GuardRecorded(content[f], FileInfo[f])
  PROVE  HasTopLevelElse(content'[f]) \/ GuardRecorded(content'[f], FileInfo'[f])
  <1>0. FileInfo \in [Files -> PerFileInfo] /\ FileInfo[f] \in PerFileInfo
    BY DEF IInv, TypeOK
  <1>1. CASE HandleEndOfFile
    <2> DEFINE macro == GetControllingMacroAtEndOfFile(CurPPLexer.MIOpt)
    <2>1. content' = content
      BY <1>1 DEF HandleEndOfFile
    <2>2. FileInfo' = IF macro # NoMacro /\ CurPPLexer.file \in Files
             THEN [FileInfo EXCEPT ![CurPPLexer.file].ControllingMacro = macro]
             ELSE FileInfo
      BY <1>1 DEF HandleEndOfFile
    <2> HIDE DEF macro
    <2>3. CASE macro # NoMacro /\ CurPPLexer.file = f
      <3>1. FileInfo'[f].ControllingMacro = macro
        BY <1>0, <2>2, <2>3 DEF PerFileInfo
      <3>2. text = content[f]
        BY <2>3 DEF text
      <3>3. HasTopLevelElse(text) \/ Harmless(text, macro)
        BY <1>1, <2>3, MacroRecorded DEF macro
      <3> QED BY <2>1, <3>1, <3>2, <3>3 DEF GuardRecorded
    <2>4. CASE ~(macro # NoMacro /\ CurPPLexer.file = f)
      <3>1. FileInfo'[f] = FileInfo[f]
        BY <1>0, <2>2, <2>4
      <3> QED BY <2>1, <3>1
    <2> QED BY <2>3, <2>4
  <1>2. CASE HandleIncludeDirective(FALSE) \/ HandleImportDirective
    <2>1. PICK isImport \in BOOLEAN : HandleIncludeDirective(isImport)
      BY <1>2 DEF HandleImportDirective
    <2> DEFINE answer == ShouldEnterIncludeFile(FileInfo[line.file], isImport)
    <2>2. content' = content
      BY <2>1 DEF HandleIncludeDirective, SetLexer
    <2>3. \/ FileInfo' = FileInfo
          \/ FileInfo' = [FileInfo EXCEPT ![line.file] = answer.info]
      BY <2>1 DEF HandleIncludeDirective, SetLexer
    <2>4. line.file = f => answer.info.ControllingMacro = FileInfo[f].ControllingMacro
      BY <1>0, <2>1, ShouldEnterKeepsMacro
    <2> HIDE DEF answer
    <2>5. FileInfo'[f].ControllingMacro = FileInfo[f].ControllingMacro
      BY <1>0, <2>3, <2>4
    <2> QED BY <2>2, <2>5 DEF GuardRecorded
  <1>3. CASE HandlePragmaOnce
    <2>1. /\ content' = content
          /\ \/ FileInfo' = FileInfo
             \/ FileInfo' = [FileInfo EXCEPT ![CurPPLexer.file].isImport = TRUE]
      BY <1>3 DEF HandlePragmaOnce
    <2>2. FileInfo'[f].ControllingMacro = FileInfo[f].ControllingMacro
      BY <1>0, <2>1 DEF PerFileInfo
    <2> QED BY <2>1, <2>2 DEF GuardRecorded
  <1>4. CASE UNCHANGED <<content, FileInfo>>
    BY <1>4
  <1> QED BY <1>1, <1>2, <1>3, <1>4
          DEF Next, LexToken, LexMacroUse, HandleOtherDirective,
        HandleDefineDirective, HandleUndefDirective, HandleIfdefDirective,
        HandleIfDirective, HandleEndifDirective, HandleElseDirective,
        HandleElifDirective, SkipLine, SkipNestedIf, SkipEndif, SkipElse,
        SkipElif, SkipEndOfFile, Terminated, SetLexer, vars

(* The multiple-include optimisation only leaves out inclusions that have  *)
(* no effect: for every text without an #else or #elif of a top-level #if, *)
(* and every later state of the macros, in which the controlling macro     *)
(* recorded at the end of the file is defined.                             *)
THEOREM ControllingMacroSoundWithoutElseCorrect ==
  Spec => []ControllingMacroSoundWithoutElse
  <1> DEFINE Inv == /\ IInv /\ content \in Contents
                    /\ AllFollowTheText /\ AllGuardsKnown
                    /\ ControllingMacroSoundWithoutElse
  <1>1. Init => Inv
    <2> SUFFICES ASSUME Init PROVE Inv
      OBVIOUS
    <2>1. IInv /\ content \in Contents
      BY InitInv DEF Init
    <2>2. FollowsText(text, CurPPLexer) /\ GuardKnown(text, CurPPLexer)
      BY NewLexerFollows, NewLexerGuards DEF Init
    <2>3. ASSUME NEW i \in DOMAIN IncludeMacroStack
          PROVE  LET lx == IncludeMacroStack[i]
                 IN  FollowsText(content[lx.file], lx) /\ GuardKnown(content[lx.file], lx)
      <3>1. IncludeMacroStack[i] = NewLexer(MainFile)
        BY DEF Init
      <3> QED BY <3>1, NewLexerFollows, NewLexerGuards
    <2>4. ControllingMacroSoundWithoutElse
      BY DEF Init, ControllingMacroSoundWithoutElse, GuardedFile
    <2> QED BY <2>1, <2>2, <2>3, <2>4 DEF AllFollowTheText, AllGuardsKnown
  <1>2. Inv /\ [Next]_vars => Inv'
    <2> SUFFICES ASSUME Inv, [Next]_vars PROVE Inv'
      OBVIOUS
    <2>1. (IInv /\ content \in Contents)' /\ AllFollowTheText' /\ AllGuardsKnown'
      BY NextInv, NextFollows, NextGuards
    <2>2. ASSUME NEW f \in Files
          PROVE  HasTopLevelElse(content'[f]) \/ GuardRecorded(content'[f], FileInfo'[f])
      <3>1. HasTopLevelElse(content[f]) \/ GuardRecorded(content[f], FileInfo[f])
        BY DEF ControllingMacroSoundWithoutElse, GuardedFile, GuardRecorded, Harmless
      <3> QED BY <3>1, NextRecords
    <2>3. ControllingMacroSoundWithoutElse'
      BY <2>2 DEF ControllingMacroSoundWithoutElse, GuardedFile, GuardRecorded, Harmless
    <2> QED BY <2>1, <2>3
  <1> QED BY <1>1, <1>2, PTL DEF Spec
============================================================================

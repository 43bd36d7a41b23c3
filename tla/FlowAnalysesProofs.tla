------------------------- MODULE FlowAnalysesProofs -------------------------
(***************************************************************************)
(* The solver's solution solves the equations, in whatever order the       *)
(* blocks are processed, and what the two analyses make of it is right,    *)
(* for every graph and every code of its blocks (that the solver ends is   *)
(* only model-checked).                                                    *)
(***************************************************************************)
EXTENDS FlowAnalyses, Integers, FiniteSetTheorems, WellFoundedInduction, TLAPS

(***************************************************************************)
(* Induction up and down an interval.                                      *)
(***************************************************************************)
LEMMA LeastExists ==
  ASSUME NEW S \in SUBSET Nat, S # {}
  PROVE  \E x \in S : \A y \in S : x <= y
<1>1. \E x \in S : \A y \in S : ~ (<<y, x>> \in OpToRel(<, Nat))
  BY NatLessThanWellFounded, WFMin, Zenon
<1>2. \A x, y \in Nat : ~ (<<y, x>> \in OpToRel(<, Nat)) => x <= y
  BY DEF OpToRel
<1> QED BY <1>1, <1>2, Zenon

LEMMA Upward ==
  ASSUME NEW n \in Nat, NEW S, 1 \in S, \A k \in 1..n - 1 : k \in S => k + 1 \in S
  PROVE  \A k \in 1..n : k \in S
<1> SUFFICES ASSUME (1..n) \ S # {} PROVE FALSE
  OBVIOUS
<1> DEFINE T == (1..n) \ S
<1>1. PICK x \in T : \A y \in T : x <= y
  <2>1. T \in SUBSET Nat /\ T # {}
    OBVIOUS
  <2> QED BY <2>1, LeastExists
<1>2. x \in 1..n /\ x \notin S /\ x # 1
  OBVIOUS
<1>3. x - 1 \in 1..n - 1 /\ x - 1 \in 1..n /\ (x - 1) + 1 = x /\ ~(x <= x - 1)
  BY <1>2
<1>4. x - 1 \in S
  BY <1>1, <1>3
<1> QED BY <1>2, <1>3, <1>4

LEMMA Downward ==
  ASSUME NEW n \in Nat, NEW S, n \in S, \A k \in 1..n - 1 : k + 1 \in S => k \in S
  PROVE  \A k \in 1..n : k \in S
<1> SUFFICES ASSUME NEW k \in 1..n PROVE k \in S
  OBVIOUS
<1> DEFINE R == {j \in 1..n : n + 1 - j \in S}
<1>1. 1 \in R
  OBVIOUS
<1>2. ASSUME NEW j \in 1..n - 1, j \in R PROVE j + 1 \in R
  <2>1. n - j \in 1..n - 1 /\ (n - j) + 1 = n + 1 - j /\ n + 1 - (j + 1) = n - j
    OBVIOUS
  <2>2. n - j \in S
    BY <1>2, <2>1
  <2> QED BY <2>1, <2>2
<1> HIDE DEF R
<1>3. \A j \in 1..n : j \in R
  BY <1>1, <1>2, Upward
<1>4. n + 1 - k \in 1..n /\ n + 1 - (n + 1 - k) = k
  OBVIOUS
<1>5. n + 1 - k \in R
  BY <1>3, <1>4
<1> QED BY <1>4, <1>5 DEF R

(***************************************************************************)
(* The transfer functions statement by statement.                          *)
(***************************************************************************)
LEMMA LiveBeforeEachExists ==
  ASSUME NEW code, NEW V, Len(code) \in Nat
  PROVE  \E f : f = [k \in 1..Len(code) + 1 |->
                       IF k > Len(code) THEN V ELSE Live!Visit(code[k], f[k + 1])]
<1> DEFINE n == Len(code)
           Rec(m, f) == f = [k \in n + 2 - m..n + 1 |->
                               IF k > n THEN V ELSE Live!Visit(code[k], f[k + 1])]
           S == {m \in 1..n + 1 : \E f : Rec(m, f)}
<1>n. n \in Nat
  OBVIOUS
<1> HIDE DEF n
<1>1. 1 \in S
  <2> DEFINE g == [k \in n + 1..n + 1 |-> V]
  <2>1. n + 2 - 1 = n + 1 /\ \A k \in n + 1..n + 1 : k > n
    BY <1>n
  <2>2. Rec(1, g)
    BY <2>1
  <2>3. 1 \in 1..n + 1
    BY <1>n
  <2> QED BY <2>2, <2>3
<1>2. ASSUME NEW m \in 1..(n + 1) - 1, m \in S PROVE m + 1 \in S
  <2>1. PICK f : Rec(m, f)
    BY <1>2
  <2> DEFINE j == n + 1 - m
             g == [k \in j..n + 1 |-> IF k = j THEN Live!Visit(code[j], f[j + 1]) ELSE f[k]]
  <2>2. n + 2 - m = j + 1 /\ n + 2 - (m + 1) = j /\ j \in 1..n /\ m + 1 \in 1..n + 1
    BY <1>n
  <2>3. ASSUME NEW k \in j..n + 1
        PROVE  g[k] = IF k > n THEN V ELSE Live!Visit(code[k], g[k + 1])
    <3>1. CASE k = j
      <4>1. ~(k > n) /\ k + 1 \in j..n + 1 /\ k + 1 # j /\ k + 1 = j + 1
        BY <1>n, <2>2, <3>1
      <4>2. g[k + 1] = f[j + 1]
        BY <4>1
      <4> QED BY <3>1, <4>1, <4>2
    <3>2. CASE k # j
      <4>1. k \in j + 1..n + 1
        BY <2>2, <3>2
      <4>2. f[k] = IF k > n THEN V ELSE Live!Visit(code[k], f[k + 1])
        BY <2>1, <2>2, <4>1
      <4>3. ~(k > n) => k + 1 \in j..n + 1 /\ k + 1 # j
        BY <1>n, <2>2, <4>1
      <4>4. ~(k > n) => g[k + 1] = f[k + 1]
        BY <4>3
      <4> QED BY <3>2, <4>2, <4>4
    <3> QED BY <3>1, <3>2
  <2>4. g = [k \in j..n + 1 |-> IF k > n THEN V ELSE Live!Visit(code[k], g[k + 1])]
    <3> HIDE DEF j
    <3> QED BY <2>3
  <2>5. Rec(m + 1, g)
    BY <2>2, <2>4
  <2> QED BY <2>2, <2>5
<1>3. n + 1 \in Nat /\ n + 1 \in 1..n + 1
  BY <1>n
<1> HIDE DEF S
<1>4. n + 1 \in S
  <2>1. \A k \in 1..n + 1 : k \in S
    BY <1>1, <1>2, <1>3, Upward
  <2> QED BY <1>3, <2>1
<1>5. PICK f : Rec(n + 1, f)
  BY <1>4 DEF S
<1>6. n + 2 - (n + 1) = 1
  BY <1>n
<1> QED BY <1>5, <1>6 DEF n

LEMMA LiveBeforeFacts ==
  ASSUME NEW code, NEW V, Len(code) \in Nat
  PROVE  /\ Live!LiveBefore(code, Len(code) + 1, V) = V
         /\ \A k \in 1..Len(code) :
              Live!LiveBefore(code, k, V) = Live!Visit(code[k], Live!LiveBefore(code, k + 1, V))
<1> DEFINE f == Live!LiveBeforeEach(code, V)
<1>1. f = [k \in 1..Len(code) + 1 |-> IF k > Len(code) THEN V ELSE Live!Visit(code[k], f[k + 1])]
  BY LiveBeforeEachExists DEF Live!LiveBeforeEach
<1> HIDE DEF f
<1>2. f[Len(code) + 1] = V
  BY <1>1
<1>3. ASSUME NEW k \in 1..Len(code) PROVE f[k] = Live!Visit(code[k], f[k + 1])
  <2>1. k \in 1..Len(code) + 1 /\ ~(k > Len(code))
    OBVIOUS
  <2> QED BY <1>1, <2>1
<1> QED BY <1>2, <1>3 DEF Live!LiveBefore, f

(* What a statement reads is live before it, and what it writes is not     *)
(* unless it reads it; the globals stay live.                              *)
LEMMA LiveVisitFacts ==
  ASSUME NEW s \in StatementsOf("live"), NEW L \in SUBSET (Locals \cup Globals), Globals \subseteq L
  PROVE  /\ Live!Visit(s, L) \in SUBSET (Locals \cup Globals)
         /\ Globals \subseteq Live!Visit(s, L)
         /\ \A v \in Locals :
              v \in Live!Visit(s, L) <=>
                v \in Live!Reads(s) \/ (v \notin Live!Writes(s) /\ v \in L)
<1>1. /\ s.op \in {"assign", "compound", "declare", "read", "increment"}
      /\ s.var \in Locals \cup Globals
      /\ s.reads \in SUBSET (Locals \cup Globals)
  BY DEF StatementsOf, Statements
<1>2. CASE s.op = "assign"
  BY <1>1, <1>2, StorageAssumption
     DEF Live!Visit, Live!VisitAssign, Live!Kill, Live!Reads, Live!Writes
<1>3. CASE s.op = "compound"
  BY <1>1, <1>3, StorageAssumption
     DEF Live!Visit, Live!VisitAssign, Live!Kill, Live!Reads, Live!Writes
<1>4. CASE s.op = "declare"
  BY <1>1, <1>4, StorageAssumption
     DEF Live!Visit, Live!VisitDeclStmt, Live!Kill, Live!Reads, Live!Writes
<1>5. CASE s.op = "read"
  BY <1>1, <1>5 DEF Live!Visit, Live!Reads, Live!Writes
<1>6. CASE s.op = "increment"
  BY <1>1, <1>6 DEF Live!Visit, Live!Reads, Live!Writes
<1> QED BY <1>1, <1>2, <1>3, <1>4, <1>5, <1>6

(* A local is live before a statement exactly when it is read from there   *)
(* on in the block, or left alone there and live behind the block.         *)
LEMMA LiveBeforeMeans ==
  ASSUME problem \in Problems, problem.analysis = "live", NEW B \in Blocks,
         NEW V \in SUBSET (Locals \cup Globals), Globals \subseteq V,
         NEW i \in 1..Len(Live!Code(B)) + 1
  PROVE  /\ Live!LiveBefore(Live!Code(B), i, V) \in SUBSET (Locals \cup Globals)
         /\ Globals \subseteq Live!LiveBefore(Live!Code(B), i, V)
         /\ \A v \in Locals :
              v \in Live!LiveBefore(Live!Code(B), i, V) <=>
                Live!ReadIn(B, i, v) \/ (Live!LeftAlone(B, i, v) /\ v \in V)
<1> DEFINE code == Live!Code(B)
           n == Len(code)
           L(k) == Live!LiveBefore(code, k, V)
           Good(k) == /\ L(k) \in SUBSET (Locals \cup Globals)
                      /\ Globals \subseteq L(k)
                      /\ \A v \in Locals :
                           v \in L(k) <=>
                             Live!ReadIn(B, k, v) \/ (Live!LeftAlone(B, k, v) /\ v \in V)
           S == {k \in 1..n + 1 : Good(k)}
<1>1. code \in Seq(StatementsOf("live"))
  BY ProblemsAssumption DEF Live!Code
<1>2. n \in Nat /\ \A k \in 1..n : code[k] \in StatementsOf("live")
  BY <1>1
<1>3. n + 1 \in S
  <2>1. L(n + 1) = V
    BY <1>2, LiveBeforeFacts
  <2>2. n + 1 \in 1..n + 1 /\ \A j \in n + 1..n : FALSE
    BY <1>2
  <2>3. ASSUME NEW v PROVE ~Live!ReadIn(B, n + 1, v) /\ Live!LeftAlone(B, n + 1, v)
    BY <2>2 DEF Live!ReadIn, Live!LeftAlone
  <2> QED BY <2>1, <2>2, <2>3
<1>4. ASSUME NEW k \in 1..(n + 1) - 1, k + 1 \in S PROVE k \in S
  <2> HIDE DEF code, n
  <2>1. k \in 1..n /\ k \in 1..n + 1 /\ Good(k + 1)
    BY <1>2, <1>4
  <2>2. L(k) = Live!Visit(code[k], L(k + 1))
    BY <1>2, <2>1, LiveBeforeFacts DEF n
  <2>3. code[k] \in StatementsOf("live")
    BY <1>2, <2>1
  <2>4. ASSUME NEW v
        PROVE  /\ Live!ReadIn(B, k, v) <=>
                     \/ v \in Live!Reads(code[k])
                     \/ v \notin Live!Writes(code[k]) /\ Live!ReadIn(B, k + 1, v)
               /\ Live!LeftAlone(B, k, v) <=>
                     v \notin Live!Writes(code[k]) /\ Live!LeftAlone(B, k + 1, v)
    <3>1. \A j : j \in k..n <=> j = k \/ j \in k + 1..n
      BY <1>2, <2>1
    <3>2. \A j \in k + 1..n : \A m : m \in k..j - 1 <=> m = k \/ m \in k + 1..j - 1
      BY <1>2, <2>1
    <3>3. \A m : m \notin k..k - 1
      BY <2>1
    <3>4. Live!ReadIn(B, k, v) <=>
            \E j \in k..n : /\ v \in Live!Reads(code[j])
                            /\ \A m \in k..j - 1 : v \notin Live!Writes(code[m])
      BY DEF Live!ReadIn, code, n
    <3>5. Live!ReadIn(B, k + 1, v) <=>
            \E j \in k + 1..n : /\ v \in Live!Reads(code[j])
                                /\ \A m \in k + 1..j - 1 : v \notin Live!Writes(code[m])
      BY DEF Live!ReadIn, code, n
    <3>6. Live!LeftAlone(B, k, v) <=> \A j \in k..n : v \notin Live!Writes(code[j])
      BY DEF Live!LeftAlone, code, n
    <3>7. Live!LeftAlone(B, k + 1, v) <=> \A j \in k + 1..n : v \notin Live!Writes(code[j])
      BY DEF Live!LeftAlone, code, n
    <3>8. Live!ReadIn(B, k, v) <=>
            \/ v \in Live!Reads(code[k])
            \/ v \notin Live!Writes(code[k]) /\ Live!ReadIn(B, k + 1, v)
      BY <3>1, <3>2, <3>3, <3>4, <3>5, Zenon
    <3> QED BY <3>1, <3>6, <3>7, <3>8, Zenon
  <2>5. Good(k)
    <3>1. \A v \in Locals :
            v \in L(k) <=> v \in Live!Reads(code[k]) \/ (v \notin Live!Writes(code[k]) /\ v \in L(k + 1))
      BY <2>1, <2>2, <2>3, LiveVisitFacts
    <3>2. L(k) \in SUBSET (Locals \cup Globals) /\ Globals \subseteq L(k)
      BY <2>1, <2>2, <2>3, LiveVisitFacts
    <3> HIDE DEF L
    <3> QED BY <2>1, <2>4, <3>1, <3>2
  <2> QED BY <2>1, <2>5
<1> HIDE DEF S
<1>5. \A k \in 1..n + 1 : k \in S
  <2>1. n + 1 \in Nat
    BY <1>2
  <2> QED BY <1>3, <1>4, <2>1, Downward
<1>6. i \in S
  BY <1>5
<1> QED BY <1>6 DEF S

(***************************************************************************)
(* Ways through the graph.                                                 *)
(***************************************************************************)
Linked(w) == \A i \in 1..Len(w) - 1 : w[i + 1] \in problem.succ[w[i]]
NoBlockTwice(w) == \A i, j \in 1..Len(w) : w[i] = w[j] => i = j
Paths == {w \in Seq(Blocks) : w # <<>> /\ Linked(w) /\ NoBlockTwice(w)}

(* A way is no longer than there are blocks.                               *)
LEMMA WaysArePaths ==
  ASSUME NEW B
  PROVE  Live!Ways(B) = {w \in Paths : w[1] \in problem.succ[B]}
<1> DEFINE Short == UNION {[1..n -> Blocks] : n \in 1..Cardinality(Blocks)}
<1>1. Cardinality(Blocks) \in Nat
  BY BlocksAssumption, FS_CardinalityType
<1>2. ASSUME NEW w \in Short
      PROVE  w \in Seq(Blocks) /\ w # <<>> /\ DOMAIN w = 1..Len(w)
  <2>1. PICK n \in 1..Cardinality(Blocks) : w \in [1..n -> Blocks]
    OBVIOUS
  <2>2. n \in Nat /\ n >= 1
    BY <1>1
  <2>3. w \in Seq(Blocks) /\ Len(w) = n
    BY <2>1, <2>2
  <2> QED BY <2>1, <2>2, <2>3
<1>3. ASSUME NEW w \in Paths
      PROVE  w \in Short /\ DOMAIN w = 1..Len(w)
  <2> DEFINE n == Len(w)
  <2>1. w \in Seq(Blocks) /\ w # <<>> /\ n \in Nat /\ n >= 1 /\ w \in [1..n -> Blocks]
    BY DEF Paths
  <2>2. w \in Injection(1..n, Blocks)
    BY <2>1 DEF Injection, IsInjective, Paths, NoBlockTwice
  <2>3. Cardinality(1..n) <= Cardinality(Blocks)
    BY <2>2, BlocksAssumption, FS_Injection
  <2>4. Cardinality(1..n) = n
    BY <2>1, FS_Interval
  <2>5. n \in 1..Cardinality(Blocks)
    BY <1>1, <2>1, <2>3, <2>4
  <2> QED BY <2>1, <2>5
<1> HIDE DEF Short
<1>4. Live!Ways(B) =
        {w \in Short : /\ w[1] \in problem.succ[B]
                       /\ Linked(w)
                       /\ \A i, j \in DOMAIN w : w[i] = w[j] => i = j}
  <2>1. Live!Cardinality(Blocks) = Cardinality(Blocks)
    BY DEF Live!Cardinality, Cardinality
  <2> QED BY <2>1 DEF Live!Ways, Linked, Short
<1>5. ASSUME NEW w
      PROVE  w \in Live!Ways(B) <=> w \in Paths /\ w[1] \in problem.succ[B]
  <2>1. w \in Live!Ways(B) => w \in Paths /\ w[1] \in problem.succ[B]
    BY <1>2, <1>4 DEF Paths, NoBlockTwice
  <2>2. w \in Paths /\ w[1] \in problem.succ[B] => w \in Live!Ways(B)
    BY <1>3, <1>4 DEF Paths, NoBlockTwice
  <2> QED BY <2>1, <2>2
<1> QED BY <1>5

(* The variable is read in the last block and left alone in those before.  *)
ReadOn(w, v) ==
  /\ Live!ReadIn(w[Len(w)], 1, v)
  /\ \A i \in 1..Len(w) - 1 : Live!LeftAlone(w[i], 1, v)

ReadFrom(b, v) == \E w \in Paths : w[1] = b /\ ReadOn(w, v)

LEMMA ReadBehindMeans ==
  ASSUME NEW B, NEW v
  PROVE  Live!ReadBehind(B, v) <=> \E b \in problem.succ[B] : ReadFrom(b, v)
BY WaysArePaths DEF Live!ReadBehind, ReadFrom, ReadOn

(* A way that is continued through its own first block is cut short.       *)
LEMMA ReadFromMeans ==
  ASSUME NEW b \in Blocks, NEW v,
         Live!ReadIn(b, 1, v) \/ (Live!LeftAlone(b, 1, v) /\ Live!ReadBehind(b, v))
  PROVE  ReadFrom(b, v)
<1>1. CASE Live!ReadIn(b, 1, v)
  <2>1. <<b>> \in Seq(Blocks) /\ Len(<<b>>) = 1 /\ <<b>>[1] = b /\ <<b>> # <<>>
    OBVIOUS
  <2> DEFINE w == <<b>>
  <2> HIDE DEF w
  <2>2. w \in Paths
    BY <2>1 DEF Paths, Linked, NoBlockTwice, w
  <2>3. ReadOn(w, v)
    BY <1>1, <2>1 DEF ReadOn, w
  <2> QED BY <2>1, <2>2, <2>3 DEF ReadFrom, w
<1>2. CASE Live!LeftAlone(b, 1, v) /\ Live!ReadBehind(b, v)
  <2>1. PICK u \in Paths : u[1] \in problem.succ[b] /\ ReadOn(u, v)
    BY <1>2, ReadBehindMeans DEF ReadFrom
  <2> DEFINE n == Len(u)
  <2>2. u \in Seq(Blocks) /\ n \in Nat /\ n >= 1 /\ \A i \in 1..n : u[i] \in Blocks
    BY DEF Paths
  <2>u. /\ \A i \in 1..n - 1 : u[i + 1] \in problem.succ[u[i]]
        /\ \A i, j \in 1..n : u[i] = u[j] => i = j
        /\ Live!ReadIn(u[n], 1, v)
        /\ \A i \in 1..n - 1 : Live!LeftAlone(u[i], 1, v)
    BY <2>1 DEF Paths, Linked, NoBlockTwice, ReadOn
  <2> HIDE DEF n
  <2>3. CASE \E k \in 1..n : u[k] = b
    <3>1. PICK k \in 1..n : u[k] = b
      BY <2>3
    <3> DEFINE m == n + 1 - k
               w == [i \in 1..m |-> u[i + k - 1]]
    <3>2. m \in Nat /\ m >= 1 /\ m + k - 1 = n /\ 1 + k - 1 = k
      BY <2>2
    <3>3. \A i \in 1..m : i + k - 1 \in 1..n
      BY <2>2
    <3>4. \A i \in 1..m - 1 : /\ i \in 1..m /\ i + 1 \in 1..m
                              /\ i + k - 1 \in 1..n - 1 /\ (i + 1) + k - 1 = (i + k - 1) + 1
      BY <2>2
    <3>a. \A i, j \in 1..m : i + k - 1 = j + k - 1 => i = j
      BY <2>2
    <3> HIDE DEF m
    <3>5. w \in Seq(Blocks) /\ Len(w) = m /\ w # <<>>
      <4>1. w \in [1..m -> Blocks]
        BY <2>2, <3>3
      <4> HIDE DEF w
      <4> QED BY <3>2, <4>1
    <3>6. w[1] = b /\ w[m] = u[n]
      BY <3>1, <3>2
    <3>7. ASSUME NEW i \in 1..m - 1
          PROVE  w[i + 1] \in problem.succ[w[i]] /\ Live!LeftAlone(w[i], 1, v)
      <4>1. w[i] = u[i + k - 1] /\ w[i + 1] = u[(i + k - 1) + 1]
        BY <3>4
      <4> QED BY <2>u, <3>4, <4>1
    <3>8. ASSUME NEW i \in 1..m, NEW j \in 1..m, w[i] = w[j] PROVE i = j
      <4>1. u[i + k - 1] = u[j + k - 1]
        BY <3>8
      <4>2. i + k - 1 = j + k - 1
        BY <2>u, <3>3, <4>1
      <4> QED BY <3>a, <4>2
    <3> HIDE DEF w
    <3>9. w \in Paths
      BY <3>5, <3>7, <3>8 DEF Paths, Linked, NoBlockTwice
    <3>10. ReadOn(w, v)
      BY <2>u, <3>5, <3>6, <3>7 DEF ReadOn
    <3> QED BY <3>6, <3>9, <3>10 DEF ReadFrom
  <2>4. CASE \A k \in 1..n : u[k] # b
    <3> DEFINE w == [i \in 1..n + 1 |-> IF i = 1 THEN b ELSE u[i - 1]]
    <3>1. n + 1 \in Nat /\ 1 \in 1..n + 1 /\ n + 1 \in 1..n + 1 /\ n + 1 # 1 /\ (n + 1) - 1 = n
      BY <2>2
    <3>2. \A i \in 1..n + 1 : i # 1 => i - 1 \in 1..n
      BY <2>2
    <3>3. w \in Seq(Blocks) /\ Len(w) = n + 1 /\ w # <<>>
      <4>1. w \in [1..n + 1 -> Blocks]
        BY <2>2, <3>2
      <4> HIDE DEF w
      <4> QED BY <3>1, <4>1
    <3>4. w[1] = b /\ w[n + 1] = u[n]
      BY <3>1
    <3>5. ASSUME NEW i \in 1..(n + 1) - 1
          PROVE  w[i + 1] \in problem.succ[w[i]] /\ Live!LeftAlone(w[i], 1, v)
      <4>1. /\ i \in 1..n /\ i \in 1..n + 1 /\ i + 1 \in 1..n + 1 /\ i + 1 # 1 /\ (i + 1) - 1 = i
            /\ i # 1 => i - 1 \in 1..n - 1 /\ (i - 1) + 1 = i
        BY <2>2
      <4>2. w[i + 1] = u[i]
        BY <4>1
      <4>3. CASE i = 1
        BY <1>2, <2>1, <4>2, <4>3, <3>4
      <4>4. CASE i # 1
        <5>1. w[i] = u[i - 1]
          BY <4>1, <4>4
        <5> QED BY <2>u, <4>1, <4>2, <4>4, <5>1
      <4> QED BY <4>3, <4>4
    <3>6. ASSUME NEW i \in 1..n + 1, NEW j \in 1..n + 1, w[i] = w[j] PROVE i = j
      <4>1. CASE i = 1 \/ j = 1
        BY <2>4, <3>2, <3>6, <4>1
      <4>2. CASE i # 1 /\ j # 1
        <5>1. i - 1 \in 1..n /\ j - 1 \in 1..n /\ u[i - 1] = u[j - 1]
          BY <3>2, <3>6, <4>2
        <5>2. i - 1 = j - 1
          BY <2>u, <5>1
        <5> QED BY <5>2, <2>2
      <4> QED BY <4>1, <4>2
    <3> HIDE DEF w
    <3>7. w \in Paths
      BY <3>3, <3>5, <3>6 DEF Paths, Linked, NoBlockTwice
    <3>8. ReadOn(w, v)
      BY <2>u, <3>3, <3>4, <3>5 DEF ReadOn
    <3> QED BY <3>4, <3>7, <3>8 DEF ReadFrom
  <2> QED BY <2>3, <2>4
<1> QED BY <1>1, <1>2

(***************************************************************************)
(* The solver, whatever the analysis: the definitions of the targets, of   *)
(* the values and of the transfer are not used here.                       *)
(***************************************************************************)
GraphOK == problem \in Problems /\ WorkList \in SUBSET Blocks

(* What holds between two steps: edges lead from blocks to their targets,  *)
(* and every block that does not wait is stable.                           *)
EdgesLeadToTargets ==
  \A e \in DOMAIN EdgeData :
    e = <<e[1], e[2]>> /\ e[1] \in Blocks /\ e[2] \in Targets(problem, e[1])

IInv ==
  /\ GraphOK
  /\ EdgesLeadToTargets
  /\ \A B \in Blocks \ WorkList : Stable(B)

LEMMA InitEstablishes == Init => IInv
BY DEF Init, IInv, GraphOK, EdgesLeadToTargets

(* The values that flow into a block that the processed one does not make  *)
(* wait are what they were.                                                *)
LEMMA OthersKeepIncoming ==
  ASSUME IInv, NEW B \in WorkList, Process(B), UNCHANGED problem,
         NEW b \in Blocks \ WorkList'
  PROVE  Incoming(b)' = Incoming(b)
<1> DEFINE V == Transfer(problem, B, Merged(B))
<1>1. b \notin Updated(B, V)
  BY DEF Process
<1>2. \A e \in DOMAIN EdgeData : e[2] = b => e \in DOMAIN EdgeData' /\ EdgeData'[e] = EdgeData[e]
  <2> SUFFICES ASSUME NEW e \in DOMAIN EdgeData, e[2] = b
               PROVE  e \in DOMAIN EdgeData' /\ EdgeData'[e] = EdgeData[e]
    OBVIOUS
  <2>1. DOMAIN EdgeData' = DOMAIN EdgeData \cup EdgesOutOf(B)
    BY DEF Process
  <2>2. EdgeData'[e] = IF e[1] = B THEN V ELSE EdgeData[e]
    BY DEF Process
  <2>3. CASE e[1] = B
    <3>1. e = <<B, b>> /\ b \in Targets(problem, B)
      BY <2>3 DEF IInv, EdgesLeadToTargets
    <3>2. EdgeData[e] = V
      BY <1>1, <3>1 DEF Updated
    <3> QED BY <2>1, <2>2, <2>3, <3>2
  <2> QED BY <2>1, <2>2, <2>3
<1>3. \A e \in DOMAIN EdgeData' : e[2] = b => e \in DOMAIN EdgeData
  <2> SUFFICES ASSUME NEW e \in EdgesOutOf(B), e[2] = b
               PROVE  e \in DOMAIN EdgeData
    BY DEF Process
  <2>1. e = <<B, b>> /\ b \in Targets(problem, B)
    BY DEF EdgesOutOf
  <2> QED BY <1>1, <2>1 DEF Updated
<1> QED BY <1>2, <1>3 DEF Incoming

LEMMA TargetsAreBlocks ==
  ASSUME NEW p \in Problems, NEW B \in Blocks
  PROVE  Targets(p, B) \in SUBSET Blocks
BY ProblemsAssumption
   DEF Targets, IsLive, Live!Predecessors, Uninit!Successors

(* The whole of a step, in the words of the lemmas.                        *)
LEMMA ProcessMeans ==
  ASSUME NEW B, Process(B)
  PROVE  /\ DOMAIN EdgeData' = DOMAIN EdgeData \cup EdgesOutOf(B)
         /\ \A e \in DOMAIN EdgeData' :
              EdgeData'[e] = IF e[1] = B THEN Transfer(problem, B, Merged(B)) ELSE EdgeData[e]
         /\ DOMAIN BlockData' = DOMAIN BlockData \cup {B}
         /\ \A b \in DOMAIN BlockData' : BlockData'[b] = IF b = B THEN Merged(B) ELSE BlockData[b]
         /\ WorkList' \subseteq WorkList \cup Targets(problem, B)
         /\ \A b \in WorkList : b # B => b \in WorkList'
BY DEF Process, Updated

LEMMA ProcessKeeps ==
  ASSUME IInv, NEW B \in WorkList, Process(B), UNCHANGED problem
  PROVE  IInv'
<1> DEFINE In == Merged(B)
           V == Transfer(problem, B, In)
<1>1. /\ DOMAIN EdgeData' = DOMAIN EdgeData \cup EdgesOutOf(B)
      /\ \A e \in DOMAIN EdgeData' : EdgeData'[e] = IF e[1] = B THEN V ELSE EdgeData[e]
      /\ DOMAIN BlockData' = DOMAIN BlockData \cup {B}
      /\ \A b \in DOMAIN BlockData' : BlockData'[b] = IF b = B THEN In ELSE BlockData[b]
      /\ WorkList' \subseteq WorkList \cup Targets(problem, B)
      /\ \A b \in WorkList : b # B => b \in WorkList'
  BY ProcessMeans
<1>2. B \in Blocks /\ GraphOK'
  BY <1>1, TargetsAreBlocks DEF IInv, GraphOK
<1>3. ASSUME NEW e \in DOMAIN EdgeData'
      PROVE  e = <<e[1], e[2]>> /\ e[1] \in Blocks /\ e[2] \in Targets(problem', e[1])
  <2>1. CASE e \in DOMAIN EdgeData
    BY <2>1 DEF IInv, EdgesLeadToTargets
  <2>2. CASE e \in EdgesOutOf(B)
    BY <1>2, <2>2 DEF EdgesOutOf
  <2> QED BY <1>1, <2>1, <2>2
<1>4. ASSUME NEW b \in Blocks \ WorkList'
      PROVE  Stable(b)'
  <2>1. Merged(b)' = Merged(b)
    BY OthersKeepIncoming DEF Merged
  <2>2. CASE b = B
    <3>1. \A t \in Targets(problem, B) : <<B, t>> \in EdgesOutOf(B)
      BY DEF EdgesOutOf
    <3>2. \A t \in Targets(problem, B) : EdgeData'[<<B, t>>] = V
      BY <1>1, <3>1
    <3>3. BlockData'[B] = In
      BY <1>1
    <3> QED BY <1>1, <2>1, <2>2, <3>1, <3>2, <3>3 DEF Stable
  <2>3. CASE b # B
    <3>1. Stable(b)
      BY <1>1, <2>3 DEF IInv
    <3>2. BlockData'[b] = BlockData[b] /\ b \in DOMAIN BlockData'
      BY <1>1, <2>3, <3>1 DEF Stable
    <3>3. \A t \in Targets(problem, b) :
            <<b, t>> \in DOMAIN EdgeData' /\ EdgeData'[<<b, t>>] = EdgeData[<<b, t>>]
      BY <1>1, <2>3, <3>1 DEF Stable
    <3> QED BY <2>1, <3>1, <3>2, <3>3 DEF Stable
  <2> QED BY <2>2, <2>3
<1> QED BY <1>2, <1>3, <1>4 DEF IInv, EdgesLeadToTargets

LEMMA StutteringKeeps ==
  ASSUME IInv, UNCHANGED solver
  PROVE  IInv'
<1>1. problem' = problem /\ WorkList' = WorkList /\ EdgeData' = EdgeData /\ BlockData' = BlockData
  BY DEF solver
<1>2. ASSUME NEW b PROVE Merged(b)' = Merged(b)
  BY <1>1 DEF Merged, Incoming
<1>3. ASSUME NEW b \in Blocks \ WorkList PROVE Stable(b)'
  BY <1>1, <1>2 DEF IInv, Stable
<1> QED BY <1>1, <1>3 DEF IInv, GraphOK, EdgesLeadToTargets

(* IInv is an invariant.                                                   *)
THEOREM Invariance == Spec => []IInv
<1>1. ASSUME IInv, [Next]_solver PROVE IInv'
  <2>1. CASE UNCHANGED solver
    BY <1>1, <2>1, StutteringKeeps
  <2>2. CASE Next
    BY <1>1, <2>2, ProcessKeeps DEF Next
  <2> QED BY <1>1, <2>1, <2>2
<1> QED BY <1>1, InitEstablishes, PTL DEF Spec

(* SolveDataflowEquations solves the equations: when the worklist is empty *)
(* every block has the merge of the edges into it as they are, and those   *)
(* out of it have what it transfers.                                       *)
THEOREM FixpointTheorem == Spec => []SolutionIsAFixpoint
<1>1. IInv => SolutionIsAFixpoint
  BY DEF IInv, SolutionIsAFixpoint, Solved
<1> QED BY <1>1, Invariance, PTL

(***************************************************************************)
(* Values that flow along a way of a solved graph.                         *)
(***************************************************************************)
LEMMA Flows ==
  ASSUME IInv, Solved, NEW b \in Blocks, NEW t \in Targets(problem, b),
         NEW v \in Transfer(problem, b, BlockData[b])
  PROVE  v \in BlockData[t]
<1>1. t \in Blocks
  BY TargetsAreBlocks DEF IInv, GraphOK
<1>2. Stable(b) /\ Stable(t)
  BY <1>1 DEF IInv, Solved
<1>3. <<b, t>> \in DOMAIN EdgeData /\ v \in EdgeData[<<b, t>>]
  BY <1>2 DEF Stable
<1>4. EdgeData[<<b, t>>] \in Incoming(t)
  BY <1>3 DEF Incoming
<1>5. v \in Merged(t)
  BY <1>3, <1>4 DEF Merged, Merge
<1> QED BY <1>2, <1>5 DEF Stable

LEMMA FlowsAlong ==
  ASSUME IInv, Solved, NEW B \in Blocks, NEW v, NEW w \in Seq(Blocks), w # <<>>,
         B \in Targets(problem, w[1]),
         \A k \in 1..Len(w) - 1 : w[k] \in Targets(problem, w[k + 1]),
         v \in Transfer(problem, w[Len(w)], BlockData[w[Len(w)]]),
         \A k \in 1..Len(w) - 1 :
           v \in BlockData[w[k]] => v \in Transfer(problem, w[k], BlockData[w[k]])
  PROVE  v \in BlockData[B]
<1> DEFINE n == Len(w)
           S == {k \in 1..n : v \in Transfer(problem, w[k], BlockData[w[k]])}
<1>1. n \in Nat /\ n >= 1 /\ 1 \in 1..n /\ n \in 1..n /\ \A k \in 1..n : w[k] \in Blocks
  OBVIOUS
<1>2. n \in S
  BY <1>1
<1>3. ASSUME NEW k \in 1..n - 1, k + 1 \in S PROVE k \in S
  <2>1. k \in 1..n /\ k + 1 \in 1..n
    BY <1>1
  <2>2. v \in Transfer(problem, w[k + 1], BlockData[w[k + 1]])
    BY <1>3
  <2>3. v \in BlockData[w[k]]
    BY <1>1, <2>1, <2>2, Flows
  <2> QED BY <2>1, <2>3
<1> HIDE DEF n, S
<1>4. 1 \in S
  BY <1>1, <1>2, <1>3, Downward
<1>5. v \in Transfer(problem, w[1], BlockData[w[1]]) /\ w[1] \in Blocks
  BY <1>1, <1>4 DEF S
<1> QED BY <1>5, Flows

(***************************************************************************)
(* Live variables.                                                         *)
(***************************************************************************)
IsLiveProblem == problem.analysis = "live"

(* The values of the edges out of a block, which go backward: the globals  *)
(* and, though it is long until the equations hold, nothing that no way    *)
(* from the block reads.                                                   *)
Justified(b, V) == Globals \subseteq V /\ V \subseteq Globals \cup {v \in Locals : ReadFrom(b, v)}
LivesJustified == IsLiveProblem => \A e \in DOMAIN EdgeData : Justified(e[1], EdgeData[e])

LiveInv == IInv /\ LivesJustified

(* The same of what flows into a block.                                    *)
LEMMA MergedIsJustified ==
  ASSUME LiveInv, IsLiveProblem, NEW B \in Blocks
  PROVE  /\ Merged(B) \in SUBSET (Locals \cup Globals)
         /\ Globals \subseteq Merged(B)
         /\ \A v \in Locals \cap Merged(B) : v \in Globals \/ Live!ReadBehind(B, v)
<1>1. CASE Incoming(B) = {}
  <2>1. Merged(B) = Globals
    BY <1>1 DEF Merged, Top, IsLive, IsLiveProblem, Live!AlwaysLive
  <2> QED BY <2>1
<1>2. CASE Incoming(B) # {}
  <2>1. Merged(B) = UNION Incoming(B)
    BY <1>2 DEF Merged, Merge
  <2>2. ASSUME NEW e \in DOMAIN EdgeData, e[2] = B
        PROVE  e[1] \in problem.succ[B] /\ Justified(e[1], EdgeData[e])
    BY <2>2 DEF LiveInv, IInv, EdgesLeadToTargets, LivesJustified, IsLiveProblem,
                Targets, IsLive, Live!Predecessors
  <2>3. \A V \in Incoming(B) : \E e \in DOMAIN EdgeData : e[2] = B /\ V = EdgeData[e]
    BY DEF Incoming
  <2>4. \A V \in Incoming(B) : V \in SUBSET (Locals \cup Globals) /\ Globals \subseteq V
    BY <2>2, <2>3 DEF Justified
  <2>5. ASSUME NEW v \in Locals, v \in Merged(B), v \notin Globals
        PROVE  Live!ReadBehind(B, v)
    <3>1. PICK e \in DOMAIN EdgeData : e[2] = B /\ v \in EdgeData[e]
      BY <2>1, <2>3, <2>5
    <3>2. ReadFrom(e[1], v) /\ e[1] \in problem.succ[B]
      BY <2>2, <2>5, <3>1 DEF Justified
    <3> QED BY <3>2, ReadBehindMeans
  <2> QED BY <1>2, <2>1, <2>4, <2>5
<1> QED BY <1>1, <1>2

(* And of what a block transfers.                                          *)
LEMMA TransferMeans ==
  ASSUME LiveInv, IsLiveProblem, NEW B \in Blocks,
         NEW V \in SUBSET (Locals \cup Globals), Globals \subseteq V
  PROVE  /\ Transfer(problem, B, V) \in SUBSET (Locals \cup Globals)
         /\ Globals \subseteq Transfer(problem, B, V)
         /\ \A v \in Locals : v \in Transfer(problem, B, V) <=>
                Live!ReadIn(B, 1, v) \/ (Live!LeftAlone(B, 1, v) /\ v \in V)
<1>1. Transfer(problem, B, V) = Live!LiveBefore(Live!Code(B), 1, V)
  BY DEF Transfer, IsLive, IsLiveProblem, Live!ProcessBlock, Live!Code
<1>2. problem \in Problems /\ problem.analysis = "live"
  BY DEF LiveInv, IInv, GraphOK, IsLiveProblem
<1>3. 1 \in 1..Len(Live!Code(B)) + 1
  BY <1>2, ProblemsAssumption DEF Live!Code
<1> QED BY <1>1, <1>2, <1>3, LiveBeforeMeans

LEMMA TransferIsJustified ==
  ASSUME LiveInv, IsLiveProblem, NEW B \in Blocks
  PROVE  Justified(B, Transfer(problem, B, Merged(B)))
<1> DEFINE V == Transfer(problem, B, Merged(B))
<1>1. /\ V \in SUBSET (Locals \cup Globals)
      /\ Globals \subseteq V
      /\ \A v \in Locals : v \in V <=>
           Live!ReadIn(B, 1, v) \/ (Live!LeftAlone(B, 1, v) /\ v \in Merged(B))
  BY MergedIsJustified, TransferMeans
<1>2. ASSUME NEW v \in V, v \notin Globals PROVE v \in Locals /\ ReadFrom(B, v)
  <2>1. v \in Locals
    BY <1>1, <1>2
  <2>2. Live!ReadIn(B, 1, v) \/ (Live!LeftAlone(B, 1, v) /\ Live!ReadBehind(B, v))
    BY <1>1, <1>2, <2>1, MergedIsJustified
  <2> QED BY <2>1, <2>2, ReadFromMeans
<1> HIDE DEF V
<1>3. Justified(B, V)
  BY <1>1, <1>2 DEF Justified
<1> QED BY <1>3 DEF V

LEMMA ReadFromIsOfTheProblem ==
  ASSUME UNCHANGED problem
  PROVE  \A b, v : ReadFrom(b, v)' <=> ReadFrom(b, v)
<1>1. Paths' = Paths
  BY DEF Paths, Linked
<1>2. \A w, v : ReadOn(w, v)' <=> ReadOn(w, v)
  BY DEF ReadOn, Live!ReadIn, Live!LeftAlone, Live!Code
<1> QED BY <1>1, <1>2 DEF ReadFrom

(* LiveInv is an invariant.                                                *)
THEOREM LiveInvariance == Spec => []LiveInv
<1>1. Init => LivesJustified
  BY DEF Init, LivesJustified
<1>2. ASSUME LiveInv, [Next]_solver PROVE LivesJustified'
  <2>1. problem' = problem
    BY <1>2 DEF Next, solver
  <2>2. ASSUME IsLiveProblem, NEW e \in DOMAIN EdgeData'
        PROVE  Justified(e[1], EdgeData'[e])
    <3>1. CASE UNCHANGED solver
      BY <1>2, <2>2, <3>1 DEF solver, LiveInv, LivesJustified
    <3>2. CASE Next
      <4>1. PICK B \in WorkList : Process(B)
        BY <3>2 DEF Next
      <4>2. /\ B \in Blocks
            /\ e \in DOMAIN EdgeData \cup EdgesOutOf(B)
            /\ EdgeData'[e] = IF e[1] = B THEN Transfer(problem, B, Merged(B)) ELSE EdgeData[e]
        BY <1>2, <2>2, <4>1, ProcessMeans DEF LiveInv, IInv, GraphOK
      <4>3. CASE e[1] = B
        BY <1>2, <2>2, <4>2, <4>3, TransferIsJustified
      <4>4. CASE e[1] # B
        <5>1. e \in DOMAIN EdgeData
          BY <4>2, <4>4 DEF EdgesOutOf
        <5> QED BY <1>2, <2>2, <4>2, <4>4, <5>1 DEF LiveInv, LivesJustified
      <4> QED BY <4>3, <4>4
    <3> QED BY <1>2, <3>1, <3>2
  <2>3. IsLiveProblem' <=> IsLiveProblem
    BY <2>1 DEF IsLiveProblem
  <2>4. \A b, v : ReadFrom(b, v)' <=> ReadFrom(b, v)
    BY <2>1, ReadFromIsOfTheProblem
  <2> QED BY <2>2, <2>3, <2>4 DEF LivesJustified, Justified
<1>3. LiveInv /\ IInv' /\ LivesJustified' => LiveInv'
  BY DEF LiveInv
<1> QED BY <1>1, <1>2, Invariance, PTL DEF Spec, LiveInv

(* isLive: in a solution a local is live behind a block exactly when some  *)
(* way on from the block reads it before it is written.                    *)
LEMMA SolutionIsLiveness ==
  ASSUME LiveInv, LiveSolved
  PROVE  Live!LiveIffReadBehind
<1>1. IsLiveProblem /\ Solved
  BY DEF LiveSolved, IsLiveProblem
<1>2. ASSUME NEW B \in Blocks
      PROVE  BlockData[B] = Merged(B)
  BY <1>1 DEF LiveInv, IInv, Solved, Stable
<1>3. ASSUME NEW B \in Blocks
      PROVE  /\ BlockData[B] \in SUBSET (Locals \cup Globals)
             /\ Globals \subseteq BlockData[B]
             /\ \A v \in Locals \cap BlockData[B] : v \in Globals \/ Live!ReadBehind(B, v)
  BY <1>1, <1>2, MergedIsJustified
<1>4. ASSUME NEW B \in Blocks, NEW v \in Locals, Live!ReadBehind(B, v)
      PROVE  v \in BlockData[B]
  <2>1. PICK w \in Paths : w[1] \in problem.succ[B] /\ ReadOn(w, v)
    BY <1>4, ReadBehindMeans DEF ReadFrom
  <2> DEFINE n == Len(w)
  <2>2. /\ w \in Seq(Blocks) /\ w # <<>>
        /\ n \in Nat /\ n >= 1 /\ \A k \in 1..n : w[k] \in Blocks
        /\ \A k \in 1..n - 1 : w[k + 1] \in problem.succ[w[k]]
    BY DEF Paths, Linked
  <2>3. /\ Live!ReadIn(w[n], 1, v)
        /\ \A k \in 1..n - 1 : Live!LeftAlone(w[k], 1, v)
    BY <2>1 DEF ReadOn
  <2> HIDE DEF n
  <2>4. \A b, c \in Blocks : c \in problem.succ[b] => b \in Targets(problem, c)
    BY <1>1 DEF IsLiveProblem, Targets, IsLive, Live!Predecessors
  <2>5. \A k \in 1..n - 1 : k \in 1..n /\ k + 1 \in 1..n
    BY <2>2
  <2>6. \A k \in 1..n - 1 : w[k] \in Targets(problem, w[k + 1])
    BY <2>2, <2>4, <2>5
  <2>7. B \in Targets(problem, w[1])
    BY <2>1, <2>2, <2>4
  <2>8. ASSUME NEW k \in 1..n
        PROVE  v \in Transfer(problem, w[k], BlockData[w[k]]) <=>
                 Live!ReadIn(w[k], 1, v) \/ (Live!LeftAlone(w[k], 1, v) /\ v \in BlockData[w[k]])
    BY <1>1, <1>3, <2>2, TransferMeans
  <2>9. v \in Transfer(problem, w[n], BlockData[w[n]])
    BY <2>2, <2>3, <2>8
  <2>10. \A k \in 1..n - 1 :
           v \in BlockData[w[k]] => v \in Transfer(problem, w[k], BlockData[w[k]])
    BY <2>3, <2>5, <2>8
  <2> QED BY <1>1, <2>2, <2>6, <2>7, <2>9, <2>10, FlowsAlong DEF LiveInv, n
<1>5. ASSUME NEW B \in Blocks
      PROVE  BlockData[B] = Globals \cup {v \in Locals : Live!ReadBehind(B, v)}
  BY <1>3, <1>4
<1> QED BY <1>5 DEF Live!LiveIffReadBehind

(* isLive: when the equations are solved a local variable is live at the   *)
(* end of a block exactly when some way on from it reads the value, and    *)
(* the globals always are, for every graph and every code.                 *)
THEOREM LiveIffReadBehindTheorem == Spec => []LiveIffReadBehind
<1>1. LiveInv => LiveIffReadBehind
  BY SolutionIsLiveness DEF LiveIffReadBehind
<1> QED BY <1>1, LiveInvariance, PTL

(* A store that CheckDeadStores reports is never read, neither in the rest *)
(* of its block nor on any way from it.                                    *)
THEOREM DeadStoresAreNeverReadTheorem == Spec => []DeadStoresAreNeverRead
<1>1. ASSUME LiveInv, LiveSolved PROVE Live!DeadStoresAreNeverRead
  <2> SUFFICES ASSUME NEW B \in Blocks, NEW i \in DOMAIN Live!Code(B), Live!DeadStore(B, i)
               PROVE  LET v == Live!Code(B)[i].var IN
                      /\ ~Live!ReadIn(B, i + 1, v)
                      /\ Live!LeftAlone(B, i + 1, v) => ~Live!ReadBehind(B, v)
    BY DEF Live!DeadStoresAreNeverRead
  <2> DEFINE v == Live!Code(B)[i].var
             V == BlockData[B]
  <2>1. problem \in Problems /\ problem.analysis = "live"
    BY <1>1 DEF LiveInv, IInv, GraphOK, LiveSolved
  <2>2. V = Globals \cup {u \in Locals : Live!ReadBehind(B, u)}
    BY <1>1, SolutionIsLiveness DEF Live!LiveIffReadBehind
  <2>3. i + 1 \in 1..Len(Live!Code(B)) + 1
    <3>1. Live!Code(B) \in Seq(StatementsOf("live"))
      BY <2>1, ProblemsAssumption DEF Live!Code
    <3> QED BY <3>1
  <2>4. v \in Locals /\ v \notin Live!LiveBefore(Live!Code(B), i + 1, V)
    BY DEF Live!DeadStore, Live!AfterStmt
  <2> HIDE DEF v, V
  <2>5. V \in SUBSET (Locals \cup Globals) /\ Globals \subseteq V
    BY <2>2
  <2>6. ~Live!ReadIn(B, i + 1, v) /\ ~(Live!LeftAlone(B, i + 1, v) /\ v \in V)
    BY <2>1, <2>3, <2>4, <2>5, LiveBeforeMeans
  <2>7. Live!ReadBehind(B, v) => v \in V
    BY <2>2, <2>4
  <2> QED BY <2>6, <2>7 DEF v
<1>2. LiveInv => DeadStoresAreNeverRead
  BY <1>1 DEF DeadStoresAreNeverRead
<1> QED BY <1>2, LiveInvariance, PTL

(***************************************************************************)
(* Uninitialized values: the transfer function statement by statement.     *)
(***************************************************************************)
AreUninitBefore(f, code, V) ==
  f = [k \in 1..Len(code) + 1 |-> IF k = 1 THEN V ELSE Uninit!Visit(code[k - 1], f[k - 1])]

LEMMA UninitBeforeEachExists ==
  ASSUME NEW code, NEW V, Len(code) \in Nat
  PROVE  \E f : AreUninitBefore(f, code, V)
<1> DEFINE n == Len(code) + 1
           Rec(m, f) == f = [k \in 1..m |->
                               IF k = 1 THEN V ELSE Uninit!Visit(code[k - 1], f[k - 1])]
           S == {m \in 1..n : \E f : Rec(m, f)}
<1>n. n \in Nat /\ n >= 1
  OBVIOUS
<1> HIDE DEF n
<1>1. 1 \in S
  <2> DEFINE g == [k \in 1..1 |-> V]
  <2>1. \A k \in 1..1 : k = 1
    OBVIOUS
  <2>2. Rec(1, g)
    BY <2>1
  <2>3. 1 \in 1..n
    BY <1>n
  <2> QED BY <2>2, <2>3
<1>2. ASSUME NEW m \in 1..n - 1, m \in S PROVE m + 1 \in S
  <2>1. PICK f : Rec(m, f)
    BY <1>2
  <2> DEFINE g == [k \in 1..m + 1 |-> IF k = m + 1 THEN Uninit!Visit(code[m], f[m]) ELSE f[k]]
  <2>2. m \in 1..n /\ m + 1 \in 1..n /\ (m + 1) - 1 = m /\ m + 1 # 1 /\ m \in 1..m + 1 /\ m # m + 1
    BY <1>n
  <2>3. ASSUME NEW k \in 1..m + 1
        PROVE  g[k] = IF k = 1 THEN V ELSE Uninit!Visit(code[k - 1], g[k - 1])
    <3>1. CASE k = m + 1
      BY <2>2, <3>1
    <3>2. CASE k # m + 1
      <4>1. k \in 1..m /\ (k # 1 => k - 1 \in 1..m + 1 /\ k - 1 # m + 1)
        BY <2>2, <3>2
      <4>2. f[k] = IF k = 1 THEN V ELSE Uninit!Visit(code[k - 1], f[k - 1])
        BY <2>1, <4>1
      <4>3. k # 1 => g[k - 1] = f[k - 1]
        BY <4>1
      <4> QED BY <3>2, <4>2, <4>3
    <3> QED BY <3>1, <3>2
  <2>4. g = [k \in 1..m + 1 |-> IF k = 1 THEN V ELSE Uninit!Visit(code[k - 1], g[k - 1])]
    BY <2>3
  <2>5. Rec(m + 1, g)
    BY <2>4
  <2> QED BY <2>2, <2>5
<1> HIDE DEF S
<1>3. \A k \in 1..n : k \in S
  BY <1>n, <1>1, <1>2, Upward
<1>4. n \in S
  BY <1>n, <1>3
<1> QED BY <1>4 DEF S, n, AreUninitBefore

LEMMA UninitBeforeFacts ==
  ASSUME NEW code, NEW V, Len(code) \in Nat
  PROVE  /\ Uninit!UninitBefore(code, 1, V) = V
         /\ \A k \in 1..Len(code) :
              Uninit!UninitBefore(code, k + 1, V)
                = Uninit!Visit(code[k], Uninit!UninitBefore(code, k, V))
<1> DEFINE f == Uninit!UninitBeforeEach(code, V)
<1>1. AreUninitBefore(f, code, V)
  <2>1. f = CHOOSE g : AreUninitBefore(g, code, V)
    BY DEF Uninit!UninitBeforeEach, AreUninitBefore
  <2> HIDE DEF f
  <2> QED BY <2>1, UninitBeforeEachExists
<1> HIDE DEF f
<1>2. f[1] = V
  BY <1>1 DEF AreUninitBefore
<1>3. ASSUME NEW k \in 1..Len(code) PROVE f[k + 1] = Uninit!Visit(code[k], f[k])
  <2>1. k + 1 \in 1..Len(code) + 1 /\ k + 1 # 1 /\ (k + 1) - 1 = k
    OBVIOUS
  <2> QED BY <1>1, <2>1 DEF AreUninitBefore
<1> QED BY <1>2, <1>3 DEF Uninit!UninitBefore, f

(* A statement leaves a variable uninitialized if it does so itself, or    *)
(* does not write it and finds it uninitialized.                           *)
LEMMA UninitVisitFacts ==
  ASSUME NEW s \in StatementsOf("uninitialized"), NEW V, NEW v
  PROVE  v \in Uninit!Visit(s, V) <=>
           \/ Uninit!Writes(s, v) /\ ~Uninit!Initializes(s)
           \/ ~Uninit!Writes(s, v) /\ v \in V
<1>1. s.op \in {"assign", "compound", "declare", "read", "address"} /\ s.init \in BOOLEAN
  BY DEF StatementsOf, Statements
<1>2. CASE Uninit!Initializes(s)
  BY <1>1, <1>2 DEF Uninit!Visit, Uninit!Writes, Uninit!Initializes
<1>3. CASE ~Uninit!Initializes(s)
  BY <1>1, <1>3 DEF Uninit!Visit, Uninit!Writes, Uninit!Initializes
<1> QED BY <1>2, <1>3

(* A variable may be uninitialized before a statement exactly when it is   *)
(* declared so in the block, or left alone there and uninitialized before  *)
(* the block.                                                              *)
LEMMA UninitBeforeMeans ==
  ASSUME problem \in Problems, problem.analysis = "uninitialized", NEW B \in Blocks,
         NEW V, NEW v, NEW i \in 1..Len(Uninit!Code(B)) + 1
  PROVE  v \in Uninit!UninitBefore(Uninit!Code(B), i, V) <=>
           Uninit!UninitWithin(B, i - 1, v) \/ (Uninit!LeftAlone(B, i - 1, v) /\ v \in V)
<1> DEFINE code == Uninit!Code(B)
           n == Len(code)
           U(k) == Uninit!UninitBefore(code, k, V)
           Good(k) == v \in U(k) <=>
                        \/ Uninit!UninitWithin(B, k - 1, v)
                        \/ Uninit!LeftAlone(B, k - 1, v) /\ v \in V
           S == {k \in 1..n + 1 : Good(k)}
<1>1. code \in Seq(StatementsOf("uninitialized"))
  BY ProblemsAssumption DEF Uninit!Code
<1>2. n \in Nat /\ \A k \in 1..n : code[k] \in StatementsOf("uninitialized")
  BY <1>1
<1>3. 1 \in S
  <2>1. U(1) = V
    BY <1>2, UninitBeforeFacts
  <2>2. 1 \in 1..n + 1 /\ 1 - 1 = 0 /\ \A j \in 1..0 : FALSE
    BY <1>2
  <2>3. ~Uninit!UninitWithin(B, 1 - 1, v) /\ Uninit!LeftAlone(B, 1 - 1, v)
    BY <2>2 DEF Uninit!UninitWithin, Uninit!LeftAlone
  <2> QED BY <2>1, <2>2, <2>3
<1>4. ASSUME NEW k \in 1..(n + 1) - 1, k \in S PROVE k + 1 \in S
  <2> HIDE DEF code, n
  <2>1. k \in 1..n /\ k + 1 \in 1..n + 1 /\ (k + 1) - 1 = k /\ Good(k)
    BY <1>2, <1>4
  <2>2. U(k + 1) = Uninit!Visit(code[k], U(k))
    BY <1>2, <2>1, UninitBeforeFacts DEF n
  <2>3. code[k] \in StatementsOf("uninitialized")
    BY <1>2, <2>1
  <2> DEFINE W(j) == Uninit!Writes(code[j], v)
             I(j) == Uninit!Initializes(code[j])
  <2>4. v \in U(k + 1) <=> (W(k) /\ ~I(k)) \/ (~W(k) /\ v \in U(k))
    BY <2>2, <2>3, UninitVisitFacts
  <2>5. /\ Uninit!UninitWithin(B, k, v) <=>
             \/ W(k) /\ ~I(k)
             \/ ~W(k) /\ Uninit!UninitWithin(B, k - 1, v)
        /\ Uninit!LeftAlone(B, k, v) <=> ~W(k) /\ Uninit!LeftAlone(B, k - 1, v)
    <3>1. \A j : j \in 1..k <=> j = k \/ j \in 1..k - 1
      BY <2>1
    <3>2. \A j \in 1..k - 1 : \A m : m \in j + 1..k <=> m = k \/ m \in j + 1..k - 1
      BY <2>1
    <3>3. \A m : m \notin k + 1..k
      BY <2>1
    <3>4. Uninit!UninitWithin(B, k, v) <=>
            \E j \in 1..k : W(j) /\ ~I(j) /\ \A m \in j + 1..k : ~W(m)
      BY DEF Uninit!UninitWithin, code
    <3>5. Uninit!UninitWithin(B, k - 1, v) <=>
            \E j \in 1..k - 1 : W(j) /\ ~I(j) /\ \A m \in j + 1..k - 1 : ~W(m)
      BY DEF Uninit!UninitWithin, code
    <3>6. Uninit!LeftAlone(B, k, v) <=> \A j \in 1..k : ~W(j)
      BY DEF Uninit!LeftAlone, code
    <3>7. Uninit!LeftAlone(B, k - 1, v) <=> \A j \in 1..k - 1 : ~W(j)
      BY DEF Uninit!LeftAlone, code
    <3> HIDE DEF W, I
    <3>8. Uninit!UninitWithin(B, k, v) <=>
            \/ W(k) /\ ~I(k)
            \/ ~W(k) /\ Uninit!UninitWithin(B, k - 1, v)
      BY <3>1, <3>2, <3>3, <3>4, <3>5, Zenon
    <3> QED BY <3>1, <3>6, <3>7, <3>8, Zenon
  <2>6. Good(k + 1)
    <3> HIDE DEF U, W, I
    <3> QED BY <2>1, <2>4, <2>5
  <2> QED BY <2>1, <2>6
<1> HIDE DEF S
<1>5. \A k \in 1..n + 1 : k \in S
  <2>1. n + 1 \in Nat
    BY <1>2
  <2> QED BY <1>3, <1>4, <2>1, Upward
<1>6. i \in S
  BY <1>5
<1> QED BY <1>6 DEF S

(***************************************************************************)
(* The checker of uninitialized values.                                    *)
(***************************************************************************)
LEMMA UninitTransferMeans ==
  ASSUME IInv, problem.analysis = "uninitialized", NEW B \in Blocks, NEW V, NEW v
  PROVE  v \in Transfer(problem, B, V) <=>
           \/ Uninit!UninitWithin(B, Len(Uninit!Code(B)), v)
           \/ Uninit!LeftAlone(B, Len(Uninit!Code(B)), v) /\ v \in V
<1> DEFINE n == Len(Uninit!Code(B))
<1>1. problem \in Problems
  BY DEF IInv, GraphOK
<1>2. n \in Nat
  <2>1. Uninit!Code(B) \in Seq(StatementsOf("uninitialized"))
    BY <1>1, ProblemsAssumption DEF Uninit!Code
  <2> QED BY <2>1
<1>3. n + 1 \in 1..n + 1 /\ (n + 1) - 1 = n
  BY <1>2
<1>4. Transfer(problem, B, V) = Uninit!UninitBefore(Uninit!Code(B), n + 1, V)
  BY DEF Transfer, IsLive, Uninit!ProcessBlock, Uninit!Code
<1> QED BY <1>1, <1>3, <1>4, UninitBeforeMeans

(* Nothing flows into an entry, so that everything is uninitialized there. *)
LEMMA EntriesKnowNothing ==
  ASSUME IInv, UninitSolved, NEW B \in Blocks, Uninit!IsEntry(B)
  PROVE  BlockData[B] = Locals
<1>1. ASSUME NEW e \in DOMAIN EdgeData PROVE e[2] # B
  BY DEF IInv, EdgesLeadToTargets, UninitSolved, Targets, IsLive,
         Uninit!Successors, Uninit!IsEntry
<1>2. Merged(B) = Locals
  BY <1>1 DEF Merged, Incoming, Top, IsLive, UninitSolved, Uninit!AllUninitialized
<1> QED BY <1>2 DEF IInv, UninitSolved, Solved, Stable

(* What is uninitialized on some way to a block is so in its value.        *)
LEMMA WaysAreMerged ==
  ASSUME IInv, UninitSolved, NEW B \in Blocks, NEW v \in Locals, NEW w \in Uninit!Ways(B),
         \A j \in 1..Len(w) - 1 : Uninit!LeftAlone(w[j], Len(Uninit!Code(w[j])), v),
         \/ Uninit!UninitWithin(w[Len(w)], Len(Uninit!Code(w[Len(w)])), v)
         \/ /\ Uninit!IsEntry(w[Len(w)])
            /\ Uninit!LeftAlone(w[Len(w)], Len(Uninit!Code(w[Len(w)])), v)
  PROVE  v \in BlockData[B]
<1> DEFINE n == Len(w)
<1>1. /\ B \in problem.succ[w[1]]
      /\ \A i \in 1..n - 1 : w[i] \in problem.succ[w[i + 1]]
      /\ w \in UNION {[1..m -> Blocks] : m \in 1..Uninit!Cardinality(Blocks)}
  BY DEF Uninit!Ways
<1>2. Uninit!Cardinality(Blocks) = Cardinality(Blocks) /\ Cardinality(Blocks) \in Nat
  BY BlocksAssumption, FS_CardinalityType DEF Uninit!Cardinality, Cardinality
<1>3. PICK m \in 1..Cardinality(Blocks) : w \in [1..m -> Blocks]
  BY <1>1, <1>2
<1>4. w \in Seq(Blocks) /\ n = m /\ w # <<>> /\ n \in Nat /\ n >= 1
  <2>1. m \in Nat /\ m >= 1
    BY <1>2
  <2> QED BY <1>3, <2>1
<1>5. \A i \in 1..n : w[i] \in Blocks
  BY <1>4
<1> HIDE DEF n
<1>6. problem.analysis = "uninitialized" /\ Solved
  BY DEF UninitSolved
<1>7. \A b : Targets(problem, b) = problem.succ[b]
  BY <1>6 DEF Targets, IsLive, Uninit!Successors
<1>8. \A k \in 1..n - 1 : k \in 1..n
  BY <1>4
<1>9. v \in Transfer(problem, w[n], BlockData[w[n]])
  <2>1. w[n] \in Blocks
    BY <1>4, <1>5
  <2>2. Uninit!IsEntry(w[n]) => v \in BlockData[w[n]]
    BY <2>1, EntriesKnowNothing
  <2> QED BY <1>6, <2>1, <2>2, UninitTransferMeans DEF n
<1>10. \A k \in 1..n - 1 :
         v \in BlockData[w[k]] => v \in Transfer(problem, w[k], BlockData[w[k]])
  BY <1>5, <1>6, <1>8, UninitTransferMeans DEF n
<1> QED BY <1>1, <1>4, <1>6, <1>7, <1>9, <1>10, FlowsAlong DEF n

(* The merges prefer soundness: no variable that is read while it may be   *)
(* uninitialized on some way goes without a report, for every graph and    *)
(* every code.                                                             *)
THEOREM NoUninitializedReadIsMissedTheorem == Spec => []NoUninitializedReadIsMissed
<1>1. ASSUME IInv, UninitSolved PROVE Uninit!NoUninitializedReadIsMissed
  <2> SUFFICES ASSUME NEW v \in Locals, NEW B \in Blocks, NEW i \in DOMAIN Uninit!Code(B),
                      v \in Uninit!Reads(Uninit!Code(B)[i]),
                      Uninit!PotentiallyUninitialized(B, i, v)
               PROVE  Uninit!ObserveDeclRefExpr(B, i, v)
    BY DEF Uninit!NoUninitializedReadIsMissed, Uninit!PotentiallyUninitializedReads,
           Uninit!Reported
  <2>1. problem \in Problems /\ problem.analysis = "uninitialized"
    BY <1>1 DEF IInv, GraphOK, UninitSolved
  <2>2. i \in 1..Len(Uninit!Code(B)) + 1
    <3>1. Uninit!Code(B) \in Seq(StatementsOf("uninitialized"))
      BY <2>1, ProblemsAssumption DEF Uninit!Code
    <3> QED BY <3>1
  <2>3. \/ Uninit!UninitWithin(B, i - 1, v)
        \/ Uninit!LeftAlone(B, i - 1, v) /\ v \in BlockData[B]
    <3>1. CASE Uninit!UninitWithin(B, i - 1, v)
      BY <3>1
    <3>2. CASE Uninit!LeftAlone(B, i - 1, v) /\ Uninit!IsEntry(B)
      BY <1>1, <3>2, EntriesKnowNothing
    <3>3. ASSUME Uninit!LeftAlone(B, i - 1, v), NEW w \in Uninit!Ways(B),
                 \A j \in 1..Len(w) - 1 : Uninit!LeftAlone(w[j], Len(Uninit!Code(w[j])), v),
                 \/ Uninit!UninitWithin(w[Len(w)], Len(Uninit!Code(w[Len(w)])), v)
                 \/ /\ Uninit!IsEntry(w[Len(w)])
                    /\ Uninit!LeftAlone(w[Len(w)], Len(Uninit!Code(w[Len(w)])), v)
          PROVE  v \in BlockData[B]
      BY <1>1, <3>3, WaysAreMerged
    <3> QED BY <3>1, <3>2, <3>3 DEF Uninit!PotentiallyUninitialized
  <2>4. v \in Uninit!UninitBefore(Uninit!Code(B), i, BlockData[B])
    BY <2>1, <2>2, <2>3, UninitBeforeMeans
  <2> QED BY <2>4 DEF Uninit!ObserveDeclRefExpr
<1>2. IInv => NoUninitializedReadIsMissed
  BY <1>1 DEF NoUninitializedReadIsMissed
<1> QED BY <1>2, Invariance, PTL
=============================================================================

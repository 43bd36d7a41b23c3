-------------------------- MODULE PPCachingProofs --------------------------
(***************************************************************************)
(* Machine-checked proofs about PPCaching, for every set of tokens, every  *)
(* translation unit and every bound.                                       *)
(***************************************************************************)
EXTENDS PPCaching, SequenceTheorems, TLAPS

-----------------------------------------------------------------------------
(* Sequences                                                               *)

(* Front and Last of a non-empty sequence.                                 *)
LEMMA FrontLast ==
  ASSUME NEW S, NEW s \in Seq(S), s # <<>>
  PROVE  /\ Front(s) \in Seq(S)
         /\ Len(Front(s)) = Len(s) - 1
         /\ \A i \in 1..Len(s) - 1 : Front(s)[i] = s[i]
         /\ Last(s) \in S
         /\ Len(s) \in DOMAIN s
  <1>1. Len(s) \in Nat \ {0} /\ DOMAIN s = 1..Len(s)
    BY EmptySeq, LenProperties
  <1>2. \A i \in 1..Len(s) : s[i] \in S
    BY ElementOfSeq
  <1>3. DEFINE n == Len(s) - 1
  <1>4. n \in Int /\ (\A i \in 1..n : s[i] \in S) /\ (1 <= n \/ n = 0)
    BY <1>1, <1>2
  <1>5. /\ SubSeq(s, 1, n) \in Seq(S)
        /\ Len(SubSeq(s, 1, n)) = IF 1 <= n THEN n - 1 + 1 ELSE 0
        /\ \A i \in 1..n - 1 + 1 : SubSeq(s, 1, n)[i] = s[1 + i - 1]
    <2> HIDE DEF n
    <2> QED BY <1>4, SubSeqProperties
  <1>6. \A i \in 1..n : SubSeq(s, 1, n)[i] = s[i]
    BY <1>4, <1>5
  <1>7. Len(SubSeq(s, 1, n)) = n
    BY <1>4, <1>5
  <1> QED
    BY <1>1, <1>2, <1>5, <1>6, <1>7 DEF Front, Last

(* What appending one element to a sequence gives.                         *)
LEMMA AppendFacts ==
  ASSUME NEW S, NEW s \in Seq(S), NEW e \in S
  PROVE  /\ Append(s, e) \in Seq(S)
         /\ Len(Append(s, e)) = Len(s) + 1
         /\ \A i \in 1..Len(s) : Append(s, e)[i] = s[i]
         /\ Append(s, e)[Len(s) + 1] = e
  OBVIOUS

(* Head and Tail of a non-empty sequence.                                  *)
LEMMA HeadTail ==
  ASSUME NEW S, NEW s \in Seq(S), s # <<>>
  PROVE  /\ Head(s) \in S /\ Head(s) = s[1]
         /\ Tail(s) \in Seq(S)
         /\ Len(s) \in Nat \ {0}
         /\ Len(Tail(s)) = Len(s) - 1
         /\ \A i \in 1..Len(s) - 1 : Tail(s)[i] = s[i + 1]
  <1>1. Len(s) \in Nat \ {0} /\ DOMAIN s = 1..Len(s)
    BY EmptySeq, LenProperties
  <1>2. /\ Head(s) \in S /\ Tail(s) \in Seq(S)
        /\ Len(Tail(s)) = Len(s) - 1
        /\ \A i \in 1..Len(Tail(s)) : Tail(s)[i] = s[i + 1]
    BY HeadTailProperties
  <1>3. Head(s) = s[1]
    OBVIOUS
  <1> QED
    BY <1>1, <1>2, <1>3

(* The elements a+1 to b of a sequence replaced by one element.            *)
Splice(s, a, b, e) == SubSeq(s, 1, a) \o <<e>> \o SubSeq(s, b + 1, Len(s))

(* What a splice r of s is, element by element.                            *)
IsSplice(r, S, s, a, b, e) ==
  /\ r \in Seq(S)
  /\ Len(r) = Len(s) - (b - a) + 1
  /\ \A i \in 1..a : r[i] = s[i]
  /\ r[a + 1] = e
  /\ \A i \in a + 2..Len(s) - (b - a) + 1 : r[i] = s[i + (b - a) - 1]

LEMMA SpliceFacts ==
  ASSUME NEW S, NEW s \in Seq(S), NEW e \in S,
         NEW a \in Nat, NEW b \in Nat, a <= b, b <= Len(s)
  PROVE  IsSplice(Splice(s, a, b, e), S, s, a, b, e)
  <1> DEFINE n == Len(s)
             p == SubSeq(s, 1, a)
             q == SubSeq(s, b + 1, n)
  <1>1. n \in Nat /\ (\A i \in 1..n : s[i] \in S)
    BY LenProperties, ElementOfSeq
  <1>2. /\ p \in Seq(S) /\ Len(p) = a
        /\ \A i \in 1..a : p[i] = s[i]
    <2>1. \A i \in 1..a : s[i] \in S
      BY <1>1
    <2>2. /\ p \in Seq(S)
          /\ Len(p) = IF 1 <= a THEN a - 1 + 1 ELSE 0
          /\ \A i \in 1..a - 1 + 1 : p[i] = s[1 + i - 1]
      BY <2>1, SubSeqProperties
    <2> HIDE DEF p
    <2> QED BY <2>2
  <1>3. /\ q \in Seq(S) /\ Len(q) = n - b
        /\ \A i \in 1..n - b : q[i] = s[b + i]
    <2> HIDE DEF n
    <2>1. \A i \in b + 1..n : s[i] \in S
      BY <1>1
    <2>2. /\ q \in Seq(S)
          /\ Len(q) = IF b + 1 <= n THEN n - (b + 1) + 1 ELSE 0
          /\ \A i \in 1..n - (b + 1) + 1 : q[i] = s[(b + 1) + i - 1]
      BY <1>1, <2>1, SubSeqProperties
    <2>3. b <= n
      BY DEF n
    <2> HIDE DEF q
    <2>4. Len(q) = n - b
      BY <1>1, <2>2, <2>3
    <2>5. \A i \in 1..n - b : q[i] = s[b + i]
      BY <1>1, <2>2, <2>3
    <2> QED BY <2>2, <2>4, <2>5
  <1> HIDE DEF p, q
  <1> DEFINE m == p \o <<e>>
  <1>4. /\ m \in Seq(S) /\ Len(m) = a + 1
        /\ \A i \in 1..a : m[i] = s[i]
        /\ m[a + 1] = e
    <2>1. <<e>> \in Seq(S) /\ Len(<<e>>) = 1 /\ <<e>>[1] = e
      OBVIOUS
    <2> DEFINE u == <<e>>
    <2> HIDE DEF u
    <2>2. u \in Seq(S) /\ Len(u) = 1 /\ u[1] = e
      BY <2>1 DEF u
    <2>3. /\ p \o u \in Seq(S) /\ Len(p \o u) = Len(p) + Len(u)
          /\ \A i \in 1..Len(p) + Len(u) :
               (p \o u)[i] = IF i <= Len(p) THEN p[i] ELSE u[i - Len(p)]
      BY <1>2, <2>2, ConcatProperties
    <2>4. (p \o u)[a + 1] = u[1] /\ \A i \in 1..a : (p \o u)[i] = p[i]
      BY <1>2, <2>2, <2>3
    <2>5. m = p \o u
      BY DEF u
    <2> HIDE DEF m
    <2> QED BY <1>2, <2>2, <2>3, <2>4, <2>5
  <1> HIDE DEF m
  <1>5. /\ m \o q \in Seq(S) /\ Len(m \o q) = a + 1 + (n - b)
        /\ \A i \in 1..a + 1 : (m \o q)[i] = m[i]
        /\ \A i \in a + 2..a + 1 + (n - b) : (m \o q)[i] = q[i - (a + 1)]
    <2>1. /\ m \o q \in Seq(S) /\ Len(m \o q) = Len(m) + Len(q)
          /\ \A i \in 1..Len(m) + Len(q) :
               (m \o q)[i] = IF i <= Len(m) THEN m[i] ELSE q[i - Len(m)]
      BY <1>3, <1>4, ConcatProperties
    <2> DEFINE r == m \o q
    <2> HIDE DEF r, n
    <2>2. b <= n
      BY DEF n
    <2>3. /\ r \in Seq(S) /\ Len(r) = a + 1 + (n - b)
          /\ \A i \in 1..a + 1 + (n - b) :
               r[i] = IF i <= a + 1 THEN m[i] ELSE q[i - (a + 1)]
      BY <1>3, <1>4, <2>1 DEF r
    <2>4. \A i \in 1..a + 1 : r[i] = m[i]
      BY <1>1, <2>2, <2>3
    <2>5. \A i \in a + 2..a + 1 + (n - b) : r[i] = q[i - (a + 1)]
      BY <1>1, <2>2, <2>3
    <2> QED BY <2>3, <2>4, <2>5 DEF r
  <1>6. Splice(s, a, b, e) = m \o q
    BY DEF Splice, m, p, q
  <1>7. \A i \in a + 2..a + 1 + (n - b) : q[i - (a + 1)] = s[i + (b - a) - 1]
    <2> TAKE i \in a + 2..a + 1 + (n - b)
    <2>1. i - (a + 1) \in 1..n - b
      BY <1>1
    <2>2. q[i - (a + 1)] = s[b + (i - (a + 1))]
      BY <1>3, <2>1
    <2> QED BY <2>1, <2>2
  <1> HIDE DEF n
  <1>8. /\ m \o q \in Seq(S)
        /\ Len(m \o q) = n - (b - a) + 1
        /\ \A i \in 1..a : (m \o q)[i] = s[i]
        /\ (m \o q)[a + 1] = e
        /\ \A i \in a + 2..n - (b - a) + 1 : (m \o q)[i] = s[i + (b - a) - 1]
    <2> DEFINE r == m \o q
    <2>1. /\ r \in Seq(S) /\ Len(r) = a + 1 + (n - b)
          /\ \A i \in 1..a + 1 : r[i] = m[i]
          /\ \A i \in a + 2..a + 1 + (n - b) : r[i] = q[i - (a + 1)]
      BY <1>5
    <2> HIDE DEF r
    <2>2. a + 1 + (n - b) = n - (b - a) + 1
      BY <1>1
    <2>3. \A i \in 1..a : r[i] = s[i]
      BY <1>4, <2>1
    <2>4. r[a + 1] = e
      BY <1>4, <2>1
    <2>5. \A i \in a + 2..n - (b - a) + 1 : r[i] = s[i + (b - a) - 1]
      BY <1>7, <2>1, <2>2
    <2> QED BY <2>1, <2>2, <2>3, <2>4, <2>5 DEF r
  <1> QED
    BY <1>6, <1>8 DEF n, IsSplice
-----------------------------------------------------------------------------
(* Slices: the elements a+1 to b of a sequence.                            *)
LEMMA SliceFacts ==
  ASSUME NEW S, NEW s \in Seq(S), NEW a \in Nat, NEW b \in Nat,
         a <= b, b <= Len(s)
  PROVE  /\ SubSeq(s, a + 1, b) \in Seq(S)
         /\ Len(SubSeq(s, a + 1, b)) = b - a
         /\ \A i \in 1..b - a : SubSeq(s, a + 1, b)[i] = s[a + i]
  <1>1. \A i \in a + 1..b : s[i] \in S
    BY ElementOfSeq, LenProperties
  <1> DEFINE t == SubSeq(s, a + 1, b)
  <1>2. /\ t \in Seq(S)
        /\ Len(t) = IF a + 1 <= b THEN b - (a + 1) + 1 ELSE 0
        /\ \A i \in 1..b - (a + 1) + 1 : t[i] = s[(a + 1) + i - 1]
    BY <1>1, SubSeqProperties
  <1> HIDE DEF t
  <1>3. Len(t) = b - a
    BY <1>2
  <1>4. \A i \in 1..b - a : t[i] = s[a + i]
    BY <1>2
  <1> QED
    BY <1>2, <1>3, <1>4 DEF t

(* A sequence with the elements of a slice is that slice.                  *)
LEMMA SliceUnique ==
  ASSUME NEW S, NEW s \in Seq(S), NEW a \in Nat, NEW b \in Nat,
         a <= b, b <= Len(s),
         NEW t \in Seq(S), Len(t) = b - a, \A i \in 1..b - a : t[i] = s[a + i]
  PROVE  t = SubSeq(s, a + 1, b)
  <1> DEFINE r == SubSeq(s, a + 1, b)
  <1>1. /\ r \in Seq(S) /\ Len(r) = b - a
        /\ \A i \in 1..b - a : r[i] = s[a + i]
    BY SliceFacts
  <1> HIDE DEF r
  <1>2. t = r
    BY <1>1, SeqEqual
  <1> QED
    BY <1>2 DEF r

(* Slices of sequences that agree there are equal.                         *)
LEMMA SlicesAgree ==
  ASSUME NEW S, NEW s \in Seq(S), NEW t \in Seq(S),
         NEW a \in Nat, NEW b \in Nat, NEW c \in Nat, NEW d \in Nat,
         a <= b, b <= Len(s), c <= d, d <= Len(t), d - c = b - a,
         \A i \in 1..b - a : s[a + i] = t[c + i]
  PROVE  SubSeq(s, a + 1, b) = SubSeq(t, c + 1, d)
  <1> DEFINE r == SubSeq(s, a + 1, b)
  <1>1. /\ r \in Seq(S) /\ Len(r) = b - a
        /\ \A i \in 1..b - a : r[i] = s[a + i]
    BY SliceFacts
  <1> HIDE DEF r
  <1>2. Len(r) = d - c /\ \A i \in 1..d - c : r[i] = t[c + i]
    BY <1>1
  <1>3. r = SubSeq(t, c + 1, d)
    BY <1>1, <1>2, SliceUnique
  <1> QED
    BY <1>3 DEF r

(* Adjacent slices.                                                        *)
LEMMA SlicesJoin ==
  ASSUME NEW S, NEW s \in Seq(S), NEW a \in Nat, NEW b \in Nat, NEW c \in Nat,
         a <= b, b <= c, c <= Len(s)
  PROVE  SubSeq(s, a + 1, b) \o SubSeq(s, b + 1, c) = SubSeq(s, a + 1, c)
  <1> DEFINE n == Len(s)
  <1>1. n \in Nat
    BY LenProperties
  <1> HIDE DEF n
  <1>2. c <= n
    BY DEF n
  <1>3. /\ a + 1 \in 1..n + 1 /\ b \in (a + 1) - 1..n /\ c \in b..n
    BY <1>1, <1>2
  <1> QED
    BY <1>3, ConcatAdjacentSubSeq DEF n

(* A slice of a slice.                                                     *)
LEMMA SliceOfSlice ==
  ASSUME NEW S, NEW s \in Seq(S), NEW a \in Nat, NEW b \in Nat,
         NEW m \in Nat, NEW n \in Nat,
         a <= b, b <= Len(s), m <= n, n <= b - a
  PROVE  SubSeq(SubSeq(s, a + 1, b), m + 1, n) = SubSeq(s, (a + m) + 1, a + n)
  <1> DEFINE r == SubSeq(s, a + 1, b)
             k == Len(s)
  <1>1. /\ r \in Seq(S) /\ Len(r) = b - a
        /\ \A i \in 1..b - a : r[i] = s[a + i]
    BY SliceFacts
  <1> HIDE DEF r
  <1>2. k \in Nat
    BY LenProperties
  <1>3. a + n <= k
    <2>1. b <= k
      OBVIOUS
    <2> HIDE DEF k
    <2> QED BY <1>2, <2>1
  <1>4. /\ n <= Len(r) /\ a + m \in Nat /\ a + n \in Nat /\ a + m <= a + n
        /\ (a + n) - (a + m) = n - m
    BY <1>1
  <1>5. \A i \in 1..n - m : r[m + i] = s[(a + m) + i]
    <2> TAKE i \in 1..n - m
    <2>1. m + i \in 1..b - a /\ a + (m + i) = (a + m) + i
      OBVIOUS
    <2> QED BY <1>1, <2>1
  <1>6. SubSeq(r, m + 1, n) = SubSeq(s, (a + m) + 1, a + n)
    BY <1>1, <1>3, <1>4, <1>5, SlicesAgree DEF k
  <1> QED
    BY <1>6 DEF r
(* A slice one element longer.                                             *)
LEMMA SliceGrows ==
  ASSUME NEW S, NEW s \in Seq(S), NEW a \in Nat, NEW b \in Nat,
         a <= b, b + 1 <= Len(s)
  PROVE  SubSeq(s, a + 1, b + 1) = Append(SubSeq(s, a + 1, b), s[b + 1])
  <1> DEFINE r == SubSeq(s, a + 1, b)
             t == Append(r, s[b + 1])
  <1>1. b <= Len(s) /\ b + 1 \in 1..Len(s)
    <2> DEFINE k == Len(s)
    <2>1. k \in Nat /\ b + 1 <= k
      BY LenProperties
    <2> HIDE DEF k
    <2>2. b <= k /\ b + 1 \in 1..k
      BY <2>1
    <2> QED BY <2>2 DEF k
  <1>2. /\ r \in Seq(S) /\ Len(r) = b - a
        /\ \A i \in 1..b - a : r[i] = s[a + i]
    BY <1>1, SliceFacts
  <1>3. s[b + 1] \in S
    BY <1>1, ElementOfSeq
  <1> HIDE DEF r
  <1>4. /\ t \in Seq(S) /\ Len(t) = (b - a) + 1
        /\ \A i \in 1..b - a : t[i] = r[i]
        /\ t[(b - a) + 1] = s[b + 1]
    BY <1>2, <1>3, AppendFacts
  <1> HIDE DEF t
  <1>5. Len(t) = (b + 1) - a /\ a <= b + 1
    BY <1>4
  <1>6. \A i \in 1..(b + 1) - a : t[i] = s[a + i]
    <2> TAKE i \in 1..(b + 1) - a
    <2>1. CASE i = (b - a) + 1
      <3>1. a + i = b + 1
        BY <2>1
      <3> QED BY <1>4, <2>1, <3>1
    <2>2. CASE i # (b - a) + 1
      <3>1. i \in 1..b - a
        BY <2>2
      <3> QED BY <1>2, <1>4, <3>1
    <2> QED BY <2>1, <2>2
  <1>7. t = SubSeq(s, a + 1, b + 1)
    BY <1>4, <1>5, <1>6, SliceUnique
  <1> QED
    BY <1>7 DEF t, r

(* A slice that reaches over the end of a sequence to which an element is  *)
(* appended.                                                               *)
LEMMA SliceOfAppend ==
  ASSUME NEW S, NEW s \in Seq(S), NEW e \in S, NEW a \in Nat, a <= Len(s)
  PROVE  SubSeq(Append(s, e), a + 1, Len(s) + 1)
           = Append(SubSeq(s, a + 1, Len(s)), e)
  <1> DEFINE k == Len(s)
             t == Append(s, e)
  <1>1. /\ k \in Nat /\ t \in Seq(S) /\ Len(t) = k + 1
        /\ t[k + 1] = e /\ \A i \in 1..k : t[i] = s[i]
    BY LenProperties, AppendFacts
  <1>2. a <= k /\ k <= Len(s)
    <2>1. Len(s) \in Nat
      BY LenProperties
    <2> QED BY <2>1
  <1> HIDE DEF t, k
  <1>3. SubSeq(t, a + 1, k + 1) = Append(SubSeq(t, a + 1, k), e)
    BY <1>1, <1>2, SliceGrows
  <1>4. SubSeq(t, a + 1, k) = SubSeq(s, a + 1, k)
    <2>1. \A i \in 1..k - a : t[a + i] = s[a + i]
      BY <1>1, <1>2
    <2>2. k <= Len(t)
      BY <1>1
    <2> QED BY <1>1, <1>2, <2>1, <2>2, SlicesAgree
  <1> QED
    BY <1>3, <1>4 DEF t, k

(* The first element taken from a slice that is followed by more.          *)
LEMMA SliceHeadTail ==
  ASSUME NEW S, NEW s \in Seq(S), NEW u \in Seq(S), NEW a \in Nat,
         a < Len(s)
  PROVE  LET t == SubSeq(s, a + 1, Len(s)) \o u
         IN  /\ t # <<>>
             /\ Head(t) = s[a + 1]
             /\ Tail(t) = SubSeq(s, (a + 1) + 1, Len(s)) \o u
  <1> DEFINE k == Len(s)
             q == SubSeq(s, a + 1, k)
             r == SubSeq(s, (a + 1) + 1, k)
             t == q \o u
             v == r \o u
  <1>1. k \in Nat /\ k <= Len(s)
    BY LenProperties
  <1>2. a < k
    OBVIOUS
  <1> HIDE DEF k
  <1>3. a <= k /\ a + 1 <= k
    BY <1>1, <1>2
  <1>4. /\ q \in Seq(S) /\ Len(q) = k - a
        /\ \A i \in 1..k - a : q[i] = s[a + i]
    BY <1>1, <1>3, SliceFacts
  <1>5. /\ r \in Seq(S) /\ Len(r) = k - (a + 1)
        /\ \A i \in 1..k - (a + 1) : r[i] = s[(a + 1) + i]
    BY <1>1, <1>3, SliceFacts
  <1> HIDE DEF q, r
  <1>6. /\ t \in Seq(S) /\ Len(t) = Len(q) + Len(u)
        /\ \A i \in 1..Len(q) + Len(u) :
             t[i] = IF i <= Len(q) THEN q[i] ELSE u[i - Len(q)]
    BY <1>4, ConcatProperties
  <1>7. /\ v \in Seq(S) /\ Len(v) = Len(r) + Len(u)
        /\ \A i \in 1..Len(r) + Len(u) :
             v[i] = IF i <= Len(r) THEN r[i] ELSE u[i - Len(r)]
    BY <1>5, ConcatProperties
  <1>8. Len(u) \in Nat
    BY LenProperties
  <1> DEFINE m == Len(u)
  <1> HIDE DEF t, v
  <1>9. /\ Len(t) = (k - a) + m /\ Len(v) = (k - (a + 1)) + m
        /\ Len(t) # 0
    BY <1>1, <1>2, <1>4, <1>5, <1>6, <1>7, <1>8
  <1>10. t # <<>>
    BY <1>9, EmptySeq
  <1>11. /\ Head(t) = t[1] /\ Tail(t) \in Seq(S)
         /\ Len(Tail(t)) = Len(t) - 1
         /\ \A i \in 1..Len(t) - 1 : Tail(t)[i] = t[i + 1]
    BY <1>6, <1>10, HeadTail
  <1>12. t[1] = s[a + 1]
    <2> HIDE DEF m
    <2>1. 1 \in 1..k - a /\ 1 \in 1..Len(q) + m /\ 1 <= Len(q)
      BY <1>1, <1>2, <1>4, <1>8 DEF m
    <2> QED BY <1>4, <1>6, <2>1 DEF m
  <1>13. Len(Tail(t)) = Len(v)
    BY <1>1, <1>8, <1>9, <1>11
  <1>14. ASSUME NEW i \in 1..Len(Tail(t))
         PROVE  Tail(t)[i] = v[i]
    <2> HIDE DEF m
    <2>1. /\ i \in 1..Len(t) - 1 /\ i + 1 \in 1..(k - a) + m
          /\ i \in 1..(k - (a + 1)) + m
      BY <1>1, <1>8, <1>9, <1>11 DEF m
    <2>2. Tail(t)[i] = t[i + 1]
      BY <1>11, <2>1
    <2>3. t[i + 1] = IF i + 1 <= k - a THEN q[i + 1] ELSE u[(i + 1) - (k - a)]
      BY <1>4, <1>6, <2>1 DEF m
    <2>4. v[i] = IF i <= k - (a + 1) THEN r[i] ELSE u[i - (k - (a + 1))]
      BY <1>5, <1>7, <2>1 DEF m
    <2>5. CASE i <= k - (a + 1)
      <3>1. /\ i + 1 <= k - a /\ i \in 1..k - (a + 1) /\ i + 1 \in 1..k - a
            /\ a + (i + 1) = (a + 1) + i
        BY <1>1, <2>1, <2>5
      <3> QED BY <1>4, <1>5, <2>2, <2>3, <2>4, <2>5, <3>1
    <2>6. CASE ~(i <= k - (a + 1))
      <3>1. ~(i + 1 <= k - a) /\ (i + 1) - (k - a) = i - (k - (a + 1))
        BY <1>1, <2>1, <2>6
      <3> QED BY <2>2, <2>3, <2>4, <2>6, <3>1
    <2> QED BY <2>5, <2>6
  <1>15. Tail(t) = v
    BY <1>7, <1>11, <1>13, <1>14, SeqEqual
  <1> QED
    BY <1>10, <1>11, <1>12, <1>15 DEF t, v, q, r, k
-----------------------------------------------------------------------------
LEMMA ReverseFacts ==
  ASSUME NEW S, NEW s \in Seq(S)
  PROVE  /\ Reverse(s) \in Seq(S)
         /\ Len(Reverse(s)) = Len(s)
         /\ \A i \in 1..Len(s) : Reverse(s)[i] = s[(Len(s) - i) + 1]
  <1> DEFINE n == Len(s)
             r == [i \in 1..n |-> s[(n - i) + 1]]
  <1>1. n \in Nat /\ \A i \in 1..n : s[i] \in S
    BY LenProperties, ElementOfSeq
  <1> HIDE DEF n
  <1>2. r \in [1..n -> S] /\ DOMAIN r = 1..n
    <2>1. \A i \in 1..n : (n - i) + 1 \in 1..n
      BY <1>1
    <2> QED BY <1>1, <2>1
  <1>3. \A i \in 1..n : r[i] = s[(n - i) + 1]
    OBVIOUS
  <1>4. Reverse(s) = r
    BY DEF Reverse, n
  <1> HIDE DEF r
  <1>5. r \in Seq(S)
    BY <1>1, <1>2, SeqDef
  <1>6. Len(r) = n
    BY <1>1, <1>2, <1>5, LenProperties
  <1> QED
    BY <1>3, <1>4, <1>5, <1>6 DEF n

(* A sequence is a suffix of what is made by putting others in front.      *)
LEMMA PrependedSuffix ==
  ASSUME NEW S, NEW s \in Seq(S), NEW t \in Seq(S), t # <<>>
  PROVE  /\ t \o s # s
         /\ IsSuffix(s, t \o s)
  <1> DEFINE m == Len(t)
             n == Len(s)
             u == t \o s
             r == Reverse(s)
             v == Reverse(u)
  <1>1. m \in Nat \ {0} /\ n \in Nat
    BY EmptySeq, LenProperties
  <1>2. /\ u \in Seq(S) /\ Len(u) = m + n
        /\ \A i \in 1..m + n : u[i] = IF i <= m THEN t[i] ELSE s[i - m]
    BY ConcatProperties, Zenon
  <1>3. /\ r \in Seq(S) /\ Len(r) = n
        /\ \A i \in 1..n : r[i] = s[(n - i) + 1]
    BY ReverseFacts
  <1> HIDE DEF u
  <1>4. /\ v \in Seq(S) /\ Len(v) = m + n
        /\ \A i \in 1..m + n : v[i] = u[((m + n) - i) + 1]
    <2>1. /\ v \in Seq(S) /\ Len(v) = Len(u)
          /\ \A i \in 1..Len(u) : v[i] = u[(Len(u) - i) + 1]
      BY <1>2, ReverseFacts
    <2> HIDE DEF v, m, n
    <2> QED BY <1>2, <2>1
  <1> HIDE DEF m, n, r, v
  <1>5. u # s
    <2>1. Len(u) # n
      BY <1>1, <1>2
    <2> QED BY <2>1 DEF n
  <1>6. \A i \in 1..n : r[i] = v[i]
    <2> SUFFICES ASSUME NEW i \in 1..n
                 PROVE  r[i] = v[i]
      OBVIOUS
    <2> DEFINE k == ((m + n) - i) + 1
    <2>1. /\ i \in 1..m + n /\ k \in 1..m + n /\ ~(k <= m)
          /\ k - m = (n - i) + 1
      BY <1>1
    <2>2. v[i] = u[k] /\ r[i] = s[(n - i) + 1]
      BY <1>3, <1>4, <2>1
    <2> HIDE DEF k
    <2>3. u[k] = s[k - m]
      BY <1>2, <2>1
    <2> QED BY <2>1, <2>2, <2>3
  <1>7. SubSeq(r, 1, n) = SubSeq(v, 1, n)
    <2> DEFINE z == 0
    <2>1. /\ z \in Nat /\ n \in Nat /\ z <= n /\ n <= Len(v) /\ v \in Seq(S)
          /\ r \in Seq(S) /\ Len(r) = n - z
          /\ \A i \in 1..n - z : r[i] = v[z + i]
      BY <1>1, <1>3, <1>4, <1>6
    <2> HIDE DEF z
    <2>2. r = SubSeq(v, z + 1, n)
      BY <2>1, SliceUnique
    <2>3. r = SubSeq(r, 1, n) /\ z + 1 = 1
      BY <1>3, SubSeqFull DEF z
    <2> QED BY <2>2, <2>3
  <1>8. IsPrefix(r, v)
    BY <1>1, <1>3, <1>4, <1>7 DEF IsPrefix
  <1> QED
    BY <1>5, <1>8 DEF IsSuffix, r, v, u
(* A non-empty sequence is its head in front of its tail.                  *)
LEMMA HeadThenTail ==
  ASSUME NEW S, NEW s \in Seq(S), s # <<>>
  PROVE  s = <<Head(s)>> \o Tail(s)
  <1> DEFINE m == Len(s)
  <1>1. m \in Nat \ {0} /\ Head(s) = s[1]
    BY HeadTail
  <1>2. 1 \in 1..m /\ m \in 1..m
    BY <1>1
  <1>3. SubSeq(s, 1, m) = <<s[1]>> \o SubSeq(s, 1 + 1, m)
    BY <1>2, SubSeqRecursiveFirst
  <1>4. SubSeq(s, 1, m) = s /\ Tail(s) = SubSeq(s, 2, m)
    BY SubSeqFull, TailIsSubSeq
  <1>5. 1 + 1 = 2
    OBVIOUS
  <1> QED
    BY <1>1, <1>3, <1>4, <1>5

(* What r is, made of s by inserting e behind the first p elements.        *)
IsInsertion(r, S, s, p, e) ==
  /\ r \in Seq(S)
  /\ Len(r) = Len(s) + 1
  /\ \A i \in 1..p : r[i] = s[i]
  /\ r[p + 1] = e
  /\ \A i \in p + 2..Len(s) + 1 : r[i] = s[i - 1]

LEMMA InsertAtFacts ==
  ASSUME NEW S, NEW s \in Seq(S), NEW e \in S, NEW p \in Nat, p <= Len(s)
  PROVE  IsInsertion(InsertAt(s, p + 1, e), S, s, p, e)
  <1> DEFINE n == Len(s)
             r == Splice(s, p, p, e)
  <1>1. n \in Nat /\ InsertAt(s, p + 1, e) = r
    <2>1. (p + 1) - 1 = p
      OBVIOUS
    <2> QED BY <2>1, LenProperties DEF InsertAt, Splice
  <1>2. IsSplice(r, S, s, p, p, e)
    BY SpliceFacts
  <1> HIDE DEF r, n
  <1>3. /\ r \in Seq(S) /\ Len(r) = n - (p - p) + 1
        /\ \A i \in 1..p : r[i] = s[i]
        /\ r[p + 1] = e
        /\ \A i \in p + 2..n - (p - p) + 1 : r[i] = s[i + (p - p) - 1]
    BY <1>2 DEF IsSplice, n
  <1>4. Len(r) = n + 1 /\ \A i \in p + 2..n + 1 : r[i] = s[i - 1]
    BY <1>1, <1>3
  <1> QED
    BY <1>1, <1>3, <1>4 DEF n, IsInsertion

-----------------------------------------------------------------------------
(* The first cached token that may be lexed (again).                       *)
Low == IF isBacktrackEnabled THEN BacktrackPositions[1] ELSE CachedLexPos

(* The lexers: gone exactly after their eof; in PeekAhead's loop and       *)
(* outside caching mode they are current, and outside caching mode nothing *)
(* is cached and no tentative parse is active.                             *)
ModesConsistent ==
  /\ lexer = "gone" <=> source = <<>>
  /\ \A i \in DOMAIN source : source[i] = Eof <=> i = Len(source)
  /\ peek <= Len(source)
  /\ peek > 0 => lexer = "current" /\ client = "reading"
  /\ lexer = "current" /\ peek = 0 =>
       CachedTokens = <<>> /\ BacktrackPositions = <<>>
  /\ client = "atEof" => lexer = "gone" /\ CachedLexPos = Len(CachedTokens)

(* The eof was taken from the lexers, and not dropped.                     *)
EofKept == lexer = "gone" /\ ~eofDropped

(* An eof that was kept is the last cached token, unless the client        *)
(* consumed it with no way back.                                           *)
EofCached ==
  /\ \A i \in DOMAIN CachedTokens :
       i > Low => (CachedTokens[i] = Eof <=>
                     i = Len(CachedTokens) /\ EofKept)
  /\ EofKept /\ client = "reading" => CachedLexPos < Len(CachedTokens)
  /\ EofKept =>
       \A i \in DOMAIN BacktrackPositions :
         BacktrackPositions[i] < Len(CachedTokens)
  /\ eofDropped => lexer = "gone"

CInv == TypeOK /\ ModesConsistent /\ EofCached

-----------------------------------------------------------------------------
(* Consequences of the invariant used by every step.                       *)
LEMMA LengthFacts ==
  ASSUME CInv
  PROVE  /\ Len(source) \in Nat /\ DOMAIN source = 1..Len(source)
         /\ source = <<>> <=> Len(source) = 0
         /\ Len(CachedTokens) \in Nat
         /\ DOMAIN CachedTokens = 1..Len(CachedTokens)
         /\ Len(BacktrackPositions) \in Nat
         /\ DOMAIN BacktrackPositions = 1..Len(BacktrackPositions)
         /\ BacktrackPositions = <<>> <=> Len(BacktrackPositions) = 0
         /\ \A i \in DOMAIN BacktrackPositions : BacktrackPositions[i] \in Nat
         /\ CachedLexPos \in Nat /\ CachedLexPos <= Len(CachedTokens)
         /\ Low \in Nat /\ Low <= CachedLexPos
  <1>1. /\ source \in Seq(AnyToken) /\ CachedTokens \in Seq(AnyToken)
        /\ BacktrackPositions \in Seq(Nat)
        /\ CachedLexPos \in 0..Len(CachedTokens)
        /\ \A i \in DOMAIN BacktrackPositions :
             BacktrackPositions[i] <= CachedLexPos
    BY DEF CInv, TypeOK
  <1>2. /\ Len(source) \in Nat /\ DOMAIN source = 1..Len(source)
        /\ source = <<>> <=> Len(source) = 0
    BY <1>1, EmptySeq, LenProperties
  <1>3. /\ Len(CachedTokens) \in Nat
        /\ DOMAIN CachedTokens = 1..Len(CachedTokens)
        /\ CachedLexPos \in Nat /\ CachedLexPos <= Len(CachedTokens)
    BY <1>1, LenProperties
  <1>4. /\ Len(BacktrackPositions) \in Nat
        /\ DOMAIN BacktrackPositions = 1..Len(BacktrackPositions)
        /\ BacktrackPositions = <<>> <=> Len(BacktrackPositions) = 0
        /\ \A i \in DOMAIN BacktrackPositions : BacktrackPositions[i] \in Nat
    BY <1>1, EmptySeq, LenProperties, ElementOfSeq
  <1>5. Low \in Nat /\ Low <= CachedLexPos
    BY <1>1, <1>3, <1>4 DEF Low, isBacktrackEnabled
  <1> QED
    BY <1>2, <1>3, <1>4, <1>5

(* A token taken from the lexers: it is the eof exactly when it is the     *)
(* last one, and the lexers are gone exactly then.                         *)
LEMMA SourceStep ==
  ASSUME CInv, lexer # "gone"
  PROVE  /\ Head(source) \in AnyToken
         /\ Tail(source) \in Seq(AnyToken)
         /\ Len(source) \in Nat \ {0}
         /\ Len(Tail(source)) = Len(source) - 1
         /\ Head(source) = Eof <=> Tail(source) = <<>>
         /\ AfterLex \in {"current", "gone"}
         /\ AfterLex = "gone" <=> Tail(source) = <<>>
         /\ AfterLex = "gone" <=> Head(source) = Eof
         /\ \A i \in DOMAIN Tail(source) :
              Tail(source)[i] = Eof <=> i = Len(Tail(source))
  <1>1. source \in Seq(AnyToken) /\ source # <<>>
    BY DEF CInv, TypeOK, ModesConsistent
  <1>2. /\ Head(source) \in AnyToken /\ Head(source) = source[1]
        /\ Tail(source) \in Seq(AnyToken)
        /\ Len(source) \in Nat \ {0}
        /\ Len(Tail(source)) = Len(source) - 1
        /\ \A i \in 1..Len(source) - 1 : Tail(source)[i] = source[i + 1]
    BY <1>1, HeadTail
  <1>3. /\ DOMAIN Tail(source) = 1..Len(source) - 1
        /\ Tail(source) = <<>> <=> Len(source) - 1 = 0
    BY <1>2, EmptySeq, LenProperties
  <1>4. \A i \in 1..Len(source) : source[i] = Eof <=> i = Len(source)
    BY LengthFacts DEF CInv, ModesConsistent
  <1> DEFINE n == Len(source)
             h == Head(source)
             t == Tail(source)
  <1>5. /\ n \in Nat \ {0} /\ h = source[1]
        /\ t = <<>> <=> n - 1 = 0
        /\ DOMAIN t = 1..n - 1 /\ Len(t) = n - 1
        /\ \A i \in 1..n - 1 : t[i] = source[i + 1]
        /\ \A i \in 1..n : (source[i] = Eof) <=> (i = n)
    BY <1>2, <1>3, <1>4
  <1> HIDE DEF n, h, t
  <1>6. (h = Eof) <=> (t = <<>>)
    BY <1>5
  <1>7. ASSUME NEW i \in DOMAIN t
        PROVE  (t[i] = Eof) <=> (i = Len(t))
    <2>1. i \in 1..n - 1 /\ i + 1 \in 1..n /\ t[i] = source[i + 1]
      BY <1>5
    <2>2. (source[i + 1] = Eof) <=> (i + 1 = n)
      BY <1>5, <2>1
    <2> QED
      BY <1>5, <2>1, <2>2
  <1>8. /\ h \in AnyToken /\ t \in Seq(AnyToken)
        /\ AfterLex = IF h = Eof THEN "gone" ELSE "current"
    BY <1>2 DEF h, t, AfterLex
  <1>9. /\ AfterLex \in {"current", "gone"}
        /\ (AfterLex = "gone") <=> (h = Eof)
    BY <1>8
  <1> QED
    BY <1>2, <1>6, <1>7, <1>8, <1>9 DEF h, t

-----------------------------------------------------------------------------
(* One lemma per operation                                                 *)

LEMMA LexCurrentInv ==
  ASSUME CInv, LexCurrent
  PROVE  CInv'
  <1>1. lexer = "current" /\ peek = 0 /\ client = "reading"
    BY DEF LexCurrent, Reading, Idle
  <1>2. /\ answer' = Head(source) /\ source' = Tail(source)
        /\ lexer' = AfterLex /\ client' = Given(Head(source))
        /\ UNCHANGED <<CachedTokens, CachedLexPos, BacktrackPositions, peek, eofDropped>>
    BY DEF LexCurrent
  <1>3. /\ CachedTokens = <<>> /\ BacktrackPositions = <<>>
        /\ Len(CachedTokens) = 0 /\ CachedLexPos = 0
        /\ DOMAIN CachedTokens = {} /\ DOMAIN BacktrackPositions = {}
    BY <1>1, LengthFacts DEF CInv, ModesConsistent
  <1>4. TypeOK'
    BY <1>1, <1>2, SourceStep DEF CInv, TypeOK, Given
  <1> DEFINE h == Head(source)
             t == Tail(source)
             after == AfterLex
  <1>5. /\ answer' = h /\ source' = t /\ lexer' = after
        /\ client' = IF h = Eof THEN "atEof" ELSE "reading"
        /\ (after = "gone") <=> (t = <<>>)
        /\ (after = "gone") <=> (h = Eof)
        /\ \A i \in DOMAIN t : (t[i] = Eof) <=> (i = Len(t))
        /\ Len(t) \in Nat
    BY <1>1, <1>2, SourceStep DEF Given
  <1> HIDE DEF h, t, after
  <1>6. ModesConsistent'
    <2>1. (lexer' = "gone") <=> (source' = <<>>)
      BY <1>5
    <2>2. \A i \in DOMAIN source' : (source'[i] = Eof) <=> (i = Len(source'))
      BY <1>5
    <2>3. peek' = 0 /\ peek' <= Len(source')
      BY <1>1, <1>2, <1>5
    <2>4. CachedTokens' = <<>> /\ BacktrackPositions' = <<>>
      BY <1>2, <1>3
    <2>5. client' = "atEof" =>
            lexer' = "gone" /\ CachedLexPos' = Len(CachedTokens')
      BY <1>2, <1>3, <1>5
    <2> QED
      BY <2>1, <2>2, <2>3, <2>4, <2>5 DEF ModesConsistent
  <1>7. EofCached'
    <2>1. ~eofDropped'
      BY <1>1, <1>2 DEF CInv, EofCached
    <2> QED
      BY <1>2, <1>3, <1>5, <2>1 DEF EofCached, EofKept
  <1> QED
    BY <1>4, <1>6, <1>7 DEF CInv

LEMMA LexCachedInv ==
  ASSUME CInv, LexCached
  PROVE  CInv'
  <1> DEFINE p == CachedLexPos + 1
  <1>1. /\ peek = 0 /\ client = "reading" /\ lexer # "current"
        /\ CachedLexPos < Len(CachedTokens)
    BY DEF LexCached, Reading, Idle, InCachingLexMode, Cached
  <1>2. /\ answer' = CachedTokens[p] /\ CachedLexPos' = p
        /\ client' = Given(CachedTokens[p])
        /\ UNCHANGED <<source, lexer, CachedTokens, BacktrackPositions, peek, eofDropped>>
    BY DEF LexCached
  <1>3. /\ p \in 1..Len(CachedTokens) /\ p > Low /\ p \in Nat
        /\ p > CachedLexPos
    BY <1>1, LengthFacts
  <1>4. CachedTokens[p] \in AnyToken
    BY <1>3, ElementOfSeq DEF CInv, TypeOK
  <1>5. CachedTokens[p] = Eof <=> p = Len(CachedTokens) /\ EofKept
    BY <1>3, LengthFacts DEF CInv, EofCached, EofKept
  <1> HIDE DEF p
  <1>6. TypeOK'
    <2>1. \A i \in DOMAIN BacktrackPositions : BacktrackPositions[i] <= p
      BY <1>3, LengthFacts DEF CInv, TypeOK
    <2> QED
      BY <1>2, <1>3, <1>4, <2>1, LengthFacts DEF CInv, TypeOK, Given
  <1>7. ModesConsistent'
    BY <1>1, <1>2, <1>5 DEF CInv, ModesConsistent, EofKept, Given
  <1>8. EofCached'
    <2>1. Low' \in Nat /\ Low <= Low'
      BY <1>2, <1>3, LengthFacts DEF Low, isBacktrackEnabled
    <2>2. \A i \in DOMAIN CachedTokens : i > Low' =>
            (CachedTokens[i] = Eof <=> i = Len(CachedTokens) /\ EofKept)
      BY <2>1, LengthFacts DEF CInv, EofCached, EofKept
    <2>3. EofKept /\ client' = "reading" => p # Len(CachedTokens)
      BY <1>2, <1>5 DEF Given
    <2>4. p # Len(CachedTokens) => p < Len(CachedTokens)
      <3> DEFINE n == Len(CachedTokens)
      <3>1. n \in Nat /\ p \in 1..n
        BY <1>3, LengthFacts
      <3> HIDE DEF n
      <3>2. p # n => p < n
        BY <3>1
      <3> QED BY <3>2 DEF n
    <2> QED
      BY <1>2, <2>2, <2>3, <2>4 DEF CInv, EofCached, EofKept
  <1> QED
    BY <1>6, <1>7, <1>8 DEF CInv

LEMMA LexAndClearInv ==
  ASSUME CInv, LexAndClear
  PROVE  CInv'
  <1>1. /\ peek = 0 /\ client = "reading" /\ lexer = "stacked"
        /\ BacktrackPositions = <<>>
    BY DEF LexAndClear, CachingLexMiss, Reading, Idle, InCachingLexMode,
           CanExitCachingLexMode, isBacktrackEnabled
  <1>2. /\ answer' = Head(source) /\ source' = Tail(source)
        /\ lexer' = AfterLex /\ client' = Given(Head(source))
        /\ CachedTokens' = <<>> /\ CachedLexPos' = 0
        /\ UNCHANGED <<BacktrackPositions, peek, eofDropped>>
    BY DEF LexAndClear, CachingLexMiss
  <1>3. TypeOK'
    <2>1. <<>> \in Seq(AnyToken) /\ 0 \in 0..Len(<<>>)
      OBVIOUS
    <2>2. DOMAIN BacktrackPositions = {}
      BY <1>1
    <2> QED
      BY <1>1, <1>2, <2>1, <2>2, SourceStep DEF CInv, TypeOK, Given
  <1>4. Len(<<>>) = 0 /\ DOMAIN <<>> = {}
    OBVIOUS
  <1> DEFINE h == Head(source)
             t == Tail(source)
             after == AfterLex
             none == <<>>
  <1>5. /\ answer' = h /\ source' = t /\ lexer' = after
        /\ client' = IF h = Eof THEN "atEof" ELSE "reading"
        /\ (after = "gone") <=> (t = none)
        /\ (after = "gone") <=> (h = Eof)
        /\ \A i \in DOMAIN t : (t[i] = Eof) <=> (i = Len(t))
        /\ Len(t) \in Nat
        /\ CachedTokens' = none /\ BacktrackPositions' = none
        /\ Len(none) = 0 /\ DOMAIN none = {}
    BY <1>1, <1>2, <1>4, SourceStep DEF Given
  <1> HIDE DEF h, t, after
  <1>6. ModesConsistent'
    <2>1. (lexer' = "gone") <=> (source' = <<>>)
      BY <1>5
    <2>2. \A i \in DOMAIN source' : (source'[i] = Eof) <=> (i = Len(source'))
      BY <1>5
    <2>3. peek' = 0 /\ peek' <= Len(source')
      BY <1>1, <1>2, <1>5
    <2>4. CachedTokens' = <<>> /\ BacktrackPositions' = <<>>
      BY <1>5
    <2>5. client' = "atEof" =>
            lexer' = "gone" /\ CachedLexPos' = Len(CachedTokens')
      BY <1>2, <1>5
    <2> QED
      BY <2>1, <2>2, <2>3, <2>4, <2>5 DEF ModesConsistent
  <1>7. EofCached'
    <2>1. ~eofDropped'
      BY <1>1 DEF CInv, EofCached, LexAndClear
    <2> HIDE DEF none
    <2> QED BY <1>2, <1>5, <2>1 DEF EofCached, EofKept
  <1> QED
    BY <1>3, <1>6, <1>7 DEF CInv

(* The token lexed during a tentative parse is appended to the cache,      *)
(* unless it is the eof.                                                   *)
LEMMA LexAndCacheInv ==
  ASSUME CInv, LexAndCache, Head(source) # Eof
  PROVE  CInv'
  <1> DEFINE h == Head(source)
             t == Tail(source)
             n == Len(CachedTokens)
             c == Append(CachedTokens, h)
  <1>1. /\ peek = 0 /\ client = "reading" /\ lexer = "stacked"
        /\ BacktrackPositions # <<>> /\ h # Eof
        /\ ~(CachedLexPos < n)
    BY DEF LexAndCache, CachingLexMiss, Reading, Idle, InCachingLexMode,
           CanExitCachingLexMode, isBacktrackEnabled, Cached
  <1>2. /\ h \in AnyToken /\ t \in Seq(AnyToken) /\ t # <<>>
        /\ AfterLex = "current" /\ Len(t) \in Nat
        /\ \A i \in DOMAIN t : (t[i] = Eof) <=> (i = Len(t))
    BY <1>1, SourceStep
  <1>3. /\ answer' = h /\ source' = t /\ lexer' = "stacked"
        /\ client' = "reading"
        /\ CachedTokens' = c /\ CachedLexPos' = CachedLexPos + 1
        /\ BacktrackPositions' = BacktrackPositions /\ peek' = 0
        /\ eofDropped' = FALSE
    BY <1>1, <1>2 DEF LexAndCache, CachingLexMiss, EnterCachingLexMode,
                      InCachingLexMode, Given
  <1>4. /\ c \in Seq(AnyToken) /\ Len(c) = n + 1 /\ c[n + 1] = h
        /\ \A i \in 1..n : c[i] = CachedTokens[i]
        /\ DOMAIN c = 1..n + 1
    BY <1>2, AppendFacts, LenProperties DEF CInv, TypeOK
  <1>5. /\ n \in Nat /\ CachedLexPos = n /\ Low \in Nat
    BY <1>1, LengthFacts
  <1>6. \A i \in 1..n : i > Low => CachedTokens[i] # Eof
    BY <1>1, LengthFacts DEF CInv, EofCached, EofKept
  <1> HIDE DEF h, t, n, c
  <1>7. TypeOK'
    <2>1. \A i \in DOMAIN BacktrackPositions : BacktrackPositions[i] <= n + 1
      BY <1>5, LengthFacts DEF CInv, TypeOK
    <2>2. CachedLexPos' \in 0..Len(c)
      BY <1>3, <1>4, <1>5
    <2> QED
      BY <1>2, <1>3, <1>4, <1>5, <2>1, <2>2 DEF CInv, TypeOK
  <1>8. ModesConsistent'
    BY <1>2, <1>3 DEF ModesConsistent
  <1>9. EofCached'
    <2>1. Low' = Low
      BY <1>1, <1>3 DEF Low, isBacktrackEnabled
    <2>2. \A i \in 1..n + 1 : i > Low => c[i] # Eof
      BY <1>1, <1>4, <1>5, <1>6
    <2> QED
      BY <1>3, <1>4, <2>1, <2>2 DEF EofCached, EofKept
  <1> QED
    BY <1>7, <1>8, <1>9 DEF CInv

(* An eof lexed there is dropped: the lexers and the token are gone.       *)
LEMMA DropEofInv ==
  ASSUME CInv, LexAndCache, Head(source) = Eof
  PROVE  CInv'
  <1> DEFINE t == Tail(source)
  <1>1. /\ peek = 0 /\ client = "reading" /\ lexer = "stacked"
        /\ BacktrackPositions # <<>>
        /\ ~(CachedLexPos < Len(CachedTokens))
    BY DEF LexAndCache, CachingLexMiss, Reading, Idle, InCachingLexMode,
           CanExitCachingLexMode, isBacktrackEnabled, Cached
  <1>2. t = <<>> /\ AfterLex = "gone" /\ t \in Seq(AnyToken)
    BY <1>1, SourceStep
  <1>3. /\ answer' = Eof /\ source' = t /\ lexer' = "gone"
        /\ client' = "atEof" /\ eofDropped' = TRUE
        /\ UNCHANGED <<CachedTokens, CachedLexPos, BacktrackPositions, peek>>
    BY <1>1, <1>2 DEF LexAndCache, CachingLexMiss, EnterCachingLexMode,
                      InCachingLexMode, Given
  <1>4. Len(<<>>) = 0 /\ DOMAIN <<>> = {} /\ Eof \in AnyToken
    BY DEF AnyToken
  <1> HIDE DEF t
  <1>5. TypeOK'
    BY <1>2, <1>3, <1>4 DEF CInv, TypeOK
  <1>6. ModesConsistent'
    <2>1. CachedLexPos = Len(CachedTokens)
      BY <1>1, LengthFacts
    <2> QED
      BY <1>1, <1>2, <1>3, <1>4, <2>1 DEF ModesConsistent
  <1>7. EofCached'
    <2>1. Low' = Low
      BY <1>3 DEF Low, isBacktrackEnabled
    <2>2. \A i \in DOMAIN CachedTokens : i > Low => CachedTokens[i] # Eof
      BY <1>1 DEF CInv, EofCached, EofKept
    <2> QED
      BY <1>3, <2>1, <2>2 DEF EofCached, EofKept
  <1> QED
    BY <1>5, <1>6, <1>7 DEF CInv

LEMMA LookAheadCachedInv ==
  ASSUME CInv, NEW N \in Nat, LookAheadCached(N)
  PROVE  CInv'
  <1>1. CachedLexPos + N + 1 \in 1..Len(CachedTokens)
    BY LengthFacts DEF LookAheadCached
  <1>2. CachedTokens[CachedLexPos + N + 1] \in AnyToken
    BY <1>1, ElementOfSeq DEF CInv, TypeOK
  <1>3. /\ answer' \in AnyToken
        /\ UNCHANGED <<source, lexer, CachedTokens, CachedLexPos,
                       BacktrackPositions, peek, client, eofDropped>>
    BY <1>2 DEF LookAheadCached
  <1>4. TypeOK'
    BY <1>3 DEF CInv, TypeOK
  <1>5. ModesConsistent'
    BY <1>3 DEF CInv, ModesConsistent
  <1>6. EofCached'
    BY <1>3 DEF CInv, EofCached, EofKept, Low, isBacktrackEnabled
  <1> QED
    BY <1>4, <1>5, <1>6 DEF CInv

(* What is left to lex: the unread cached tokens and the source.           *)
LEMMA RestLength ==
  ASSUME CInv
  PROVE  Len(Rest) = Len(CachedTokens) - CachedLexPos + Len(source)
  <1> DEFINE n == Len(CachedTokens)
             m == Len(source)
             q == SubSeq(CachedTokens, CachedLexPos + 1, n)
  <1>1. /\ n \in Nat /\ m \in Nat /\ CachedLexPos \in Nat
        /\ CachedLexPos <= n
    BY LengthFacts
  <1>2. \A i \in 1..n : CachedTokens[i] \in AnyToken
    BY ElementOfSeq DEF CInv, TypeOK
  <1>3. source \in Seq(AnyToken) /\ CachedTokens \in Seq(AnyToken)
    BY DEF CInv, TypeOK
  <1> HIDE DEF n
  <1>4. \A i \in CachedLexPos + 1..n : CachedTokens[i] \in AnyToken
    BY <1>1, <1>2
  <1>5. /\ q \in Seq(AnyToken)
        /\ Len(q) = IF CachedLexPos + 1 <= n THEN n - (CachedLexPos + 1) + 1
                    ELSE 0
    BY <1>1, <1>3, <1>4, SubSeqProperties
  <1> HIDE DEF q
  <1>6. Len(q) = n - CachedLexPos
    BY <1>1, <1>5
  <1>7. Len(q \o source) = Len(q) + m
    BY <1>3, <1>5, ConcatProperties
  <1> QED
    BY <1>6, <1>7 DEF Rest, q, n

LEMMA PeekAheadInv ==
  ASSUME CInv, NEW N \in Nat, PeekAhead(N)
  PROVE  CInv'
  <1> DEFINE n == Len(CachedTokens)
             m == Len(source)
             k == CachedLexPos + N - n
  <1>1. /\ peek = 0 /\ client = "reading" /\ lexer # "gone"
        /\ CachedLexPos + N >= n + 1
        /\ N <= n - CachedLexPos + m
    BY RestLength DEF PeekAhead, Reading, Idle, CanExitCachingLexMode,
                      InCachingLexMode
  <1>2. /\ lexer' = "current" /\ peek' = k
        /\ UNCHANGED <<source, CachedTokens, CachedLexPos, BacktrackPositions,
                       answer, client, eofDropped>>
    BY DEF PeekAhead
  <1>3. n \in Nat /\ m \in Nat /\ CachedLexPos \in Nat
    BY LengthFacts
  <1>4. source # <<>>
    BY <1>1 DEF CInv, ModesConsistent
  <1>5. k \in Nat /\ k > 0 /\ k <= m
    <2> HIDE DEF n, m
    <2> QED BY <1>1, <1>3
  <1> HIDE DEF n, k
  <1>6. TypeOK'
    BY <1>2, <1>5 DEF CInv, TypeOK
  <1>7. ModesConsistent'
    <2>1. (lexer' = "gone") <=> (source' = <<>>)
      BY <1>2, <1>4
    <2>2. \A i \in DOMAIN source' : (source'[i] = Eof) <=> (i = Len(source'))
      BY <1>2 DEF CInv, ModesConsistent
    <2>3. peek' <= Len(source') /\ peek' # 0
      BY <1>2, <1>5
    <2>4. client' = "reading"
      BY <1>1, <1>2
    <2> QED
      BY <1>2, <2>1, <2>2, <2>3, <2>4 DEF ModesConsistent
  <1>8. EofCached'
    <2>1. Low' = Low
      BY <1>2 DEF Low, isBacktrackEnabled
    <2>2. \A i \in DOMAIN CachedTokens : i > Low => CachedTokens[i] # Eof
      BY <1>1 DEF CInv, EofCached, EofKept
    <2>3. ~eofDropped'
      BY <1>1, <1>2 DEF CInv, EofCached
    <2> QED
      BY <1>2, <2>1, <2>2, <2>3 DEF EofCached, EofKept
  <1> QED
    BY <1>6, <1>7, <1>8 DEF CInv

(* One token moves from the lexers to the end of the cache.                *)
LEMMA PeekStepInv ==
  ASSUME CInv, PeekStep
  PROVE  CInv'
  <1> DEFINE h == Head(source)
             t == Tail(source)
             n == Len(CachedTokens)
             c == Append(CachedTokens, h)
             after == AfterLex
  <1>1. peek > 0 /\ lexer = "current" /\ client = "reading"
    BY DEF CInv, ModesConsistent, PeekStep
  <1>2. /\ h \in AnyToken /\ t \in Seq(AnyToken)
        /\ (after = "gone") <=> (t = <<>>)
        /\ (after = "gone") <=> (h = Eof)
        /\ after \in {"current", "gone"} /\ Len(source) \in Nat
        /\ Len(t) = Len(source) - 1
        /\ \A i \in DOMAIN t : (t[i] = Eof) <=> (i = Len(t))
        /\ (t = <<>>) <=> (Len(t) = 0)
    BY <1>1, SourceStep, EmptySeq
  <1>3. /\ answer' = (IF peek = 1 THEN h ELSE answer) /\ source' = t
        /\ lexer' = (IF peek = 1 THEN EnterCachingLexMode(after) ELSE after)
        /\ CachedTokens' = c /\ peek' = peek - 1
        /\ UNCHANGED <<CachedLexPos, BacktrackPositions, client, eofDropped>>
    BY DEF PeekStep
  <1>4. /\ c \in Seq(AnyToken) /\ Len(c) = n + 1 /\ c[n + 1] = h
        /\ \A i \in 1..n : c[i] = CachedTokens[i]
        /\ DOMAIN c = 1..n + 1
    BY <1>2, AppendFacts, LenProperties DEF CInv, TypeOK
  <1>5. /\ n \in Nat /\ CachedLexPos \in Nat /\ CachedLexPos <= n
        /\ Low \in Nat
    BY LengthFacts
  <1>6. \A i \in 1..n : i > Low => CachedTokens[i] # Eof
    BY <1>1, LengthFacts DEF CInv, EofCached, EofKept
  <1>7. peek \in Nat /\ peek <= Len(source)
    BY DEF CInv, TypeOK, ModesConsistent
  <1> HIDE DEF h, t, n, c, after
  <1>8. /\ (lexer' = "gone") <=> (t = <<>>)
        /\ lexer' \in {"current", "stacked", "gone"}
        /\ (lexer' = "current") => (peek # 1)
        /\ (peek # 1) => (lexer' = "current")
    <2>1. CASE peek = 1
      <3>1. lexer' = IF after = "current" THEN "stacked" ELSE after
        BY <1>3, <2>1 DEF EnterCachingLexMode, InCachingLexMode
      <3> QED BY <1>2, <2>1, <3>1
    <2>2. CASE peek # 1
      <3>1. Len(t) # 0
        BY <1>1, <1>2, <1>7, <2>2
      <3>2. lexer' = after /\ after = "current" /\ t # <<>>
        BY <1>2, <1>3, <2>2, <3>1
      <3> QED BY <2>2, <3>2
    <2> QED BY <2>1, <2>2
  <1>9. peek' \in Nat /\ peek' <= Len(t) /\ (peek' = 0 <=> peek = 1)
    BY <1>1, <1>2, <1>3, <1>7
  <1>10. TypeOK'
    <2>1. CachedLexPos \in 0..Len(c)
      BY <1>4, <1>5
    <2>2. answer' \in AnyToken
      BY <1>2, <1>3 DEF CInv, TypeOK
    <2> QED
      BY <1>2, <1>3, <1>4, <1>8, <1>9, <2>1, <2>2 DEF CInv, TypeOK
  <1>11. ModesConsistent'
    <2>1. \A i \in DOMAIN source' : (source'[i] = Eof) <=> (i = Len(source'))
      BY <1>2, <1>3
    <2>2. (lexer' = "gone") <=> (source' = <<>>)
      BY <1>3, <1>8
    <2>3. peek' <= Len(source')
      BY <1>3, <1>9
    <2>4. client' = "reading"
      BY <1>1, <1>3
    <2>5. peek' # 0 => lexer' = "current"
      BY <1>8, <1>9
    <2>6. lexer' = "current" => peek' # 0
      BY <1>8, <1>9
    <2>7. peek' > 0 => peek' # 0
      BY <1>9
    <2> QED
      BY <2>1, <2>2, <2>3, <2>4, <2>5, <2>6, <2>7 DEF ModesConsistent
  <1>12. EofCached'
    <2>1. Low' = Low
      BY <1>3 DEF Low, isBacktrackEnabled
    <2>2. (h = Eof) <=> (lexer' = "gone")
      BY <1>2, <1>8
    <2>3. ASSUME NEW i \in 1..n + 1, i > Low
          PROVE  (c[i] = Eof) <=> (i = n + 1 /\ lexer' = "gone")
      <3>1. CASE i = n + 1
        BY <1>4, <2>2, <3>1
      <3>2. CASE i # n + 1
        <4>1. i \in 1..n
          BY <1>5, <3>2
        <4> QED BY <1>4, <1>6, <2>3, <3>2, <4>1
      <3> QED BY <3>1, <3>2
    <2>4. CachedLexPos < n + 1
      BY <1>5
    <2>5. \A i \in DOMAIN BacktrackPositions : BacktrackPositions[i] < n + 1
      BY <1>5, LengthFacts DEF CInv, TypeOK
    <2>6. ~eofDropped'
      BY <1>1, <1>3 DEF CInv, EofCached
    <2> QED
      BY <1>3, <1>4, <2>1, <2>3, <2>4, <2>5, <2>6 DEF EofCached, EofKept
  <1> QED
    BY <1>10, <1>11, <1>12 DEF CInv

-----------------------------------------------------------------------------
(* Tentative parsing                                                       *)

(* The innermost backtrack position is the greatest, and the others are    *)
(* what is left when it is popped.                                         *)
LEMMA InnermostPosition ==
  ASSUME CInv, BacktrackPositions # <<>>
  PROVE  /\ Last(BacktrackPositions) \in Nat
         /\ Last(BacktrackPositions) <= CachedLexPos
         /\ Len(BacktrackPositions) \in DOMAIN BacktrackPositions
         /\ Last(BacktrackPositions) =
              BacktrackPositions[Len(BacktrackPositions)]
         /\ \A i \in DOMAIN BacktrackPositions :
              BacktrackPositions[i] <= Last(BacktrackPositions)
         /\ 1 \in DOMAIN BacktrackPositions
         /\ Low = BacktrackPositions[1]
  <1>1. /\ BacktrackPositions \in Seq(Nat)
        /\ \A i \in DOMAIN BacktrackPositions :
             /\ BacktrackPositions[i] <= CachedLexPos
             /\ \A j \in 1..i : BacktrackPositions[j] <= BacktrackPositions[i]
    BY DEF CInv, TypeOK
  <1>2. /\ Len(BacktrackPositions) \in DOMAIN BacktrackPositions
        /\ Last(BacktrackPositions) \in Nat
    BY <1>1, FrontLast
  <1>3. Last(BacktrackPositions) = BacktrackPositions[Len(BacktrackPositions)]
    BY DEF Last
  <1>4. \A i \in DOMAIN BacktrackPositions : i \in 1..Len(BacktrackPositions)
    BY LengthFacts
  <1>5. 1 \in DOMAIN BacktrackPositions
    BY <1>2, LengthFacts
  <1> QED
    BY <1>1, <1>2, <1>3, <1>4, <1>5 DEF Low, isBacktrackEnabled

LEMMA PoppedPositions ==
  ASSUME CInv, BacktrackPositions # <<>>
  PROVE  /\ Front(BacktrackPositions) \in Seq(Nat)
         /\ \A i \in DOMAIN Front(BacktrackPositions) :
              /\ i \in DOMAIN BacktrackPositions
              /\ Front(BacktrackPositions)[i] = BacktrackPositions[i]
              /\ \A j \in 1..i : Front(BacktrackPositions)[j] <=
                                   Front(BacktrackPositions)[i]
         /\ (Front(BacktrackPositions) # <<>>) =>
              (Front(BacktrackPositions)[1] = BacktrackPositions[1])
         /\ (Front(BacktrackPositions) = <<>>) =>
              (Last(BacktrackPositions) = BacktrackPositions[1])
  <1> DEFINE b == BacktrackPositions
             f == Front(BacktrackPositions)
             m == Len(BacktrackPositions)
  <1>1. /\ f \in Seq(Nat) /\ Len(f) = m - 1
        /\ \A i \in 1..m - 1 : f[i] = b[i]
        /\ m \in Nat /\ DOMAIN b = 1..m /\ m # 0
        /\ \A i \in DOMAIN b : \A j \in 1..i : b[j] <= b[i]
        /\ Last(b) = b[m]
    BY FrontLast, LengthFacts, InnermostPosition DEF CInv, TypeOK
  <1>2. DOMAIN f = 1..m - 1 /\ ((f = <<>>) <=> (Len(f) = 0))
    BY <1>1, EmptySeq, LenProperties
  <1> HIDE DEF f, m
  <1>3. \A i \in DOMAIN f : i \in DOMAIN b /\ f[i] = b[i]
    BY <1>1, <1>2
  <1>4. \A i \in DOMAIN f : \A j \in 1..i : f[j] <= f[i]
    BY <1>1, <1>2
  <1>5. f # <<>> => f[1] = b[1]
    BY <1>1, <1>2
  <1>6. f = <<>> => m = 1
    BY <1>1, <1>2
  <1> QED
    BY <1>1, <1>3, <1>4, <1>5, <1>6 DEF f

LEMMA EnableBacktrackInv ==
  ASSUME CInv, EnableBacktrackAtThisPos
  PROVE  CInv'
  <1> DEFINE b == BacktrackPositions
             m == Len(BacktrackPositions)
             d == Append(BacktrackPositions, CachedLexPos)
  <1>1. /\ peek = 0 /\ client = "reading"
        /\ b' = d /\ lexer' = EnterCachingLexMode(lexer)
        /\ UNCHANGED <<source, CachedTokens, CachedLexPos, peek, answer, client, eofDropped>>
    BY DEF EnableBacktrackAtThisPos, Reading, Idle
  <1>2. /\ (lexer' = "gone") <=> (lexer = "gone")
        /\ lexer' \in {"stacked", "gone"}
    BY <1>1 DEF CInv, TypeOK, EnterCachingLexMode, InCachingLexMode
  <1>3. /\ m \in Nat /\ DOMAIN b = 1..m /\ CachedLexPos \in Nat
        /\ (b = <<>>) <=> (m = 0)
        /\ \A i \in 1..m : b[i] <= CachedLexPos
        /\ \A i \in 1..m : \A j \in 1..i : b[j] <= b[i]
    BY LengthFacts DEF CInv, TypeOK
  <1>4. /\ d \in Seq(Nat) /\ Len(d) = m + 1 /\ DOMAIN d = 1..m + 1
        /\ d[m + 1] = CachedLexPos
        /\ \A i \in 1..m : d[i] = b[i]
    BY <1>3, AppendFacts, LenProperties DEF CInv, TypeOK
  <1>5. d # <<>>
    BY <1>3, <1>4, EmptySeq
  <1> HIDE DEF d, m
  <1>6. \A i \in 1..m + 1 : d[i] <= CachedLexPos
    BY <1>3, <1>4
  <1>7. \A i \in 1..m + 1 : \A j \in 1..i : d[j] <= d[i]
    <2> SUFFICES ASSUME NEW i \in 1..m + 1, NEW j \in 1..i
                 PROVE  d[j] <= d[i]
      OBVIOUS
    <2>1. CASE i = m + 1
      BY <1>3, <1>4, <1>6, <2>1
    <2>2. CASE i # m + 1
      <3>1. i \in 1..m /\ j \in 1..m
        BY <1>3, <2>2
      <3> QED BY <1>3, <1>4, <3>1
    <2> QED BY <2>1, <2>2
  <1>8. TypeOK'
    BY <1>1, <1>2, <1>4, <1>6, <1>7 DEF CInv, TypeOK
  <1>9. ModesConsistent'
    BY <1>1, <1>2 DEF CInv, ModesConsistent
  <1>10. EofCached'
    <2>1. Low' = Low
      <3>1. CASE m = 0
        <4>1. d[1] = CachedLexPos /\ b = <<>>
          BY <1>3, <1>4, <3>1
        <4> QED BY <1>1, <1>5, <4>1 DEF Low, isBacktrackEnabled
      <3>2. CASE m # 0
        <4>1. d[1] = b[1] /\ b # <<>>
          BY <1>3, <1>4, <3>2
        <4> QED BY <1>1, <1>5, <4>1 DEF Low, isBacktrackEnabled
      <3> QED BY <3>1, <3>2
    <2>2. EofKept => CachedLexPos < Len(CachedTokens)
      BY <1>1 DEF CInv, EofCached, EofKept
    <2>3. EofKept => \A i \in 1..m + 1 : d[i] < Len(CachedTokens)
      <3>1. ASSUME EofKept, NEW i \in 1..m + 1
            PROVE  d[i] < Len(CachedTokens)
        <4>1. /\ d[i] \in Nat /\ d[i] <= CachedLexPos
              /\ CachedLexPos < Len(CachedTokens)
              /\ CachedLexPos \in Nat /\ Len(CachedTokens) \in Nat
          BY <1>4, <1>6, <2>2, <3>1, LengthFacts, ElementOfSeq
        <4> DEFINE u == d[i]
                   n == Len(CachedTokens)
        <4>2. u \in Nat /\ n \in Nat /\ u <= CachedLexPos /\ CachedLexPos < n
          BY <4>1
        <4> HIDE DEF u, n
        <4>3. u < n
          BY <4>1, <4>2
        <4> QED BY <4>3 DEF u, n
      <3> QED BY <3>1
    <2> QED
      BY <1>1, <1>2, <1>4, <2>1, <2>2, <2>3 DEF CInv, EofCached, EofKept
  <1> QED
    BY <1>8, <1>9, <1>10 DEF CInv

LEMMA CommitBacktrackInv ==
  ASSUME CInv, CommitBacktrackedTokens
  PROVE  CInv'
  <1> DEFINE b == BacktrackPositions
             f == Front(BacktrackPositions)
  <1>1. /\ peek = 0 /\ b # <<>> /\ b' = f
        /\ UNCHANGED <<source, lexer, CachedTokens, CachedLexPos, peek, answer,
                       client, eofDropped>>
    BY DEF CommitBacktrackedTokens, Idle, isBacktrackEnabled
  <1>2. /\ f \in Seq(Nat)
        /\ \A i \in DOMAIN f : /\ i \in DOMAIN b /\ f[i] = b[i]
                               /\ \A j \in 1..i : f[j] <= f[i]
        /\ f # <<>> => f[1] = b[1]
    BY <1>1, PoppedPositions
  <1>3. lexer # "current"
    BY <1>1 DEF CInv, ModesConsistent
  <1>4. Low \in Nat /\ Low <= CachedLexPos /\ Low = b[1]
        /\ CachedLexPos \in Nat
    BY <1>1, LengthFacts, InnermostPosition
  <1> HIDE DEF f
  <1>5. TypeOK'
    BY <1>1, <1>2 DEF CInv, TypeOK
  <1>6. ModesConsistent'
    BY <1>1, <1>3 DEF CInv, ModesConsistent
  <1>7. EofCached'
    <2>1. Low' \in Nat /\ Low <= Low'
      BY <1>1, <1>2, <1>4 DEF Low, isBacktrackEnabled
    <2>2. \A i \in DOMAIN CachedTokens : i > Low' => i > Low
      BY <1>4, <2>1, LengthFacts
    <2> QED
      BY <1>1, <1>2, <2>2 DEF CInv, EofCached, EofKept
  <1> QED
    BY <1>5, <1>6, <1>7 DEF CInv

LEMMA BacktrackInv ==
  ASSUME CInv, Backtrack
  PROVE  CInv'
  <1> DEFINE b == BacktrackPositions
             f == Front(BacktrackPositions)
             l == Last(BacktrackPositions)
  <1>1. /\ peek = 0 /\ b # <<>> /\ b' = f /\ CachedLexPos' = l
        /\ client' = "reading"
        /\ UNCHANGED <<source, lexer, CachedTokens, peek, answer, eofDropped>>
    BY DEF Backtrack, Idle, isBacktrackEnabled
  <1>2. /\ f \in Seq(Nat)
        /\ \A i \in DOMAIN f : /\ i \in DOMAIN b /\ f[i] = b[i]
                               /\ \A j \in 1..i : f[j] <= f[i]
        /\ f # <<>> => f[1] = b[1]
        /\ f = <<>> => l = b[1]
    BY <1>1, PoppedPositions
  <1>3. lexer # "current"
    BY <1>1 DEF CInv, ModesConsistent
  <1>4. /\ l \in Nat /\ l <= CachedLexPos
        /\ \A i \in DOMAIN b : b[i] <= l
        /\ Low = b[1]
        /\ Len(b) \in DOMAIN b /\ l = b[Len(b)]
    BY <1>1, InnermostPosition
  <1> HIDE DEF f, l
  <1>5. TypeOK'
    <2>1. l \in 0..Len(CachedTokens)
      BY <1>4, LengthFacts
    <2> QED
      BY <1>1, <1>2, <1>4, <2>1 DEF CInv, TypeOK
  <1>6. ModesConsistent'
    BY <1>1, <1>3 DEF CInv, ModesConsistent
  <1>7. EofCached'
    <2>1. Low' = Low
      BY <1>1, <1>2, <1>4 DEF Low, isBacktrackEnabled
    <2>2. EofKept => l < Len(CachedTokens)
      BY <1>4 DEF CInv, EofCached, EofKept
    <2> QED
      BY <1>1, <1>2, <2>1, <2>2 DEF CInv, EofCached, EofKept
  <1> QED
    BY <1>5, <1>6, <1>7 DEF CInv

LEMMA RevertCachedTokensInv ==
  ASSUME CInv, NEW N \in Nat \ {0}, RevertCachedTokens(N)
  PROVE  CInv'
  <1> DEFINE b == BacktrackPositions
             l == Last(BacktrackPositions)
             p == CachedLexPos - N
             n == Len(CachedTokens)
  <1>1. /\ peek = 0 /\ b # <<>> /\ p >= l /\ CachedLexPos' = p
        /\ client' = "reading"
        /\ UNCHANGED <<source, lexer, CachedTokens, BacktrackPositions, peek,
                       answer, eofDropped>>
    BY DEF RevertCachedTokens, Idle, isBacktrackEnabled
  <1>2. lexer # "current"
    BY <1>1 DEF CInv, ModesConsistent
  <1>3. /\ l \in Nat /\ \A i \in DOMAIN b : b[i] \in Nat /\ b[i] <= l
        /\ n \in Nat /\ CachedLexPos \in Nat /\ CachedLexPos <= n
    BY <1>1, InnermostPosition, LengthFacts
  <1> HIDE DEF l, n
  <1>4. p \in 0..n /\ p < n
    BY <1>1, <1>3
  <1>5. \A i \in DOMAIN b : b[i] <= p
    BY <1>1, <1>3, <1>4
  <1> HIDE DEF p
  <1>6. TypeOK'
    BY <1>1, <1>4, <1>5 DEF CInv, TypeOK, n
  <1>7. ModesConsistent'
    BY <1>1, <1>2 DEF CInv, ModesConsistent
  <1>8. EofCached'
    <2>1. Low' = Low
      BY <1>1 DEF Low, isBacktrackEnabled
    <2> QED
      BY <1>1, <1>4, <2>1 DEF CInv, EofCached, EofKept, n
  <1> QED
    BY <1>6, <1>7, <1>8 DEF CInv

-----------------------------------------------------------------------------
(* Tokens from the client                                                  *)

LEMMA EnterTokenInv ==
  ASSUME CInv, NEW Tok \in Tokens \cup {Eof}, EnterToken(Tok)
  PROVE  CInv'
  <1> DEFINE p == CachedLexPos
             n == Len(CachedTokens)
             c == InsertAt(CachedTokens, p + 1, Tok)
             gone == EofKept
             kept == EofKept'
  <1>1. /\ peek = 0 /\ lexer' = EnterCachingLexMode(lexer)
        /\ CachedTokens' = c /\ client' = "reading"
        /\ eofDropped' = (eofDropped /\ Tok # Eof)
        /\ UNCHANGED <<source, CachedLexPos, BacktrackPositions, peek, answer>>
        /\ IF client = "atEof" THEN Tok = Eof /\ BacktrackPositions = <<>>
                               ELSE Tok \in Tokens
    BY DEF EnterToken, Idle, isBacktrackEnabled
  <1>2. /\ (lexer' = "gone") <=> (lexer = "gone")
        /\ lexer' \in {"stacked", "gone"}
    BY <1>1 DEF CInv, TypeOK, EnterCachingLexMode, InCachingLexMode
  <1>3. /\ n \in Nat /\ p \in Nat /\ p <= n /\ Low \in Nat /\ Low <= p
    BY LengthFacts
  <1>4. /\ c \in Seq(AnyToken) /\ Len(c) = n + 1 /\ DOMAIN c = 1..n + 1
        /\ \A i \in 1..p : c[i] = CachedTokens[i]
        /\ c[p + 1] = Tok
        /\ \A i \in p + 2..n + 1 : c[i] = CachedTokens[i - 1]
    <2>1. Tok \in AnyToken /\ CachedTokens \in Seq(AnyToken)
      BY DEF CInv, TypeOK, AnyToken
    <2>2. /\ c \in Seq(AnyToken) /\ Len(c) = n + 1
          /\ \A i \in 1..p : c[i] = CachedTokens[i]
          /\ c[p + 1] = Tok
          /\ \A i \in p + 2..n + 1 : c[i] = CachedTokens[i - 1]
      <3>1. IsInsertion(c, AnyToken, CachedTokens, p, Tok)
        BY <1>3, <2>1, InsertAtFacts
      <3> HIDE DEF c
      <3> QED BY <3>1 DEF IsInsertion
    <2> HIDE DEF c
    <2>3. DOMAIN c = 1..n + 1
      BY <2>2, LenProperties
    <2> QED BY <2>2, <2>3
  <1>5. \A i \in 1..n : i > Low =>
          ((CachedTokens[i] = Eof) <=> (i = n /\ gone))
    BY LengthFacts DEF CInv, EofCached, EofKept
  <1>6. /\ client = "reading" => (Tok # Eof /\ (gone => p < n) /\ (kept <=> gone))
        /\ client # "reading" => (Tok = Eof /\ kept /\ p = n /\ Low = p)
    BY <1>1, <1>2, TokensAssumption
       DEF CInv, TypeOK, ModesConsistent, EofCached, EofKept, Low, isBacktrackEnabled
  <1> HIDE DEF n, c, gone, kept
  <1>7. TypeOK'
    <2>1. p \in 0..Len(c)
      BY <1>3, <1>4
    <2> QED
      BY <1>1, <1>2, <1>4, <2>1 DEF CInv, TypeOK
  <1>8. ModesConsistent'
    BY <1>1, <1>2 DEF CInv, ModesConsistent
  <1>9. EofCached'
    <2>1. Low' = Low
      BY <1>1 DEF Low, isBacktrackEnabled
    <2>2. ASSUME NEW i \in 1..n + 1, i > Low
          PROVE  (c[i] = Eof) <=> (i = n + 1 /\ kept)
      <3>1. CASE i <= p
        <4>1. i \in 1..p /\ i \in 1..n /\ i # n + 1 /\ Low # p
              /\ (p < n => i # n)
          BY <1>3, <2>2, <3>1
        <4> QED BY <1>4, <1>5, <1>6, <2>2, <4>1
      <3>2. CASE i = p + 1
        <4>1. (i = n + 1) <=> (p = n)
          BY <1>3, <3>2
        <4>2. p < n => p # n
          BY <1>3
        <4> QED BY <1>4, <1>6, <3>2, <4>1, <4>2
      <3>3. CASE i > p + 1
        <4>1. /\ i \in p + 2..n + 1 /\ i - 1 \in 1..n /\ i - 1 > Low
              /\ (i - 1 = n) <=> (i = n + 1)
              /\ p # n
          BY <1>3, <2>2, <3>3
        <4> QED BY <1>4, <1>5, <1>6, <4>1
      <3> QED BY <1>3, <3>1, <3>2, <3>3
    <2>3. p < n + 1
      BY <1>3
    <2>4. \A i \in DOMAIN BacktrackPositions : BacktrackPositions[i] < n + 1
      BY <1>3, LengthFacts DEF CInv, TypeOK
    <2>5. eofDropped' => lexer' = "gone"
      BY <1>1, <1>2 DEF CInv, EofCached
    <2> QED
      BY <1>1, <1>2, <1>4, <2>1, <2>2, <2>3, <2>4, <2>5 DEF EofCached, kept
  <1> QED
    BY <1>7, <1>8, <1>9 DEF CInv

LEMMA EnterTokenStreamInv ==
  ASSUME CInv, NEW Toks \in Sources, EnterTokenStream(Toks)
  PROVE  CInv'
  <1> DEFINE m == Len(source)
             k == Len(Toks)
             r == Toks \o source
  <1>1. /\ peek = 0 /\ lexer = "current" /\ client = "reading"
        /\ source' = r
        /\ UNCHANGED <<lexer, CachedTokens, CachedLexPos, BacktrackPositions,
                       peek, answer, client, eofDropped>>
    BY DEF EnterTokenStream, Reading, Idle, InCachingLexMode
  <1>2. /\ Toks \in Seq(AnyToken) /\ source \in Seq(AnyToken)
        /\ k \in Nat /\ \A i \in 1..k : Toks[i] # Eof
    <2>1. Toks \in Seq(Tokens)
      BY SourcesAssumption
    <2>2. k \in Nat /\ \A i \in 1..k : Toks[i] \in Tokens
      BY <2>1, LenProperties, ElementOfSeq
    <2>3. Toks \in Seq(AnyToken)
      BY <2>1 DEF AnyToken
    <2> QED BY <2>2, <2>3, TokensAssumption DEF CInv, TypeOK
  <1>3. /\ m \in Nat \ {0}
        /\ \A i \in 1..m : (source[i] = Eof) <=> (i = m)
    BY <1>1, LengthFacts DEF CInv, ModesConsistent
  <1>4. /\ r \in Seq(AnyToken) /\ Len(r) = k + m
        /\ \A i \in 1..k + m :
             r[i] = IF i <= k THEN Toks[i] ELSE source[i - k]
    BY <1>2, ConcatProperties
  <1>5. DOMAIN r = 1..k + m /\ ((r = <<>>) <=> (Len(r) = 0))
    BY <1>4, EmptySeq, LenProperties
  <1> HIDE DEF m, k, r
  <1>6. r # <<>>
    BY <1>2, <1>3, <1>4, <1>5
  <1>7. ASSUME NEW i \in 1..k + m
        PROVE  (r[i] = Eof) <=> (i = k + m)
    <2>1. CASE i <= k
      <3>1. i \in 1..k /\ i # k + m
        BY <1>2, <1>3, <2>1
      <3> QED BY <1>2, <1>4, <2>1, <3>1
    <2>2. CASE ~(i <= k)
      <3>1. i - k \in 1..m /\ ((i - k = m) <=> (i = k + m))
        BY <1>2, <1>3, <2>2
      <3> QED BY <1>3, <1>4, <2>2, <3>1
    <2> QED BY <2>1, <2>2
  <1>8. TypeOK'
    BY <1>1, <1>4 DEF CInv, TypeOK
  <1>9. ModesConsistent'
    <2>1. (lexer' = "gone") <=> (source' = <<>>)
      BY <1>1, <1>6
    <2>2. \A i \in DOMAIN source' : (source'[i] = Eof) <=> (i = Len(source'))
      BY <1>1, <1>4, <1>5, <1>7
    <2>3. peek' = 0 /\ peek' <= Len(source')
      BY <1>1, <1>2, <1>3, <1>4
    <2>4. CachedTokens' = <<>> /\ BacktrackPositions' = <<>>
      BY <1>1 DEF CInv, ModesConsistent
    <2> QED
      BY <1>1, <2>1, <2>2, <2>3, <2>4 DEF ModesConsistent
  <1>10. EofCached'
    BY <1>1 DEF CInv, EofCached, EofKept, Low, isBacktrackEnabled
  <1> QED
    BY <1>8, <1>9, <1>10 DEF CInv

(* The cache after the tokens from the a-th to the last one lexed became   *)
(* one annotation token.                                                   *)
LEMMA AnnotatedFacts ==
  ASSUME CInv, NEW a \in Nat \ {0}, a <= CachedLexPos
  PROVE  LET c == Splice(CachedTokens, a - 1, CachedLexPos, Annot)
             n == Len(CachedTokens)
             p == CachedLexPos
         IN  /\ c \in Seq(AnyToken) /\ Len(c) = n - p + a
             /\ DOMAIN c = 1..n - p + a
             /\ \A i \in 1..a - 1 : c[i] = CachedTokens[i]
             /\ c[a] = Annot
             /\ \A i \in a + 1..n - p + a : c[i] = CachedTokens[i + p - a]
  <1> DEFINE p == CachedLexPos
             n == Len(CachedTokens)
             c == Splice(CachedTokens, a - 1, p, Annot)
  <1>1. n \in Nat /\ p \in Nat /\ p <= n
    BY LengthFacts
  <1>2. Annot \in AnyToken /\ CachedTokens \in Seq(AnyToken)
    BY DEF CInv, TypeOK, AnyToken
  <1>3. a - 1 \in Nat /\ a - 1 <= p
    BY <1>1
  <1>4. /\ c \in Seq(AnyToken) /\ Len(c) = n - (p - (a - 1)) + 1
        /\ \A i \in 1..a - 1 : c[i] = CachedTokens[i]
        /\ c[(a - 1) + 1] = Annot
        /\ \A i \in (a - 1) + 2..n - (p - (a - 1)) + 1 :
             c[i] = CachedTokens[i + (p - (a - 1)) - 1]
    <2>1. IsSplice(c, AnyToken, CachedTokens, a - 1, p, Annot)
      BY <1>1, <1>2, <1>3, SpliceFacts
    <2> HIDE DEF c
    <2> QED BY <2>1 DEF IsSplice
  <1> HIDE DEF n, p, c
  <1>5. /\ Len(c) = n - p + a /\ c[a] = Annot
    BY <1>1, <1>4
  <1>6. \A i \in a + 1..n - p + a : c[i] = CachedTokens[i + p - a]
    <2> TAKE i \in a + 1..n - p + a
    <2>1. /\ i \in (a - 1) + 2..n - (p - (a - 1)) + 1
          /\ i + (p - (a - 1)) - 1 = i + p - a
      BY <1>1
    <2> QED BY <1>4, <2>1
  <1>7. DOMAIN c = 1..n - p + a
    BY <1>4, <1>5, LenProperties
  <1> QED
    BY <1>4, <1>5, <1>6, <1>7 DEF c, n, p

LEMMA AnnotateCachedTokensInv ==
  ASSUME CInv, NEW a \in Nat \ {0}, AnnotateCachedTokens(a)
  PROVE  CInv'
  <1> DEFINE b == BacktrackPositions
             l == Last(BacktrackPositions)
             p == CachedLexPos
             n == Len(CachedTokens)
             c == Splice(CachedTokens, a - 1, p, Annot)
             gone == EofKept
  <1>1. /\ peek = 0 /\ client = "reading" /\ b # <<>>
        /\ l < a /\ a <= p
        /\ CachedTokens' = c /\ CachedLexPos' = a
        /\ UNCHANGED <<source, lexer, BacktrackPositions, peek, answer, client, eofDropped>>
    BY DEF AnnotateCachedTokens, Reading, Idle, isBacktrackEnabled, Splice
  <1>2. lexer # "current"
    BY <1>1 DEF CInv, ModesConsistent
  <1>3. /\ n \in Nat /\ p \in Nat /\ p <= n /\ Low \in Nat
        /\ l \in Nat /\ Low = b[1] /\ Low <= l
        /\ \A i \in DOMAIN b : b[i] \in Nat /\ b[i] <= l
    BY <1>1, LengthFacts, InnermostPosition
  <1>4. /\ c \in Seq(AnyToken) /\ Len(c) = n - p + a /\ DOMAIN c = 1..n - p + a
        /\ \A i \in 1..a - 1 : c[i] = CachedTokens[i]
        /\ c[a] = Annot
        /\ \A i \in a + 1..n - p + a : c[i] = CachedTokens[i + p - a]
    BY <1>1, AnnotatedFacts
  <1>5. \A i \in 1..n : i > Low =>
          ((CachedTokens[i] = Eof) <=> (i = n /\ gone))
    BY LengthFacts DEF CInv, EofCached, EofKept
  <1>6. gone => p < n
    BY <1>1 DEF CInv, EofCached, EofKept
  <1> HIDE DEF l, p, n, c, gone
  <1>7. \A i \in DOMAIN b : b[i] < a /\ b[i] <= a
    BY <1>1, <1>3
  <1>8. TypeOK'
    <2>1. a \in 0..Len(c)
      BY <1>3, <1>4
    <2> QED
      BY <1>1, <1>4, <1>7, <2>1 DEF CInv, TypeOK
  <1>9. ModesConsistent'
    BY <1>1, <1>2 DEF CInv, ModesConsistent
  <1>10. EofCached'
    <2>1. Low' = Low
      BY <1>1 DEF Low, isBacktrackEnabled
    <2>2. ASSUME NEW i \in 1..n - p + a, i > Low
          PROVE  (c[i] = Eof) <=> (i = n - p + a /\ gone)
      <3>1. CASE i < a
        <4>1. i \in 1..a - 1 /\ i \in 1..n /\ i # n - p + a /\ i # n
          BY <1>1, <1>3, <3>1
        <4> QED BY <1>4, <1>5, <2>2, <4>1
      <3>2. CASE i = a
        <4>1. p < n => i # n - p + a
          BY <1>3, <3>2
        <4> QED BY <1>4, <1>6, <3>2, <4>1, TokensAssumption
      <3>3. CASE i > a
        <4>1. /\ i \in a + 1..n - p + a /\ i + p - a \in 1..n
              /\ i + p - a > Low
              /\ (i + p - a = n) <=> (i = n - p + a)
          BY <1>1, <1>3, <2>2, <3>3
        <4> QED BY <1>4, <1>5, <4>1
      <3> QED BY <1>3, <3>1, <3>2, <3>3
    <2>3. p < n => a < n - p + a
      BY <1>3
    <2>4. \A i \in DOMAIN b : p < n => b[i] < n - p + a
      BY <1>3, <1>7
    <2>5. eofDropped' => lexer' = "gone"
      BY <1>1 DEF CInv, EofCached
    <2> QED
      BY <1>1, <1>4, <1>6, <2>1, <2>2, <2>3, <2>4, <2>5
         DEF EofCached, EofKept, gone
  <1> QED
    BY <1>8, <1>9, <1>10 DEF CInv

LEMMA ReplaceLastTokenInv ==
  ASSUME CInv, ReplaceLastTokenWithAnnotation
  PROVE  CInv'
  <1> DEFINE p == CachedLexPos
             n == Len(CachedTokens)
             c == [CachedTokens EXCEPT ![p] = Annot]
             gone == EofKept
  <1>1. /\ peek = 0 /\ client = "reading" /\ BacktrackPositions # <<>>
        /\ p # 0 /\ CachedTokens' = c
        /\ UNCHANGED <<source, lexer, CachedLexPos, BacktrackPositions, peek,
                       answer, client, eofDropped>>
    BY DEF ReplaceLastTokenWithAnnotation, Reading, Idle, isBacktrackEnabled,
           ReplaceAt
  <1>2. lexer # "current"
    BY <1>1 DEF CInv, ModesConsistent
  <1>3. n \in Nat /\ p \in 1..n
    BY <1>1, LengthFacts
  <1>4. /\ c \in Seq(AnyToken) /\ Len(c) = n /\ DOMAIN c = 1..n
        /\ \A i \in 1..n : c[i] = IF i = p THEN Annot ELSE CachedTokens[i]
    <2>1. Annot \in AnyToken /\ CachedTokens \in Seq(AnyToken)
      BY DEF CInv, TypeOK, AnyToken
    <2>2. c \in Seq(AnyToken) /\ Len(c) = n
      BY <1>3, <2>1, ExceptSeq
    <2>3. DOMAIN CachedTokens = 1..n
      BY LengthFacts
    <2> QED BY <1>3, <2>2, <2>3
  <1>5. \A i \in 1..n : i > Low =>
          ((CachedTokens[i] = Eof) <=> (i = n /\ gone))
    BY LengthFacts DEF CInv, EofCached, EofKept
  <1>6. gone => p < n
    BY <1>1 DEF CInv, EofCached, EofKept
  <1> HIDE DEF n, c, gone
  <1>7. TypeOK'
    <2>1. p \in 0..Len(c)
      BY <1>3, <1>4
    <2> QED BY <1>1, <1>4, <2>1 DEF CInv, TypeOK
  <1>8. ModesConsistent'
    BY <1>1, <1>2 DEF CInv, ModesConsistent
  <1>9. EofCached'
    <2>1. Low' = Low
      BY <1>1 DEF Low, isBacktrackEnabled
    <2>2. p < n => p # n
      BY <1>3
    <2>3. \A i \in 1..n : i > Low => ((c[i] = Eof) <=> (i = n /\ gone))
      BY <1>4, <1>5, <1>6, <2>2, TokensAssumption
    <2> QED
      BY <1>1, <1>4, <1>6, <2>1, <2>3 DEF CInv, EofCached, EofKept, gone, n
  <1> QED
    BY <1>7, <1>8, <1>9 DEF CInv

-----------------------------------------------------------------------------
LEMMA InitInv ==
  ASSUME Init
  PROVE  CInv
  <1>1. PICK s \in Sources : source = Append(s, Eof)
    BY DEF Init
  <1>2. /\ lexer = "current" /\ CachedTokens = <<>> /\ CachedLexPos = 0
        /\ BacktrackPositions = <<>> /\ peek = 0 /\ answer = NoToken
        /\ client = "reading" /\ eofDropped = FALSE
    BY DEF Init
  <1> DEFINE k == Len(s)
             r == Append(s, Eof)
  <1>3. /\ s \in Seq(AnyToken) /\ k \in Nat
        /\ \A i \in 1..k : s[i] # Eof
    <2>1. s \in Seq(Tokens)
      BY SourcesAssumption
    <2>2. k \in Nat /\ \A i \in 1..k : s[i] \in Tokens
      BY <2>1, LenProperties, ElementOfSeq
    <2>3. s \in Seq(AnyToken)
      BY <2>1 DEF AnyToken
    <2> QED BY <2>2, <2>3, TokensAssumption
  <1>4. /\ r \in Seq(AnyToken) /\ Len(r) = k + 1 /\ r[k + 1] = Eof
        /\ \A i \in 1..k : r[i] = s[i]
    BY <1>3, AppendFacts DEF AnyToken
  <1>5. DOMAIN r = 1..k + 1 /\ ((r = <<>>) <=> (Len(r) = 0))
    BY <1>4, EmptySeq, LenProperties
  <1> HIDE DEF k, r
  <1>6. r # <<>> /\ \A i \in 1..k + 1 : (r[i] = Eof) <=> (i = k + 1)
    BY <1>3, <1>4, <1>5
  <1>7. source = r
    BY <1>1 DEF r
  <1>8. TypeOK
    <2>1. /\ <<>> \in Seq(AnyToken) /\ <<>> \in Seq(Nat) /\ 0 \in 0..Len(<<>>)
          /\ DOMAIN <<>> = {} /\ NoToken \in AnyToken
      BY DEF AnyToken
    <2> QED BY <1>2, <1>4, <1>7, <2>1 DEF TypeOK
  <1>9. ModesConsistent
    <2>1. (lexer = "gone") <=> (source = <<>>)
      BY <1>2, <1>6, <1>7
    <2>2. \A i \in DOMAIN source : (source[i] = Eof) <=> (i = Len(source))
      BY <1>4, <1>5, <1>6, <1>7
    <2>3. peek <= Len(source)
      BY <1>2, <1>3, <1>4, <1>7
    <2> QED
      BY <1>2, <2>1, <2>2, <2>3 DEF ModesConsistent
  <1>10. EofCached
    <2>1. DOMAIN CachedTokens = {} /\ lexer # "gone"
      BY <1>2
    <2> QED BY <1>2, <2>1 DEF EofCached, EofKept
  <1> QED
    BY <1>8, <1>9, <1>10 DEF CInv

LEMMA StutterInv ==
  ASSUME CInv, UNCHANGED vars
  PROVE  CInv'
  <1>1. /\ source' = source /\ lexer' = lexer /\ CachedTokens' = CachedTokens
        /\ CachedLexPos' = CachedLexPos
        /\ BacktrackPositions' = BacktrackPositions
        /\ peek' = peek /\ answer' = answer /\ client' = client
        /\ eofDropped' = eofDropped
    BY DEF vars
  <1>2. TypeOK'
    BY <1>1 DEF CInv, TypeOK
  <1>3. ModesConsistent'
    BY <1>1 DEF CInv, ModesConsistent
  <1>4. EofCached'
    BY <1>1 DEF CInv, EofCached, EofKept, Low, isBacktrackEnabled
  <1> QED
    BY <1>2, <1>3, <1>4 DEF CInv

LEMMA NextInv ==
  ASSUME CInv, [Next]_vars
  PROVE  CInv'
  <1>1. CASE LexCurrent
    BY <1>1, LexCurrentInv
  <1>2. CASE LexCached
    BY <1>2, LexCachedInv
  <1>3. CASE LexAndClear
    BY <1>3, LexAndClearInv
  <1>4. CASE LexAndCache
    BY <1>4, LexAndCacheInv, DropEofInv
  <1>5. ASSUME NEW N \in 0..MaxLookAhead, LookAhead(N)
        PROVE  CInv'
    <2>1. N \in Nat /\ N + 1 \in Nat
      BY BoundsAssumption
    <2>2. CASE LookAheadCached(N)
      BY <2>1, <2>2, LookAheadCachedInv
    <2>3. CASE PeekAhead(N + 1)
      BY <2>1, <2>3, PeekAheadInv
    <2> QED
      BY <1>5, <2>2, <2>3 DEF LookAhead
  <1>6. CASE PeekStep
    BY <1>6, PeekStepInv
  <1>7. CASE EnableBacktrackAtThisPos
    BY <1>7, EnableBacktrackInv
  <1>8. CASE CommitBacktrackedTokens
    BY <1>8, CommitBacktrackInv
  <1>9. CASE Backtrack
    BY <1>9, BacktrackInv
  <1>10. ASSUME NEW N \in 1..CachedLexPos, RevertCachedTokens(N)
         PROVE  CInv'
    <2>1. N \in Nat \ {0}
      BY LengthFacts
    <2> QED BY <1>10, <2>1, RevertCachedTokensInv
  <1>11. ASSUME NEW Tok \in Tokens \cup {Eof}, EnterToken(Tok)
         PROVE  CInv'
    BY <1>11, EnterTokenInv
  <1>12. ASSUME NEW Toks \in Sources, EnterTokenStream(Toks)
         PROVE  CInv'
    BY <1>12, EnterTokenStreamInv
  <1>13. ASSUME NEW i \in 1..CachedLexPos, AnnotateCachedTokens(i)
         PROVE  CInv'
    <2>1. i \in Nat \ {0}
      BY LengthFacts
    <2> QED BY <1>13, <2>1, AnnotateCachedTokensInv
  <1>14. CASE ReplaceLastTokenWithAnnotation
    BY <1>14, ReplaceLastTokenInv
  <1>15. CASE Terminated
    BY <1>15, StutterInv DEF Terminated
  <1>16. CASE UNCHANGED vars
    BY <1>16, StutterInv
  <1> QED
    BY <1>1, <1>2, <1>3, <1>4, <1>5, <1>6, <1>7, <1>8, <1>9, <1>10, <1>11,
       <1>12, <1>13, <1>14, <1>15, <1>16 DEF Next

(* The read position stays inside the cache and the nested backtrack       *)
(* positions stay in order behind it, through every interleaving of        *)
(* lookahead, push-back, revert and annotation: TypeOK, for every          *)
(* translation unit.                                                       *)
THEOREM CacheTypeCorrect == Spec => []TypeOK
  <1>1. Init => CInv
    BY InitInv
  <1>2. CInv /\ [Next]_vars => CInv'
    BY NextInv
  <1>3. CInv => TypeOK
    BY DEF CInv
  <1> QED
    BY <1>1, <1>2, <1>3, PTL DEF Spec

-----------------------------------------------------------------------------
(* The cache refines the ideal token stream.  The variables of the stream  *)
(* that are not those of the cache:                                        *)
Past == IF isBacktrackEnabled
          THEN SubSeq(CachedTokens, BacktrackPositions[1] + 1, CachedLexPos)
          ELSE <<>>

Marks == [i \in DOMAIN BacktrackPositions |->
            BacktrackPositions[i] - BacktrackPositions[1]]

(* The positions they are cut from.                                        *)
PositionsFit ==
  /\ CachedTokens \in Seq(AnyToken) /\ source \in Seq(AnyToken)
  /\ Len(CachedTokens) \in Nat /\ Len(source) \in Nat
  /\ CachedLexPos \in Nat /\ CachedLexPos <= Len(CachedTokens)
  /\ Low \in Nat /\ Low <= CachedLexPos

LEMMA PositionsFitLemma ==
  CInv => PositionsFit
  BY LengthFacts DEF CInv, TypeOK, PositionsFit

(* The tokens of past are those behind the read position.                  *)
PastIsCached ==
  /\ Past = SubSeq(CachedTokens, Low + 1, CachedLexPos)
  /\ Past \in Seq(AnyToken)
  /\ Len(Past) = CachedLexPos - Low
  /\ \A i \in 1..CachedLexPos - Low : Past[i] = CachedTokens[Low + i]
  /\ BacktrackPositions = <<>> => Past = <<>>

LEMMA PastFacts ==
  ASSUME CInv
  PROVE  PastIsCached
  <1>1. /\ Low \in Nat /\ CachedLexPos \in Nat /\ Low <= CachedLexPos
        /\ CachedLexPos <= Len(CachedTokens)
        /\ CachedTokens \in Seq(AnyToken)
    BY LengthFacts DEF CInv, TypeOK
  <1>2. Past = SubSeq(CachedTokens, Low + 1, CachedLexPos)
    <2>1. CASE BacktrackPositions = <<>>
      <3>1. SubSeq(CachedTokens, CachedLexPos + 1, CachedLexPos) = <<>>
        <4> DEFINE q == CachedLexPos + 1
        <4>1. q \in Int /\ CachedLexPos \in Int /\ CachedLexPos < q
          BY <1>1
        <4> HIDE DEF q
        <4>2. SubSeq(CachedTokens, q, CachedLexPos) = <<>>
          BY <4>1, SubSeqEmpty
        <4> QED BY <4>2 DEF q
      <3> QED BY <2>1, <3>1 DEF Past, Low, isBacktrackEnabled
    <2>2. CASE BacktrackPositions # <<>>
      BY <2>2 DEF Past, Low, isBacktrackEnabled
    <2> QED BY <2>1, <2>2
  <1>3. BacktrackPositions = <<>> => Past = <<>>
    BY DEF Past, isBacktrackEnabled
  <1> QED
    BY <1>1, <1>2, <1>3, SliceFacts DEF PastIsCached

(* What is left to lex: the unread cached tokens, then the source.         *)
RestIsUnread ==
  /\ Rest \in Seq(AnyToken)
  /\ Len(Rest) = Len(CachedTokens) - CachedLexPos + Len(source)
  /\ \A i \in 1..Len(CachedTokens) - CachedLexPos :
       Rest[i] = CachedTokens[CachedLexPos + i]
  /\ \A i \in 1..Len(source) :
       Rest[(Len(CachedTokens) - CachedLexPos) + i] = source[i]
  /\ CachedLexPos = Len(CachedTokens) => Rest = source

LEMMA RestFacts ==
  ASSUME CInv
  PROVE  RestIsUnread
  <1> DEFINE n == Len(CachedTokens)
             m == Len(source)
             p == CachedLexPos
             q == SubSeq(CachedTokens, p + 1, n)
  <1>1. /\ n \in Nat /\ m \in Nat /\ p \in Nat /\ p <= n
        /\ source \in Seq(AnyToken) /\ CachedTokens \in Seq(AnyToken)
        /\ n <= Len(CachedTokens)
    BY LengthFacts DEF CInv, TypeOK
  <1> HIDE DEF n
  <1>2. /\ q \in Seq(AnyToken) /\ Len(q) = n - p
        /\ \A i \in 1..n - p : q[i] = CachedTokens[p + i]
    BY <1>1, SliceFacts
  <1> HIDE DEF q
  <1>3. /\ Rest = q \o source /\ Rest \in Seq(AnyToken)
        /\ Len(Rest) = Len(q) + m
        /\ \A i \in 1..Len(q) + m :
             Rest[i] = IF i <= Len(q) THEN q[i] ELSE source[i - Len(q)]
    <2>1. Rest = q \o source
      BY DEF Rest, q, n
    <2> QED BY <1>1, <1>2, <2>1, ConcatProperties
  <1> HIDE DEF m, p
  <1>4. Len(Rest) = n - p + m
    BY <1>1, <1>2, <1>3
  <1>5. \A i \in 1..n - p : Rest[i] = CachedTokens[p + i]
    <2> TAKE i \in 1..n - p
    <2>1. i \in 1..Len(q) + m /\ i <= Len(q)
      BY <1>1, <1>2
    <2> QED BY <1>2, <1>3, <2>1
  <1>6. \A i \in 1..m : Rest[(n - p) + i] = source[i]
    <2> TAKE i \in 1..m
    <2>1. /\ (n - p) + i \in 1..Len(q) + m /\ ~((n - p) + i <= Len(q))
          /\ ((n - p) + i) - Len(q) = i
      BY <1>1, <1>2
    <2> QED BY <1>3, <2>1
  <1>7. p = n => Rest = source
    <2> SUFFICES ASSUME p = n PROVE Rest = source
      OBVIOUS
    <2>1. Len(q) = 0
      BY <1>1, <1>2
    <2>2. q = <<>>
      BY <1>2, <2>1, EmptySeq
    <2> QED BY <1>1, <1>3, <2>2, ConcatEmptySeq
  <1> QED
    BY <1>3, <1>4, <1>5, <1>6, <1>7 DEF n, m, p, RestIsUnread

(* The eof is ahead of a client that reads and did not lose it.            *)
LEMMA EofAhead ==
  ASSUME CInv
  PROVE  EofAheadUnlessDropped
  <1> DEFINE n == Len(CachedTokens)
             m == Len(source)
             p == CachedLexPos
             k == Len(Rest)
  <1> SUFFICES ASSUME Reading, ~eofDropped
               PROVE  /\ Rest # <<>> /\ Last(Rest) = Eof
                      /\ Cached \/ lexer # "gone"
    BY DEF EofAheadUnlessDropped
  <1>1. /\ n \in Nat /\ m \in Nat /\ p \in Nat /\ p <= n
        /\ Low \in Nat /\ Low <= p /\ DOMAIN CachedTokens = 1..n
        /\ DOMAIN source = 1..m /\ ((source = <<>>) <=> (m = 0))
    BY LengthFacts
  <1>2. /\ k = n - p + m /\ Rest \in Seq(AnyToken)
        /\ \A i \in 1..n - p : Rest[i] = CachedTokens[p + i]
        /\ \A i \in 1..m : Rest[(n - p) + i] = source[i]
    BY RestFacts DEF RestIsUnread
  <1>3. CASE lexer = "gone"
    <2>1. m = 0 /\ p < n /\ \A i \in 1..n :
            i > Low => ((CachedTokens[i] = Eof) <=> (i = n))
      BY <1>1, <1>3 DEF CInv, EofCached, EofKept, ModesConsistent, Reading
    <2> HIDE DEF n, m, p, k
    <2>2. n - p \in 1..n - p /\ p + (n - p) = n /\ k = n - p /\ n \in 1..n /\ n > Low
      BY <1>1, <1>2, <2>1
    <2>3. Rest[k] = Eof /\ k # 0
      BY <1>1, <1>2, <2>1, <2>2
    <2> QED
      BY <1>2, <2>1, <2>3, EmptySeq DEF Last, k, n, p, Cached
  <1>4. CASE lexer # "gone"
    <2>1. m # 0 /\ \A i \in 1..m : (source[i] = Eof) <=> (i = m)
      BY <1>1, <1>4 DEF CInv, ModesConsistent
    <2> HIDE DEF n, m, p, k
    <2>2. m \in 1..m /\ k = (n - p) + m /\ k # 0
      BY <1>1, <1>2, <2>1
    <2>3. Rest[k] = Eof
      BY <1>2, <2>1, <2>2
    <2> QED
      BY <1>2, <1>4, <2>2, <2>3, EmptySeq DEF Last, k
  <1> QED
    BY <1>3, <1>4

(* A client that is reading has the eof ahead of it, and CachingLex and    *)
(* PeekAhead find a cached token or a lexer to take the next token from,   *)
(* unless CachingLex has lexed the eof in a tentative parse and not cached *)
(* it: the only way to RemoveTopOfLexerStack's "Ran out of stack entries   *)
(* to load", for every translation unit.                                   *)
THEOREM OnlyADroppedEofIsMissed == Spec => []EofAheadUnlessDropped
  <1>1. Init => CInv
    BY InitInv
  <1>2. CInv /\ [Next]_vars => CInv'
    BY NextInv
  <1>3. CInv => EofAheadUnlessDropped
    BY EofAhead
  <1> QED
    BY <1>1, <1>2, <1>3, PTL DEF Spec

(* The same facts of the next state.                                       *)
LEMMA NextStateFacts ==
  ASSUME CInv'
  PROVE  PositionsFit' /\ PastIsCached' /\ RestIsUnread'
  <1>1. (CInv => PositionsFit)'
    BY PositionsFitLemma, PTL
  <1>2. (CInv => PastIsCached)'
    BY PastFacts, PTL
  <1>3. (CInv => RestIsUnread)'
    BY RestFacts, PTL
  <1> QED
    BY <1>1, <1>2, <1>3

(* A step that changes neither the cached tokens between the backtrack     *)
(* positions and the read position nor these leaves past and marks alone.  *)
LEMMA PastUnchanged ==
  ASSUME CInv, CInv',
         UNCHANGED <<CachedLexPos, BacktrackPositions>>,
         \A i \in 1..CachedLexPos : CachedTokens'[i] = CachedTokens[i]
  PROVE  UNCHANGED <<Past, Marks>>
  <1>1. /\ Low \in Nat /\ CachedLexPos \in Nat /\ Low <= CachedLexPos
        /\ CachedLexPos <= Len(CachedTokens)
        /\ CachedTokens \in Seq(AnyToken)
    BY PositionsFitLemma DEF PositionsFit
  <1>2. /\ CachedLexPos <= Len(CachedTokens')
        /\ CachedTokens' \in Seq(AnyToken)
    BY NextStateFacts DEF PositionsFit
  <1>3. Low' = Low
    BY DEF Low, isBacktrackEnabled
  <1>4. \A i \in 1..CachedLexPos - Low :
          CachedTokens[Low + i] = CachedTokens'[Low + i]
    BY <1>1
  <1>5. SubSeq(CachedTokens, Low + 1, CachedLexPos)
          = SubSeq(CachedTokens', Low + 1, CachedLexPos)
    BY <1>1, <1>2, <1>4, SlicesAgree
  <1>6. Past' = Past
    BY <1>3, <1>5, PastFacts, NextStateFacts DEF PastIsCached
  <1> QED
    BY <1>6 DEF Marks

(* Two states with the same unread tokens.                                 *)
LEMMA RestUnchanged ==
  ASSUME CInv, CInv', source' = source,
         Len(CachedTokens') - CachedLexPos' = Len(CachedTokens) - CachedLexPos,
         \A i \in 1..Len(CachedTokens) - CachedLexPos :
           CachedTokens'[CachedLexPos' + i] = CachedTokens[CachedLexPos + i]
  PROVE  Rest' = Rest
  <1> DEFINE c == CachedTokens
             d == CachedTokens'
             n == Len(c)
             k == Len(d)
             p == CachedLexPos
             o == CachedLexPos'
             q == SubSeq(c, p + 1, n)
             r == SubSeq(d, o + 1, k)
  <1>1. p \in Nat /\ p <= n /\ c \in Seq(AnyToken) /\ n \in Nat
    BY PositionsFitLemma DEF PositionsFit
  <1>2. o \in Nat /\ o <= k /\ d \in Seq(AnyToken) /\ k \in Nat
    BY NextStateFacts DEF PositionsFit
  <1>3. /\ k - o = n - p /\ n <= Len(c) /\ k <= Len(d)
        /\ \A i \in 1..n - p : c[p + i] = d[o + i]
    BY <1>1, <1>2
  <1>4. q = r
    <2> HIDE DEF c, d, n, k, p, o
    <2> QED BY <1>1, <1>2, <1>3, SlicesAgree
  <1>5. Rest = q \o source /\ Rest' = r \o source'
    BY DEF Rest
  <1> QED
    BY <1>4, <1>5

-----------------------------------------------------------------------------
LEMMA InitRefines ==
  ASSUME Init
  PROVE  Stream!Init
  <1>1. CInv /\ BacktrackPositions = <<>> /\ lexer = "current"
        /\ CachedTokens = <<>> /\ CachedLexPos = 0
    BY InitInv DEF Init
  <1>2. Rest # <<>>
    <2>1. source # <<>> /\ Len(source) \in Nat /\ Len(source) # 0
      BY <1>1, LengthFacts DEF CInv, ModesConsistent
    <2>2. Len(Rest) = Len(source)
      BY <1>1, <2>1, RestFacts DEF RestIsUnread
    <2> QED BY <2>1, <2>2
  <1>3. Marks = <<>>
    BY <1>1 DEF Marks
  <1> QED
    BY <1>1, <1>2, <1>3 DEF Stream!Init, Marks, isBacktrackEnabled
LEMMA NoMarks ==
  ASSUME CInv
  PROVE  Marks = <<>> <=> BacktrackPositions = <<>>
  <1>1. BacktrackPositions = <<>> => Marks = <<>>
    BY DEF Marks
  <1>2. Marks = <<>> => DOMAIN BacktrackPositions = {}
    BY DEF Marks
  <1>3. /\ Len(BacktrackPositions) \in Nat
        /\ DOMAIN BacktrackPositions = 1..Len(BacktrackPositions)
        /\ BacktrackPositions = <<>> <=> Len(BacktrackPositions) = 0
    BY LengthFacts
  <1>4. DOMAIN BacktrackPositions = {} => Len(BacktrackPositions) = 0
    BY <1>3
  <1> QED
    BY <1>1, <1>2, <1>3, <1>4

(* Lexing, when nothing is cached and nothing is kept.                     *)
LEMMA LexUncachedRefines ==
  ASSUME CInv, CInv', Rest = source, Rest' = source',
         BacktrackPositions = <<>>, source # <<>>,
         answer' = Head(source), source' = Tail(source),
         UNCHANGED BacktrackPositions
  PROVE  Stream!Lex
  <1>1. Marks = <<>> /\ Past' = <<>> /\ Marks' = Marks
    BY NoMarks DEF Past, Marks, isBacktrackEnabled
  <1> QED
    BY <1>1 DEF Stream!Lex, Past, Marks

LEMMA LexCurrentRefines ==
  ASSUME CInv, CInv', LexCurrent
  PROVE  Stream!Lex
  <1>1. /\ lexer = "current" /\ peek = 0
        /\ answer' = Head(source) /\ source' = Tail(source)
        /\ UNCHANGED <<CachedTokens, CachedLexPos, BacktrackPositions>>
    BY DEF LexCurrent, Reading, Idle
  <1>2. /\ CachedTokens = <<>> /\ BacktrackPositions = <<>>
        /\ source # <<>>
    BY <1>1 DEF CInv, ModesConsistent
  <1>3. CachedLexPos = Len(CachedTokens)
    BY <1>2, PositionsFitLemma DEF PositionsFit
  <1>4. Rest = source /\ Rest' = source'
    BY <1>1, <1>3, RestFacts, NextStateFacts DEF RestIsUnread
  <1> QED
    BY <1>1, <1>2, <1>4, LexUncachedRefines

LEMMA LexAndClearRefines ==
  ASSUME CInv, CInv', LexAndClear
  PROVE  Stream!Lex
  <1>1. /\ BacktrackPositions = <<>> /\ lexer = "stacked"
        /\ ~(CachedLexPos < Len(CachedTokens))
        /\ answer' = Head(source) /\ source' = Tail(source)
        /\ CachedTokens' = <<>> /\ CachedLexPos' = 0
        /\ UNCHANGED BacktrackPositions
    BY DEF LexAndClear, CachingLexMiss, isBacktrackEnabled, InCachingLexMode,
           CanExitCachingLexMode, Cached
  <1>2. source # <<>>
    BY <1>1 DEF CInv, ModesConsistent
  <1>3. CachedLexPos = Len(CachedTokens) /\ CachedLexPos' = Len(CachedTokens')
    BY <1>1, PositionsFitLemma DEF PositionsFit
  <1>4. Rest = source /\ Rest' = source'
    BY <1>3, RestFacts, NextStateFacts DEF RestIsUnread
  <1> QED
    BY <1>1, <1>2, <1>4, LexUncachedRefines

(* The token lexed is remembered as long as a backtrack position is set.   *)
LEMMA PastGrows ==
  ASSUME CInv, CInv', BacktrackPositions # <<>>,
         UNCHANGED BacktrackPositions,
         CachedLexPos' = CachedLexPos + 1,
         \A i \in 1..CachedLexPos : CachedTokens'[i] = CachedTokens[i]
  PROVE  /\ Past' = Append(Past, CachedTokens'[CachedLexPos + 1])
         /\ Marks' = Marks
  <1> DEFINE c == CachedTokens
             d == CachedTokens'
             p == CachedLexPos
             o == Low
  <1>1. /\ o \in Nat /\ p \in Nat /\ o <= p /\ p <= Len(c)
        /\ c \in Seq(AnyToken) /\ Past = SubSeq(c, o + 1, p)
    BY PositionsFitLemma, PastFacts DEF PositionsFit, PastIsCached
  <1>2. Low' = Low
    BY DEF Low, isBacktrackEnabled
  <1>3. /\ p + 1 <= Len(d) /\ d \in Seq(AnyToken) /\ Len(d) \in Nat
        /\ Past' = SubSeq(d, o + 1, p + 1)
    BY <1>2, NextStateFacts DEF PositionsFit, PastIsCached
  <1>4. \A i \in 1..p : c[i] = d[i]
    OBVIOUS
  <1> HIDE DEF c, d, p, o
  <1>5. SubSeq(d, o + 1, p + 1) = Append(SubSeq(d, o + 1, p), d[p + 1])
    BY <1>1, <1>3, SliceGrows
  <1>6. SubSeq(d, o + 1, p) = SubSeq(c, o + 1, p)
    <2>1. /\ p <= Len(d) /\ p - o = p - o
          /\ \A i \in 1..p - o : d[o + i] = c[o + i]
      BY <1>1, <1>3, <1>4
    <2>2. /\ o \in Nat /\ p \in Nat /\ o <= p /\ p <= Len(c)
          /\ c \in Seq(AnyToken) /\ d \in Seq(AnyToken)
      BY <1>1, <1>3
    <2> QED BY <2>1, <2>2, SlicesAgree
  <1> QED
    BY <1>1, <1>3, <1>5, <1>6 DEF d, p, Marks

LEMMA LexCachedRefines ==
  ASSUME CInv, CInv', LexCached
  PROVE  Stream!Lex
  <1> DEFINE p == CachedLexPos
             c == CachedTokens
  <1>1. /\ p < Len(c) /\ answer' = c[p + 1] /\ CachedLexPos' = p + 1
        /\ UNCHANGED <<source, CachedTokens, BacktrackPositions>>
    BY DEF LexCached, Cached
  <1>2. /\ c \in Seq(AnyToken) /\ source \in Seq(AnyToken) /\ p \in Nat
    BY PositionsFitLemma DEF PositionsFit
  <1>3. Rest # <<>> /\ Head(Rest) = c[p + 1] /\ Rest' = Tail(Rest)
    <2>1. /\ SubSeq(c, p + 1, Len(c)) \o source # <<>>
          /\ Head(SubSeq(c, p + 1, Len(c)) \o source) = c[p + 1]
          /\ Tail(SubSeq(c, p + 1, Len(c)) \o source)
               = SubSeq(c, (p + 1) + 1, Len(c)) \o source
      <3> HIDE DEF p, c
      <3> QED BY <1>1, <1>2, SliceHeadTail
    <2> QED BY <1>1, <2>1 DEF Rest
  <1>4. /\ Past' = IF Marks = <<>> THEN <<>> ELSE Append(Past, Head(Rest))
        /\ Marks' = Marks
    <2>1. CASE BacktrackPositions = <<>>
      BY <1>1, <2>1, NoMarks DEF Past, Marks, isBacktrackEnabled
    <2>2. CASE BacktrackPositions # <<>>
      BY <1>1, <1>3, <2>2, NoMarks, PastGrows
    <2> QED BY <2>1, <2>2
  <1> QED
    BY <1>1, <1>3, <1>4 DEF Stream!Lex, Past, Marks

LEMMA LexAndCacheRefines ==
  ASSUME CInv, CInv', LexAndCache, Head(source) # Eof
  PROVE  Stream!Lex
  <1> DEFINE p == CachedLexPos
             c == CachedTokens
             n == Len(c)
  <1>1. /\ BacktrackPositions # <<>> /\ lexer = "stacked"
        /\ ~(p < n) /\ answer' = Head(source) /\ source' = Tail(source)
        /\ CachedTokens' = Append(c, Head(source)) /\ CachedLexPos' = p + 1
        /\ UNCHANGED BacktrackPositions
    BY DEF LexAndCache, CachingLexMiss, isBacktrackEnabled, InCachingLexMode,
           CanExitCachingLexMode, Cached
  <1>2. c \in Seq(AnyToken) /\ n \in Nat /\ p = n
    BY <1>1, PositionsFitLemma DEF PositionsFit
  <1>3. Head(source) \in AnyToken
    BY <1>1, SourceStep
  <1>4. /\ Len(CachedTokens') = n + 1
        /\ CachedTokens'[n + 1] = Head(source)
        /\ \A i \in 1..n : CachedTokens'[i] = c[i]
    BY <1>1, <1>2, <1>3, AppendFacts
  <1>5. source # <<>>
    BY <1>1 DEF CInv, ModesConsistent
  <1>6. Rest = source /\ Rest' = source'
    BY <1>1, <1>2, <1>4, RestFacts, NextStateFacts DEF RestIsUnread
  <1>7. /\ Past' = Append(Past, Head(source)) /\ Marks' = Marks
    BY <1>1, <1>2, <1>4, PastGrows
  <1>8. Marks # <<>>
    BY <1>1, NoMarks
  <1> QED
    BY <1>1, <1>5, <1>6, <1>7, <1>8 DEF Stream!Lex, Past, Marks

(* The eof that is not kept.                                               *)
LEMMA DropEofRefines ==
  ASSUME CInv, CInv', LexAndCache, Head(source) = Eof
  PROVE  Stream!DropEof
  <1>1. /\ BacktrackPositions # <<>> /\ lexer = "stacked"
        /\ ~(CachedLexPos < Len(CachedTokens))
        /\ answer' = Eof /\ source' = Tail(source)
        /\ UNCHANGED <<CachedTokens, CachedLexPos, BacktrackPositions>>
    BY DEF LexAndCache, CachingLexMiss, isBacktrackEnabled, InCachingLexMode,
           CanExitCachingLexMode, Cached
  <1>2. CachedLexPos = Len(CachedTokens)
    BY <1>1, PositionsFitLemma DEF PositionsFit
  <1>3. Rest = source /\ Rest' = source'
    BY <1>1, <1>2, RestFacts, NextStateFacts DEF RestIsUnread
  <1>4. Tail(source) = <<>> /\ Len(source) = 1 /\ source \in Seq(AnyToken)
    <2> DEFINE t == Tail(source)
               n == Len(source)
    <2>1. t = <<>> /\ n \in Nat /\ Len(t) = n - 1
      BY <1>1, SourceStep
    <2> HIDE DEF t, n
    <2>2. Len(<<>>) = 0
      OBVIOUS
    <2>3. n - 1 = 0
      BY <2>1, <2>2
    <2>4. n = 1
      BY <2>1, <2>3
    <2> QED BY <2>1, <2>4, PositionsFitLemma DEF PositionsFit, t, n
  <1>5. source = <<Eof>>
    BY <1>4
  <1>6. UNCHANGED <<Past, Marks>>
    BY <1>1 DEF Past, Marks, isBacktrackEnabled
  <1>7. Marks # <<>>
    BY <1>1, NoMarks
  <1> QED
    BY <1>1, <1>3, <1>4, <1>5, <1>6, <1>7 DEF Stream!DropEof, Past, Marks

-----------------------------------------------------------------------------
(* Looking ahead                                                           *)

LEMMA LookAheadCachedRefines ==
  ASSUME CInv, CInv', NEW N \in Nat, LookAheadCached(N)
  PROVE  \E M \in 0..Len(Rest) - 1 : Stream!LookAhead(M)
  <1> DEFINE p == CachedLexPos
             n == Len(CachedTokens)
             m == Len(source)
  <1>1. /\ p + N < n /\ answer' = CachedTokens[p + N + 1]
        /\ UNCHANGED <<source, CachedTokens, CachedLexPos, BacktrackPositions>>
    BY DEF LookAheadCached
  <1>2. p \in Nat /\ n \in Nat /\ m \in Nat /\ p <= n
    BY PositionsFitLemma DEF PositionsFit
  <1>3. /\ Len(Rest) = n - p + m
        /\ \A i \in 1..n - p : Rest[i] = CachedTokens[p + i]
    BY RestFacts DEF RestIsUnread
  <1> HIDE DEF p, n, m
  <1>4. /\ N \in 0..Len(Rest) - 1 /\ N + 1 \in 1..n - p
        /\ p + N + 1 = p + (N + 1)
    BY <1>1, <1>2, <1>3
  <1>5. answer' = Rest[N + 1]
    BY <1>1, <1>3, <1>4
  <1>6. Past' = Past /\ Rest' = Rest /\ Marks' = Marks
    BY <1>1 DEF Past, Rest, Marks, isBacktrackEnabled
  <1>7. Stream!LookAhead(N)
    BY <1>5, <1>6 DEF Stream!LookAhead, Past, Marks
  <1> QED
    BY <1>4, <1>7

(* A token fetched by PeekAhead's loop stays unread.                       *)
LEMMA FetchedIsUnread ==
  ASSUME CInv, CInv', lexer = "current", source # <<>>,
         source' = Tail(source), CachedTokens' = Append(CachedTokens, Head(source)),
         UNCHANGED <<CachedLexPos, BacktrackPositions>>
  PROVE  /\ Rest' = Rest /\ Past' = Past /\ Marks' = Marks
         /\ Rest[(Len(CachedTokens) - CachedLexPos) + 1] = Head(source)
  <1> DEFINE p == CachedLexPos
             c == CachedTokens
             n == Len(c)
             h == Head(source)
             d == Append(c, h)
             q == SubSeq(c, p + 1, n)
  <1>1. /\ p \in Nat /\ n \in Nat /\ p <= n /\ c \in Seq(AnyToken)
        /\ source \in Seq(AnyToken)
    BY PositionsFitLemma DEF PositionsFit
  <1>2. /\ h \in AnyToken /\ h = source[1]
        /\ Tail(source) \in Seq(AnyToken) /\ Len(source) \in Nat \ {0}
    BY <1>1, HeadTail
  <1>3. /\ d \in Seq(AnyToken) /\ Len(d) = n + 1
        /\ \A i \in 1..n : d[i] = c[i]
    BY <1>1, <1>2, AppendFacts
  <1>4. SubSeq(d, p + 1, n + 1) = Append(q, h)
    <2> HIDE DEF p, c, h
    <2> QED BY <1>1, <1>2, SliceOfAppend
  <1>5. q \in Seq(AnyToken)
    <2>1. n <= Len(c)
      BY <1>1
    <2> HIDE DEF n, c, p
    <2> QED BY <1>1, <2>1, SliceFacts
  <1>6. source = <<h>> \o Tail(source)
    BY <1>1, HeadThenTail
  <1>7. Append(q, h) \o Tail(source) = q \o source
    <2> HIDE DEF q, h
    <2>1. <<h>> \in Seq(AnyToken) /\ Append(q, h) = q \o <<h>>
      BY <1>2, <1>5, AppendIsConcat
    <2>2. (q \o <<h>>) \o Tail(source) = q \o (<<h>> \o Tail(source))
      BY <1>2, <1>5, <2>1, ConcatAssociative
    <2> QED BY <1>6, <2>1, <2>2
  <1>8. Rest' = Rest
    <2>1. Rest' = SubSeq(d, p + 1, n + 1) \o Tail(source)
      BY <1>3 DEF Rest
    <2>2. Rest = q \o source
      BY DEF Rest
    <2> QED BY <1>4, <1>7, <2>1, <2>2
  <1>9. Past' = Past /\ Marks' = Marks
    <2>1. \A i \in 1..p : CachedTokens'[i] = CachedTokens[i]
      BY <1>1, <1>3
    <2> QED BY <2>1, PastUnchanged
  <1>10. Rest[(n - p) + 1] = h
    <2>1. 1 \in 1..Len(source)
      BY <1>2
    <2> QED BY <1>2, <2>1, RestFacts DEF RestIsUnread
  <1> QED
    BY <1>8, <1>9, <1>10

LEMMA PeekStepRefines ==
  ASSUME CInv, CInv', PeekStep
  PROVE  \/ \E M \in 0..Len(Rest) - 1 : Stream!LookAhead(M)
         \/ UNCHANGED Stream!vars
  <1> DEFINE M == Len(CachedTokens) - CachedLexPos
  <1>1. /\ peek > 0 /\ source' = Tail(source)
        /\ CachedTokens' = Append(CachedTokens, Head(source))
        /\ answer' = (IF peek = 1 THEN Head(source) ELSE answer)
        /\ UNCHANGED <<CachedLexPos, BacktrackPositions>>
    BY DEF PeekStep
  <1>2. lexer = "current" /\ source # <<>>
    BY <1>1 DEF CInv, ModesConsistent
  <1>3. /\ Rest' = Rest /\ Past' = Past /\ Marks' = Marks
        /\ Rest[M + 1] = Head(source)
    BY <1>1, <1>2, FetchedIsUnread
  <1>4. CASE peek = 1
    <2>1. Stream!LookAhead(M)
      BY <1>1, <1>3, <1>4 DEF Stream!LookAhead, Past, Marks
    <2>2. M \in 0..Len(Rest) - 1
      <3>1. Len(Rest) = M + Len(source)
        BY RestFacts DEF RestIsUnread
      <3>2. M \in Nat
        BY PositionsFitLemma DEF PositionsFit
      <3>3. Len(source) \in Nat \ {0}
        BY <1>2, LengthFacts
      <3> HIDE DEF M
      <3> QED BY <3>1, <3>2, <3>3
    <2> QED BY <2>1, <2>2
  <1>5. CASE peek # 1
    BY <1>1, <1>3, <1>5 DEF Stream!vars, Past, Marks
  <1> QED
    BY <1>4, <1>5

(* A step of the cache that changes nothing the stream shows.              *)
LEMMA NothingShown ==
  ASSUME UNCHANGED <<source, CachedTokens, CachedLexPos, BacktrackPositions,
                     answer>>
  PROVE  UNCHANGED Stream!vars
  BY DEF Stream!vars, Rest, isBacktrackEnabled

-----------------------------------------------------------------------------
(* Tentative parsing                                                       *)

(* The marks are the distances from the oldest backtrack position.         *)
MarksAreOffsets ==
  /\ Marks \in Seq(Int)
  /\ Len(Marks) = Len(BacktrackPositions)
  /\ \A i \in 1..Len(BacktrackPositions) :
       Marks[i] = BacktrackPositions[i] - Low

LEMMA MarksFacts ==
  ASSUME CInv
  PROVE  MarksAreOffsets
  <1> DEFINE b == BacktrackPositions
             m == Len(b)
  <1>1. /\ m \in Nat /\ DOMAIN b = 1..m /\ Low \in Nat
        /\ \A i \in 1..m : b[i] \in Nat
        /\ (b = <<>>) <=> (m = 0)
    BY LengthFacts
  <1> HIDE DEF m
  <1>2. Marks = [i \in 1..m |-> b[i] - Low]
    <2>1. CASE m = 0
      <3>1. DOMAIN b = {}
        BY <1>1, <2>1
      <3> QED BY <1>1, <2>1, <3>1 DEF Marks
    <2>2. CASE m # 0
      BY <1>1, <2>2 DEF Marks, Low, isBacktrackEnabled
    <2> QED BY <2>1, <2>2
  <1>3. \A i \in 1..m : b[i] - Low \in Int
    BY <1>1
  <1>4. Marks \in [1..m -> Int] /\ DOMAIN Marks = 1..m
    BY <1>2, <1>3
  <1>5. Marks \in Seq(Int)
    BY <1>1, <1>4, SeqDef
  <1>6. Len(Marks) = m
    BY <1>1, <1>4, <1>5, LenProperties
  <1> QED
    BY <1>2, <1>5, <1>6 DEF MarksAreOffsets, m

LEMMA EnableBacktrackRefines ==
  ASSUME CInv, CInv', EnableBacktrackAtThisPos
  PROVE  Stream!EnableBacktrackAtThisPos
  <1> DEFINE b == BacktrackPositions
             p == CachedLexPos
             m == Len(b)
             d == Append(b, p)
  <1>1. /\ b' = d
        /\ UNCHANGED <<source, CachedTokens, CachedLexPos, answer>>
    BY DEF EnableBacktrackAtThisPos
  <1>2. /\ b \in Seq(Nat) /\ p \in Nat /\ m \in Nat /\ DOMAIN b = 1..m
        /\ \A i \in 1..m : b[i] \in Nat
        /\ (b = <<>>) <=> (m = 0)
    BY LengthFacts DEF CInv, TypeOK
  <1>3. /\ d \in Seq(Nat) /\ Len(d) = m + 1 /\ DOMAIN d = 1..m + 1
        /\ \A i \in 1..m : d[i] = b[i]
        /\ d[m + 1] = p
    BY <1>2, AppendFacts, LenProperties
  <1> HIDE DEF d, m
  <1>4. d # <<>>
    BY <1>2, <1>3, EmptySeq
  <1>5. Low' = Low /\ d[1] = Low
    <2>1. CASE m = 0
      <3>1. d[1] = p
        BY <1>3, <2>1
      <3> QED BY <1>1, <1>2, <1>4, <2>1, <3>1 DEF Low, isBacktrackEnabled
    <2>2. CASE m # 0
      <3>1. d[1] = b[1]
        BY <1>2, <1>3, <2>2
      <3> QED BY <1>1, <1>2, <1>4, <2>2, <3>1 DEF Low, isBacktrackEnabled
    <2> QED BY <2>1, <2>2
  <1>6. Past' = Past /\ Rest' = Rest
    BY <1>1, <1>5, PastFacts, NextStateFacts DEF PastIsCached, Rest
  <1>7. Len(Past) = p - Low /\ Low \in Nat /\ Low <= p
    BY PastFacts, PositionsFitLemma DEF PastIsCached, PositionsFit
  <1>8. /\ Marks \in Seq(Int) /\ Len(Marks) = m
        /\ \A i \in 1..m : Marks[i] = b[i] - Low
    BY <1>2, MarksFacts DEF MarksAreOffsets, m
  <1>9. Marks' = [i \in 1..m + 1 |-> d[i] - Low]
    BY <1>1, <1>3, <1>5 DEF Marks
  <1>10. Marks' = Append(Marks, p - Low)
    <2>1. p - Low \in Int
      BY <1>2, <1>7
    <2>2. Len(Marks) = m
      BY <1>8
    <2>3. /\ Append(Marks, p - Low) \in Seq(Int)
          /\ Len(Append(Marks, p - Low)) = m + 1
          /\ \A i \in 1..m : Append(Marks, p - Low)[i] = Marks[i]
          /\ Append(Marks, p - Low)[m + 1] = p - Low
      <3> DEFINE e == p - Low
                 mk == Marks
      <3>1. e \in Int /\ mk \in Seq(Int) /\ Len(mk) = m
        BY <1>8, <2>1, <2>2
      <3> HIDE DEF e, mk
      <3>2. /\ Append(mk, e) \in Seq(Int) /\ Len(Append(mk, e)) = m + 1
            /\ \A i \in 1..m : Append(mk, e)[i] = mk[i]
            /\ Append(mk, e)[m + 1] = e
        BY <3>1, AppendFacts
      <3> QED BY <3>2 DEF e, mk
    <2> DEFINE r == Append(Marks, p - Low)
    <2> HIDE DEF r
    <2>4. \A i \in 1..m + 1 : d[i] - Low \in Int
      BY <1>3, <1>7, ElementOfSeq
    <2>5. /\ Marks' \in Seq(Int) /\ Len(Marks') = m + 1
      <3>1. Marks' \in [1..m + 1 -> Int] /\ DOMAIN Marks' = 1..m + 1
        BY <1>9, <2>4
      <3>2. Marks' \in Seq(Int)
        BY <1>2, <3>1, SeqDef
      <3> QED BY <1>2, <3>1, <3>2, LenProperties
    <2>6. \A i \in 1..m + 1 : Marks'[i] = r[i]
      <3> TAKE i \in 1..m + 1
      <3>1. CASE i = m + 1
        BY <1>3, <1>9, <2>3, <3>1 DEF r
      <3>2. CASE i # m + 1
        <4>1. i \in 1..m
          BY <1>2, <3>2
        <4> QED BY <1>3, <1>8, <1>9, <2>3, <4>1 DEF r
      <3> QED BY <3>1, <3>2
    <2>7. Marks' = r
      <3> DEFINE mk == Marks'
      <3>1. /\ mk \in Seq(Int) /\ r \in Seq(Int) /\ Len(mk) = Len(r)
            /\ \A i \in 1..Len(mk) : mk[i] = r[i]
        BY <2>3, <2>5, <2>6 DEF r
      <3> HIDE DEF mk
      <3>2. mk = r
        BY <3>1, SeqEqual
      <3> QED BY <3>2 DEF mk
    <2> QED BY <2>7 DEF r
  <1> QED
    BY <1>1, <1>6, <1>7, <1>10 DEF Stream!EnableBacktrackAtThisPos, Past, Marks

(* The innermost backtrack position is dropped.                            *)
LEMMA MarksPopped ==
  ASSUME CInv, CInv', BacktrackPositions # <<>>,
         BacktrackPositions' = Front(BacktrackPositions), Low' = Low
           \/ BacktrackPositions' = <<>>
  PROVE  /\ Marks # <<>>
         /\ Marks' = Front(Marks)
         /\ Last(Marks) = Last(BacktrackPositions) - Low
  <1> DEFINE b == BacktrackPositions
             f == Front(BacktrackPositions)
             m == Len(BacktrackPositions)
             mk == Marks
             nk == Marks'
  <1>1. /\ b \in Seq(Nat) /\ m \in Nat /\ ((b = <<>>) <=> (m = 0))
    BY LengthFacts DEF CInv, TypeOK
  <1>2. /\ f \in Seq(Nat) /\ Len(f) = m - 1
        /\ \A i \in 1..m - 1 : f[i] = b[i]
        /\ Last(b) = b[m]
    BY <1>1, FrontLast, InnermostPosition
  <1>3. /\ mk \in Seq(Int) /\ Len(mk) = m
        /\ \A i \in 1..m : mk[i] = b[i] - Low
    BY MarksFacts DEF MarksAreOffsets
  <1>4. MarksAreOffsets'
    <2>1. (CInv => MarksAreOffsets)'
      BY MarksFacts, PTL
    <2> QED BY <2>1
  <1>5. /\ nk \in Seq(Int) /\ Len(nk) = m - 1
        /\ \A i \in 1..m - 1 : nk[i] = f[i] - Low'
    BY <1>2, <1>4 DEF MarksAreOffsets
  <1> HIDE DEF f, m, mk, nk
  <1>6. m \in 1..m
    BY <1>1
  <1>7. mk # <<>>
    BY <1>1, <1>3, EmptySeq
  <1>8. /\ Front(mk) \in Seq(Int) /\ Len(Front(mk)) = m - 1
        /\ \A i \in 1..m - 1 : Front(mk)[i] = mk[i]
        /\ Last(mk) = mk[m]
    BY <1>3, <1>7, FrontLast DEF Last
  <1>9. \A i \in 1..m - 1 : nk[i] = Front(mk)[i]
    <2> SUFFICES ASSUME NEW i \in 1..m - 1
                 PROVE  nk[i] = Front(mk)[i]
      OBVIOUS
    <2>1. i \in 1..m /\ m - 1 # 0
      BY <1>1
    <2>2. Low' = Low
      <3>1. f # <<>>
        BY <1>2, <2>1
      <3> QED BY <3>1 DEF f
    <2> QED BY <1>2, <1>3, <1>5, <1>8, <2>1, <2>2
  <1>10. nk = Front(mk)
    BY <1>5, <1>8, <1>9, SeqEqual
  <1> QED
    BY <1>2, <1>3, <1>6, <1>7, <1>8, <1>10 DEF mk, nk

LEMMA CommitBacktrackRefines ==
  ASSUME CInv, CInv', CommitBacktrackedTokens
  PROVE  Stream!CommitBacktrackedTokens
  <1>1. /\ BacktrackPositions # <<>>
        /\ BacktrackPositions' = Front(BacktrackPositions)
        /\ UNCHANGED <<source, CachedTokens, CachedLexPos, answer>>
    BY DEF CommitBacktrackedTokens, isBacktrackEnabled
  <1>2. BacktrackPositions' # <<>> => Low' = Low
    BY <1>1, PoppedPositions DEF Low, isBacktrackEnabled
  <1>3. Marks # <<>> /\ Marks' = Front(Marks)
    BY <1>1, <1>2, MarksPopped
  <1>4. Marks' = <<>> <=> BacktrackPositions' = <<>>
    <2>1. (CInv => (Marks = <<>> <=> BacktrackPositions = <<>>))'
      BY NoMarks, PTL
    <2> QED BY <2>1
  <1>5. Past' = IF Marks' = <<>> THEN <<>> ELSE Past
    BY <1>1, <1>2, <1>4, PastFacts, NextStateFacts DEF PastIsCached
  <1>6. Rest' = Rest
    BY <1>1 DEF Rest
  <1> QED
    BY <1>1, <1>3, <1>5, <1>6
       DEF Stream!CommitBacktrackedTokens, Past, Marks,
           Front, Stream!Front

(* The read position moved back to q.                                      *)
LEMMA RewoundTo ==
  ASSUME CInv, CInv', NEW q \in Nat, Low <= q, q <= CachedLexPos,
         CachedLexPos' = q, Low' = Low, UNCHANGED <<source, CachedTokens>>
  PROVE  /\ Past' = SubSeq(Past, 1, q - Low)
         /\ Rest' = SubSeq(Past, (q - Low) + 1, Len(Past)) \o Rest
  <1> DEFINE c == CachedTokens
             p == CachedLexPos
             n == Len(CachedTokens)
             o == Low
             past == Past
  <1>1. /\ p \in Nat /\ n \in Nat /\ o \in Nat /\ p <= n /\ o <= q /\ q <= p
        /\ c \in Seq(AnyToken) /\ source \in Seq(AnyToken) /\ n = Len(c)
    BY PositionsFitLemma DEF PositionsFit
  <1>2. /\ past = SubSeq(c, o + 1, p) /\ Len(past) = p - o
        /\ Past' = SubSeq(c, o + 1, q)
    BY PastFacts, NextStateFacts DEF PastIsCached
  <1>3. /\ Rest = SubSeq(c, p + 1, n) \o source
        /\ Rest' = SubSeq(c, q + 1, n) \o source
    BY DEF Rest
  <1> HIDE DEF c, p, n, o, past
  <1>4. /\ 0 \in Nat /\ q - o \in Nat /\ p - o \in Nat /\ 0 <= q - o
        /\ q - o <= p - o /\ p - o <= p - o /\ o <= p /\ p <= Len(c)
        /\ (o + 0) + 1 = o + 1 /\ o + (q - o) = q /\ o + (p - o) = p
        /\ 0 + 1 = 1 /\ n <= Len(c)
    BY <1>1
  <1>5. SubSeq(past, 1, q - o) = SubSeq(c, o + 1, q)
    <2>1. SubSeq(SubSeq(c, o + 1, p), 0 + 1, q - o)
            = SubSeq(c, (o + 0) + 1, o + (q - o))
      BY <1>1, <1>4, SliceOfSlice
    <2> QED BY <1>2, <1>4, <2>1
  <1>6. SubSeq(past, (q - o) + 1, p - o) = SubSeq(c, q + 1, p)
    <2>1. SubSeq(SubSeq(c, o + 1, p), (q - o) + 1, p - o)
            = SubSeq(c, (o + (q - o)) + 1, o + (p - o))
      BY <1>1, <1>4, SliceOfSlice
    <2> QED BY <1>2, <1>4, <2>1
  <1>7. Rest' = SubSeq(c, q + 1, p) \o Rest
    <2> DEFINE r == SubSeq(c, q + 1, p)
               t == SubSeq(c, p + 1, n)
    <2>1. r \in Seq(AnyToken) /\ t \in Seq(AnyToken)
      BY <1>1, <1>4, SliceFacts
    <2>2. r \o t = SubSeq(c, q + 1, n)
      <3>1. /\ q \in Nat /\ p \in Nat /\ n \in Nat /\ q <= p /\ p <= n
            /\ n <= Len(c) /\ c \in Seq(AnyToken)
        BY <1>1, <1>4
      <3> QED BY <3>1, SlicesJoin
    <2> HIDE DEF r, t
    <2>3. (r \o t) \o source = r \o (t \o source)
      BY <1>1, <2>1, ConcatAssociative
    <2> QED BY <1>3, <2>2, <2>3 DEF r, t
  <1> QED
    BY <1>2, <1>5, <1>6, <1>7 DEF c, p, n, o, past

LEMMA BacktrackRefines ==
  ASSUME CInv, CInv', Backtrack
  PROVE  Stream!Backtrack
  <1> DEFINE q == Last(BacktrackPositions)
  <1>1. /\ BacktrackPositions # <<>> /\ CachedLexPos' = q
        /\ BacktrackPositions' = Front(BacktrackPositions)
        /\ UNCHANGED <<source, CachedTokens, answer>>
    BY DEF Backtrack, isBacktrackEnabled
  <1>2. /\ q \in Nat /\ q <= CachedLexPos /\ Low <= q
        /\ Low = BacktrackPositions[1]
    BY <1>1, InnermostPosition
  <1>3. Low' = Low
    BY <1>1, <1>2, PoppedPositions DEF Low, isBacktrackEnabled
  <1>4. Marks # <<>> /\ Marks' = Front(Marks) /\ Last(Marks) = q - Low
    BY <1>1, <1>3, MarksPopped
  <1>5. /\ Past' = SubSeq(Past, 1, q - Low)
        /\ Rest' = SubSeq(Past, (q - Low) + 1, Len(Past)) \o Rest
    <2> HIDE DEF q
    <2> QED BY <1>1, <1>2, <1>3, RewoundTo
  <1>6. Stream!RewindTo(q - Low)
    BY <1>1, <1>5 DEF Stream!RewindTo, Past
  <1> QED
    BY <1>4, <1>6 DEF Stream!Backtrack, Marks, Front, Stream!Front,
                        Last, Stream!Last

LEMMA RevertCachedTokensRefines ==
  ASSUME CInv, CInv', NEW N \in Nat \ {0}, RevertCachedTokens(N)
  PROVE  Stream!RevertCachedTokens
  <1> DEFINE p == CachedLexPos
             q == CachedLexPos - N
             l == Last(BacktrackPositions)
             o == Low
  <1>1. /\ BacktrackPositions # <<>> /\ CachedLexPos' = q /\ q >= l
        /\ UNCHANGED <<source, CachedTokens, BacktrackPositions, answer>>
    BY DEF RevertCachedTokens, isBacktrackEnabled
  <1>2. l \in Nat /\ o \in Nat /\ o <= l /\ p \in Nat
    BY <1>1, InnermostPosition, LengthFacts
  <1>3. Low' = Low
    BY <1>1 DEF Low, isBacktrackEnabled
  <1>4. Marks # <<>> /\ Marks' = Marks /\ Last(Marks) = l - o
    <2>1. Marks # <<>>
      BY <1>1, NoMarks
    <2>2. /\ Last(Marks) = Marks[Len(BacktrackPositions)]
          /\ Len(BacktrackPositions) \in 1..Len(BacktrackPositions)
          /\ l = BacktrackPositions[Len(BacktrackPositions)]
      BY <1>1, MarksFacts, InnermostPosition, LengthFacts
         DEF MarksAreOffsets, Last
    <2>3. Last(Marks) = l - o
      BY <2>2, MarksFacts DEF MarksAreOffsets
    <2> QED BY <1>1, <2>1, <2>3 DEF Marks
  <1>5. Len(Past) = p - o
    BY PastFacts DEF PastIsCached
  <1> HIDE DEF l
  <1>6. /\ q \in Nat /\ o <= q /\ q <= p
        /\ q - o \in l - o..(p - o) - 1
    <2> HIDE DEF o
    <2> QED BY <1>1, <1>2
  <1>7. /\ Past' = SubSeq(Past, 1, q - o)
        /\ Rest' = SubSeq(Past, (q - o) + 1, Len(Past)) \o Rest
    <2> HIDE DEF q
    <2> QED BY <1>1, <1>3, <1>6, RewoundTo
  <1>8. Stream!RewindTo(q - o)
    BY <1>1, <1>7 DEF Stream!RewindTo, Past
  <1>9. q - o \in Last(Marks)..Len(Past) - 1
    BY <1>4, <1>5, <1>6
  <1> HIDE DEF q, o
  <1> QED
    BY <1>4, <1>8, <1>9 DEF Stream!RevertCachedTokens, Marks, Past, Last,
                             Stream!Last

-----------------------------------------------------------------------------
(* Tokens from the client                                                  *)

LEMMA EnterTokenRefines ==
  ASSUME CInv, CInv', NEW Tok \in Tokens \cup {Eof}, EnterToken(Tok)
  PROVE  Stream!EnterTokens
  <1> DEFINE p == CachedLexPos
             c == CachedTokens
             n == Len(CachedTokens)
             d == InsertAt(CachedTokens, CachedLexPos + 1, Tok)
             t == <<Tok>>
  <1>1. /\ CachedTokens' = d
        /\ UNCHANGED <<source, CachedLexPos, BacktrackPositions, answer>>
    BY DEF EnterToken
  <1>2. /\ p \in Nat /\ n \in Nat /\ p <= n /\ c \in Seq(AnyToken)
        /\ source \in Seq(AnyToken) /\ Tok \in AnyToken /\ n = Len(c)
    BY PositionsFitLemma DEF PositionsFit, AnyToken
  <1> HIDE DEF p, c, n
  <1>3. /\ d \in Seq(AnyToken) /\ Len(d) = n + 1
        /\ \A i \in 1..p : d[i] = c[i]
        /\ d[p + 1] = Tok
        /\ \A i \in p + 2..n + 1 : d[i] = c[i - 1]
    <2>1. InsertAt(c, p + 1, Tok) = d
      BY DEF c, p
    <2>2. p <= Len(c)
      BY <1>2
    <2>3. IsInsertion(InsertAt(c, p + 1, Tok), AnyToken, c, p, Tok)
      BY <1>2, <2>2, InsertAtFacts
    <2> HIDE DEF d
    <2> QED BY <1>2, <2>1, <2>3 DEF IsInsertion
  <1> HIDE DEF d
  <1>4. Rest' = SubSeq(d, p + 1, Len(d)) \o source
    BY <1>1 DEF Rest, p
  <1>5. /\ Rest' # <<>> /\ Head(Rest') = Tok
        /\ Tail(Rest') = SubSeq(d, (p + 1) + 1, Len(d)) \o source
    <2>1. p < Len(d)
      BY <1>2, <1>3
    <2> QED BY <1>2, <1>3, <1>4, <2>1, SliceHeadTail
  <1>6. SubSeq(d, (p + 1) + 1, Len(d)) = SubSeq(c, p + 1, n)
    <2> DEFINE k == Len(d)
               o == p + 1
    <2>1. /\ o \in Nat /\ k \in Nat /\ o <= k /\ k <= Len(d) /\ n <= Len(c)
          /\ n - p = k - o
      BY <1>2, <1>3
    <2>2. \A i \in 1..k - o : d[o + i] = c[p + i]
      <3> TAKE i \in 1..k - o
      <3>1. o + i \in p + 2..n + 1 /\ (o + i) - 1 = p + i
        BY <1>2, <1>3
      <3>2. d[o + i] = c[(o + i) - 1]
        BY <1>3, <3>1
      <3> QED BY <3>1, <3>2
    <2> HIDE DEF k, o
    <2>3. SubSeq(d, o + 1, k) = SubSeq(c, p + 1, n)
      <3> DEFINE u == SubSeq(d, o + 1, k)
      <3>1. /\ u \in Seq(AnyToken) /\ Len(u) = k - o
            /\ \A i \in 1..k - o : u[i] = d[o + i]
        BY <1>3, <2>1, SliceFacts
      <3> HIDE DEF u
      <3>2. Len(u) = n - p /\ \A i \in 1..n - p : u[i] = c[p + i]
        BY <2>1, <2>2, <3>1
      <3>3. u = SubSeq(c, p + 1, n)
        BY <1>2, <2>1, <3>1, <3>2, SliceUnique
      <3> QED BY <3>3 DEF u
    <2> QED BY <2>3 DEF k, o
  <1>7. Tail(Rest') = Rest
    BY <1>5, <1>6 DEF Rest, c, p, n
  <1>8. Rest \in Seq(AnyToken) /\ Rest' \in Seq(AnyToken)
    BY RestFacts, NextStateFacts DEF RestIsUnread
  <1> DEFINE rest == Rest
             next == Rest'
  <1>9. /\ next = t \o rest /\ t \in Seq(AnyToken) /\ t # <<>>
        /\ rest \in Seq(AnyToken)
    <2>1. next = <<Head(next)>> \o Tail(next)
      <3>1. next \in Seq(AnyToken) /\ next # <<>>
        BY <1>5, <1>8
      <3> HIDE DEF next
      <3> QED BY <3>1, HeadThenTail
    <2>2. t \in Seq(AnyToken) /\ t # <<>>
      BY <1>2
    <2> QED BY <1>5, <1>7, <1>8, <2>1, <2>2
  <1>10. next # rest /\ IsSuffix(rest, next)
    <2> HIDE DEF next, rest, t
    <2> QED BY <1>9, PrependedSuffix
  <1>11. Past' = Past /\ Marks' = Marks
    <2>1. \A i \in 1..CachedLexPos : CachedTokens'[i] = CachedTokens[i]
      BY <1>1, <1>3 DEF c, p
    <2> QED BY <1>1, <2>1, PastUnchanged
  <1> QED
    BY <1>1, <1>10, <1>11
       DEF Stream!EnterTokens, Past, Marks, IsSuffix, Stream!IsSuffix, IsPrefix,
           Stream!IsPrefix, Reverse, Stream!Reverse

LEMMA EnterTokenStreamRefines ==
  ASSUME CInv, CInv', NEW Toks \in Sources, EnterTokenStream(Toks)
  PROVE  Stream!EnterTokens \/ UNCHANGED Stream!vars
  <1>1. /\ peek = 0 /\ lexer = "current" /\ source' = Toks \o source
        /\ UNCHANGED <<CachedTokens, CachedLexPos, BacktrackPositions, answer>>
    BY DEF EnterTokenStream, Reading, Idle, InCachingLexMode
  <1>2. CachedTokens = <<>>
    BY <1>1 DEF CInv, ModesConsistent
  <1>3. CachedLexPos = Len(CachedTokens) /\ source \in Seq(AnyToken)
    BY <1>2, PositionsFitLemma DEF PositionsFit
  <1>4. Rest = source /\ Rest' = source'
    BY <1>1, <1>3, RestFacts, NextStateFacts DEF RestIsUnread
  <1>5. Past' = Past /\ Marks' = Marks
    BY <1>1 DEF Past, Marks, isBacktrackEnabled
  <1>6. Toks \in Seq(AnyToken)
    BY SourcesAssumption, SeqMonotonic DEF AnyToken
  <1>7. CASE Toks = <<>>
    <2>1. source' = source
      BY <1>1, <1>3, <1>7, ConcatEmptySeq
    <2> QED BY <1>1, <2>1, NothingShown
  <1>8. CASE Toks # <<>>
    <2>1. Rest' # Rest /\ IsSuffix(Rest, Rest')
      BY <1>1, <1>3, <1>4, <1>6, <1>8, PrependedSuffix
    <2> QED
      BY <1>1, <1>5, <2>1
         DEF Stream!EnterTokens, Past, Marks, IsSuffix, Stream!IsSuffix, IsPrefix,
             Stream!IsPrefix, Reverse, Stream!Reverse
  <1> QED
    BY <1>7, <1>8

(* The last tokens of past from the a-th cached one are replaced.          *)
LEMMA PastEndsWith ==
  ASSUME CInv, NEW d \in Seq(AnyToken), NEW a \in Nat,
         Low < a, a <= CachedLexPos, a <= Len(d), d[a] = Annot,
         \A i \in 1..a - 1 : d[i] = CachedTokens[i]
  PROVE  SubSeq(d, Low + 1, a)
           = Append(SubSeq(Past, 1, (a - Low) - 1), Annot)
  <1> DEFINE c == CachedTokens
             p == CachedLexPos
             o == Low
             b == a - 1
  <1>1. /\ o \in Nat /\ p \in Nat /\ p <= Len(c) /\ c \in Seq(AnyToken)
        /\ Len(c) \in Nat /\ Past = SubSeq(c, o + 1, p) /\ o <= p
    BY PositionsFitLemma, PastFacts DEF PositionsFit, PastIsCached
  <1>2. o < a /\ a <= p /\ \A i \in 1..b : d[i] = c[i]
    OBVIOUS
  <1> HIDE DEF c, p, o
  <1>3. /\ b \in Nat /\ o <= b /\ b + 1 = a /\ b <= Len(c) /\ b <= Len(d)
        /\ b + 1 <= Len(d) /\ b - o \in Nat /\ b - o <= p - o
        /\ (a - o) - 1 = b - o /\ o + (b - o) = b
        /\ \A i \in 1..b - o : d[o + i] = c[o + i]
    <2>1. Len(d) \in Nat
      BY LenProperties
    <2> QED BY <1>1, <1>2, <2>1
  <1> HIDE DEF b
  <1>4. SubSeq(d, o + 1, b + 1) = Append(SubSeq(d, o + 1, b), d[b + 1])
    BY <1>1, <1>3, SliceGrows
  <1>5. SubSeq(d, o + 1, b) = SubSeq(c, o + 1, b)
    <2> DEFINE t == SubSeq(d, o + 1, b)
    <2>1. /\ t \in Seq(AnyToken) /\ Len(t) = b - o
          /\ \A i \in 1..b - o : t[i] = d[o + i]
      BY <1>1, <1>3, SliceFacts
    <2> HIDE DEF t
    <2>2. \A i \in 1..b - o : t[i] = c[o + i]
      BY <1>3, <2>1
    <2>3. t = SubSeq(c, o + 1, b)
      BY <1>1, <1>3, <2>1, <2>2, SliceUnique
    <2> QED BY <2>3 DEF t
  <1>6. SubSeq(Past, 1, b - o) = SubSeq(c, o + 1, b)
    <2> DEFINE z == 0
    <2>1. z \in Nat /\ z <= b - o /\ z + 1 = 1 /\ o + z = o
      BY <1>1, <1>3
    <2> HIDE DEF z
    <2>2. SubSeq(SubSeq(c, o + 1, p), z + 1, b - o)
            = SubSeq(c, (o + z) + 1, o + (b - o))
      BY <1>1, <1>3, <2>1, SliceOfSlice
    <2> QED BY <1>1, <1>3, <2>1, <2>2
  <1> QED
    BY <1>3, <1>4, <1>5, <1>6 DEF o

LEMMA AnnotateCachedTokensRefines ==
  ASSUME CInv, CInv', NEW a \in Nat \ {0}, AnnotateCachedTokens(a)
  PROVE  Stream!AnnotateCachedTokens
  <1> DEFINE p == CachedLexPos
             n == Len(CachedTokens)
             l == Last(BacktrackPositions)
             o == Low
             d == Splice(CachedTokens, a - 1, CachedLexPos, Annot)
  <1>1. /\ BacktrackPositions # <<>> /\ l < a /\ a <= p
        /\ CachedTokens' = d /\ CachedLexPos' = a
        /\ UNCHANGED <<source, BacktrackPositions, answer>>
    BY DEF AnnotateCachedTokens, isBacktrackEnabled, Splice
  <1>2. /\ l \in Nat /\ o \in Nat /\ o <= l /\ p \in Nat /\ n \in Nat /\ p <= n
    BY <1>1, InnermostPosition, LengthFacts
  <1>3. /\ d \in Seq(AnyToken) /\ Len(d) = n - p + a
        /\ \A i \in 1..a - 1 : d[i] = CachedTokens[i]
        /\ d[a] = Annot
        /\ \A i \in a + 1..n - p + a : d[i] = CachedTokens[i + p - a]
    BY <1>1, AnnotatedFacts
  <1> HIDE DEF d, l
  <1>4. Low' = Low
    BY <1>1 DEF Low, isBacktrackEnabled
  <1>5. Past' = Append(SubSeq(Past, 1, (a - o) - 1), Annot)
    <2>1. o < a /\ a <= Len(d)
      <3> HIDE DEF o, p, n
      <3> QED BY <1>1, <1>2, <1>3
    <2>2. SubSeq(d, o + 1, a) = Append(SubSeq(Past, 1, (a - o) - 1), Annot)
      BY <1>1, <1>3, <2>1, PastEndsWith
    <2>3. Past' = SubSeq(d, o + 1, a)
      BY <1>1, <1>4, NextStateFacts DEF PastIsCached
    <2> QED BY <2>2, <2>3
  <1>6. Rest' = Rest
    <2>1. Len(CachedTokens') - CachedLexPos' = n - p
      <3> HIDE DEF n, p
      <3> QED BY <1>1, <1>2, <1>3
    <2>2. ASSUME NEW i \in 1..n - p
          PROVE  CachedTokens'[CachedLexPos' + i] = CachedTokens[p + i]
      <3> HIDE DEF n, p
      <3>1. a + i \in a + 1..n - p + a /\ (a + i) + p - a = p + i
        BY <1>2
      <3> QED BY <1>1, <1>3, <3>1
    <2> QED BY <1>1, <2>1, <2>2, RestUnchanged
  <1>7. Marks' = Marks
    BY <1>1 DEF Marks
  <1>8. /\ Marks # <<>> /\ Last(Marks) = l - o /\ Len(Past) = p - o
    <2>1. /\ Last(Marks) = Marks[Len(BacktrackPositions)]
          /\ Len(BacktrackPositions) \in 1..Len(BacktrackPositions)
          /\ l = BacktrackPositions[Len(BacktrackPositions)]
      BY <1>1, MarksFacts, InnermostPosition, LengthFacts
         DEF MarksAreOffsets, Last, l
    <2>2. Last(Marks) = l - o
      BY <2>1, MarksFacts DEF MarksAreOffsets
    <2> QED BY <1>1, <2>2, NoMarks, PastFacts DEF PastIsCached
  <1>9. a - o \in Last(Marks) + 1..Len(Past)
    <2> HIDE DEF o, p
    <2> QED BY <1>1, <1>2, <1>8
  <1> HIDE DEF o
  <1> QED
    BY <1>1, <1>5, <1>6, <1>7, <1>8, <1>9
       DEF Stream!AnnotateCachedTokens, Past, Marks, Last, Stream!Last

(* A token before the backtrack position is not shown.                     *)
LEMMA ReplaceLastTokenRefines ==
  ASSUME CInv, CInv', ReplaceLastTokenWithAnnotation
  PROVE  Stream!ReplaceLastTokenWithAnnotation \/ UNCHANGED Stream!vars
  <1> DEFINE p == CachedLexPos
             n == Len(CachedTokens)
             o == Low
             d == [CachedTokens EXCEPT ![p] = Annot]
  <1>1. /\ BacktrackPositions # <<>> /\ p # 0 /\ CachedTokens' = d
        /\ UNCHANGED <<source, CachedLexPos, BacktrackPositions, answer>>
    BY DEF ReplaceLastTokenWithAnnotation, isBacktrackEnabled, ReplaceAt
  <1>2. /\ o \in Nat /\ o <= p /\ p \in Nat /\ n \in Nat /\ p <= n
        /\ CachedTokens \in Seq(AnyToken)
    BY PositionsFitLemma DEF PositionsFit
  <1>3. /\ d \in Seq(AnyToken) /\ Len(d) = n /\ d[p] = Annot
        /\ \A i \in 1..n : i # p => d[i] = CachedTokens[i]
    <2>1. Annot \in AnyToken /\ p \in 1..n
      BY <1>1, <1>2 DEF AnyToken
    <2>2. /\ d \in Seq(AnyToken) /\ Len(d) = n
          /\ \A i \in 1..n : d[i] = IF i = p THEN Annot ELSE CachedTokens[i]
      <3> HIDE DEF p
      <3> QED BY <1>2, <2>1, ExceptSeq
    <2> HIDE DEF d
    <2> QED BY <2>1, <2>2
  <1> HIDE DEF d
  <1>4. Low' = Low /\ Marks' = Marks
    BY <1>1 DEF Low, Marks, isBacktrackEnabled
  <1>5. Rest' = Rest
    <2>1. Len(CachedTokens') - CachedLexPos' = n - p
      BY <1>1, <1>3
    <2>2. ASSUME NEW i \in 1..n - p
          PROVE  CachedTokens'[CachedLexPos' + i] = CachedTokens[p + i]
      <3>1. p + i \in 1..n /\ p + i # p
        <4> HIDE DEF n, p
        <4> QED BY <1>2
      <3> QED BY <1>1, <1>3, <3>1
    <2> QED BY <1>1, <2>1, <2>2, RestUnchanged
  <1>6. CASE o < p
    <2>1. /\ p <= Len(d) /\ p <= CachedLexPos
          /\ \A i \in 1..p - 1 : d[i] = CachedTokens[i]
      <3>1. \A i \in 1..p - 1 : i \in 1..n /\ i # p
        <4> HIDE DEF n, p
        <4> QED BY <1>2
      <3> QED BY <1>2, <1>3, <3>1
    <2>2. SubSeq(d, o + 1, p) = Append(SubSeq(Past, 1, (p - o) - 1), Annot)
      BY <1>2, <1>3, <1>6, <2>1, PastEndsWith
    <2>3. Past' = SubSeq(d, o + 1, p)
      BY <1>1, <1>4, NextStateFacts DEF PastIsCached
    <2>4. Len(Past) = p - o /\ Past # <<>>
      <3>1. Past \in Seq(AnyToken) /\ Len(Past) = p - o
        BY PastFacts DEF PastIsCached
      <3>2. p - o # 0
        <4> HIDE DEF o, p
        <4> QED BY <1>2, <1>6
      <3> HIDE DEF o, p
      <3> QED BY <3>1, <3>2, EmptySeq
    <2>5. Past' = Append(Front(Past), Annot)
      BY <2>2, <2>3, <2>4 DEF Front
    <2> QED
      BY <1>1, <1>4, <1>5, <2>4, <2>5
         DEF Stream!ReplaceLastTokenWithAnnotation, Past, Marks, Front,
             Stream!Front
  <1>7. CASE ~(o < p)
    <2>1. o = p
      <3> HIDE DEF o, p
      <3> QED BY <1>2, <1>7
    <2>2. Len(Past) = 0 /\ Len(Past') = 0
      <3>1. Len(Past) = p - o /\ Len(Past') = p - o
        BY <1>1, <1>4, PastFacts, NextStateFacts DEF PastIsCached
      <3> HIDE DEF o, p
      <3> QED BY <1>2, <2>1, <3>1
    <2>3. Past' = Past
      <3>1. Past \in Seq(AnyToken) /\ Past' \in Seq(AnyToken)
        BY PastFacts, NextStateFacts DEF PastIsCached
      <3> QED BY <2>2, <3>1, EmptySeq
    <2> QED
      BY <1>1, <1>4, <1>5, <2>3 DEF Stream!vars, Past, Marks
  <1> QED
    BY <1>6, <1>7

-----------------------------------------------------------------------------
(* Every step of the cache is a step of the stream, or none.               *)
LEMMA NextRefines ==
  ASSUME CInv, CInv', [Next]_vars
  PROVE  [Stream!Next]_(Stream!vars)
  <1>1. CASE LexCurrent
    BY <1>1, LexCurrentRefines DEF Stream!Next
  <1>2. CASE LexCached
    BY <1>2, LexCachedRefines DEF Stream!Next
  <1>3. CASE LexAndClear
    BY <1>3, LexAndClearRefines DEF Stream!Next
  <1>4. CASE LexAndCache
    BY <1>4, LexAndCacheRefines, DropEofRefines DEF Stream!Next
  <1>5. ASSUME NEW N \in 0..MaxLookAhead, LookAhead(N)
        PROVE  [Stream!Next]_(Stream!vars)
    <2>1. N \in Nat
      BY BoundsAssumption
    <2>2. CASE LookAheadCached(N)
      BY <2>1, <2>2, LookAheadCachedRefines DEF Stream!Next
    <2>3. CASE PeekAhead(N + 1)
      BY <2>3, NothingShown DEF PeekAhead
    <2> QED
      BY <1>5, <2>2, <2>3 DEF LookAhead
  <1>6. CASE PeekStep
    BY <1>6, PeekStepRefines DEF Stream!Next
  <1>7. CASE EnableBacktrackAtThisPos
    BY <1>7, EnableBacktrackRefines DEF Stream!Next
  <1>8. CASE CommitBacktrackedTokens
    BY <1>8, CommitBacktrackRefines DEF Stream!Next
  <1>9. CASE Backtrack
    BY <1>9, BacktrackRefines DEF Stream!Next
  <1>10. ASSUME NEW N \in 1..CachedLexPos, RevertCachedTokens(N)
         PROVE  [Stream!Next]_(Stream!vars)
    <2>1. N \in Nat \ {0}
      BY LengthFacts
    <2> QED BY <1>10, <2>1, RevertCachedTokensRefines DEF Stream!Next
  <1>11. ASSUME NEW Tok \in Tokens \cup {Eof}, EnterToken(Tok)
         PROVE  [Stream!Next]_(Stream!vars)
    BY <1>11, EnterTokenRefines DEF Stream!Next
  <1>12. ASSUME NEW Toks \in Sources, EnterTokenStream(Toks)
         PROVE  [Stream!Next]_(Stream!vars)
    BY <1>12, EnterTokenStreamRefines DEF Stream!Next
  <1>13. ASSUME NEW i \in 1..CachedLexPos, AnnotateCachedTokens(i)
         PROVE  [Stream!Next]_(Stream!vars)
    <2>1. i \in Nat \ {0}
      BY LengthFacts
    <2> QED BY <1>13, <2>1, AnnotateCachedTokensRefines DEF Stream!Next
  <1>14. CASE ReplaceLastTokenWithAnnotation
    BY <1>14, ReplaceLastTokenRefines DEF Stream!Next
  <1>15. CASE Terminated
    BY <1>15, NothingShown DEF Terminated, vars
  <1>16. CASE UNCHANGED vars
    BY <1>16, NothingShown DEF vars
  <1> QED
    BY <1>1, <1>2, <1>3, <1>4, <1>5, <1>6, <1>7, <1>8, <1>9, <1>10, <1>11,
       <1>12, <1>13, <1>14, <1>15, <1>16 DEF Next

(* The token cache is invisible, for every translation unit: every         *)
(* interleaving of lexing, lookahead, nested tentative parsing, pushed-back *)
(* tokens and annotations gives the client what the token stream gives it, *)
(* whose only defect is that an eof lexed in a tentative parse may be lost. *)
THEOREM ImplementsTokenStreamTheorem == Spec => ImplementsTokenStream
  <1>1. Init => CInv
    BY InitInv
  <1>2. CInv /\ [Next]_vars => CInv'
    BY NextInv
  <1>3. Init => Stream!Init
    BY InitRefines
  <1>4. CInv /\ CInv' /\ [Next]_vars => [Stream!Next]_(Stream!vars)
    BY NextRefines
  <1>5. Spec => []CInv
    BY <1>1, <1>2, PTL DEF Spec
  <1> QED
    BY <1>3, <1>4, <1>5, PTL DEF Spec, ImplementsTokenStream, Stream!Spec
============================================================================

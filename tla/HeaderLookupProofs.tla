------------------------ MODULE HeaderLookupProofs ------------------------
(***************************************************************************)
(* Proofs about HeaderLookup: the cache of header lookups is transparent,  *)
(* answers are stable, a framework is found in one search directory, and   *)
(* #include_next walks down the search path.                               *)
(***************************************************************************)
EXTENDS HeaderLookup, SequencesExt, SequenceTheorems, WellFoundedInduction,
        TLAPS

-----------------------------------------------------------------------------
(* Sequences                                                               *)

(* Front and Last of a non-empty sequence.                                 *)
LEMMA FrontLast ==
  ASSUME NEW S, NEW s \in Seq(S), s # <<>>
  PROVE  /\ Front(s) \in Seq(S)
         /\ Len(Front(s)) = Len(s) - 1
         /\ \A i \in 1..Len(s) - 1 : Front(s)[i] = s[i]
         /\ Last(s) \in S
         /\ Len(s) \in DOMAIN s
  <1>1. Len(s) \in Nat \ {0} /\ DOMAIN s = 1..Len(s)
    BY EmptySeq, LenProperties
  <1>2. \A i \in 1..Len(s) : s[i] \in S
    BY ElementOfSeq
  <1>3. DEFINE n == Len(s) - 1
  <1>4. n \in Int /\ (\A i \in 1..n : s[i] \in S) /\ (1 <= n \/ n = 0)
    BY <1>1, <1>2
  <1>5. /\ SubSeq(s, 1, n) \in Seq(S)
        /\ Len(SubSeq(s, 1, n)) = IF 1 <= n THEN n - 1 + 1 ELSE 0
        /\ \A i \in 1..n - 1 + 1 : SubSeq(s, 1, n)[i] = s[1 + i - 1]
    <2> HIDE DEF n
    <2> QED BY <1>4, SubSeqProperties
  <1>6. \A i \in 1..n : SubSeq(s, 1, n)[i] = s[i]
    BY <1>4, <1>5
  <1>7. Len(SubSeq(s, 1, n)) = n
    BY <1>4, <1>5
  <1> QED
    BY <1>1, <1>2, <1>5, <1>6, <1>7 DEF Front, Last

(* What appending one element to a sequence gives.                         *)
LEMMA AppendFacts ==
  ASSUME NEW S, NEW s \in Seq(S), NEW e \in S
  PROVE  /\ Append(s, e) \in Seq(S)
         /\ Len(Append(s, e)) = Len(s) + 1
         /\ \A i \in 1..Len(s) : Append(s, e)[i] = s[i]
         /\ Append(s, e)[Len(s) + 1] = e
  OBVIOUS

-----------------------------------------------------------------------------
(* Smallest and largest elements                                           *)

LEMMA SmallestExists ==
  ASSUME NEW S \in SUBSET Nat, S # {}
  PROVE  \E x \in S : \A y \in S : x <= y
  <1>1. \E x \in S : \A y \in S : ~ (<<y, x>> \in OpToRel(<, Nat))
    BY NatLessThanWellFounded, WFMin, Zenon
  <1>2. \A x, y \in Nat : ~ (<<y, x>> \in OpToRel(<, Nat)) => x <= y
    BY DEF OpToRel
  <1> QED
    BY <1>1, <1>2, Zenon

LEMMA MinFacts ==
  ASSUME NEW S \in SUBSET Nat, S # {}
  PROVE  Min(S) \in S /\ \A y \in S : Min(S) <= y
  BY SmallestExists DEF Min

LEMMA MaxFacts ==
  ASSUME NEW L \in Nat, NEW S \in SUBSET (0..L), S # {}
  PROVE  Max(S) \in S /\ \A y \in S : Max(S) >= y
  <1> DEFINE R == {L - k : k \in S}
  <1>a. \A k \in S : k \in 0..L /\ L - k \in Nat
    OBVIOUS
  <1>b. PICK k0 \in S : TRUE
    OBVIOUS
  <1>1. R \in SUBSET Nat /\ R # {}
    <2>1. L - k0 \in R
      BY <1>b
    <2>2. \A x \in R : x \in Nat
      BY <1>a
    <2> QED BY <2>1, <2>2
  <1>2. PICK x \in R : \A y \in R : x <= y
    BY <1>1, SmallestExists
  <1>3. L - x \in S /\ \A k \in S : L - x >= k
    <2>1. PICK k \in S : x = L - k
      BY <1>2
    <2>2. \A y \in S : x <= L - y
      BY <1>2
    <2> QED BY <1>a, <2>1, <2>2
  <1> QED
    BY <1>3 DEF Max

LEMMA MaxOfTwo ==
  ASSUME NEW a \in Characteristics, NEW b \in Characteristics
  PROVE  Max({a, b}) \in Characteristics
  <1>1. {a, b} \in SUBSET (0..2) /\ {a, b} # {}
    BY DEF Characteristics, C_User, C_System, C_ExternCSystem
  <1>2. Max({a, b}) \in {a, b}
    BY <1>1, MaxFacts, 2 \in Nat
  <1> QED
    BY <1>2

-----------------------------------------------------------------------------
(* The search as a function of the file system and the framework map, so   *)
(* that facts about it can be used before and after a step.                *)

Map == [Frameworks -> Dirs \cup Bundles \cup {Unknown}]

Has(d, F, i) == SearchDirs[i].isFramework /\ F \in d.hasFramework[i]

First(d, s, F) == Min({i \in s..NumDirs : i < NumDirs => Has(d, F, i)})

Home(d, map, F, s) == IF map[F] # Unknown THEN map[F] ELSE First(d, s, F)

Found(d, map, n, s, i) ==
  IF SearchDirs[i].isFramework
    THEN /\ FrameworkOf[n] # NoFramework
         /\ Home(d, map, FrameworkOf[n], s) = i
         /\ d.inDir[i][n] # NoFile
    ELSE d.inDir[i][n] # NoFile

Stop(d, map, n, s) ==
  Min({i \in s..NumDirs : i < NumDirs => Found(d, map, n, s, i)})

(* The map after a search.                                                 *)
Learn(d, map, n, s) ==
  IF /\ FrameworkOf[n] # NoFramework
     /\ map[FrameworkOf[n]] = Unknown
     /\ First(d, s, FrameworkOf[n]) < NumDirs
     /\ First(d, s, FrameworkOf[n]) <= Stop(d, map, n, s)
    THEN [map EXCEPT ![FrameworkOf[n]] = First(d, s, FrameworkOf[n])]
    ELSE map

(* A search from s for n met no directory of a framework still unknown.    *)
Settled(d, map, n, s) ==
  (FrameworkOf[n] # NoFramework /\ map[FrameworkOf[n]] = Unknown)
    => \A i \in s..NumDirs - 1 :
         Has(d, FrameworkOf[n], i) => i > Stop(d, map, n, s)

(* The directories of the search path in a map have their framework.       *)
Sound(d, map) ==
  \A F \in Frameworks : map[F] \in Dirs => Has(d, F, map[F])

(* A map that knows at least as much.                                      *)
Extends(map, map2) ==
  \A F \in Frameworks : map[F] # Unknown => map2[F] = map[F]

LEMMA FirstFacts ==
  ASSUME NEW d, NEW F, NEW s \in 0..NumDirs
  PROVE  /\ First(d, s, F) \in s..NumDirs
         /\ First(d, s, F) < NumDirs => Has(d, F, First(d, s, F))
         /\ \A i \in s..NumDirs - 1 : Has(d, F, i) => First(d, s, F) <= i
  <1> DEFINE S == {i \in s..NumDirs : i < NumDirs => Has(d, F, i)}
  <1>1. NumDirs \in Nat
    BY SearchPathAssumption
  <1>2. S \in SUBSET Nat /\ NumDirs \in S
    BY <1>1
  <1>3. Min(S) \in S /\ \A y \in S : Min(S) <= y
    BY <1>2, MinFacts
  <1>4. First(d, s, F) = Min(S)
    BY DEF First
  <1> HIDE DEF First
  <1> QED
    BY <1>1, <1>3, <1>4

LEMMA StopFacts ==
  ASSUME NEW d, NEW map, NEW n, NEW s \in 0..NumDirs
  PROVE  /\ Stop(d, map, n, s) \in s..NumDirs
         /\ Stop(d, map, n, s) < NumDirs
              => Found(d, map, n, s, Stop(d, map, n, s))
         /\ \A i \in s..NumDirs - 1 :
              Found(d, map, n, s, i) => Stop(d, map, n, s) <= i
  <1> DEFINE S == {i \in s..NumDirs : i < NumDirs => Found(d, map, n, s, i)}
  <1>1. NumDirs \in Nat
    BY SearchPathAssumption
  <1>2. S \in SUBSET Nat /\ NumDirs \in S
    BY <1>1
  <1>3. Min(S) \in S /\ \A y \in S : Min(S) <= y
    BY <1>2, MinFacts
  <1>4. Stop(d, map, n, s) = Min(S)
    BY DEF Stop
  <1> QED
    BY <1>1, <1>3, <1>4

(* An index with the three properties is where the search stops.           *)
LEMMA StopUnique ==
  ASSUME NEW d, NEW map, NEW n, NEW s \in 0..NumDirs, NEW k \in s..NumDirs,
         k < NumDirs => Found(d, map, n, s, k),
         \A i \in s..NumDirs - 1 : Found(d, map, n, s, i) => k <= i
  PROVE  Stop(d, map, n, s) = k
  <1>1. NumDirs \in Nat
    BY SearchPathAssumption
  <1> QED
    BY <1>1, StopFacts

(* Learning more never changes what a settled search answers.              *)
LEMMA SettledStaysSettled ==
  ASSUME NEW d \in FileSystems, NEW map \in Map, NEW map2 \in Map,
         NEW n \in Names, NEW s \in 0..NumDirs,
         Sound(d, map2), Extends(map, map2), Settled(d, map, n, s)
  PROVE  /\ Stop(d, map2, n, s) = Stop(d, map, n, s)
         /\ Settled(d, map2, n, s)
  <1> DEFINE F == FrameworkOf[n]
             k == Stop(d, map, n, s)
  <1>1. NumDirs \in Nat
    BY SearchPathAssumption
  <1>2. F \in Frameworks \cup {NoFramework}
    BY NamesAssumption
  <1>3. k \in s..NumDirs /\ (k < NumDirs => Found(d, map, n, s, k))
    BY StopFacts
  <1>4. \A i \in s..NumDirs - 1 : Found(d, map, n, s, i) => k <= i
    BY StopFacts
  <1>5. CASE F = NoFramework \/ map[F] # Unknown
    <2>1. F # NoFramework => map2[F] = map[F]
      BY <1>2, <1>5 DEF Extends
    <2>2. \A i : Found(d, map2, n, s, i) = Found(d, map, n, s, i)
      BY <1>5, <2>1 DEF Found, Home
    <2>3. Stop(d, map2, n, s) = k
      BY <1>1, <1>3, <1>4, <2>2, StopUnique
    <2> QED
      BY <1>5, <2>1, <2>3 DEF Settled
  <1>6. CASE F # NoFramework /\ map[F] = Unknown
    <2>1. F \in Frameworks
      BY <1>2, <1>6
    <2>2. \A i \in s..NumDirs - 1 : Has(d, F, i) => i > k
      BY <1>6 DEF Settled
    <2>3. First(d, s, F) \in s..NumDirs /\
          (First(d, s, F) < NumDirs => Has(d, F, First(d, s, F)))
      BY FirstFacts
    <2>4. map2[F] = Unknown \/ map2[F] \in Bundles \/ Has(d, F, map2[F])
      BY <2>1 DEF Sound, Map
    <2>5. \A i \in s..NumDirs - 1 :
            (SearchDirs[i].isFramework /\ Found(d, map2, n, s, i)) => i > k
      <3> SUFFICES ASSUME NEW i \in s..NumDirs - 1, SearchDirs[i].isFramework,
                          Found(d, map2, n, s, i)
                   PROVE  i > k
        OBVIOUS
      <3>1. Home(d, map2, F, s) = i
        BY DEF Found
      <3>2. i \in Dirs /\ i \notin Bundles /\ i < NumDirs
        BY <1>1, FilesAssumption DEF Dirs
      <3>3. Has(d, F, i)
        BY <2>3, <2>4, <3>1, <3>2 DEF Home
      <3> QED
        BY <2>2, <3>3
    <2>6. k < NumDirs => ~SearchDirs[k].isFramework
      <3> SUFFICES ASSUME k < NumDirs, SearchDirs[k].isFramework PROVE FALSE
        OBVIOUS
      <3>1. First(d, s, F) = k
        BY <1>3, <1>6 DEF Found, Home
      <3>2. Has(d, F, k)
        BY <2>3, <3>1
      <3>3. k \in s..NumDirs - 1
        BY <1>1, <1>3
      <3> HIDE DEF k
      <3> QED
        BY <1>1, <1>3, <2>2, <3>2, <3>3
    <2>7. k < NumDirs => Found(d, map2, n, s, k)
      BY <1>3, <2>6 DEF Found
    <2>8. \A i \in s..NumDirs - 1 : Found(d, map2, n, s, i) => k <= i
      <3> SUFFICES ASSUME NEW i \in s..NumDirs - 1, Found(d, map2, n, s, i)
                   PROVE  k <= i
        OBVIOUS
      <3>1. CASE SearchDirs[i].isFramework
        <4> HIDE DEF k
        <4> QED BY <1>1, <1>3, <2>5, <3>1
      <3>2. CASE ~SearchDirs[i].isFramework
        BY <1>4, <3>2 DEF Found
      <3> QED
        BY <3>1, <3>2
    <2>9. Stop(d, map2, n, s) = k
      <3> HIDE DEF k
      <3> QED BY <1>3, <2>7, <2>8, StopUnique
    <2> QED
      BY <2>2, <2>9 DEF Settled
  <1> QED
    BY <1>5, <1>6

(* What a search leaves behind: it is settled, and its answer stands.      *)
LEMMA LearnSettles ==
  ASSUME NEW d \in FileSystems, NEW map \in Map, NEW n \in Names,
         NEW s \in 0..NumDirs, Sound(d, map)
  PROVE  /\ Learn(d, map, n, s) \in Map
         /\ Sound(d, Learn(d, map, n, s))
         /\ Extends(map, Learn(d, map, n, s))
         /\ Stop(d, Learn(d, map, n, s), n, s) = Stop(d, map, n, s)
         /\ Settled(d, Learn(d, map, n, s), n, s)
  <1> DEFINE F == FrameworkOf[n]
             h == First(d, s, F)
             k == Stop(d, map, n, s)
  <1>1. NumDirs \in Nat
    BY SearchPathAssumption
  <1>2. F \in Frameworks \cup {NoFramework}
    BY NamesAssumption
  <1>3. /\ h \in s..NumDirs /\ (h < NumDirs => Has(d, F, h))
        /\ \A i \in s..NumDirs - 1 : Has(d, F, i) => h <= i
    BY FirstFacts
  <1>4. k \in s..NumDirs
    BY StopFacts
  <1>5. CASE F # NoFramework /\ map[F] = Unknown /\ h < NumDirs /\ h <= k
    <2>1. Learn(d, map, n, s) = [map EXCEPT ![F] = h]
      BY <1>5 DEF Learn
    <2>2. F \in Frameworks /\ h \in Dirs /\ h # Unknown
      BY <1>1, <1>2, <1>3, <1>5, FilesAssumption DEF Dirs
    <2> DEFINE map2 == [map EXCEPT ![F] = h]
    <2> HIDE DEF F, h, k
    <2>3. map2 \in Map /\ map2[F] = h /\ Extends(map, map2)
      BY <1>5, <2>2 DEF Map, Extends
    <2>4. Sound(d, map2)
      BY <1>3, <1>5, <2>2 DEF Sound, Map
    <2> HIDE DEF map2
    <2>5. \A i : Found(d, map2, n, s, i) = Found(d, map, n, s, i)
      BY <1>5, <2>2, <2>3 DEF Found, Home, F, h
    <2>6. Stop(d, map2, n, s) = k
      BY <2>5 DEF Stop, k
    <2>7. Settled(d, map2, n, s)
      BY <2>2, <2>3 DEF Settled, F
    <2> QED
      BY <2>1, <2>3, <2>4, <2>6, <2>7 DEF map2, k
  <1>6. CASE ~(F # NoFramework /\ map[F] = Unknown /\ h < NumDirs /\ h <= k)
    <2>1. Learn(d, map, n, s) = map
      BY <1>6 DEF Learn
    <2>2. Settled(d, map, n, s)
      <3> SUFFICES ASSUME F # NoFramework, map[F] = Unknown,
                          NEW i \in s..NumDirs - 1, Has(d, F, i)
                   PROVE  i > k
        BY DEF Settled
      <3> HIDE DEF F, h, k
      <3>1. h <= i
        BY <1>3
      <3>2. i \in Nat /\ i < NumDirs
        BY <1>1
      <3> QED
        BY <1>1, <1>3, <1>4, <1>6, <3>1, <3>2
    <2> QED
      BY <2>1, <2>2 DEF Extends
  <1> QED
    BY <1>5, <1>6

(* A settled search resumed where it stopped stops there, learning nothing. *)
LEMMA Resume ==
  ASSUME NEW d \in FileSystems, NEW map \in Map, NEW n \in Names,
         NEW s \in 0..NumDirs, Settled(d, map, n, s)
  PROVE  /\ Stop(d, map, n, Stop(d, map, n, s)) = Stop(d, map, n, s)
         /\ Learn(d, map, n, Stop(d, map, n, s)) = map
  <1> DEFINE F == FrameworkOf[n]
             k == Stop(d, map, n, s)
  <1>1. NumDirs \in Nat
    BY SearchPathAssumption
  <1>2. k \in s..NumDirs /\ (k < NumDirs => Found(d, map, n, s, k))
    BY StopFacts
  <1>3. F # NoFramework /\ map[F] = Unknown =>
          \A i \in s..NumDirs - 1 : Has(d, F, i) => i > k
    BY DEF Settled
  <1>4. /\ First(d, s, F) \in s..NumDirs
        /\ First(d, s, F) < NumDirs => Has(d, F, First(d, s, F))
    BY FirstFacts
  <1> HIDE DEF k, F
  <1>5. k \in 0..NumDirs
    BY <1>1, <1>2
  <1>6. k < NumDirs => Found(d, map, n, k, k)
    <2> SUFFICES ASSUME k < NumDirs PROVE Found(d, map, n, k, k)
      OBVIOUS
    <2>1. CASE ~SearchDirs[k].isFramework
      BY <1>2, <2>1 DEF Found
    <2>2. CASE SearchDirs[k].isFramework /\ map[F] # Unknown
      BY <1>2, <2>2 DEF Found, Home, F
    <2>3. CASE SearchDirs[k].isFramework /\ map[F] = Unknown
      <3>1. F # NoFramework /\ First(d, s, F) = k
        BY <1>2, <2>3 DEF Found, Home, F
      <3>2. Has(d, F, k) /\ k \in s..NumDirs - 1
        BY <1>1, <1>2, <1>4, <3>1
      <3>3. k > k
        BY <1>3, <2>3, <3>1, <3>2
      <3> QED
        BY <1>1, <1>5, <3>3
    <2> QED
      BY <2>1, <2>2, <2>3
  <1>7. Stop(d, map, n, k) = k
    <2>1. k \in k..NumDirs /\ \A i \in k..NumDirs - 1 : k <= i
      BY <1>1, <1>5
    <2> QED
      BY <1>5, <1>6, <2>1, StopUnique
  <1>8. Learn(d, map, n, k) = map
    <2> SUFFICES ASSUME F # NoFramework, map[F] = Unknown,
                        First(d, k, F) < NumDirs, First(d, k, F) <= k
                 PROVE  FALSE
      BY <1>7 DEF Learn, F
    <2>1. First(d, k, F) \in k..NumDirs /\ Has(d, F, First(d, k, F))
      BY <1>5, FirstFacts
    <2>2. First(d, k, F) = k
      BY <1>1, <1>5, <2>1
    <2>3. k \in s..NumDirs - 1
      BY <1>1, <1>2, <2>2
    <2>4. k > k
      BY <1>3, <2>1, <2>2, <2>3
    <2> QED
      BY <1>1, <1>5, <2>4
  <1> QED
    BY <1>7, <1>8 DEF k

-----------------------------------------------------------------------------
(* The inductive invariant                                                 *)

Answered ==
  \A n \in Names, s \in 0..NumDirs :
    answers[n][s] # NotSearched =>
      /\ answers[n][s] = Stop(fs, FrameworkMap, n, s)
      /\ Settled(fs, FrameworkMap, n, s)

Cached ==
  \A n \in Names :
    LookupFileCache[n].first # 0 =>
      answers[n][LookupFileCache[n].first - 1] = LookupFileCache[n].second

HomesKnown ==
  \A F \in Frameworks : homes[F] \cap Dirs \subseteq {FrameworkMap[F]}

LookupInv ==
  /\ TypeOK
  /\ Sound(fs, FrameworkMap)
  /\ Answered
  /\ Cached
  /\ HomesKnown
  /\ IncludeNextAdvances

LEMMA SearchIsStop ==
  ASSUME NEW n, NEW s
  PROVE  /\ SearchStop(n, s) = Stop(fs, FrameworkMap, n, s)
         /\ MapAfterSearch(n, s) = Learn(fs, FrameworkMap, n, s)
  BY DEF SearchStop, Stop, FoundIn, Found, DoFrameworkLookup, HomeOf, Home,
         FirstWithFramework, First, Has, MapAfterSearch, Learn

(* A search, helped by the cache or not, ends as the whole search would.   *)
LEMMA SearchResult ==
  ASSUME LookupInv, NEW n \in Names, NEW start \in 0..NumDirs
  PROVE  LET from == CachedStart(n, start)
             stop == SearchStop(n, from)
             map == MapAfterSearch(n, from)
         IN  /\ stop \in start..NumDirs
             /\ stop = Stop(fs, FrameworkMap, n, start)
             /\ stop < NumDirs => FoundIn(n, start, stop)
             /\ map \in Map /\ Sound(fs, map) /\ Extends(FrameworkMap, map)
             /\ stop = Stop(fs, map, n, start)
             /\ Settled(fs, map, n, start)
  <1> DEFINE from == CachedStart(n, start)
             k == Stop(fs, FrameworkMap, n, start)
  <1>1. fs \in FileSystems /\ FrameworkMap \in Map /\ Sound(fs, FrameworkMap)
    BY DEF LookupInv, TypeOK, Map
  <1>2. k \in start..NumDirs /\ (k < NumDirs => FoundIn(n, start, k))
    <2>1. k \in start..NumDirs
          /\ (k < NumDirs => Found(fs, FrameworkMap, n, start, k))
      BY StopFacts
    <2> QED
      BY <2>1 DEF FoundIn, Found, DoFrameworkLookup, HomeOf, Home,
                  FirstWithFramework, First, Has
  <1>3. CASE LookupFileCache[n].first # start + 1
    <2>1. from = start
      BY <1>3 DEF CachedStart
    <2>2. SearchStop(n, from) = k
          /\ MapAfterSearch(n, from) = Learn(fs, FrameworkMap, n, start)
      BY <2>1, SearchIsStop
    <2> QED
      BY <1>1, <1>2, <2>2, LearnSettles
  <1>4. CASE LookupFileCache[n].first = start + 1
    <2>1. start + 1 # 0 /\ (start + 1) - 1 = start
      OBVIOUS
    <2>2. answers[n][start] = LookupFileCache[n].second
      BY <1>4, <2>1 DEF LookupInv, Cached
    <2>3. LookupFileCache[n].second \in 0..NumDirs
      BY DEF LookupInv, TypeOK
    <2>4. LookupFileCache[n].second # NotSearched
      BY <2>3, SearchPathAssumption DEF NotSearched
    <2>5. k = LookupFileCache[n].second /\ Settled(fs, FrameworkMap, n, start)
      BY <2>2, <2>4 DEF LookupInv, Answered
    <2>6. from = k
      BY <1>4, <2>5 DEF CachedStart
    <2>7. SearchStop(n, from) = k /\ MapAfterSearch(n, from) = FrameworkMap
      BY <1>1, <2>5, <2>6, Resume, SearchIsStop
    <2> QED
      BY <1>1, <1>2, <2>5, <2>7 DEF Extends
  <1> QED
    BY <1>3, <1>4

-----------------------------------------------------------------------------
(* Steps                                                                   *)

LEMMA ExtendsTransitive ==
  ASSUME NEW map, NEW map2, NEW map3, Extends(map, map2), Extends(map2, map3)
  PROVE  Extends(map, map3)
  BY DEF Extends

LEMMA FileSystemFacts ==
  ASSUME TypeOK
  PROVE  fs \in FileSystems /\ fs \in FileSystem
  BY FileSystemsAssumption DEF TypeOK

LEMMA LexersFacts ==
  ASSUME TypeOK
  PROVE  /\ Lexers \in Seq(Lexer) /\ Len(Lexers) = Len(IncludeMacroStack) + 1
         /\ DOMAIN Lexers = 1..Len(Lexers) /\ Len(Lexers) \in Nat
         /\ \A k \in 1..Len(IncludeMacroStack) :
              Lexers[k] = IncludeMacroStack[k]
         /\ Lexers[Len(IncludeMacroStack) + 1] = CurPPLexer
         /\ Len(IncludeMacroStack) \in Nat
  <1>1. IncludeMacroStack \in Seq(Lexer) /\ CurPPLexer \in Lexer
    BY DEF TypeOK
  <1> QED
    BY <1>1, AppendFacts DEF Lexers

(* Subframeworks never take the place of what is recorded.                 *)
LEMMA WalkFacts ==
  ASSUME TypeOK, NEW n \in Names, NEW map \in Map, Sound(fs, map)
  PROVE  /\ MapAfterWalk(map, n) \in Map
         /\ Sound(fs, MapAfterWalk(map, n))
         /\ Extends(map, MapAfterWalk(map, n))
         /\ WalkEnd(n) # 0 => /\ WalkEnd(n) \in WalkDown
                              /\ FoundInSubframework(n, WalkEnd(n))
  <1> DEFINE met == {k \in WalkDown : k >= WalkEnd(n) /\ HasSubframework(n, k)}
             F == FrameworkOf[n]
             b == BundleAt(Max(met))
             hits == {0} \cup {k \in WalkDown : FoundInSubframework(n, k)}
  <1>1. WalkDown \subseteq 1..Len(Lexers) /\ Len(Lexers) \in Nat
    BY LexersFacts DEF WalkDown
  <1>b. 0 \in 0..Len(Lexers) /\ \A k \in WalkDown : k \in 0..Len(Lexers)
    <2> DEFINE m == Len(Lexers)
    <2> HIDE DEF m
    <2>1. \A k \in 1..m : m \in Nat => k \in 0..m
      OBVIOUS
    <2>2. m \in Nat => 0 \in 0..m
      OBVIOUS
    <2> QED BY <1>1, <2>1, <2>2 DEF m
  <1>2. WalkEnd(n) # 0 => /\ WalkEnd(n) \in WalkDown
                          /\ FoundInSubframework(n, WalkEnd(n))
    <2>1. hits \in SUBSET (0..Len(Lexers)) /\ hits # {}
      BY <1>1, <1>b
    <2>2. Max(hits) \in hits
      BY <1>1, <2>1, MaxFacts
    <2>3. WalkEnd(n) = Max(hits)
      BY DEF WalkEnd
    <2> QED
      BY <2>2, <2>3
  <1>3. CASE met # {} /\ map[F] = Unknown
    <2>1. met \in SUBSET (0..Len(Lexers))
      BY <1>b, Zenon
    <2>2. Max(met) \in met
      BY <1>1, <1>3, <2>1, MaxFacts
    <2>3. HasSubframework(n, Max(met)) /\ Max(met) \in WalkDown
      BY <2>2
    <2>4. F \in Frameworks
      BY <2>3, NamesAssumption DEF HasSubframework
    <2>5. b \in Bundles
      <3>1. b \in Bundles \cup {NoBundle}
        BY <2>3, FileSystemFacts DEF WalkDown, BundleAt, FileSystem
      <3> QED
        BY <2>3, <3>1 DEF HasSubframework
    <2>6. MapAfterWalk(map, n) = [map EXCEPT ![F] = b]
      BY <1>3 DEF MapAfterWalk
    <2> HIDE DEF b, F
    <2>7. b \notin Dirs
      BY <2>5, FilesAssumption
    <2> QED
      BY <1>2, <1>3, <2>4, <2>5, <2>6, <2>7 DEF Map, Sound, Extends
  <1>4. CASE ~(met # {} /\ map[F] = Unknown)
    <2>1. MapAfterWalk(map, n) = map
      BY <1>4 DEF MapAfterWalk
    <2> QED
      BY <1>2, <2>1 DEF Extends
  <1> QED
    BY <1>3, <1>4

(* What a search may do to the answers.                                    *)
AnswersKept ==
  \A n \in Names, s \in 0..NumDirs :
    answers[n][s] # NotSearched => answers'[n][s] = answers[n][s]

(* The part of the invariant about searches after a search.                *)
SearchState ==
  /\ LookupFileCache \in [Names -> [first : 0..NumDirs + 1,
                                    second : 0..NumDirs]]
  /\ FrameworkMap \in Map
  /\ answers \in [Names -> [0..NumDirs -> 0..NumDirs \cup {NotSearched}]]
  /\ Sound(fs, FrameworkMap)
  /\ Answered
  /\ Cached

LEMMA AfterSearch ==
  ASSUME LookupInv, NEW n \in Names, NEW start \in 0..NumDirs,
         NEW stop \in start..NumDirs, NEW map \in Map,
         Sound(fs, map), Extends(FrameworkMap, map),
         stop = Stop(fs, FrameworkMap, n, start),
         stop = Stop(fs, map, n, start), Settled(fs, map, n, start),
         CacheSearch(n, start, stop), FrameworkMap' = map, fs' = fs
  PROVE  SearchState' /\ AnswersKept
  <1>1. /\ fs \in FileSystems /\ FrameworkMap \in Map
        /\ answers \in [Names -> [0..NumDirs -> 0..NumDirs \cup {NotSearched}]]
        /\ LookupFileCache \in [Names -> [first : 0..NumDirs + 1,
                                         second : 0..NumDirs]]
    BY DEF LookupInv, TypeOK, Map
  <1>2. NumDirs \in Nat /\ stop \in 0..NumDirs /\ start + 1 \in 0..NumDirs + 1
    BY SearchPathAssumption
  <1>3. answers' = [answers EXCEPT ![n] = [answers[n] EXCEPT ![start] = stop]]
    BY DEF CacheSearch
  <1>4. /\ answers' \in [Names -> [0..NumDirs -> 0..NumDirs \cup {NotSearched}]]
        /\ answers'[n][start] = stop
        /\ \A m \in Names, s \in 0..NumDirs :
             (m # n \/ s # start) => answers'[m][s] = answers[m][s]
    BY <1>1, <1>2, <1>3
  <1>5. /\ LookupFileCache' \in [Names -> [first : 0..NumDirs + 1,
                                          second : 0..NumDirs]]
        /\ LookupFileCache'[n].first = start + 1
        /\ LookupFileCache'[n].second = stop
        /\ \A m \in Names : m # n => LookupFileCache'[m] = LookupFileCache[m]
    BY <1>1, <1>2 DEF CacheSearch
  <1>6. Answered'
    <2> SUFFICES ASSUME NEW m \in Names, NEW s \in 0..NumDirs,
                        answers'[m][s] # NotSearched
                 PROVE  /\ answers'[m][s] = Stop(fs, map, m, s)
                        /\ Settled(fs, map, m, s)
      BY DEF Answered
    <2>1. CASE m = n /\ s = start
      BY <1>4, <2>1
    <2>2. CASE m # n \/ s # start
      <3>1. answers[m][s] = Stop(fs, FrameworkMap, m, s)
            /\ Settled(fs, FrameworkMap, m, s)
        BY <1>4, <2>2 DEF LookupInv, Answered
      <3>2. Stop(fs, map, m, s) = Stop(fs, FrameworkMap, m, s)
            /\ Settled(fs, map, m, s)
        BY <1>1, <3>1, SettledStaysSettled
      <3> QED
        BY <1>4, <2>2, <3>1, <3>2
    <2> QED
      BY <2>1, <2>2
  <1>7. AnswersKept
    <2> SUFFICES ASSUME NEW m \in Names, NEW s \in 0..NumDirs,
                        answers[m][s] # NotSearched
                 PROVE  answers'[m][s] = answers[m][s]
      BY DEF AnswersKept
    <2>1. answers[m][s] = Stop(fs, FrameworkMap, m, s)
      BY DEF LookupInv, Answered
    <2> QED
      BY <1>4, <2>1
  <1>8. Cached'
    <2> SUFFICES ASSUME NEW m \in Names, LookupFileCache'[m].first # 0
                 PROVE  answers'[m][LookupFileCache'[m].first - 1]
                          = LookupFileCache'[m].second
      BY DEF Cached
    <2>1. CASE m = n
      BY <1>4, <1>5, <2>1
    <2>2. CASE m # n
      <3> DEFINE s == LookupFileCache[m].first - 1
      <3>1. s \in 0..NumDirs
        <4>1. LookupFileCache[m].first \in 0..NumDirs + 1
          BY <1>1
        <4>2. LookupFileCache[m].first # 0
          BY <1>5, <2>2
        <4> QED BY <1>2, <4>1, <4>2
      <3>2. answers[m][s] = LookupFileCache[m].second
        BY <1>5, <2>2 DEF LookupInv, Cached
      <3> QED
        BY <1>4, <1>5, <2>2, <3>1, <3>2
    <2> QED
      BY <2>1, <2>2
  <1> QED
    BY <1>4, <1>5, <1>6, <1>7, <1>8 DEF SearchState

LEMMA AfterEnter ==
  ASSUME LookupInv, NEW f \in Files, NEW CurDir \in Dirs \cup {NoDir},
         NEW FromDir, NEW enter \in BOOLEAN,
         DirInfo' \in [Files -> Characteristics],
         FromDir # NoDir /\ CurDir # NoDir
           => CurDir > CurPPLexer.CurDirLookup,
         EnterFile(f, CurDir, FromDir, enter)
  PROVE  /\ CurPPLexer' \in Lexer
         /\ IncludeMacroStack' \in Seq(Lexer)
         /\ IncludeNextAdvances'
  <1> DEFINE lx == [file |-> f, CurDirLookup |-> CurDir,
                    FileCharacter |->
                      Max({DirInfo'[f], CurPPLexer.FileCharacter}),
                    next |-> FromDir # NoDir, marked |-> FALSE]
             L == Len(IncludeMacroStack)
  <1>1. TypeOK /\ IncludeNextAdvances
    BY DEF LookupInv
  <1>2. CASE ~enter
    BY <1>1, <1>2 DEF EnterFile, TypeOK, IncludeNextAdvances, Lexers
  <1>3. CASE enter
    <2>1. IncludeMacroStack' = Lexers /\ CurPPLexer' = lx
      BY <1>3 DEF EnterFile
    <2>2. lx \in Lexer
      <3>1. CurPPLexer.FileCharacter \in Characteristics
        BY <1>1 DEF TypeOK, Lexer
      <3>2. DirInfo'[f] \in Characteristics
        OBVIOUS
      <3>3. Max({DirInfo'[f], CurPPLexer.FileCharacter}) \in Characteristics
        BY <3>1, <3>2, MaxOfTwo
      <3> QED
        BY <3>3 DEF Lexer
    <2> DEFINE ls == Append(Lexers, lx)
    <2>3. /\ L \in Nat /\ Lexers \in Seq(Lexer) /\ Len(Lexers) = L + 1
          /\ Lexers[L + 1] = CurPPLexer
      BY <1>1, LexersFacts
    <2>4. \A k \in 1..L + 1 : ls[k] = Lexers[k]
      BY <2>2, <2>3, AppendFacts
    <2>5. ls[L + 2] = lx
      BY <2>2, <2>3, AppendFacts
    <2>6. \A k \in 1..L :
            Lexers[k + 1].next /\ Lexers[k + 1].CurDirLookup # NoDir
              => Lexers[k + 1].CurDirLookup > Lexers[k].CurDirLookup
      BY <1>1 DEF IncludeNextAdvances
    <2>7. lx.next /\ lx.CurDirLookup # NoDir
            => lx.CurDirLookup > CurPPLexer.CurDirLookup
      OBVIOUS
    <2>8. Lexers' = ls /\ Len(IncludeMacroStack') = L + 1
      BY <2>1, <2>3 DEF Lexers
    <2> HIDE DEF ls, lx
    <2>9. IncludeNextAdvances'
      <3> SUFFICES ASSUME NEW k \in 1..L + 1
                   PROVE  ls[k + 1].next /\ ls[k + 1].CurDirLookup # NoDir
                            => ls[k + 1].CurDirLookup > ls[k].CurDirLookup
        BY <2>8 DEF IncludeNextAdvances
      <3>1. CASE k = L + 1
        <4>1. ls[k + 1] = lx /\ ls[k] = CurPPLexer
          BY <2>3, <2>4, <2>5, <3>1
        <4> QED BY <2>7, <4>1
      <3>2. CASE k # L + 1
        <4>1. k \in 1..L /\ ls[k + 1] = Lexers[k + 1] /\ ls[k] = Lexers[k]
          BY <2>3, <2>4, <3>2
        <4> QED BY <2>6, <4>1
      <3> QED
        BY <3>1, <3>2
    <2> QED
      BY <2>1, <2>2, <2>3, <2>9
  <1> QED
    BY <1>2, <1>3

(* The context in which a lookup is made.                                  *)
Request(n, angled, FromDir, enter) ==
  /\ n \in Names /\ angled \in BOOLEAN /\ enter \in BOOLEAN
  /\ FromDir # NoDir => /\ FromDir = CurPPLexer.CurDirLookup + 1
                        /\ FromDir \in 1..NumDirs

LEMMA StartFacts ==
  ASSUME TypeOK, NEW n, NEW angled, NEW FromDir, NEW enter,
         Request(n, angled, FromDir, enter)
  PROVE  /\ StartOf(angled, FromDir) \in 0..NumDirs
         /\ FromDir # NoDir =>
              StartOf(angled, FromDir) = CurPPLexer.CurDirLookup + 1
  BY SearchPathAssumption DEF StartOf, Request

LEMMA CurFileEntFacts ==
  ASSUME TypeOK
  PROVE  CurFileEnt \in Files
  BY FilesAssumption DEF TypeOK, Lexer, CurFileEnt

(* What remains to be shown of a step that does not search.                *)
LEMMA NoSearch ==
  ASSUME LookupInv,
         UNCHANGED <<fs, LookupFileCache, FrameworkMap, answers, homes>>,
         DirInfo' \in [Files -> Characteristics],
         eof' \in BOOLEAN,
         CurPPLexer' \in Lexer,
         IncludeMacroStack' \in Seq(Lexer),
         IncludeNextAdvances'
  PROVE  LookupInv' /\ AnswersKept
  BY DEF LookupInv, TypeOK, Sound, Answered, Cached, HomesKnown, AnswersKept

LEMMA FindAbsoluteStep ==
  ASSUME LookupInv, NEW n, NEW angled, NEW FromDir, NEW enter,
         Request(n, angled, FromDir, enter), UNCHANGED <<fs, eof>>,
         FindAbsolute(n, FromDir, enter)
  PROVE  LookupInv' /\ AnswersKept
  <1>1. TypeOK /\ n \in Names /\ enter \in BOOLEAN
    BY DEF LookupInv, Request
  <1>2. fs.absolute[n] \in Files
    BY <1>1, FileSystemFacts DEF FileSystem, FileOrNone, FindAbsolute
  <1>3. DirInfo' \in [Files -> Characteristics] /\ eof' \in BOOLEAN
    BY <1>1 DEF FindAbsolute, TypeOK
  <1>4. /\ EnterFile(fs.absolute[n], NoDir, FromDir, enter)
        /\ UNCHANGED <<LookupFileCache, FrameworkMap, answers, homes>>
    BY DEF FindAbsolute
  <1>5. /\ CurPPLexer' \in Lexer /\ IncludeMacroStack' \in Seq(Lexer)
        /\ IncludeNextAdvances'
    BY <1>1, <1>2, <1>3, <1>4, AfterEnter
  <1> QED
    BY <1>3, <1>4, <1>5, NoSearch

LEMMA FindBesideStep ==
  ASSUME LookupInv, NEW n, NEW angled, NEW FromDir, NEW enter,
         Request(n, angled, FromDir, enter), UNCHANGED <<fs, eof>>,
         FindBeside(n, angled, FromDir, enter)
  PROVE  LookupInv' /\ AnswersKept
  <1> DEFINE f == fs.beside[CurFileEnt][n]
  <1>1. TypeOK /\ n \in Names /\ enter \in BOOLEAN
    BY DEF LookupInv, Request
  <1>2. f \in Files /\ FromDir = NoDir
    BY <1>1, FileSystemFacts, CurFileEntFacts
       DEF FileSystem, FileOrNone, FindBeside, LiesBeside
  <1>3. DirInfo' \in [Files -> Characteristics] /\ eof' \in BOOLEAN
    BY <1>1, <1>2, CurFileEntFacts DEF FindBeside, TypeOK
  <1>4. /\ EnterFile(f, CurPPLexer.CurDirLookup, FromDir, enter)
        /\ UNCHANGED <<LookupFileCache, FrameworkMap, answers, homes>>
    BY DEF FindBeside
  <1>5. CurPPLexer.CurDirLookup \in Dirs \cup {NoDir}
    BY <1>1 DEF TypeOK, Lexer
  <1> HIDE DEF f
  <1>6. /\ CurPPLexer' \in Lexer /\ IncludeMacroStack' \in Seq(Lexer)
        /\ IncludeNextAdvances'
    BY <1>1, <1>2, <1>3, <1>4, <1>5, AfterEnter
  <1> QED
    BY <1>3, <1>4, <1>6, NoSearch

(* A header of a framework found by a search is recorded as found there.   *)
LEMMA SearchHome ==
  ASSUME NEW d, NEW map, NEW n \in Names, NEW start \in 0..NumDirs,
         Settled(d, map, n, start),
         Stop(d, map, n, start) < NumDirs,
         SearchDirs[Stop(d, map, n, start)].isFramework
  PROVE  /\ FrameworkOf[n] \in Frameworks
         /\ map[FrameworkOf[n]] = Stop(d, map, n, start)
  <1> DEFINE k == Stop(d, map, n, start)
             F == FrameworkOf[n]
  <1>1. NumDirs \in Nat
    BY SearchPathAssumption
  <1>2. k \in start..NumDirs /\ Found(d, map, n, start, k)
    BY StopFacts
  <1>3. F # NoFramework /\ Home(d, map, F, start) = k
    BY <1>2 DEF Found
  <1>4. First(d, start, F) < NumDirs => Has(d, F, First(d, start, F))
    BY FirstFacts
  <1>5. map[F] # Unknown
    <2> SUFFICES ASSUME map[F] = Unknown PROVE FALSE
      OBVIOUS
    <2>1. Has(d, F, k)
      BY <1>3, <1>4 DEF Home
    <2>2. k \in start..NumDirs - 1
      BY <1>1, <1>2
    <2>3. k > k
      BY <1>3, <2>1, <2>2 DEF Settled
    <2> HIDE DEF k
    <2> QED
      BY <1>1, <1>2, <2>3
  <1>6. F \in Frameworks
    BY <1>3, NamesAssumption
  <1> QED
    BY <1>3, <1>5, <1>6 DEF Home

LEMMA FindInSearchDirsStep ==
  ASSUME LookupInv, NEW n, NEW angled, NEW FromDir, NEW enter,
         Request(n, angled, FromDir, enter), UNCHANGED <<fs, eof>>,
         FindInSearchDirs(n, angled, FromDir, enter)
  PROVE  LookupInv' /\ AnswersKept
  <1> DEFINE start == StartOf(angled, FromDir)
             from == CachedStart(n, start)
             stop == SearchStop(n, from)
             map == MapAfterSearch(n, from)
             f == fs.inDir[stop][n]
  <1>1. TypeOK /\ n \in Names /\ enter \in BOOLEAN /\ NumDirs \in Nat
    BY SearchPathAssumption DEF LookupInv, Request
  <1>2. start \in 0..NumDirs
        /\ (FromDir # NoDir => start = CurPPLexer.CurDirLookup + 1)
    BY <1>1, StartFacts
  <1>3. /\ stop \in start..NumDirs
        /\ stop = Stop(fs, FrameworkMap, n, start)
        /\ stop < NumDirs => FoundIn(n, start, stop)
        /\ map \in Map /\ Sound(fs, map) /\ Extends(FrameworkMap, map)
        /\ stop = Stop(fs, map, n, start)
        /\ Settled(fs, map, n, start)
    BY <1>1, <1>2, SearchResult
  <1>4. /\ stop # NumDirs
        /\ CacheSearch(n, start, stop)
        /\ FrameworkMap' = map
        /\ DirInfo' = [DirInfo EXCEPT ![f] = SearchDirs[stop].DirCharacteristic]
        /\ homes' = IF SearchDirs[stop].isFramework
                      THEN [homes EXCEPT ![FrameworkOf[n]] = @ \cup {stop}]
                      ELSE homes
        /\ EnterFile(f, stop, FromDir, enter)
    BY DEF FindInSearchDirs
  <1> HIDE DEF start, from, stop, map
  <1>5. SearchState' /\ AnswersKept
    BY <1>1, <1>2, <1>3, <1>4, AfterSearch
  <1>6. stop \in Dirs /\ stop < NumDirs
    BY <1>1, <1>2, <1>3, <1>4 DEF Dirs
  <1>7. f \in Files
    <2>1. f # NoFile
      BY <1>3, <1>6 DEF FoundIn, DoFrameworkLookup
    <2> QED
      BY <1>1, <1>6, <2>1, FileSystemFacts DEF FileSystem, FileOrNone
  <1>8. DirInfo' \in [Files -> Characteristics]
    <2>1. SearchDirs[stop].DirCharacteristic \in Characteristics
      BY <1>6, SearchPathAssumption
    <2> QED
      BY <1>1, <1>4, <1>7, <2>1 DEF TypeOK
  <1> HIDE DEF f
  <1>9. /\ CurPPLexer' \in Lexer /\ IncludeMacroStack' \in Seq(Lexer)
        /\ IncludeNextAdvances'
    <2>1. CurPPLexer.CurDirLookup \in Int
      BY <1>1 DEF TypeOK, Lexer, Dirs, NoDir
    <2>2. FromDir # NoDir => stop > CurPPLexer.CurDirLookup
      BY <1>1, <1>2, <1>3, <2>1
    <2> QED
      BY <1>1, <1>4, <1>6, <1>7, <1>8, <2>2, AfterEnter
  <1>10. homes' \in [Frameworks -> SUBSET (Dirs \cup Bundles)] /\ HomesKnown'
    <2>1. /\ homes \in [Frameworks -> SUBSET (Dirs \cup Bundles)]
          /\ \A F \in Frameworks : homes[F] \cap Dirs \subseteq {FrameworkMap[F]}
      BY DEF LookupInv, TypeOK, HomesKnown
    <2>2. Unknown \notin Dirs
      BY FilesAssumption
    <2>3. \A F \in Frameworks : homes[F] \cap Dirs \subseteq {map[F]}
      BY <1>3, <2>1, <2>2 DEF Extends
    <2>4. CASE ~SearchDirs[stop].isFramework
      BY <1>4, <2>1, <2>3, <2>4 DEF HomesKnown
    <2>5. CASE SearchDirs[stop].isFramework
      <3> DEFINE G == FrameworkOf[n]
      <3>1. G \in Frameworks /\ map[G] = stop
        BY <1>1, <1>2, <1>3, <1>6, <2>5, SearchHome
      <3> HIDE DEF G
      <3>2. homes' = [homes EXCEPT ![G] = homes[G] \cup {stop}]
        BY <1>4, <2>5 DEF G
      <3>3. homes' \in [Frameworks -> SUBSET (Dirs \cup Bundles)]
        <4>1. homes[G] \cup {stop} \in SUBSET (Dirs \cup Bundles)
          BY <1>6, <2>1, <3>1
        <4> QED
          BY <2>1, <3>1, <3>2, <4>1
      <3>4. \A F \in Frameworks :
              homes'[F] = IF F = G THEN homes[G] \cup {stop} ELSE homes[F]
        BY <2>1, <3>1, <3>2
      <3>5. \A F \in Frameworks : homes'[F] \cap Dirs \subseteq {map[F]}
        BY <2>3, <3>1, <3>4
      <3> QED
        BY <1>4, <3>3, <3>5 DEF HomesKnown
    <2> QED
      BY <2>4, <2>5
  <1> QED
    BY <1>1, <1>5, <1>8, <1>9, <1>10
       DEF LookupInv, TypeOK, SearchState, Map

(* The search path has no such file: what both ways to go on have done.    *)
LEMMA MissStep ==
  ASSUME LookupInv, NEW n, NEW angled, NEW FromDir, NEW enter,
         Request(n, angled, FromDir, enter), UNCHANGED <<fs, eof>>,
         MissInSearchDirs(n, angled, FromDir)
  PROVE  /\ SearchState' /\ AnswersKept
         /\ Extends(FrameworkMap, FrameworkMap')
         /\ WalkEnd(n) # 0 => /\ WalkEnd(n) \in WalkDown
                              /\ FoundInSubframework(n, WalkEnd(n))
  <1> DEFINE start == StartOf(angled, FromDir)
             from == CachedStart(n, start)
             stop == SearchStop(n, from)
             map == MapAfterSearch(n, from)
             map2 == MapAfterWalk(map, n)
  <1>1. TypeOK /\ n \in Names /\ fs \in FileSystems
    BY DEF LookupInv, Request, TypeOK
  <1>2. start \in 0..NumDirs
    BY <1>1, StartFacts
  <1>3. /\ stop \in start..NumDirs
        /\ stop = Stop(fs, FrameworkMap, n, start)
        /\ map \in Map /\ Sound(fs, map) /\ Extends(FrameworkMap, map)
        /\ stop = Stop(fs, map, n, start)
        /\ Settled(fs, map, n, start)
    BY <1>1, <1>2, SearchResult
  <1>4. /\ stop = NumDirs /\ CacheSearch(n, start, NumDirs)
        /\ FrameworkMap' = map2
    BY DEF MissInSearchDirs
  <1> HIDE DEF start, from, stop, map
  <1>5. /\ map2 \in Map /\ Sound(fs, map2) /\ Extends(map, map2)
        /\ WalkEnd(n) # 0 => /\ WalkEnd(n) \in WalkDown
                             /\ FoundInSubframework(n, WalkEnd(n))
    BY <1>1, <1>3, WalkFacts
  <1> HIDE DEF map2
  <1>6. Extends(FrameworkMap, map2)
    BY <1>3, <1>5, ExtendsTransitive
  <1>7. stop = Stop(fs, map2, n, start) /\ Settled(fs, map2, n, start)
    BY <1>1, <1>2, <1>3, <1>5, SettledStaysSettled
  <1>8. SearchState' /\ AnswersKept
    BY <1>1, <1>2, <1>3, <1>4, <1>5, <1>6, <1>7, AfterSearch
  <1> QED
    BY <1>4, <1>5, <1>6, <1>8

(* Bundles are no search directories, and what is recorded stays.          *)
LEMMA HomesStay ==
  ASSUME LookupInv, Extends(FrameworkMap, FrameworkMap')
  PROVE  \A F \in Frameworks : homes[F] \cap Dirs \subseteq {FrameworkMap'[F]}
  BY FilesAssumption DEF LookupInv, HomesKnown, Extends

LEMMA FindInSubframeworkStep ==
  ASSUME LookupInv, NEW n, NEW angled, NEW FromDir, NEW enter,
         Request(n, angled, FromDir, enter), UNCHANGED <<fs, eof>>,
         FindInSubframework(n, angled, FromDir, enter)
  PROVE  LookupInv' /\ AnswersKept
  <1> DEFINE k == WalkEnd(n)
             b == BundleAt(k)
             f == fs.inSub[b][n]
             G == FrameworkOf[n]
  <1>1. TypeOK /\ n \in Names /\ enter \in BOOLEAN
    BY DEF LookupInv, Request
  <1>2. /\ MissInSearchDirs(n, angled, FromDir) /\ k # 0
        /\ DirInfo' = [DirInfo EXCEPT ![f] = DirInfo[Lexers[k].file]]
        /\ homes' = [homes EXCEPT ![G] = homes[G] \cup {b}]
        /\ EnterFile(f, NoDir, FromDir, enter)
    BY DEF FindInSubframework
  <1>3. /\ SearchState' /\ AnswersKept
        /\ Extends(FrameworkMap, FrameworkMap')
        /\ k \in WalkDown /\ FoundInSubframework(n, k)
    BY <1>2, MissStep
  <1> HIDE DEF k
  <1>4. b \in Bundles /\ f \in Files /\ G \in Frameworks
    <2>1. b \in Bundles
      BY <1>1, <1>3, FileSystemFacts
         DEF WalkDown, BundleAt, FileSystem, FoundInSubframework, HasSubframework
    <2>2. f \in FileOrNone /\ f # NoFile
      BY <1>1, <1>3, <2>1, FileSystemFacts DEF FileSystem, FoundInSubframework
    <2>3. G \in Frameworks
      BY <1>1, <1>3, NamesAssumption DEF FoundInSubframework, HasSubframework
    <2> QED
      BY <2>1, <2>2, <2>3 DEF FileOrNone
  <1> HIDE DEF f, b, G
  <1>5. DirInfo' \in [Files -> Characteristics]
    BY <1>1, <1>2, <1>3, <1>4 DEF TypeOK, WalkDown
  <1>6. /\ CurPPLexer' \in Lexer /\ IncludeMacroStack' \in Seq(Lexer)
        /\ IncludeNextAdvances'
    BY <1>1, <1>2, <1>4, <1>5, AfterEnter
  <1>7. homes' \in [Frameworks -> SUBSET (Dirs \cup Bundles)] /\ HomesKnown'
    <2>1. homes \in [Frameworks -> SUBSET (Dirs \cup Bundles)]
      BY <1>1 DEF TypeOK
    <2>2. homes[G] \cup {b} \in SUBSET (Dirs \cup Bundles)
      BY <1>4, <2>1
    <2>3. homes' \in [Frameworks -> SUBSET (Dirs \cup Bundles)]
      BY <1>2, <1>4, <2>1, <2>2
    <2>4. \A F \in Frameworks :
            homes'[F] = IF F = G THEN homes[G] \cup {b} ELSE homes[F]
      BY <1>2, <1>4, <2>1
    <2>5. b \notin Dirs
      BY <1>4, FilesAssumption
    <2>6. \A F \in Frameworks : homes'[F] \cap Dirs \subseteq {FrameworkMap'[F]}
      BY <1>3, <1>4, <2>4, <2>5, HomesStay
    <2> QED
      BY <2>3, <2>6 DEF HomesKnown
  <1> QED
    BY <1>1, <1>3, <1>5, <1>6, <1>7
       DEF LookupInv, TypeOK, SearchState, Map

LEMMA FindNowhereStep ==
  ASSUME LookupInv, NEW n, NEW angled, NEW FromDir, NEW enter,
         Request(n, angled, FromDir, enter), UNCHANGED <<fs, eof>>,
         FindNowhere(n, angled, FromDir)
  PROVE  LookupInv' /\ AnswersKept
  <1>1. /\ MissInSearchDirs(n, angled, FromDir)
        /\ UNCHANGED <<CurPPLexer, IncludeMacroStack, DirInfo, homes>>
    BY DEF FindNowhere
  <1>2. SearchState' /\ AnswersKept /\ Extends(FrameworkMap, FrameworkMap')
    BY <1>1, MissStep
  <1>3. HomesKnown'
    BY <1>1, <1>2, HomesStay DEF HomesKnown
  <1>4. IncludeNextAdvances'
    BY <1>1 DEF LookupInv, IncludeNextAdvances, Lexers
  <1> QED
    BY <1>1, <1>2, <1>3, <1>4 DEF LookupInv, TypeOK, SearchState, Map

LEMMA LookupFileStep ==
  ASSUME LookupInv, NEW n, NEW angled, NEW FromDir, NEW enter,
         Request(n, angled, FromDir, enter),
         LookupFile(n, angled, FromDir, enter)
  PROVE  LookupInv' /\ AnswersKept
  <1>1. UNCHANGED <<fs, eof>>
    BY DEF LookupFile
  <1>2. CASE FindAbsolute(n, FromDir, enter)
    BY <1>1, <1>2, FindAbsoluteStep
  <1>3. CASE FindBeside(n, angled, FromDir, enter)
    BY <1>1, <1>3, FindBesideStep
  <1>4. CASE FindInSearchDirs(n, angled, FromDir, enter)
    BY <1>1, <1>4, FindInSearchDirsStep
  <1>5. CASE FindInSubframework(n, angled, FromDir, enter)
    BY <1>1, <1>5, FindInSubframeworkStep
  <1>6. CASE FindNowhere(n, angled, FromDir)
    BY <1>1, <1>6, FindNowhereStep
  <1> QED
    BY <1>2, <1>3, <1>4, <1>5, <1>6 DEF LookupFile

LEMMA PragmaSystemHeaderStep ==
  ASSUME LookupInv, HandlePragmaSystemHeader
  PROVE  LookupInv' /\ AnswersKept
  <1> DEFINE lx == [CurPPLexer EXCEPT !.marked = TRUE]
             L == Len(IncludeMacroStack)
  <1>1. TypeOK /\ IncludeNextAdvances
    BY DEF LookupInv
  <1>2. /\ CurPPLexer' = lx /\ CurPPLexer.file \in Files
        /\ DirInfo' = [DirInfo EXCEPT ![CurPPLexer.file] = C_System]
        /\ UNCHANGED <<fs, IncludeMacroStack, LookupFileCache, FrameworkMap,
                       eof, answers, homes>>
    BY DEF HandlePragmaSystemHeader, InAFile
  <1>3. lx \in Lexer /\ lx.next = CurPPLexer.next
        /\ lx.CurDirLookup = CurPPLexer.CurDirLookup
    BY <1>1 DEF TypeOK, Lexer
  <1>4. DirInfo' \in [Files -> Characteristics]
    BY <1>1, <1>2 DEF TypeOK, Characteristics
  <1> HIDE DEF lx
  <1>5. IncludeNextAdvances'
    <2>1. TypeOK' /\ Len(IncludeMacroStack') = L
      BY <1>1, <1>2, <1>3, <1>4 DEF TypeOK
    <2>2. /\ L \in Nat /\ Lexers[L + 1] = CurPPLexer
          /\ \A k \in 1..L : Lexers[k] = IncludeMacroStack[k]
      BY <1>1, LexersFacts
    <2>3. /\ Lexers'[L + 1] = lx
          /\ \A k \in 1..L : Lexers'[k] = IncludeMacroStack[k]
      BY <1>1, <1>2, <1>3, AppendFacts DEF Lexers, TypeOK
    <2>4. \A k \in 1..L + 1 : /\ Lexers'[k].next = Lexers[k].next
                              /\ Lexers'[k].CurDirLookup
                                   = Lexers[k].CurDirLookup
      BY <1>3, <2>2, <2>3
    <2> QED
      BY <1>1, <2>1, <2>2, <2>4 DEF IncludeNextAdvances
  <1> QED
    BY <1>1, <1>2, <1>3, <1>4, <1>5, NoSearch DEF TypeOK

LEMMA EndOfFileStep ==
  ASSUME LookupInv, HandleEndOfFile
  PROVE  LookupInv' /\ AnswersKept
  <1> DEFINE L == Len(IncludeMacroStack)
  <1>1. TypeOK /\ IncludeNextAdvances
    BY DEF LookupInv
  <1>2. UNCHANGED <<fs, LookupFileCache, FrameworkMap, DirInfo, answers, homes>>
    BY DEF HandleEndOfFile
  <1>3. CASE isInPrimaryFile
    <2>1. eof' = TRUE /\ UNCHANGED <<CurPPLexer, IncludeMacroStack>>
      BY <1>3 DEF HandleEndOfFile
    <2>2. IncludeNextAdvances'
      BY <1>1, <2>1 DEF IncludeNextAdvances, Lexers
    <2> QED
      BY <1>1, <1>2, <2>1, <2>2, NoSearch DEF TypeOK
  <1>4. CASE ~isInPrimaryFile
    <2>1. /\ CurPPLexer' = Last(IncludeMacroStack)
          /\ IncludeMacroStack' = Front(IncludeMacroStack)
          /\ eof' = eof
      BY <1>4 DEF HandleEndOfFile, Front, Last
    <2>2. /\ IncludeMacroStack \in Seq(Lexer) /\ IncludeMacroStack # <<>>
      BY <1>1, <1>4 DEF TypeOK, isInPrimaryFile
    <2>3. /\ IncludeMacroStack' \in Seq(Lexer) /\ CurPPLexer' \in Lexer
          /\ Len(IncludeMacroStack') = L - 1 /\ L \in Nat \ {0}
          /\ \A k \in 1..L - 1 : IncludeMacroStack'[k] = IncludeMacroStack[k]
          /\ CurPPLexer' = IncludeMacroStack[L]
      <3>1. L \in Nat \ {0}
        BY <2>2, EmptySeq, LenProperties
      <3> QED
        BY <2>1, <2>2, <3>1, FrontLast DEF Last
    <2>4. /\ Lexers'[L] = CurPPLexer'
          /\ \A k \in 1..L - 1 : Lexers'[k] = IncludeMacroStack'[k]
      <3> DEFINE st == IncludeMacroStack'
                 cu == CurPPLexer'
      <3>1. st \in Seq(Lexer) /\ cu \in Lexer /\ Len(st) = L - 1
        BY <2>3
      <3>2. Lexers' = Append(st, cu)
        BY DEF Lexers
      <3> HIDE DEF st, cu
      <3>3. /\ Append(st, cu)[Len(st) + 1] = cu
            /\ \A k \in 1..Len(st) : Append(st, cu)[k] = st[k]
        BY <3>1, AppendFacts
      <3>4. Len(st) + 1 = L
        BY <2>3, <3>1
      <3> QED
        BY <3>1, <3>2, <3>3, <3>4 DEF st, cu
    <2>5. \A k \in 1..L : Lexers[k] = IncludeMacroStack[k]
      BY <1>1, LexersFacts
    <2>6. \A k \in 1..L : Lexers'[k] = Lexers[k]
      BY <2>3, <2>4, <2>5
    <2>7. IncludeNextAdvances'
      BY <1>1, <2>3, <2>6 DEF IncludeNextAdvances
    <2> QED
      BY <1>1, <1>2, <2>1, <2>3, <2>7, NoSearch DEF TypeOK
  <1> QED
    BY <1>3, <1>4

-----------------------------------------------------------------------------
(* Theorems                                                                *)

LEMMA InitLookupInv == Init => LookupInv
  <1> SUFFICES ASSUME Init PROVE LookupInv
    OBVIOUS
  <1> DEFINE main == NewLexer(MainFile)
             pre == NewLexer(Predefines)
  <1>1. main \in Lexer /\ pre \in Lexer /\ pre.next = FALSE
    BY FilesAssumption DEF NewLexer, Lexer, Characteristics
  <1>2. NumDirs \in Nat
    BY SearchPathAssumption
  <1>3. TypeOK
    <2>1. IncludeMacroStack \in Seq(Lexer)
      BY <1>1 DEF Init
    <2>2. DirInfo \in [Files -> Characteristics]
      BY DEF Init, Characteristics
    <2>3. LookupFileCache \in [Names -> [first : 0..NumDirs + 1,
                                        second : 0..NumDirs]]
      BY <1>2 DEF Init
    <2> QED
      BY <1>1, <2>1, <2>2, <2>3 DEF Init, TypeOK
  <1>4. Sound(fs, FrameworkMap)
    BY FilesAssumption DEF Init, Sound
  <1>5. Answered /\ Cached /\ HomesKnown
    BY DEF Init, Answered, Cached, HomesKnown
  <1>6. IncludeNextAdvances
    <2>1. Len(IncludeMacroStack) = 1 /\ CurPPLexer = pre
      BY DEF Init
    <2>2. Lexers[1 + 1] = pre
      BY <1>3, <2>1, LexersFacts
    <2> QED
      BY <1>1, <2>1, <2>2 DEF IncludeNextAdvances
  <1> QED
    BY <1>3, <1>4, <1>5, <1>6 DEF LookupInv

LEMMA NextLookupInv ==
  ASSUME LookupInv, [Next]_vars
  PROVE  LookupInv' /\ AnswersKept
  <1>1. ASSUME NEW n \in Names, NEW angled \in BOOLEAN, NEW enter \in BOOLEAN,
               HandleIncludeDirective(n, angled, enter)
        PROVE  LookupInv' /\ AnswersKept
    BY <1>1, LookupFileStep DEF HandleIncludeDirective, Request
  <1>2. ASSUME NEW n \in Names, NEW angled \in BOOLEAN, NEW enter \in BOOLEAN,
               HandleIncludeNextDirective(n, angled, enter)
        PROVE  LookupInv' /\ AnswersKept
    <2>1. CurPPLexer.CurDirLookup \in Dirs \cup {NoDir} /\ NumDirs \in Nat
      BY SearchPathAssumption DEF LookupInv, TypeOK, Lexer
    <2>2. IncludeNextFrom # NoDir =>
            /\ IncludeNextFrom = CurPPLexer.CurDirLookup + 1
            /\ IncludeNextFrom \in 1..NumDirs
      BY <2>1 DEF IncludeNextFrom, Dirs, NoDir
    <2>3. Request(n, angled, IncludeNextFrom, enter)
      BY <2>2 DEF Request
    <2> QED
      BY <1>2, <2>3, LookupFileStep DEF HandleIncludeNextDirective
  <1>3. ASSUME NEW n \in Names, NEW angled \in BOOLEAN,
               HandlePragmaDependency(n, angled)
        PROVE  LookupInv' /\ AnswersKept
    BY <1>3, LookupFileStep DEF HandlePragmaDependency, Request
  <1>4. CASE UNCHANGED vars
    <2>1. IncludeNextAdvances'
      BY <1>4 DEF vars, LookupInv, IncludeNextAdvances, Lexers
    <2> QED
      BY <1>4, <2>1, NoSearch DEF vars, LookupInv, TypeOK
  <1> QED
    BY <1>1, <1>2, <1>3, <1>4, PragmaSystemHeaderStep, EndOfFileStep
       DEF Next, Terminated

(* The inductive invariant always holds.                                   *)
LEMMA LookupInvAlways == Spec => []LookupInv
  BY InitLookupInv, NextLookupInv, PTL DEF Spec

(* All state of header lookup keeps its type: in particular the index with *)
(* which LookupFile resumes a cached search, and the directory a framework *)
(* is recorded in, never lie outside SearchDirs.                           *)
THEOREM LookupTypeCorrect == Spec => []TypeOK
  <1>1. LookupInv => TypeOK
    BY DEF LookupInv
  <1> QED
    BY <1>1, LookupInvAlways, PTL

(* For every search path and file system, the cache of                     *)
(* HeaderSearch::LookupFile gives what an uncached search would give.      *)
THEOREM CacheTransparentCorrect == Spec => []CacheTransparent
  <1>1. LookupInv => CacheTransparent
    <2> SUFFICES ASSUME LookupInv, NEW n \in Names,
                        LookupFileCache[n].first # 0
                 PROVE  SearchStop(n, LookupFileCache[n].first - 1)
                          = LookupFileCache[n].second
      BY DEF CacheTransparent
    <2> DEFINE s == LookupFileCache[n].first - 1
    <2>1. /\ LookupFileCache[n].first \in 0..NumDirs + 1
          /\ LookupFileCache[n].second \in 0..NumDirs /\ NumDirs \in Nat
      BY SearchPathAssumption DEF LookupInv, TypeOK
    <2>2. s \in 0..NumDirs /\ LookupFileCache[n].second # NotSearched
      BY <2>1 DEF NotSearched
    <2>3. answers[n][s] = LookupFileCache[n].second
      BY DEF LookupInv, Cached
    <2>4. answers[n][s] = Stop(fs, FrameworkMap, n, s)
      BY <2>2, <2>3 DEF LookupInv, Answered
    <2> QED
      BY <2>3, <2>4, SearchIsStop
  <1> QED
    BY <1>1, LookupInvAlways, PTL

(* For every search path and file system, HeaderSearch::LookupFile answers *)
(* the same search in the same way throughout a translation.               *)
THEOREM AnswersStableCorrect == Spec => AnswersStable
  <1>1. LookupInv /\ [Next]_vars =>
          [\A n \in Names, s \in 0..NumDirs :
             answers[n][s] # NotSearched => answers'[n][s] = answers[n][s]]_vars
    BY NextLookupInv DEF AnswersKept
  <1> QED
    BY <1>1, LookupInvAlways, PTL DEF Spec, AnswersStable

(* For every search path and file system, DoFrameworkLookup takes the      *)
(* headers of a framework from one search directory.                       *)
THEOREM FrameworkFoundInOneDirCorrect == Spec => []FrameworkFoundInOneDir
  <1>1. LookupInv => FrameworkFoundInOneDir
    BY DEF LookupInv, HomesKnown, FrameworkFoundInOneDir
  <1> QED
    BY <1>1, LookupInvAlways, PTL

(* For every search path and file system, a file that #include_next finds  *)
(* on the search path lies behind the directory of its includer.           *)
THEOREM IncludeNextAdvancesCorrect == Spec => []IncludeNextAdvances
  <1>1. LookupInv => IncludeNextAdvances
    BY DEF LookupInv
  <1> QED
    BY <1>1, LookupInvAlways, PTL
============================================================================

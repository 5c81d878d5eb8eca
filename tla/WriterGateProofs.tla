--------------------------- MODULE WriterGateProofs ---------------------------
(***************************************************************************)
(* Proofs about WriterGate, for any servers, jobs and number of faults:    *)
(* one writer for one archive, rows that say what is so, and shutdowns     *)
(* that leave nothing behind.  Before them, about the longest work such a  *)
(* writer does, the reorganisation (Reorganize): its plans, its index, its *)
(* sidecars and the way back.                                              *)
(***************************************************************************)
EXTENDS WriterGate, Reorganize, FiniteSetTheorems, WellFoundedInduction, TLAPS

------------------------------------------------------------------------------
(***************************************************************************)
(* What the reorganisation does (Reorganize), for every archive, every     *)
(* dates and gap, and any number of runs, undos, quarantines and faults:   *)
(* its plans give every file a name of its own, the index follows, no      *)
(* sidecar is left behind, and an undisturbed run is undone to the last    *)
(* file.                                                                   *)
(***************************************************************************)

(* ------------------- numbers: induction and iteration ------------------ *)
LEMMA FirstNumber ==
    ASSUME NEW S \in SUBSET Nat, S # {}
    PROVE  \E n \in S : \A m \in S : n <= m
<1>1. PICK n \in S : \A m \in S : ~(<<m, n>> \in OpToRel(<, Nat))
  <2>1. IsWellFoundedOn(OpToRel(<, Nat), Nat)
    BY NatLessThanWellFounded
  <2> QED
    BY <2>1, WFMin
<1>2. ASSUME NEW m \in S, ~(n <= m)
      PROVE  FALSE
  <2>1. m \in Nat /\ n \in Nat /\ m < n
    BY <1>2
  <2> QED
    BY <2>1, <1>1 DEF OpToRel
<1> QED
  BY <1>2

LEMMA NaturalsByStep ==
    ASSUME NEW A \in SUBSET Nat, 0 \in A, \A n \in A : n + 1 \in A
    PROVE  A = Nat
<1> SUFFICES ASSUME Nat \ A # {}
             PROVE  FALSE
  OBVIOUS
<1>1. PICK n \in Nat \ A : \A m \in Nat \ A : n <= m
  BY FirstNumber
<1>2. n # 0 /\ n - 1 \in Nat /\ ~(n <= n - 1)
  BY <1>1
<1>3. n - 1 \in A
  BY <1>1, <1>2
<1> QED
  BY <1>1, <1>2, <1>3

\* A step can be repeated any number of times.
LEMMA Iterates ==
    ASSUME NEW S, NEW base \in S, NEW step \in [S -> S]
    PROVE  \E f \in [Nat -> S] : f[0] = base /\ \A n \in Nat : f[n + 1] = step[f[n]]
<1> DEFINE Upto(n) == {g \in [0..n -> S] : g[0] = base /\ \A i \in 0..(n - 1) : g[i + 1] = step[g[i]]}
<1>1. \A n \in Nat : Upto(n) # {}
  <2> DEFINE A == {n \in Nat : Upto(n) # {}}
  <2>1. 0 \in A
    <3>1. [i \in 0..0 |-> base] \in Upto(0)
      OBVIOUS
    <3> QED
      BY <3>1
  <2>2. ASSUME NEW n \in A
        PROVE  n + 1 \in A
    <3>1. PICK g \in Upto(n) : TRUE
      OBVIOUS
    <3> DEFINE h == [i \in 0..(n + 1) |-> IF i = n + 1 THEN step[g[n]] ELSE g[i]]
    <3>2. h \in [0..(n + 1) -> S] /\ h[0] = base
      BY <3>1
    <3>3. ASSUME NEW i \in 0..(n + 1 - 1)
          PROVE  h[i + 1] = step[h[i]]
      <4>1. CASE i = n
        BY <4>1
      <4>2. CASE i # n
        <5>1. i \in 0..(n - 1) /\ i + 1 # n + 1 /\ i + 1 \in 0..(n + 1) /\ i # n + 1
          BY <4>2
        <5>2. g[i + 1] = step[g[i]]
          BY <3>1, <5>1
        <5> QED
          BY <5>1, <5>2
      <4> QED
        BY <4>1, <4>2
    <3>4. n + 1 \in Nat
      OBVIOUS
    <3> HIDE DEF h
    <3>5. Upto(n + 1) # {}
      BY <3>2, <3>3
    <3> QED
      BY <3>4, <3>5
  <2> HIDE DEF Upto
  <2>3. A \in SUBSET Nat
    OBVIOUS
  <2>4. A = Nat
    BY <2>1, <2>2, <2>3, NaturalsByStep
  <2> QED
    BY <2>4
<1> DEFINE G(n) == CHOOSE g \in Upto(n) : TRUE
<1>2. \A n \in Nat : G(n) \in Upto(n)
  <2> HIDE DEF Upto
  <2> QED
    BY <1>1
<1>3. \A n \in Nat : /\ G(n) \in [0..n -> S] /\ G(n)[0] = base
                     /\ \A i \in 0..(n - 1) : G(n)[i + 1] = step[G(n)[i]]
  <2> HIDE DEF G
  <2> QED
    BY <1>2
<1> HIDE DEF G, Upto
<1>4. \A n \in Nat : \A m \in Nat : m >= n => G(m)[n] = G(n)[n]
  <2> DEFINE B == {n \in Nat : \A m \in Nat : m >= n => G(m)[n] = G(n)[n]}
  <2>1. 0 \in B
    BY <1>3
  <2>2. ASSUME NEW n \in B
        PROVE  n + 1 \in B
    <3>1. ASSUME NEW m \in Nat, m >= n + 1
          PROVE  G(m)[n + 1] = step[G(n)[n]]
      <4>1. n \in 0..(m - 1) /\ m >= n
        BY <3>1
      <4>2. G(m)[n + 1] = step[G(m)[n]]
        BY <4>1, <1>3
      <4> QED
        BY <4>1, <4>2
    <3>2. n + 1 \in Nat /\ n + 1 >= n + 1
      OBVIOUS
    <3>3. G(n + 1)[n + 1] = step[G(n)[n]]
      BY <3>1, <3>2
    <3> QED
      BY <3>1, <3>2, <3>3
  <2>3. B \in SUBSET Nat
    OBVIOUS
  <2>4. B = Nat
    <3> HIDE DEF B
    <3> QED
      BY <2>1, <2>2, <2>3, NaturalsByStep
  <2> QED
    BY <2>4
<1> DEFINE f == [n \in Nat |-> G(n)[n]]
<1>5. f \in [Nat -> S]
  <2>1. ASSUME NEW n \in Nat
        PROVE  G(n)[n] \in S
    <3>1. n \in 0..n
      OBVIOUS
    <3> QED
      BY <3>1, <1>3
  <2> QED
    BY <2>1
<1>6. f[0] = base
  BY <1>3
<1>7. ASSUME NEW n \in Nat
      PROVE  f[n + 1] = step[f[n]]
  <2>1. n + 1 \in Nat /\ n \in 0..(n + 1 - 1) /\ n + 1 >= n
    OBVIOUS
  <2>2. G(n + 1)[n + 1] = step[G(n + 1)[n]]
    BY <2>1, <1>3
  <2>3. G(n + 1)[n] = G(n)[n]
    BY <2>1, <1>4
  <2> QED
    BY <2>1, <2>2, <2>3
<1> HIDE DEF f
<1> QED
  BY <1>5, <1>6, <1>7

LEMMA LeastIs ==
    ASSUME NEW S \in SUBSET Nat, S # {}
    PROVE  Min(S) \in S /\ \A m \in S : Min(S) <= m
BY FirstNumber DEF Min

LEMMA GreatestIs ==
    ASSUME NEW S \in SUBSET Nat, S # {}, NEW top \in Nat, \A m \in S : m <= top
    PROVE  Max(S) \in S /\ \A m \in S : m <= Max(S)
<1> DEFINE D == {top - m : m \in S}
<1>1. D \in SUBSET Nat /\ D # {}
  <2>1. ASSUME NEW d \in D
        PROVE  d \in Nat
    <3>1. PICK m \in S : d = top - m
      OBVIOUS
    <3>2. m \in Nat /\ m <= top
      OBVIOUS
    <3> QED
      BY <3>1, <3>2
  <2>2. PICK s : s \in S
    OBVIOUS
  <2>3. top - s \in D
    BY <2>2
  <2> QED
    BY <2>1, <2>3
<1> HIDE DEF D
<1>2. PICK d \in D : \A e \in D : d <= e
  BY <1>1, FirstNumber
<1>3. PICK n \in S : d = top - n
  BY DEF D
<1>4. ASSUME NEW m \in S
      PROVE  n >= m
  <2>1. top - m \in D
    BY DEF D
  <2>2. d <= top - m
    BY <1>2, <2>1
  <2> QED
    BY <1>3, <2>2
<1>5. \E x \in S : \A y \in S : x >= y
  BY <1>4
<1>6. \A y \in S : Max(S) >= y
  BY <1>5 DEF Max
<1>7. Max(S) \in S
  BY <1>5 DEF Max
<1> QED
  BY <1>6, <1>7

(* ------------------------- dates, events, names ------------------------ *)
Dated == {"event", "month"} \X Nat \X Nat
Row == [who : Photo, state : {"present", "quarantined"}]
\* The rows are finitely many, of paths of the archive, each of a photograph.
IndexOK ==
    /\ index \in [DOMAIN index -> Row]
    /\ DOMAIN index \subseteq Path(ArchiveDir)
    /\ IsFiniteSet(DOMAIN index)

LEMMA Parts ==
    ASSUME NEW t \in Nat, NEW d \in Nat \ {0}
    PROVE  t \div d \in Nat /\ t % d \in Nat
OBVIOUS

LEMMA FolderDates ==
    ASSUME NEW dir \in ArchiveDir
    PROVE  /\ DateOfFolder(dir).ts \in Nat
           /\ DateOfFolder(dir).precise \in BOOLEAN
<1> USE DatesAssumption
<1>1. \A m, n \in Nat : m * n \in Nat
  OBVIOUS
<1>2. CASE dir \in {"folder"} \X (DOMAIN FolderMonth) \X {0}
  <2>1. dir[1] = "folder" /\ dir[2] \in DOMAIN FolderMonth
    BY <1>2
  <2>2. FolderMonth[dir[2]] \in Nat
    BY <2>1
  <2>3. FolderMonth[dir[2]] * MonthLength \in Nat
    BY <2>2, <1>1
  <2> HIDE DatesAssumption
  <2> QED
    BY <2>1, <2>3 DEF DateOfFolder
<1>3. CASE dir \in Dated
  <2>1. dir[1] \in {"event", "month"} /\ dir[2] \in Nat /\ dir[3] \in Nat
    BY <1>3 DEF Dated
  <2>2. dir[2] * DayLength \in Nat /\ dir[2] * MonthLength \in Nat
    BY <2>1, <1>1
  <2>3. dir[2] * DayLength + dir[3] \in Nat
    BY <2>1, <2>2
  <2> HIDE DatesAssumption
  <2> QED
    BY <2>1, <2>2, <2>3 DEF DateOfFolder
<1> QED
  BY <1>2, <1>3 DEF ArchiveDir, Dated

LEMMA DatesAre ==
    ASSUME IndexOK, NEW path \in Present
    PROVE  Date(path).ts \in Nat /\ Date(path).precise \in BOOLEAN
<1>1. path \in DOMAIN index /\ index[path] \in Row /\ path \in Path(ArchiveDir)
  BY DEF IndexOK, Present
<1>2. index[path].who \in Photo /\ path.dir \in ArchiveDir
  BY <1>1 DEF Row, Path
<1>3. Taken[index[path].who] \in Nat /\ Written[index[path].who] \in Nat
  BY <1>2, DatesAssumption
<1>4. DateOfFolder(path.dir).ts \in Nat /\ DateOfFolder(path.dir).precise \in BOOLEAN
  BY <1>2, FolderDates
<1> QED
  BY <1>3, <1>4 DEF Date

LEMMA EventsAre ==
    ASSUME NEW T \in SUBSET Nat, NEW gap, NEW t \in T
    PROVE  EventOf(T, gap, t) \in Dated
<1> DEFINE S == {s \in Begins(T, gap) : s <= t}
           start == Max(S)
<1>1. PICK least \in T : \A u \in T : least <= u
  BY FirstNumber
<1>2. least \in Begins(T, gap) /\ least <= t
  BY <1>1 DEF Begins
<1>3. S \in SUBSET Nat /\ t \in Nat
  BY DEF Begins
<1>4. S # {} /\ \A m \in S : m <= t
  BY <1>2
<1> HIDE DEF S
<1>5. start \in S
  BY <1>3, <1>4, GreatestIs
<1>6. start \in Nat
  BY <1>3, <1>5
<1> HIDE DEF start
<1>7. Day(start) \in Nat /\ start % DayLength \in Nat
  BY <1>6, DatesAssumption, Parts DEF Day
<1>8. EventOf(T, gap, t) =
        <<"event", Day(start),
          IF ~\E s \in Begins(T, gap) : s < start /\ Day(s) = Day(start) THEN 0 ELSE start % DayLength>>
  BY DEF EventOf, start, S
<1> HIDE DEF EventOf
<1>9. (IF ~\E s \in Begins(T, gap) : s < start /\ Day(s) = Day(start) THEN 0 ELSE start % DayLength) \in Nat
  BY <1>7
<1> QED
  BY <1>7, <1>8, <1>9 DEF Dated

LEMMA AimsAre ==
    ASSUME IndexOK, NEW gap
    PROVE  Aim(gap) \in [Present -> Dated]
<1> DEFINE days == {path \in Present : Date(path).precise}
           T == {Date(path).ts : path \in days}
<1>1. T \in SUBSET Nat
  <2>1. ASSUME NEW t \in T
        PROVE  t \in Nat
    <3>1. PICK path \in days : t = Date(path).ts
      OBVIOUS
    <3> QED
      BY <3>1, DatesAre
  <2> QED
    BY <2>1
<1>2. ASSUME NEW path \in Present
      PROVE  (IF path \in days THEN EventOf(T, gap, Date(path).ts)
              ELSE <<"month", Date(path).ts \div MonthLength, 0>>) \in Dated
  <2>1. CASE path \in days
    <3>1. Date(path).ts \in T
      BY <2>1
    <3> HIDE DEF T
    <3>2. EventOf(T, gap, Date(path).ts) \in Dated
      BY <3>1, <1>1, EventsAre
    <3> QED
      BY <2>1, <3>2
  <2>2. CASE path \notin days
    <3>1. Date(path).ts \in Nat
      BY DatesAre
    <3>2. Date(path).ts \div MonthLength \in Nat
      BY <3>1, DatesAssumption, Parts
    <3> HIDE DEF days
    <3> QED
      BY <2>2, <3>2 DEF Dated
  <2> HIDE DEF days, T
  <2> QED
    BY <2>1, <2>2
<1>3. Aim(gap) = [path \in Present |->
                    IF path \in days THEN EventOf(T, gap, Date(path).ts)
                    ELSE <<"month", Date(path).ts \div MonthLength, 0>>]
  BY DEF Aim
<1> HIDE DEF T, days
<1> QED
  BY <1>2, <1>3

LEMMA TopExists ==
    ASSUME NEW S, IsFiniteSet(S), S # {}, NEW L, \A p \in S : <<p, p>> \notin L,
           \A p, q, r \in S : <<p, q>> \in L /\ <<q, r>> \in L => <<p, r>> \in L
    PROVE  \E m \in S : \A q \in S : <<m, q>> \notin L
<1> DEFINE Above(m) == {q \in S : <<m, q>> \in L}
           T == {Above(m) : m \in S}
<1>1. T \subseteq FiniteSubsetsOf(S)
  <2>1. FiniteSubsetsOf(S) = SUBSET S
    BY FS_FiniteSubsetsOfFinite
  <2>2. ASSUME NEW x \in T
        PROVE  x \subseteq S
    <3>1. PICK m \in S : x = Above(m)
      OBVIOUS
    <3> QED
      BY <3>1
  <2> HIDE DEF T
  <2> QED
    BY <2>1, <2>2
<1>2. T # {}
  <2>1. PICK s : s \in S
    OBVIOUS
  <2>2. Above(s) \in T
    BY <2>1
  <2> QED
    BY <2>2
<1>3. IsWellFoundedOn(StrictSubsetOrdering(S), FiniteSubsetsOf(S))
  BY FS_StrictSubsetOrderingWellFounded
<1> HIDE DEF T
<1>4. PICK x \in T : \A y \in T : ~(<<y, x>> \in StrictSubsetOrdering(S))
  BY <1>1, <1>2, <1>3, WFMin
<1>5. PICK m \in S : x = Above(m)
  BY DEF T
<1>6. ASSUME NEW q \in S, <<m, q>> \in L
      PROVE  FALSE
  <2>1. q \in Above(m) /\ q \notin Above(q) /\ Above(q) \subseteq Above(m)
    BY <1>6
  <2>2. <<Above(q), Above(m)>> \in StrictSubsetOrdering(S)
    BY <2>1 DEF StrictSubsetOrdering
  <2>3. Above(q) \in T
    BY DEF T
  <2> QED
    BY <2>2, <2>3, <1>4, <1>5
<1> QED
  BY <1>6

LEMMA FirstIs ==
    ASSUME IndexOK, NEW S \in SUBSET Present, S # {}
    PROVE  First(S) \in S
<1> DEFINE L == {z \in S \X S : Sooner(z[2], z[1])}
<1>1. IsFiniteSet(S)
  <2>1. S \in SUBSET DOMAIN index
    BY DEF Present
  <2> QED
    BY <2>1, FS_Subset DEF IndexOK
<1>2. \A a \in S : /\ Date(a).ts \in Nat /\ Date(a).precise \in BOOLEAN
                   /\ index[a].who \in Nat
  <2>1. ASSUME NEW a \in S
        PROVE  index[a].who \in Nat
    <3>1. index[a] \in Row
      BY DEF IndexOK, Present
    <3> QED
      BY <3>1, ObjectAssumption DEF Row, Object
  <2> QED
    BY <2>1, DatesAre
<1>3. \A a, b \in S : <<a, b>> \in L <=> Sooner(b, a)
  OBVIOUS
<1>4. \A a \in S : <<a, a>> \notin L
  BY <1>2, <1>3 DEF Sooner
<1>5. \A a, b, c \in S : Sooner(b, a) /\ Sooner(c, b) => Sooner(c, a)
  BY <1>2 DEF Sooner
<1>6. \A a, b, c \in S : <<a, b>> \in L /\ <<b, c>> \in L => <<a, c>> \in L
  BY <1>3, <1>5
<1> HIDE DEF L
<1>7. PICK m \in S : \A q \in S : <<m, q>> \notin L
  BY <1>1, <1>4, <1>6, TopExists
<1>8. \E a \in S : \A b \in S : ~Sooner(b, a)
  BY <1>3, <1>7
<1> QED
  BY <1>8 DEF First

LEMMA CandidatesDiffer ==
    ASSUME NEW stem \in Seq(Nat), NEW m \in Nat \ {0}, NEW n \in Nat \ {0},
           Candidate(stem, m) = Candidate(stem, n)
    PROVE  m = n
<1>1. ASSUME NEW k \in Nat \ {0}, k # 1
      PROVE  /\ Candidate(stem, k) = Append(stem, k)
             /\ Len(Candidate(stem, k)) = Len(stem) + 1
             /\ Candidate(stem, k)[Len(stem) + 1] = k
  BY <1>1 DEF Candidate
<1>2. Candidate(stem, 1) = stem /\ Len(stem) # Len(stem) + 1
  BY DEF Candidate
<1> QED
  BY <1>1, <1>2

LEMMA CandidatesAre ==
    ASSUME NEW stem \in Seq(Nat), NEW n \in Nat \ {0}
    PROVE  Candidate(stem, n) \in Seq(Nat)
BY DEF Candidate

\* There are more tries than there are names given out and files: one is free.
LEMMA OneIsFree ==
    ASSUME NEW path, path.stem \in Seq(Nat), NEW dir, NEW names, IsFiniteSet(DOMAIN names)
    PROVE  /\ Tries(path, dir, names) \in SUBSET (Nat \ {0})
           /\ Tries(path, dir, names) # {}
<1> DEFINE N == Cardinality(DOMAIN names) + Cardinality(Object) + 1
           C(n) == Candidate(path.stem, n)
           A == {n \in 1..N : \E key \in DOMAIN names : key[1] = dir /\ names[key] = C(n)}
           B == {n \in 1..N : \E o \in Object : place[o] = Put(path, dir, C(n))}
           f == [n \in A |-> CHOOSE key \in DOMAIN names : key[1] = dir /\ names[key] = C(n)]
           g == [n \in B |-> CHOOSE o \in Object : place[o] = Put(path, dir, C(n))]
<1>1. Cardinality(DOMAIN names) \in Nat /\ Cardinality(Object) \in Nat /\ IsFiniteSet(Object)
  BY FS_CardinalityType, ObjectAssumption
<1> HIDE DEF C
<1>2. \A m, n \in 1..N : C(m) = C(n) => m = n
  BY CandidatesDiffer DEF C
<1>3. Tries(path, dir, names) = (1..N) \ (A \cup B)
  <2>1. Tries(path, dir, names) =
          {n \in 1..N : /\ \A key \in DOMAIN names : key[1] = dir => names[key] # C(n)
                        /\ ~\E o \in Object : place[o] = Put(path, dir, C(n))}
    BY DEF Tries, Occupied, C
  <2> HIDE DEF N
  <2> QED
    BY <2>1
<1>4. N = Cardinality(DOMAIN names) + Cardinality(Object) + 1 /\ N \in Nat
  BY <1>1
<1>12. IsFiniteSet(1..N) /\ Cardinality(1..N) = N
  <2> HIDE DEF N
  <2> QED
    BY <1>4, FS_Interval
<1>5. IsFiniteSet(A) /\ IsFiniteSet(B)
  BY <1>12, FS_Subset
<1>6. Cardinality(A) <= Cardinality(DOMAIN names)
  <2>1. \A n \in A : f[n] \in DOMAIN names /\ names[f[n]] = C(n)
    OBVIOUS
  <2>2. f \in [A -> DOMAIN names]
    BY <2>1
  <2>3. \A m, n \in A : f[m] = f[n] => m = n
    BY <2>1, <1>2
  <2> HIDE DEF A, f
  <2>4. f \in Injection(A, DOMAIN names)
    BY <2>2, <2>3 DEF Injection, IsInjective
  <2> QED
    BY <2>4, FS_Injection
<1>7. Cardinality(B) <= Cardinality(Object)
  <2>1. \A n \in B : g[n] \in Object /\ place[g[n]] = Put(path, dir, C(n))
    OBVIOUS
  <2>2. g \in [B -> Object]
    BY <2>1
  <2>3. \A m, n \in B : g[m] = g[n] => m = n
    <3>1. \A m, n \in B : g[m] = g[n] => Put(path, dir, C(m)) = Put(path, dir, C(n))
      <4> HIDE DEF B, g
      <4> QED
        BY <2>1
    <3>2. \A m, n \in B : Put(path, dir, C(m)) = Put(path, dir, C(n)) => C(m) = C(n)
      <4> HIDE DEF B
      <4>1. \A stem : Put(path, dir, stem).stem = stem
        BY DEF Put
      <4> QED
        BY <4>1
    <3> QED
      BY <3>1, <3>2, <1>2
  <2> HIDE DEF B, g
  <2>4. g \in Injection(B, Object)
    BY <2>2, <2>3 DEF Injection, IsInjective
  <2> QED
    BY <2>4, <1>1, FS_Injection
<1> HIDE DEF A, B
<1>8. Cardinality(A \cup B) <= Cardinality(A) + Cardinality(B)
  <2>1. Cardinality(A) \in Nat /\ Cardinality(B) \in Nat /\ Cardinality(A \cap B) \in Nat
    <3>1. IsFiniteSet(A \cap B)
      BY <1>5, FS_Intersection
    <3> QED
      BY <3>1, <1>5, FS_CardinalityType
  <2>2. Cardinality(A \cup B) = Cardinality(A) + Cardinality(B) - Cardinality(A \cap B)
    BY <1>5, FS_Union
  <2> QED
    BY <2>1, <2>2
<1>9. A \cup B # 1..N
  <2> HIDE DEF N
  <2>1. Cardinality(A) \in Nat /\ Cardinality(B) \in Nat
    BY <1>5, FS_CardinalityType
  <2>2. Cardinality(A \cup B) < N /\ Cardinality(A \cup B) \in Nat
    <3>1. Cardinality(A \cup B) \in Nat
      BY <1>5, FS_Union, FS_CardinalityType
    <3> HIDE DEF A, B
    <3> QED
      BY <2>1, <3>1, <1>1, <1>4, <1>6, <1>7, <1>8
  <2>3. ~(N < N)
    BY <1>4
  <2> QED
    BY <2>2, <2>3, <1>12
<1>10. A \cup B \subseteq 1..N
  BY DEF A, B
<1> HIDE DEF N
<1>11. 1..N \subseteq Nat \ {0}
  BY <1>4
<1> QED
  BY <1>3, <1>9, <1>10, <1>11

\* What the names given out so far are, whatever the order: one name per key,
\* no name of one folder twice, and whoever stays keeps its own.
KeysOf(aim) == {Key(path, aim[path]) : path \in Present}
NoneTwice(names) == \A k, l \in DOMAIN names : k[1] = l[1] /\ names[k] = names[l] => k = l
StayersKeep(names, aim) ==
    \A path \in Present : aim[path] = path.dir =>
        /\ Key(path, path.dir) \in DOMAIN names
        /\ names[Key(path, path.dir)] = path.stem
Naming(aim) ==
    {names \in UNION {[D -> Seq(Nat)] : D \in SUBSET KeysOf(aim)} :
        NoneTwice(names) /\ StayersKeep(names, aim)}

LEMMA NamingIs ==
    ASSUME NEW aim, NEW names
    PROVE  names \in Naming(aim) <=>
             /\ DOMAIN names \subseteq KeysOf(aim)
             /\ names \in [DOMAIN names -> Seq(Nat)]
             /\ NoneTwice(names) /\ StayersKeep(names, aim)
<1>1. names \in UNION {[D -> Seq(Nat)] : D \in SUBSET KeysOf(aim)} <=>
        DOMAIN names \subseteq KeysOf(aim) /\ names \in [DOMAIN names -> Seq(Nat)]
  <2>1. ASSUME NEW D \in SUBSET KeysOf(aim), names \in [D -> Seq(Nat)]
        PROVE  DOMAIN names \subseteq KeysOf(aim) /\ names \in [DOMAIN names -> Seq(Nat)]
    BY <2>1
  <2>2. ASSUME DOMAIN names \subseteq KeysOf(aim), names \in [DOMAIN names -> Seq(Nat)]
        PROVE  \E D \in SUBSET KeysOf(aim) : names \in [D -> Seq(Nat)]
    BY <2>2
  <2> QED
    BY <2>1, <2>2
<1> QED
  BY <1>1 DEF Naming

LEMMA PathsAre ==
    ASSUME IndexOK, NEW path \in Present
    PROVE  /\ path \in Path(ArchiveDir) /\ path.stem \in Seq(Nat) /\ path.dir \in ArchiveDir
           /\ path.ext \in Ext /\ path = Put(path, path.dir, path.stem)
<1>1. path \in Path(ArchiveDir)
  BY DEF IndexOK, Present
<1> QED
  BY <1>1 DEF Path, Put

LEMMA KeysFinite ==
    ASSUME IndexOK, NEW aim
    PROVE  /\ IsFiniteSet(Present) /\ IsFiniteSet(KeysOf(aim))
           /\ Cardinality(Present) \in Nat
           /\ Cardinality(KeysOf(aim)) <= Cardinality(Present)
<1> DEFINE h == [path \in Present |-> Key(path, aim[path])]
<1>1. IsFiniteSet(Present)
  <2>1. Present \in SUBSET DOMAIN index
    BY DEF Present
  <2> QED
    BY <2>1, FS_Subset DEF IndexOK
<1>2. h \in [Present -> KeysOf(aim)]
  BY DEF KeysOf
<1>3. \A key \in KeysOf(aim) : \E path \in Present : h[path] = key
  BY DEF KeysOf
<1> HIDE DEF h
<1>4. h \in Surjection(Present, KeysOf(aim))
  BY <1>2, <1>3 DEF Surjection
<1> QED
  BY <1>1, <1>4, FS_Surjection, FS_CardinalityType

LEMMA ReservedIs ==
    ASSUME IndexOK, NEW aim
    PROVE  Reserved(aim) \in Naming(aim)
<1> DEFINE here == {p \in Present : aim[p] = p.dir}
           D == {Key(path, path.dir) : path \in here}
           names == Reserved(aim)
<1>1. \A key \in D : \E path \in Present : aim[path] = path.dir /\ key = <<path.dir, path.dir, path.stem>>
  BY DEF Key
<1>2. DOMAIN names = D /\ \A key \in D : names[key] = key[3]
  BY DEF Reserved
<1>3. D \subseteq KeysOf(aim)
  BY DEF KeysOf
<1>4. \A path \in Present : aim[path] = path.dir => Key(path, path.dir) \in D
  OBVIOUS
<1> HIDE DEF D
<1>5. \A key \in D : key[3] \in Seq(Nat) /\ key = <<key[1], key[1], key[3]>>
  BY <1>1, PathsAre
<1>6. names = [key \in D |-> key[3]]
  BY DEF Reserved, D
<1>7. names \in [D -> Seq(Nat)]
  BY <1>5, <1>6
<1>8. NoneTwice(names)
  BY <1>2, <1>5 DEF NoneTwice
<1>9. StayersKeep(names, aim)
  BY <1>2, <1>4 DEF StayersKeep, Key
<1>10. names \in [DOMAIN names -> Seq(Nat)] /\ DOMAIN names \subseteq KeysOf(aim)
  BY <1>2, <1>3, <1>7
<1> QED
  BY <1>8, <1>9, <1>10, NamingIs

Nameless(names, aim) == {path \in Present : Key(path, aim[path]) \notin DOMAIN names}

LEMMA AssignedIs ==
    ASSUME IndexOK, NEW aim, NEW names \in Naming(aim)
    PROVE  /\ Assigned(names, aim) \in Naming(aim)
           /\ Nameless(names, aim) = {} => Assigned(names, aim) = names
           /\ Nameless(names, aim) # {} =>
                \E new \in KeysOf(aim) \ DOMAIN names :
                    DOMAIN Assigned(names, aim) = DOMAIN names \cup {new}
<1> DEFINE path == First(Nameless(names, aim))
           new == Key(path, aim[path])
           stem == Candidate(path.stem, Min(Tries(path, aim[path], names)))
           next == [key \in DOMAIN names \cup {new} |-> IF key \in DOMAIN names THEN names[key] ELSE stem]
<1>1. Nameless(names, aim) = {} => Assigned(names, aim) = names
  BY DEF Assigned, Nameless
<1>2. CASE Nameless(names, aim) # {}
  <2>1. Assigned(names, aim) = next
    BY <1>2 DEF Assigned, Nameless
  <2>2. Nameless(names, aim) \in SUBSET Present
    BY DEF Nameless
  <2>3. path \in Nameless(names, aim)
    BY <1>2, <2>2, FirstIs
  <2>4. path \in Present /\ new \notin DOMAIN names /\ new \in KeysOf(aim)
    BY <2>3 DEF Nameless, KeysOf
  <2> HIDE DEF path
  <2>5. /\ DOMAIN names \subseteq KeysOf(aim) /\ names \in [DOMAIN names -> Seq(Nat)]
        /\ NoneTwice(names) /\ StayersKeep(names, aim)
    BY NamingIs
  <2>6. IsFiniteSet(DOMAIN names)
    BY <2>5, KeysFinite, FS_Subset
  <2>7. path.stem \in Seq(Nat)
    BY <2>4, PathsAre
  <2> DEFINE tries == Tries(path, aim[path], names)
             n == Min(tries)
  <2>8. tries \in SUBSET (Nat \ {0}) /\ tries # {}
    BY <2>6, <2>7, OneIsFree
  <2>9. n \in tries /\ n \in Nat \ {0}
    <3> HIDE DEF tries
    <3> QED
      BY <2>8, LeastIs
  <2>10. \A key \in DOMAIN names : key[1] = aim[path] => names[key] # stem
    BY <2>9 DEF Tries
  <2>11. stem \in Seq(Nat)
    BY <2>7, <2>9, CandidatesAre
  <2> HIDE DEF n, stem
  <2>12. new[1] = aim[path]
    BY DEF Key
  <2> HIDE DEF new
  <2>13. DOMAIN next = DOMAIN names \cup {new}
    OBVIOUS
  <2>14. next \in [DOMAIN next -> Seq(Nat)]
    BY <2>5, <2>11
  <2>15. next[new] = stem /\ \A key \in DOMAIN names : next[key] = names[key]
    BY <2>4
  <2> HIDE DEF next
  <2>16. NoneTwice(next)
    <3> SUFFICES ASSUME NEW k \in DOMAIN next, NEW l \in DOMAIN next, k[1] = l[1], next[k] = next[l], k # l
                 PROVE  FALSE
      BY DEF NoneTwice
    <3>1. CASE k \in DOMAIN names /\ l \in DOMAIN names
      BY <3>1, <2>5, <2>15 DEF NoneTwice
    <3>2. CASE k = new /\ l \in DOMAIN names
      BY <3>2, <2>10, <2>12, <2>15
    <3>3. CASE l = new /\ k \in DOMAIN names
      BY <3>3, <2>10, <2>12, <2>15
    <3> QED
      BY <3>1, <3>2, <3>3, <2>13
  <2>17. StayersKeep(next, aim)
    BY <2>5, <2>13, <2>15 DEF StayersKeep
  <2>18. next \in Naming(aim)
    BY <2>4, <2>5, <2>13, <2>14, <2>16, <2>17, NamingIs
  <2> QED
    BY <1>2, <2>1, <2>4, <2>13, <2>18
<1> QED
  BY <1>1, <1>2

\* When every path of a plan has been asked for, every one has its name.
LEMMA NamesAre ==
    ASSUME IndexOK, NEW aim
    PROVE  Names(aim) \in Naming(aim) /\ Nameless(Names(aim), aim) = {}
<1> DEFINE S == Naming(aim)
           base == Reserved(aim)
           step == [names \in S |-> Assigned(names, aim)]
           Unfolds(h) == h = [n \in Nat |-> IF n = 0 THEN base ELSE Assigned(h[n - 1], aim)]
           last == Cardinality(Present)
<1>1. base \in S
  BY ReservedIs
<1>2. step \in [S -> S]
  <2>1. \A names \in S : Assigned(names, aim) \in S
    BY AssignedIs
  <2> HIDE DEF S
  <2> QED
    BY <2>1
<1> HIDE DEF S
<1>3. PICK f \in [Nat -> S] : f[0] = base /\ \A n \in Nat : f[n + 1] = step[f[n]]
  <2> HIDE DEF step
  <2> QED
    BY <1>1, <1>2, Iterates
<1>4. \A n \in Nat : f[n + 1] = Assigned(f[n], aim)
  BY <1>3
<1> HIDE DEF step, base
<1>5. Unfolds(f)
  <2>1. ASSUME NEW n \in Nat
        PROVE  f[n] = IF n = 0 THEN base ELSE Assigned(f[n - 1], aim)
    <3>1. CASE n = 0
      BY <3>1, <1>3
    <3>2. CASE n # 0
      <4>1. n - 1 \in Nat /\ (n - 1) + 1 = n
        BY <3>2
      <4>2. f[(n - 1) + 1] = Assigned(f[n - 1], aim)
        BY <4>1, <1>4
      <4> QED
        BY <3>2, <4>1, <4>2
    <3> QED
      BY <3>1, <3>2
  <2>2. f = [n \in Nat |-> f[n]]
    BY <1>3
  <2> QED
    BY <2>1, <2>2
<1>6. ASSUME NEW h, Unfolds(h)
      PROVE  h = f
  <2>1. /\ h[0] = base /\ \A n \in Nat : h[n + 1] = Assigned(h[n], aim)
        /\ h = [n \in Nat |-> h[n]]
    <3>1. \A n \in Nat : h[n] = IF n = 0 THEN base ELSE Assigned(h[n - 1], aim)
      BY <1>6
    <3>2. h = [n \in Nat |-> h[n]]
      BY <1>6
    <3>3. ASSUME NEW n \in Nat
          PROVE  h[n + 1] = Assigned(h[n], aim)
      <4>1. n + 1 \in Nat /\ n + 1 # 0 /\ (n + 1) - 1 = n
        OBVIOUS
      <4>2. h[n + 1] = Assigned(h[(n + 1) - 1], aim)
        BY <3>1, <4>1
      <4> QED
        BY <4>1, <4>2
    <3> QED
      BY <3>1, <3>2, <3>3
  <2> DEFINE A == {n \in Nat : h[n] = f[n]}
  <2>2. 0 \in A
    BY <2>1, <1>3
  <2>6. ASSUME NEW n \in A
        PROVE  n + 1 \in A
    <3>1. n \in Nat /\ n + 1 \in Nat /\ h[n] = f[n]
      OBVIOUS
    <3>2. h[n + 1] = f[n + 1]
      BY <2>1, <1>4, <3>1
    <3> QED
      BY <3>1, <3>2
  <2>3. A \in SUBSET Nat
    OBVIOUS
  <2>4. A = Nat
    <3> HIDE DEF A
    <3> QED
      BY <2>2, <2>3, <2>6, NaturalsByStep
  <2>5. \A n \in Nat : h[n] = f[n]
    BY <2>4
  <2> QED
    BY <2>1, <2>5, <1>3
<1>7. Names(aim) = f[last]
  <2>1. Names(aim) = (CHOOSE h : Unfolds(h))[last]
    BY DEF Names, base
  <2>2. (CHOOSE h : Unfolds(h)) = f
    <3> HIDE DEF Unfolds
    <3> QED
      BY <1>5, <1>6
  <2> QED
    BY <2>1, <2>2
<1>8. last \in Nat
  BY KeysFinite
<1>9. \A n \in Nat : Nameless(f[n], aim) = {} \/ Cardinality(DOMAIN f[n]) >= n
  <2> DEFINE A == {n \in Nat : Nameless(f[n], aim) = {} \/ Cardinality(DOMAIN f[n]) >= n}
  <2>1. \A n \in Nat : /\ f[n] \in S /\ IsFiniteSet(DOMAIN f[n]) /\ Cardinality(DOMAIN f[n]) \in Nat
                       /\ DOMAIN f[n] \subseteq KeysOf(aim)
    <3>1. ASSUME NEW n \in Nat
          PROVE  DOMAIN f[n] \subseteq KeysOf(aim)
      <4>1. f[n] \in Naming(aim)
        BY <1>3 DEF S
      <4> QED
        BY <4>1, NamingIs
    <3>2. \A n \in Nat : IsFiniteSet(DOMAIN f[n])
      BY <3>1, KeysFinite, FS_Subset
    <3> QED
      BY <1>3, <3>1, <3>2, FS_CardinalityType
  <2>2. 0 \in A
    BY <2>1
  <2>3. ASSUME NEW n \in A
        PROVE  n + 1 \in A
    <3>1. n \in Nat /\ f[n + 1] = Assigned(f[n], aim) /\ f[n] \in Naming(aim)
      BY <1>4, <2>1 DEF S
    <3>2. CASE Nameless(f[n], aim) = {}
      <4>1. f[n + 1] = f[n]
        BY <3>1, <3>2, AssignedIs
      <4> QED
        BY <3>2, <4>1
    <3>3. CASE Nameless(f[n], aim) # {}
      <4>1. PICK new \in KeysOf(aim) \ DOMAIN f[n] : DOMAIN f[n + 1] = DOMAIN f[n] \cup {new}
        BY <3>1, <3>3, AssignedIs
      <4>2. Cardinality(DOMAIN f[n + 1]) = Cardinality(DOMAIN f[n]) + 1
        BY <3>1, <4>1, <2>1, FS_AddElement
      <4>3. Cardinality(DOMAIN f[n]) >= n
        BY <3>3
      <4> QED
        BY <3>1, <2>1, <4>2, <4>3
    <3> QED
      BY <3>2, <3>3
  <2>4. A \in SUBSET Nat
    OBVIOUS
  <2>5. A = Nat
    <3> HIDE DEF A
    <3> QED
      BY <2>2, <2>3, <2>4, NaturalsByStep
  <2> QED
    BY <2>5
<1>10. f[last] \in Naming(aim)
  BY <1>3, <1>8 DEF S
<1>11. Nameless(f[last], aim) = {}
  <2> SUFFICES ASSUME Nameless(f[last], aim) # {}
               PROVE  FALSE
    OBVIOUS
  <2> DEFINE D == DOMAIN f[last]
  <2>1. Cardinality(D) >= last
    BY <1>8, <1>9
  <2>2. D \subseteq KeysOf(aim)
    BY <1>10, NamingIs
  <2>3. PICK path \in Present : Key(path, aim[path]) \notin D
    BY DEF Nameless
  <2>4. D # KeysOf(aim)
    BY <2>3 DEF KeysOf
  <2> HIDE DEF D
  <2>5. Cardinality(D) <= Cardinality(KeysOf(aim)) /\ Cardinality(D) # Cardinality(KeysOf(aim))
    BY <2>2, <2>4, KeysFinite, FS_Subset
  <2>6. IsFiniteSet(D)
    BY <2>2, KeysFinite, FS_Subset
  <2>7. Cardinality(D) \in Nat /\ Cardinality(KeysOf(aim)) \in Nat
    BY <2>6, KeysFinite, FS_CardinalityType
  <2>8. Cardinality(KeysOf(aim)) <= last
    BY KeysFinite
  <2> QED
    BY <1>8, <2>1, <2>5, <2>7, <2>8
<1> QED
  BY <1>7, <1>10, <1>11

\* A move of a plan: of a photograph with a row, between paths of the archive.
PhotoMove == [who : Photo, src : Path(ArchiveDir), index : {TRUE}, dst : Path(ArchiveDir)]
MoveOf(path, gap) ==
    [who |-> index[path].who, src |-> path, index |-> TRUE,
     dst |-> Put(path, Aim(gap)[path], Names(Aim(gap))[Key(path, Aim(gap)[path])])]

LEMMA PlansAre ==
    ASSUME IndexOK, NEW gap, NEW m \in Plan(gap)
    PROVE  /\ m \in PhotoMove /\ m.dst.ext = m.src.ext
           /\ m.src \in Present /\ Aim(gap)[m.src] # m.src.dir /\ m = MoveOf(m.src, gap)
<1> DEFINE aim == Aim(gap)
           names == Names(aim)
<1>1. PICK path \in Present : aim[path] # path.dir /\ m = MoveOf(path, gap)
  BY DEF Plan, MoveOf
<1>2. path \in DOMAIN index /\ index[path] \in Row
  BY DEF Present, IndexOK
<1>3. index[path].who \in Photo
  BY <1>2 DEF Row
<1>4. aim[path] \in ArchiveDir
  <2>1. aim[path] \in Dated
    BY AimsAre
  <2> QED
    BY <2>1 DEF ArchiveDir, Dated
<1>5. names[Key(path, aim[path])] \in Seq(Nat)
  <2>1. names \in Naming(aim) /\ Nameless(names, aim) = {}
    BY NamesAre
  <2> HIDE DEF names, aim
  <2>2. Key(path, aim[path]) \in DOMAIN names
    BY <2>1 DEF Nameless
  <2> QED
    BY <2>1, <2>2, NamingIs
<1>6. path \in Path(ArchiveDir) /\ path.ext \in Ext
  BY PathsAre
<1> HIDE DEF names, aim
<1>7. Put(path, aim[path], names[Key(path, aim[path])]) \in Path(ArchiveDir)
  BY <1>4, <1>5, <1>6 DEF Put, Path
<1>8. m = [who |-> index[path].who, src |-> path, index |-> TRUE,
           dst |-> Put(path, aim[path], names[Key(path, aim[path])])]
  BY <1>1 DEF MoveOf, aim, names
<1>9. m.src = path /\ m.dst.ext = path.ext
  BY <1>8 DEF Put
<1>10. m \in PhotoMove
  BY <1>3, <1>6, <1>7, <1>8 DEF PhotoMove
<1> QED
  BY <1>1, <1>9, <1>10 DEF aim

LEMMA FairPlans ==
    ASSUME IndexOK
    PROVE  PlanIsFair
<1> SUFFICES ASSUME NEW gap \in Gaps
             PROVE  LET plan == Plan(gap) IN
        /\ \A a \in plan : a.dst \notin Present \ {b.src : b \in plan}
        /\ \A a, b \in plan : a # b =>
            /\ a.dst # b.dst
            /\ a.src.dir = b.src.dir /\ a.src.stem = b.src.stem /\ a.dst.dir = b.dst.dir
                 => a.dst.stem = b.dst.stem
  BY DEF PlanIsFair
<1> DEFINE aim == Aim(gap)
           names == Names(aim)
           key(path) == Key(path, aim[path])
<1>1. /\ NoneTwice(names) /\ StayersKeep(names, aim)
      /\ \A path \in Present : key(path) \in DOMAIN names
  <2>1. names \in Naming(aim) /\ Nameless(names, aim) = {}
    BY NamesAre
  <2> HIDE DEF names, aim
  <2> QED
    BY <2>1, NamingIs DEF Nameless
<1>2. \A a \in Plan(gap) : /\ a.src \in Present /\ aim[a.src] # a.src.dir
                           /\ a = MoveOf(a.src, gap)
                           /\ a.dst.dir = aim[a.src] /\ a.dst.stem = names[key(a.src)]
                           /\ a.dst.ext = a.src.ext
  <2> SUFFICES ASSUME NEW a \in Plan(gap)
               PROVE  /\ a.src \in Present /\ aim[a.src] # a.src.dir /\ a = MoveOf(a.src, gap)
                      /\ a.dst.dir = aim[a.src] /\ a.dst.stem = names[key(a.src)] /\ a.dst.ext = a.src.ext
    OBVIOUS
  <2>1. a.src \in Present /\ aim[a.src] # a.src.dir /\ a = MoveOf(a.src, gap) /\ a.dst.ext = a.src.ext
    BY PlansAre
  <2>2. a.dst = Put(a.src, aim[a.src], names[key(a.src)])
    BY <2>1 DEF MoveOf
  <2> HIDE DEF aim, names, key
  <2> QED
    BY <2>1, <2>2 DEF Put
<1> HIDE DEF names, aim
<1>3. \A path \in Present : key(path) = <<aim[path], path.dir, path.stem>>
  BY DEF Key
<1>4. \A p, q \in Present : p.dir = q.dir /\ p.stem = q.stem /\ p.ext = q.ext => p = q
  BY PathsAre DEF Put
<1>5. ASSUME NEW a \in Plan(gap), a.dst \in Present \ {b.src : b \in Plan(gap)}
      PROVE  FALSE
  <2> DEFINE q == a.dst
  <2>1. q \in Present /\ aim[q] = q.dir
    <3>1. q \in Present
      BY <1>5
    <3>2. ASSUME aim[q] # q.dir
          PROVE  FALSE
      <4>1. MoveOf(q, gap) \in Plan(gap) /\ MoveOf(q, gap).src = q
        BY <3>1, <3>2 DEF Plan, MoveOf, aim
      <4> QED
        BY <4>1, <1>5
    <3> QED
      BY <3>1, <3>2
  <2>2. key(q) \in DOMAIN names /\ names[key(q)] = q.stem
    BY <2>1, <1>1 DEF StayersKeep
  <2>3. a.src \in Present /\ aim[a.src] # a.src.dir /\ q.dir = aim[a.src] /\ q.stem = names[key(a.src)]
    BY <1>2
  <2> HIDE DEF q, key
  <2>4. key(a.src)[1] = key(q)[1] /\ names[key(a.src)] = names[key(q)]
    BY <2>1, <2>2, <2>3, <1>3
  <2>5. key(a.src) = key(q)
    BY <2>2, <2>3, <2>4, <1>1 DEF NoneTwice
  <2>6. a.src.dir = q.dir
    BY <2>1, <2>3, <2>5, <1>3
  <2> QED
    BY <2>3, <2>6
<1>6. ASSUME NEW a \in Plan(gap), NEW b \in Plan(gap), a # b
      PROVE  /\ a.dst # b.dst
             /\ a.src.dir = b.src.dir /\ a.src.stem = b.src.stem /\ a.dst.dir = b.dst.dir
                  => a.dst.stem = b.dst.stem
  <2>1. /\ a.src \in Present /\ a.dst.dir = aim[a.src] /\ a.dst.stem = names[key(a.src)] /\ a.dst.ext = a.src.ext
        /\ b.src \in Present /\ b.dst.dir = aim[b.src] /\ b.dst.stem = names[key(b.src)] /\ b.dst.ext = b.src.ext
        /\ a.src # b.src
    BY <1>2, <1>6
  <2> HIDE DEF key
  <2>2. key(a.src) = <<aim[a.src], a.src.dir, a.src.stem>> /\ key(b.src) = <<aim[b.src], b.src.dir, b.src.stem>>
    BY <2>1, <1>3
  <2>3. key(a.src) \in DOMAIN names /\ key(b.src) \in DOMAIN names
    BY <2>1, <1>1
  <2>4. ASSUME a.dst = b.dst
        PROVE  FALSE
    <3>1. key(a.src)[1] = key(b.src)[1] /\ names[key(a.src)] = names[key(b.src)]
      BY <2>1, <2>2, <2>4
    <3> DEFINE k == key(a.src)
               l == key(b.src)
    <3>2. k = l
      <4>1. k \in DOMAIN names /\ l \in DOMAIN names /\ k[1] = l[1] /\ names[k] = names[l]
        BY <3>1, <2>3
      <4>2. NoneTwice(names)
        BY <1>1
      <4> HIDE DEF k, l
      <4> QED
        BY <4>1, <4>2 DEF NoneTwice
    <3>3. a.src.dir = b.src.dir /\ a.src.stem = b.src.stem
      <4>1. k[2] = a.src.dir /\ k[3] = a.src.stem /\ l[2] = b.src.dir /\ l[3] = b.src.stem
        BY <2>2
      <4> QED
        BY <3>2, <4>1
    <3>4. a.src.ext = b.src.ext
      BY <2>1, <2>4
    <3> QED
      BY <3>3, <3>4, <2>1, <1>4
  <2>5. ASSUME a.src.dir = b.src.dir, a.src.stem = b.src.stem, a.dst.dir = b.dst.dir
        PROVE  a.dst.stem = b.dst.stem
    <3>1. key(a.src) = key(b.src)
      BY <2>1, <2>2, <2>5
    <3> QED
      BY <2>1, <3>1
  <2> QED
    BY <2>4, <2>5
<1> QED
  BY <1>5, <1>6

(* -------------------------------- the unit ----------------------------- *)
AnyDir == ArchiveDir \cup ({"held", "kept"} \X ArchiveDir \X {0})
AnyPath == Path(AnyDir)
Apart(pl) == \A a, b \in Object : pl[a] = pl[b] => a = b
PlaceOK == place \in [Object -> AnyPath] /\ Apart(place)

Member == [who : Object, src : AnyPath, dst : AnyPath]
Lead(m) == [who |-> m.who, src |-> m.src, dst |-> m.dst]
\* No two of a unit are one object, nor come from or go to one path.
Sound(U) ==
    /\ U \subseteq Member
    /\ \A u, v \in U : u.who = v.who \/ u.src = v.src \/ u.dst = v.dst => u = v
LitterMove == [who : Litter, src : AnyPath, index : {FALSE}, dst : AnyPath]
Moves == {m \in PhotoMove : m.dst.ext = m.src.ext} \cup LitterMove

LEMMA DirsAre ==
    /\ ArchiveDir \subseteq AnyDir
    /\ \A dir \in AnyDir : dir \in ArchiveDir <=> dir[1] \notin {"held", "kept"}
    /\ \A dir \in ArchiveDir : Held(dir) \in AnyDir /\ Kept(dir) \in AnyDir
<1>1. ArchiveDir \subseteq AnyDir
  BY DEF AnyDir
<1>2. \A dir \in ArchiveDir : dir[1] \in {"folder", "event", "month"}
  BY DEF ArchiveDir
<1>3. ASSUME NEW dir \in ArchiveDir
      PROVE  Held(dir) \in AnyDir /\ Kept(dir) \in AnyDir
  <2> HIDE DEF ArchiveDir
  <2> QED
    BY DEF Held, Kept, AnyDir
<1>4. ASSUME NEW dir \in AnyDir, dir \notin ArchiveDir
      PROVE  dir[1] \in {"held", "kept"}
  BY <1>4 DEF AnyDir
<1> QED
  BY <1>1, <1>2, <1>3, <1>4

LEMMA PathDirs ==
    /\ Path(ArchiveDir) \subseteq AnyPath
    /\ \A path \in AnyPath : path.dir \in ArchiveDir => path \in Path(ArchiveDir)
    /\ \A path \in AnyPath : /\ path.dir \in AnyDir /\ path.stem \in Seq(Nat) /\ path.ext \in Ext
                             /\ path = Put(path, path.dir, path.stem)
    /\ \A path \in AnyPath, dir \in AnyDir, stem \in Seq(Nat) : Put(path, dir, stem) \in AnyPath
BY DirsAre DEF AnyPath, Path, Put

\* The photograph of a move, or the service file, and the sidecars beside it.
LEMMA UnitIs ==
    ASSUME PlaceOK, NEW m, m.who \in Object \ Side, m.dst \in AnyPath, m.index \in BOOLEAN,
           m.index => m.dst.ext = m.src.ext,
           place[m.who] = m.src
    PROVE  /\ Sound(Unit(m)) /\ Lead(m) \in Unit(m)
           /\ \A u \in Unit(m) : u = Lead(m) \/ u.who \in Side
<1> DEFINE sides == {[who |-> s, src |-> place[s], dst |-> SidecarName(s, m)] : s \in Companions(m.src)}
<1>1. Unit(m) = {Lead(m)} \cup (IF m.index THEN sides ELSE {})
  BY DEF Unit, Lead
<1>2. m.src \in AnyPath /\ Lead(m) \in Member
  BY DEF PlaceOK, Member, Lead
<1>3. \A u \in sides : /\ u.who \in Side /\ u.src = place[u.who] /\ u.dst = SidecarName(u.who, m)
                       /\ u.src.dir = m.src.dir /\ u.src.stem = m.src.stem
                       /\ u = [who |-> u.who, src |-> u.src, dst |-> u.dst]
  BY DEF Companions
<1>4. \A s \in Side : place[s] \in AnyPath /\ s \in Object
  BY DEF PlaceOK, Object
<1>5. \A s \in Side : SidecarName(s, m) \in AnyPath
  <2>1. m.dst.dir \in AnyDir /\ m.dst.stem \in Seq(Nat)
    BY PathDirs
  <2> QED
    BY <2>1, <1>4, PathDirs DEF SidecarName
<1> HIDE DEF sides
<1>6. sides \subseteq Member
  <2> SUFFICES ASSUME NEW u \in sides
               PROVE  u \in Member
    OBVIOUS
  <2>1. u = [who |-> u.who, src |-> u.src, dst |-> u.dst] /\ u.who \in Object /\ u.src \in AnyPath /\ u.dst \in AnyPath
    BY <1>3, <1>4, <1>5
  <2> QED
    BY <2>1 DEF Member
<1>7. \A u \in sides : u.dst.dir = m.dst.dir /\ u.dst.stem = m.dst.stem /\ u.dst.ext = u.src.ext
  <2> SUFFICES ASSUME NEW u \in sides
               PROVE  u.dst.dir = m.dst.dir /\ u.dst.stem = m.dst.stem /\ u.dst.ext = u.src.ext
    OBVIOUS
  <2>1. u.dst = SidecarName(u.who, m) /\ u.src = place[u.who]
    BY <1>3
  <2>2. SidecarName(u.who, m) = [dir |-> m.dst.dir, stem |-> m.dst.stem, ext |-> place[u.who].ext]
    BY DEF SidecarName, Put
  <2> QED
    BY <2>1, <2>2
<1>8. \A p, q \in AnyPath : p.dir = q.dir /\ p.stem = q.stem /\ p.ext = q.ext => p = q
  BY PathDirs DEF Put
<1>9. ASSUME NEW u \in sides, NEW v \in sides, u.who = v.who \/ u.src = v.src \/ u.dst = v.dst
      PROVE  u = v
  <2>1. u.who \in Side /\ v.who \in Side /\ u.src \in AnyPath /\ v.src \in AnyPath
    BY <1>3, <1>4
  <2>2. u.who = v.who
    <3>1. CASE u.who = v.who
      BY <3>1
    <3>2. CASE u.src = v.src
      BY <3>2, <2>1, <1>3, <1>4 DEF PlaceOK, Apart
    <3>3. CASE u.dst = v.dst
      <4>1. u.src.ext = v.src.ext /\ u.src.dir = v.src.dir /\ u.src.stem = v.src.stem
        BY <3>3, <1>3, <1>7
      <4>2. u.src = v.src
        BY <4>1, <2>1, <1>8
      <4> QED
        BY <4>2, <2>1, <1>3, <1>4 DEF PlaceOK, Apart
    <3> QED
      BY <1>9, <3>1, <3>2, <3>3
  <2> QED
    BY <2>2, <1>3
<1>10. ASSUME m.index, NEW u \in sides
       PROVE  u.who # m.who /\ u.src # m.src /\ u.dst # m.dst
  <2>1. u.who # m.who /\ u.who \in Object
    BY <1>3, <1>4
  <2>2. u.src # m.src
    BY <2>1, <1>3 DEF PlaceOK, Apart
  <2>3. u.dst # m.dst
    <3> SUFFICES ASSUME u.dst = m.dst
                 PROVE  u.src = m.src
      BY <2>2
    <3>1. u.src.ext = m.src.ext
      BY <1>7, <1>10
    <3>2. u.src \in AnyPath
      BY <1>3, <1>4
    <3> QED
      BY <3>1, <3>2, <1>2, <1>3, <1>8
  <2> QED
    BY <2>1, <2>2, <2>3
<1>11. Lead(m).who = m.who /\ Lead(m).src = m.src /\ Lead(m).dst = m.dst
  BY DEF Lead
<1>12. Unit(m) \subseteq Member
  BY <1>1, <1>2, <1>6
<1>13. ASSUME NEW u \in Unit(m), NEW v \in Unit(m), u.who = v.who \/ u.src = v.src \/ u.dst = v.dst
       PROVE  u = v
  <2>1. CASE u = Lead(m) /\ v = Lead(m)
    BY <2>1
  <2>2. CASE u = Lead(m) /\ v \in sides /\ m.index
    BY <2>2, <1>10, <1>11, <1>13
  <2>3. CASE v = Lead(m) /\ u \in sides /\ m.index
    BY <2>3, <1>10, <1>11, <1>13
  <2>4. CASE u \in sides /\ v \in sides
    BY <2>4, <1>9, <1>13
  <2> QED
    BY <2>1, <2>2, <2>3, <2>4, <1>1
<1> QED
  BY <1>1, <1>3, <1>12, <1>13 DEF Sound

LEMMA MovedIs ==
    ASSUME PlaceOK, NEW U, Sound(U), Ready(U)
    PROVE  /\ Moved(U) \in [Object -> AnyPath] /\ Apart(Moved(U))
           /\ \A u \in U : Moved(U)[u.who] = u.dst
           /\ \A o \in Object : (\A u \in U : u.who # o) => Moved(U)[o] = place[o]
<1> DEFINE P == Moved(U)
<1>1. \A u \in U : u.who \in Object /\ u.dst \in AnyPath
  BY DEF Sound, Member
<1>2. ASSUME NEW u \in U
      PROVE  P[u.who] = u.dst
  <2>1. (CHOOSE v \in U : v.who = u.who) = u
    BY DEF Sound
  <2>2. P[u.who] = (CHOOSE v \in U : v.who = u.who).dst
    BY <1>1 DEF Moved
  <2> QED
    BY <2>1, <2>2
<1>3. ASSUME NEW o \in Object, \A u \in U : u.who # o
      PROVE  P[o] = place[o]
  BY <1>3 DEF Moved
<1>4. DOMAIN P = Object /\ P = [o \in Object |-> P[o]]
  BY DEF Moved
<1> HIDE DEF P
<1>5. ASSUME NEW o \in Object
      PROVE  P[o] \in AnyPath
  <2>1. CASE \E u \in U : u.who = o
    BY <2>1, <1>1, <1>2
  <2>2. CASE \A u \in U : u.who # o
    BY <2>2, <1>3 DEF PlaceOK
  <2> QED
    BY <2>1, <2>2
<1>6. P \in [Object -> AnyPath]
  BY <1>4, <1>5
<1>7. ASSUME NEW a \in Object, NEW b \in Object, P[a] = P[b]
      PROVE  a = b
  <2>1. CASE (\E u \in U : u.who = a) /\ (\E u \in U : u.who = b)
    BY <2>1, <1>2, <1>7 DEF Sound
  <2>2. CASE (\E u \in U : u.who = a) /\ (\A u \in U : u.who # b)
    BY <2>2, <1>2, <1>3, <1>7 DEF Ready, Occupied
  <2>3. CASE (\A u \in U : u.who # a) /\ (\E u \in U : u.who = b)
    BY <2>3, <1>2, <1>3, <1>7 DEF Ready, Occupied
  <2>4. CASE (\A u \in U : u.who # a) /\ (\A u \in U : u.who # b)
    BY <2>4, <1>3, <1>7 DEF PlaceOK, Apart
  <2> QED
    BY <2>1, <2>2, <2>3, <2>4
<1>8. Apart(P)
  BY <1>7 DEF Apart
<1> QED
  BY <1>2, <1>3, <1>6, <1>8 DEF P

LEMMA ReturnedIs ==
    ASSUME PlaceOK, NEW U, Sound(U), CanReturn(U)
    PROVE  /\ Returned(U) \in [Object -> AnyPath] /\ Apart(Returned(U))
           /\ \A u \in U : Returned(U)[u.who] = u.src
           /\ \A o \in Object : (\A u \in U : u.who # o) => Returned(U)[o] = place[o]
<1> DEFINE P == Returned(U)
<1>1. \A u \in U : u.who \in Object /\ u.src \in AnyPath
  BY DEF Sound, Member
<1>2. ASSUME NEW u \in U
      PROVE  P[u.who] = u.src
  <2>1. (CHOOSE v \in U : v.who = u.who) = u
    BY DEF Sound
  <2>2. P[u.who] = (CHOOSE v \in U : v.who = u.who).src
    BY <1>1 DEF Returned
  <2> QED
    BY <2>1, <2>2
<1>3. ASSUME NEW o \in Object, \A u \in U : u.who # o
      PROVE  P[o] = place[o]
  BY <1>3 DEF Returned
<1>4. DOMAIN P = Object /\ P = [o \in Object |-> P[o]]
  BY DEF Returned
<1> HIDE DEF P
<1>5. ASSUME NEW o \in Object
      PROVE  P[o] \in AnyPath
  <2>1. CASE \E u \in U : u.who = o
    BY <2>1, <1>1, <1>2
  <2>2. CASE \A u \in U : u.who # o
    BY <2>2, <1>3 DEF PlaceOK
  <2> QED
    BY <2>1, <2>2
<1>6. P \in [Object -> AnyPath]
  BY <1>4, <1>5
<1>9. ASSUME NEW u \in U, NEW o \in Object, \A v \in U : v.who # o
      PROVE  place[o] # u.src
  BY <1>1, <1>9 DEF CanReturn, Occupied, PlaceOK, Apart
<1>7. ASSUME NEW a \in Object, NEW b \in Object, P[a] = P[b]
      PROVE  a = b
  <2>1. CASE (\E u \in U : u.who = a) /\ (\E u \in U : u.who = b)
    BY <2>1, <1>2, <1>7 DEF Sound
  <2>2. CASE (\E u \in U : u.who = a) /\ (\A u \in U : u.who # b)
    BY <2>2, <1>2, <1>3, <1>7, <1>9
  <2>3. CASE (\A u \in U : u.who # a) /\ (\E u \in U : u.who = b)
    BY <2>3, <1>2, <1>3, <1>7, <1>9
  <2>4. CASE (\A u \in U : u.who # a) /\ (\A u \in U : u.who # b)
    BY <2>4, <1>3, <1>7 DEF PlaceOK, Apart
  <2> QED
    BY <2>1, <2>2, <2>3, <2>4
<1>8. Apart(P)
  BY <1>7 DEF Apart
<1> QED
  BY <1>2, <1>3, <1>6, <1>8 DEF P

(* --------------------------------- types ------------------------------- *)
Status == {"pending", "done", "failed", "undone"}
RawEntry == [run : Nat, head : Object, unit : SUBSET Member, src : AnyPath, dst : AnyPath,
             index : BOOLEAN, status : Status]
LeadOf(e) == [who |-> e.head, src |-> e.src, dst |-> e.dst]
Entries ==
    {e \in RawEntry :
        /\ Sound(e.unit) /\ LeadOf(e) \in e.unit
        /\ \A u \in e.unit : u = LeadOf(e) \/ u.who \in Side
        /\ e.index => e.head \in Photo /\ e.src \in Path(ArchiveDir) /\ e.dst \in Path(ArchiveDir)
        /\ ~e.index => e.head \in Litter}
MoveWork == [phase : {"move"}, run : Nat, left : SUBSET Moves, cur : Nat,
             step : {"next", "rename", "close", "follow"}, each : BOOLEAN,
             emptied : SUBSET ArchiveDir]
UndoWork == [phase : {"undo"}, run : Nat, left : SUBSET Nat, step : {"next", "index", "close"},
             failed : BOOLEAN]
WorkOK ==
    /\ work = Idle \/ work \in MoveWork \/ work \in UndoWork
    /\ work.phase = "move" =>
        /\ work.step # "next" => work.cur \in DOMAIN journal
        /\ work.step \in {"rename", "close"} => journal[work.cur].status = "pending"
        /\ work.step = "follow" => journal[work.cur].status = "done" /\ journal[work.cur].index
    /\ work.phase = "undo" =>
        /\ work.left \subseteq DOMAIN journal
        /\ \A jid \in work.left : journal[jid].status = "done"
        /\ work.step # "next" => work.left # {}
TypeInv ==
    /\ PlaceOK /\ IndexOK
    /\ journal \in Seq(Entries)
    /\ WorkOK /\ runs \in Nat

LEMMA MovesAre ==
    ASSUME NEW m \in Moves
    PROVE  /\ m.who \in Object \ Side /\ m.src \in AnyPath /\ m.dst \in AnyPath
           /\ m.index \in BOOLEAN
           /\ m.index => /\ m.who \in Photo /\ m.src \in Path(ArchiveDir) /\ m.dst \in Path(ArchiveDir)
                         /\ m.dst.ext = m.src.ext
           /\ ~m.index => m.who \in Litter
<1>1. CASE m \in PhotoMove /\ m.dst.ext = m.src.ext
  BY <1>1, PathDirs, ObjectAssumption DEF PhotoMove, Object
<1>2. CASE m \in LitterMove
  BY <1>2, ObjectAssumption DEF LitterMove, Object
<1> QED
  BY <1>1, <1>2 DEF Moves

LEMMA EntryIs ==
    ASSUME PlaceOK, NEW m \in Moves, NEW run \in Nat, place[m.who] = m.src
    PROVE  Entry(m, run) \in Entries
<1> DEFINE e == Entry(m, run)
<1>1. /\ e.run = run /\ e.head = m.who /\ e.unit = Unit(m) /\ e.src = m.src /\ e.dst = m.dst
      /\ e.index = m.index /\ e.status = "pending"
  BY DEF Entry
<1>2. /\ Sound(Unit(m)) /\ Lead(m) \in Unit(m)
      /\ \A u \in Unit(m) : u = Lead(m) \/ u.who \in Side
  BY MovesAre, UnitIs
<1>3. LeadOf(e) = Lead(m)
  BY <1>1 DEF LeadOf, Lead
<1>4. e \in RawEntry
  BY <1>2, MovesAre DEF Entry, RawEntry, Status, Sound
<1> HIDE DEF e
<1>5. e \in Entries
  BY <1>1, <1>2, <1>3, <1>4, MovesAre DEF Entries
<1> QED
  BY <1>5 DEF e

LEMMA EntriesAre ==
    ASSUME NEW e \in Entries
    PROVE  /\ e.run \in Nat /\ e.head \in Object \ Side /\ e.index \in BOOLEAN /\ e.status \in Status
           /\ e.src \in AnyPath /\ e.dst \in AnyPath
           /\ Sound(e.unit) /\ LeadOf(e) \in e.unit
           /\ LeadOf(e).who = e.head /\ LeadOf(e).src = e.src /\ LeadOf(e).dst = e.dst
           /\ \A u \in e.unit : u = LeadOf(e) \/ u.who \in Side
           /\ e.index => e.head \in Photo /\ e.src \in Path(ArchiveDir) /\ e.dst \in Path(ArchiveDir)
           /\ ~e.index => e.head \in Litter
BY ObjectAssumption DEF Entries, RawEntry, LeadOf, Object

LEMMA ClosedIs ==
    ASSUME journal \in Seq(Entries), NEW jid \in DOMAIN journal, NEW status \in Status
    PROVE  /\ Closed(jid, status) \in Seq(Entries)
           /\ DOMAIN Closed(jid, status) = DOMAIN journal /\ Len(Closed(jid, status)) = Len(journal)
           /\ Closed(jid, status)[jid] = [journal[jid] EXCEPT !.status = status]
           /\ Closed(jid, status)[jid].status = status
           /\ Closed(jid, status)[jid].run = journal[jid].run
           /\ Closed(jid, status)[jid].head = journal[jid].head
           /\ Closed(jid, status)[jid].unit = journal[jid].unit
           /\ Closed(jid, status)[jid].src = journal[jid].src
           /\ Closed(jid, status)[jid].dst = journal[jid].dst
           /\ Closed(jid, status)[jid].index = journal[jid].index
           /\ \A j \in DOMAIN journal : j # jid => Closed(jid, status)[j] = journal[j]
<1> DEFINE e == journal[jid]
           d == [e EXCEPT !.status = status]
           new == Closed(jid, status)
<1>1. e \in Entries /\ e \in RawEntry
  BY DEF Entries
<1>2. new = [journal EXCEPT ![jid] = d]
  BY DEF Closed
<1> HIDE DEF e
<1>3. /\ d \in RawEntry /\ d.status = status /\ d.run = e.run /\ d.head = e.head /\ d.unit = e.unit
      /\ d.src = e.src /\ d.dst = e.dst /\ d.index = e.index
  BY <1>1 DEF RawEntry
<1> HIDE DEF d
<1>4. LeadOf(d) = LeadOf(e)
  BY <1>3 DEF LeadOf
<1>5. d \in Entries
  BY <1>1, <1>3, <1>4 DEF Entries
<1> HIDE DEF new
<1>6. new \in Seq(Entries) /\ DOMAIN new = DOMAIN journal /\ Len(new) = Len(journal) /\ new[jid] = d
      /\ \A j \in DOMAIN journal : j # jid => new[j] = journal[j]
  BY <1>2, <1>5
<1> QED
  BY <1>3, <1>6 DEF e, d, new

LEMMA ImageFinite ==
    ASSUME NEW S, IsFiniteSet(S), NEW f
    PROVE  IsFiniteSet({f[x] : x \in S})
<1> DEFINE T == {f[x] : x \in S}
           h == [x \in S |-> f[x]]
<1>1. h \in [S -> T] /\ \A t \in T : \E x \in S : h[x] = t
  OBVIOUS
<1> HIDE DEF h, T
<1>2. h \in Surjection(S, T)
  BY <1>1 DEF Surjection
<1>3. IsFiniteSet(T)
  BY <1>2, FS_Surjection
<1> QED
  BY <1>3 DEF T

LEMMA FollowedIs ==
    ASSUME IndexOK, NEW from \in DOMAIN index, NEW to \in Path(ArchiveDir)
    PROVE  /\ Followed(from, to) \in [DOMAIN Followed(from, to) -> Row]
           /\ DOMAIN Followed(from, to) \subseteq Path(ArchiveDir)
           /\ IsFiniteSet(DOMAIN Followed(from, to))
<1> DEFINE D == (DOMAIN index \ {from}) \cup {to}
<1>1. Followed(from, to) = [path \in D |-> IF path = to THEN index[from] ELSE index[path]]
  BY DEF Followed
<1>2. IsFiniteSet(D)
  BY FS_RemoveElement, FS_AddElement DEF IndexOK
<1>3. ASSUME NEW path \in D
      PROVE  (IF path = to THEN index[from] ELSE index[path]) \in Row
  BY DEF IndexOK
<1>4. D \subseteq Path(ArchiveDir)
  BY DEF IndexOK
<1> HIDE DEF D
<1>5. DOMAIN Followed(from, to) = D /\ Followed(from, to) \in [D -> Row]
  BY <1>1, <1>3
<1> QED
  BY <1>2, <1>4, <1>5

LEMMA TypeStart ==
    ReorganizeInit => TypeInv
<1> SUFFICES ASSUME ReorganizeInit
             PROVE  TypeInv
  OBVIOUS
<1> DEFINE D == {Start[p] : p \in Photo}
<1>1. PlaceOK
  BY PlacesAssumption, PathDirs DEF ReorganizeInit, PlaceOK, Apart
<1>2. IsFiniteSet(D)
  <2>1. IsFiniteSet(Photo)
    BY ObjectAssumption, FS_Subset DEF Object
  <2> QED
    BY <2>1, ImageFinite
<1>3. D \subseteq Path(ArchiveDir)
  BY PlacesAssumption DEF Object
<1>4. ASSUME NEW path \in D
      PROVE  [who |-> CHOOSE p \in Photo : Start[p] = path, state |-> "present"] \in Row
  <2>1. (CHOOSE p \in Photo : Start[p] = path) \in Photo
    OBVIOUS
  <2> HIDE DEF D
  <2> QED
    BY <2>1 DEF Row
<1>5. index = [path \in D |-> [who |-> CHOOSE p \in Photo : Start[p] = path, state |-> "present"]]
  BY DEF ReorganizeInit
<1> HIDE DEF D
<1>6. DOMAIN index = D /\ index \in [D -> Row]
  BY <1>4, <1>5
<1>7. IndexOK
  BY <1>2, <1>3, <1>6 DEF IndexOK
<1>8. WorkOK
  BY DEF ReorganizeInit, WorkOK, Idle
<1>9. journal \in Seq(Entries) /\ runs \in Nat
  BY DEF ReorganizeInit
<1> QED
  BY <1>1, <1>7, <1>8, <1>9 DEF TypeInv

LEMMA ReadyLead ==
    ASSUME NEW m, Ready(Unit(m))
    PROVE  place[m.who] = m.src
<1> DEFINE u == [who |-> m.who, src |-> m.src, dst |-> m.dst]
<1>1. u \in Unit(m) /\ u.who = m.who /\ u.src = m.src
  BY DEF Unit
<1> HIDE DEF u
<1> QED
  BY <1>1 DEF Ready

\* What the steps of a job have in common.
LEMMA WorkIs ==
    ASSUME TypeInv
    PROVE  /\ work.phase = "move" => work \in MoveWork
           /\ work.phase = "undo" => work \in UndoWork
           /\ work.phase \in {"idle", "move", "undo"}
           /\ work.phase = "idle" => work = Idle
BY DEF TypeInv, WorkOK, Idle, MoveWork, UndoWork

LEMMA CurIs ==
    ASSUME TypeInv, work.phase = "move", work.step # "next"
    PROVE  work.cur \in DOMAIN journal /\ journal[work.cur] \in Entries
BY DEF TypeInv, WorkOK

LEMMA NewestIs ==
    ASSUME TypeInv, work.phase = "undo", work.left # {}
    PROVE  /\ NewestOf(work.left) \in work.left /\ \A j \in work.left : j <= NewestOf(work.left)
           /\ NewestOf(work.left) \in DOMAIN journal
           /\ journal[NewestOf(work.left)] \in Entries /\ journal[NewestOf(work.left)].status = "done"
<1>1. work.left \subseteq DOMAIN journal /\ \A jid \in work.left : journal[jid].status = "done"
  BY DEF TypeInv, WorkOK
<1>2. journal \in Seq(Entries) /\ Len(journal) \in Nat /\ DOMAIN journal = 1..Len(journal)
  BY DEF TypeInv
<1>3. work.left \in SUBSET Nat /\ \A j \in work.left : j <= Len(journal)
  BY <1>1, <1>2
<1>4. NewestOf(work.left) \in work.left /\ \A j \in work.left : j <= NewestOf(work.left)
  BY <1>2, <1>3, GreatestIs DEF NewestOf
<1> QED
  BY <1>1, <1>2, <1>4

LEMMA TypesByRun ==
    ASSUME TypeInv,
           \/ \E gap \in Gaps, run \in 1..MaxRuns, each \in BOOLEAN : organize(run, gap, each)
           \/ work.phase = "move" /\ \E m \in work.left : Refuse(m) \/ BeginMove(m)
           \/ move_unit \/ journal_close \/ set_file_path \/ FinishRun
           \/ work.phase = "move" /\ \E dir \in work.emptied : sweep_litter(dir)
    PROVE  TypeInv'
<1> USE DEF Same, Smoothly
<1>0. /\ PlaceOK /\ IndexOK /\ journal \in Seq(Entries) /\ runs \in Nat /\ WorkOK
      /\ DOMAIN journal = 1..Len(journal) /\ Len(journal) \in Nat
  BY DEF TypeInv
<1>1. ASSUME NEW gap \in Gaps, NEW run \in 1..MaxRuns, NEW each \in BOOLEAN, organize(run, gap, each)
      PROVE  TypeInv'
  <2>1. run \in Nat /\ runs' = run
    BY <1>1, <1>0 DEF organize
  <2>2. Plan(gap) \in SUBSET Moves
    BY <1>0, PlansAre DEF Moves
  <2> HIDE DEF Plan
  <2>3. work' = [phase |-> "move", run |-> run, left |-> Plan(gap), cur |-> 0, step |-> "next",
                 each |-> each, emptied |-> {}]
    BY <1>1 DEF organize
  <2>4. work' \in MoveWork
    BY <2>1, <2>2, <2>3 DEF MoveWork
  <2>5. WorkOK'
    BY <2>3, <2>4 DEF WorkOK
  <2>6. UNCHANGED <<place, index, journal>>
    BY <1>1 DEF organize
  <2> QED
    BY <1>0, <2>1, <2>5, <2>6 DEF TypeInv, PlaceOK, IndexOK
<1>2. ASSUME work.phase = "move", NEW m \in work.left, Refuse(m)
      PROVE  TypeInv'
  <2>1. work \in MoveWork
    BY <1>2, WorkIs
  <2>2. work' \in MoveWork /\ work'.step = "next" /\ work'.phase = "move"
    BY <1>2, <2>1 DEF Refuse, Moving, MoveWork
  <2>3. WorkOK'
    BY <2>2 DEF WorkOK
  <2>4. UNCHANGED <<place, index, journal, runs>>
    BY <1>2 DEF Refuse
  <2> QED
    BY <1>0, <2>3, <2>4 DEF TypeInv, PlaceOK, IndexOK
<1>3. ASSUME work.phase = "move", NEW m \in work.left, BeginMove(m)
      PROVE  TypeInv'
  <2>1. work \in MoveWork /\ m \in Moves
    BY <1>3, WorkIs DEF MoveWork
  <2>2. place[m.who] = m.src
    BY <1>3, ReadyLead DEF BeginMove
  <2>3. Entry(m, work.run) \in Entries /\ Entry(m, work.run).status = "pending"
    <3>1. work.run \in Nat
      BY <2>1 DEF MoveWork
    <3> QED
      BY <1>0, <2>1, <2>2, <3>1, EntryIs DEF Entry
  <2>4. journal' = Append(journal, Entry(m, work.run))
    BY <1>3 DEF BeginMove
  <2> HIDE DEF Entry
  <2>5. /\ journal' \in Seq(Entries) /\ Len(journal') = Len(journal) + 1
        /\ journal'[Len(journal) + 1] = Entry(m, work.run)
    BY <1>0, <2>3, <2>4
  <2>6. Len(journal) + 1 \in DOMAIN journal' /\ Len(journal) + 1 \in Nat
    BY <1>0, <2>5
  <2>7. work' = [work EXCEPT !.left = @ \ {m}, !.cur = Len(journal) + 1, !.step = "rename"]
    BY <1>3 DEF BeginMove
  <2>8. work' \in MoveWork /\ work'.step = "rename" /\ work'.phase = "move" /\ work'.cur = Len(journal) + 1
    BY <2>1, <2>6, <2>7 DEF MoveWork
  <2>9. WorkOK'
    BY <2>3, <2>5, <2>6, <2>8 DEF WorkOK
  <2>10. UNCHANGED <<place, index, runs>>
    BY <1>3 DEF BeginMove
  <2> QED
    BY <1>0, <2>5, <2>9, <2>10 DEF TypeInv, PlaceOK, IndexOK
<1>4. ASSUME move_unit
      PROVE  TypeInv'
  <2> DEFINE e == journal[work.cur]
  <2>1. work \in MoveWork /\ work.phase = "move" /\ work.step = "rename" /\ UNCHANGED <<index, runs>>
    BY <1>4, WorkIs DEF move_unit, Moving
  <2>2. work.cur \in DOMAIN journal /\ e \in Entries
    BY <2>1, CurIs
  <2>3. e.status = "pending"
    BY <2>1, <1>0 DEF WorkOK
  <2>4. CASE Ready(e.unit)
    <3>1. PlaceOK'
      <4>1. place' = Moved(e.unit) /\ Sound(e.unit)
        BY <1>4, <2>2, <2>4, EntriesAre DEF move_unit
      <4> QED
        BY <4>1, <1>0, <2>4, MovedIs DEF PlaceOK
    <3>2. journal' = journal
      BY <1>4, <2>4 DEF move_unit
    <3>3. work' = [work EXCEPT !.step = "close", !.emptied = @ \cup (IF e.index THEN {e.src.dir} ELSE {})]
      BY <1>4, <2>4 DEF move_unit
    <3>4. (IF e.index THEN {e.src.dir} ELSE {}) \subseteq ArchiveDir
      BY <2>2, EntriesAre DEF Path
    <3> HIDE DEF e
    <3>5. work' \in MoveWork /\ work'.step = "close" /\ work'.phase = "move" /\ work'.cur = work.cur
      BY <2>1, <3>3, <3>4 DEF MoveWork
    <3>6. WorkOK'
      BY <2>2, <2>3, <3>2, <3>5 DEF WorkOK, e
    <3> QED
      BY <1>0, <2>1, <3>1, <3>2, <3>6 DEF TypeInv, IndexOK
  <2>5. CASE ~Ready(e.unit)
    <3>1. journal' = Closed(work.cur, "failed") /\ place' = place /\ work' = [work EXCEPT !.step = "next", !.cur = 0]
      BY <1>4, <2>5 DEF move_unit
    <3>2. work' \in MoveWork /\ work'.step = "next" /\ work'.phase = "move"
      BY <2>1, <3>1 DEF MoveWork
    <3>3. WorkOK'
      BY <3>2 DEF WorkOK
    <3>4. journal' \in Seq(Entries)
      BY <1>0, <2>2, <3>1, ClosedIs DEF Status
    <3> QED
      BY <1>0, <2>1, <3>1, <3>3, <3>4 DEF TypeInv, IndexOK, PlaceOK
  <2> QED
    BY <2>4, <2>5
<1>5. ASSUME journal_close
      PROVE  TypeInv'
  <2> DEFINE e == journal[work.cur]
  <2>1. work \in MoveWork /\ work.phase = "move" /\ work.step = "close" /\ UNCHANGED <<place, index, runs>>
    BY <1>5, WorkIs DEF journal_close, Moving
  <2>2. work.cur \in DOMAIN journal /\ e \in Entries
    BY <2>1, CurIs
  <2>3. journal' = Closed(work.cur, "done")
    BY <1>5 DEF journal_close
  <2>4. /\ journal' \in Seq(Entries) /\ DOMAIN journal' = DOMAIN journal
        /\ journal'[work.cur].status = "done" /\ journal'[work.cur].index = e.index
    BY <1>0, <2>2, <2>3, ClosedIs DEF Status
  <2>5. work' = [work EXCEPT !.step = IF e.index THEN "follow" ELSE "next"]
    BY <1>5 DEF journal_close
  <2> HIDE DEF e
  <2>6. /\ work' \in MoveWork /\ work'.phase = "move" /\ work'.cur = work.cur
        /\ work'.step = IF e.index THEN "follow" ELSE "next"
    BY <2>1, <2>5 DEF MoveWork
  <2>7. WorkOK'
    BY <2>2, <2>4, <2>6 DEF WorkOK
  <2> QED
    BY <1>0, <2>1, <2>4, <2>7 DEF TypeInv, IndexOK, PlaceOK
<1>6. ASSUME set_file_path
      PROVE  TypeInv'
  <2> DEFINE e == journal[work.cur]
  <2>1. /\ work \in MoveWork /\ work.phase = "move" /\ work.step = "follow"
        /\ UNCHANGED <<place, journal, runs>>
    BY <1>6, WorkIs DEF set_file_path, Moving
  <2>2. work.cur \in DOMAIN journal /\ e \in Entries /\ e.index
    BY <2>1, <1>0, CurIs DEF WorkOK
  <2>3. CASE e.src \in DOMAIN index /\ ~Follows(e.src, e.dst)
    <3>1. work' = Idle /\ index' = index
      BY <1>6, <2>3 DEF set_file_path
    <3>2. WorkOK'
      BY <3>1 DEF WorkOK, Idle
    <3> QED
      BY <1>0, <2>1, <3>1, <3>2 DEF TypeInv, IndexOK, PlaceOK
  <2>4. CASE ~(e.src \in DOMAIN index /\ ~Follows(e.src, e.dst))
    <3>1. /\ work' = [work EXCEPT !.step = "next"]
          /\ index' = IF e.src \in DOMAIN index THEN Followed(e.src, e.dst) ELSE index
      BY <1>6, <2>4 DEF set_file_path
    <3>2. work' \in MoveWork /\ work'.step = "next" /\ work'.phase = "move"
      BY <2>1, <3>1 DEF MoveWork
    <3>3. WorkOK'
      BY <3>2 DEF WorkOK
    <3>4. IndexOK'
      <4>1. CASE e.src \in DOMAIN index
        <5>1. index' = Followed(e.src, e.dst) /\ e.dst \in Path(ArchiveDir)
          BY <3>1, <4>1, <2>2, EntriesAre
        <5> QED
          BY <4>1, <5>1, <1>0, FollowedIs DEF IndexOK
      <4>2. CASE e.src \notin DOMAIN index
        BY <1>0, <4>2, <3>1 DEF IndexOK
      <4> QED
        BY <4>1, <4>2
    <3> QED
      BY <1>0, <2>1, <3>3, <3>4 DEF TypeInv, PlaceOK
  <2> QED
    BY <2>3, <2>4
<1>7. ASSUME work.phase = "move", NEW dir \in work.emptied, sweep_litter(dir)
      PROVE  TypeInv'
  <2> DEFINE inside == {o \in Object : place[o].dir = dir}
             new == IF dir \notin Roots /\ inside \subseteq Litter
                    THEN {[who |-> o, src |-> place[o], index |-> FALSE,
                           dst |-> Put(place[o], Held(dir), place[o].stem)] : o \in inside}
                    ELSE {}
  <2>1. work \in MoveWork /\ dir \in ArchiveDir /\ UNCHANGED <<place, index, journal, runs>>
    BY <1>7, WorkIs DEF sweep_litter, MoveWork
  <2>2. new \subseteq Moves
    <3>1. CASE inside \subseteq Litter
      <4>1. ASSUME NEW o \in inside
            PROVE  [who |-> o, src |-> place[o], index |-> FALSE,
                    dst |-> Put(place[o], Held(dir), place[o].stem)] \in LitterMove
        <5>1. o \in Litter /\ o \in Object
          BY <3>1
        <5>2. place[o] \in AnyPath
          BY <5>1, <1>0 DEF PlaceOK
        <5>3. Put(place[o], Held(dir), place[o].stem) \in AnyPath
          BY <5>2, <2>1, DirsAre, PathDirs
        <5> QED
          BY <5>1, <5>2, <5>3 DEF LitterMove
      <4> HIDE DEF inside
      <4> QED
        BY <4>1 DEF Moves
    <3>2. CASE ~(inside \subseteq Litter)
      BY <3>2
    <3> QED
      BY <3>1, <3>2
  <2>3. work' = [work EXCEPT !.emptied = @ \ {dir}, !.left = @ \cup new] /\ work.step = "next"
    BY <1>7 DEF sweep_litter, Moving
  <2> HIDE DEF new
  <2>4. work' \in MoveWork /\ work'.step = "next" /\ work'.phase = "move"
    BY <2>1, <2>2, <2>3 DEF MoveWork
  <2>5. WorkOK'
    BY <2>4 DEF WorkOK
  <2> QED
    BY <1>0, <2>1, <2>5 DEF TypeInv, IndexOK, PlaceOK
<1>8. ASSUME FinishRun
      PROVE  TypeInv'
  <2>1. work' = Idle /\ UNCHANGED <<place, index, journal, runs>>
    BY <1>8 DEF FinishRun
  <2>2. WorkOK'
    BY <2>1 DEF WorkOK, Idle
  <2> QED
    BY <1>0, <2>1, <2>2 DEF TypeInv, IndexOK, PlaceOK
<1> QED
  BY <1>1, <1>2, <1>3, <1>4, <1>5, <1>6, <1>7, <1>8

LEMMA TypesByUndo ==
    ASSUME TypeInv,
           \/ \E run \in 1..runs : undo_run(run)
           \/ \E jid \in DOMAIN journal : undo(jid) \/ reconcile_undo(jid)
           \/ walk_back \/ index_back \/ close_undone \/ FinishUndo
    PROVE  TypeInv'
<1> USE DEF Same, Smoothly
<1>0. /\ PlaceOK /\ IndexOK /\ journal \in Seq(Entries) /\ runs \in Nat /\ WorkOK
      /\ DOMAIN journal = 1..Len(journal) /\ Len(journal) \in Nat
  BY DEF TypeInv
<1>1. ASSUME NEW run \in Nat, NEW jids \in SUBSET DOMAIN journal,
             \A jid \in jids : journal[jid].status = "done",
             work' = Undoing(jids, run), UNCHANGED <<place, index, journal, runs>>
      PROVE  TypeInv'
  <2>1. work' = [phase |-> "undo", run |-> run, left |-> jids, step |-> "next", failed |-> FALSE]
    BY <1>1 DEF Undoing
  <2>2. jids \in SUBSET Nat
    BY <1>0
  <2>3. work' \in UndoWork
    BY <2>1, <2>2 DEF UndoWork
  <2>4. WorkOK'
    BY <1>1, <2>1, <2>3 DEF WorkOK
  <2> QED
    BY <1>0, <1>1, <2>4 DEF TypeInv, IndexOK, PlaceOK
<1>2. ASSUME NEW run \in 1..runs, undo_run(run)
      PROVE  TypeInv'
  <2>1. DoneOf(run) \in SUBSET DOMAIN journal /\ \A jid \in DoneOf(run) : journal[jid].status = "done"
    BY DEF DoneOf
  <2>2. work' = Undoing(DoneOf(run), run) /\ UNCHANGED <<place, index, journal, runs>>
    BY <1>2 DEF undo_run
  <2>3. run \in Nat
    BY <1>0
  <2> QED
    BY <2>1, <2>2, <2>3, <1>1
<1>3. ASSUME NEW jid \in DOMAIN journal, undo(jid)
      PROVE  TypeInv'
  <2>1. work' = Undoing({jid}, 0) /\ UNCHANGED <<place, index, journal, runs>> /\ journal[jid].status = "done"
    BY <1>3 DEF undo
  <2> QED
    BY <2>1, <1>1
<1>4. ASSUME NEW jid \in DOMAIN journal, reconcile_undo(jid)
      PROVE  TypeInv'
  <2>1. /\ work.phase = "idle" /\ CanReturn(journal[jid].unit)
        /\ place' = Returned(journal[jid].unit) /\ journal' = Closed(jid, "undone")
        /\ UNCHANGED <<runs, index, work>>
    BY <1>4 DEF reconcile_undo, Free
  <2>2. PlaceOK'
    <3>1. Sound(journal[jid].unit)
      <4>1. journal[jid] \in Entries
        BY <1>0
      <4> QED
        BY <4>1, EntriesAre
    <3> QED
      BY <1>0, <2>1, <3>1, ReturnedIs DEF PlaceOK
  <2>3. journal' \in Seq(Entries)
    BY <1>0, <2>1, ClosedIs DEF Status
  <2>4. WorkOK'
    BY <1>0, <2>1 DEF WorkOK
  <2> QED
    BY <1>0, <2>1, <2>2, <2>3, <2>4 DEF TypeInv, IndexOK
<1> DEFINE jid == NewestOf(work.left)
           e == journal[jid]
<1>5. ASSUME work.phase = "undo", work.left # {}, NEW failed \in BOOLEAN, work' = NextEntry(failed),
             journal' \in Seq(Entries), DOMAIN journal' = DOMAIN journal,
             \A j \in DOMAIN journal : j # jid => journal'[j] = journal[j]
      PROVE  WorkOK'
  <2>1. work \in UndoWork /\ work' = [work EXCEPT !.left = @ \ {jid}, !.step = "next", !.failed = @ \/ failed]
    BY <1>5, WorkIs DEF NextEntry
  <2>2. /\ work' \in UndoWork /\ work'.phase = "undo" /\ work'.step = "next"
        /\ work'.left = work.left \ {jid}
    BY <2>1 DEF UndoWork
  <2>3. work.left \subseteq DOMAIN journal /\ \A j \in work.left : journal[j].status = "done"
    BY <1>0, <1>5 DEF WorkOK
  <2> HIDE DEF jid
  <2> QED
    BY <1>5, <2>2, <2>3 DEF WorkOK
<1>6. ASSUME work.phase = "undo", work.left # {}, NEW step \in {"index", "close"},
             work' = [work EXCEPT !.step = step], journal' = journal
      PROVE  WorkOK'
  <2>1. work \in UndoWork
    BY <1>6, WorkIs
  <2>2. /\ work' \in UndoWork /\ work'.phase = "undo" /\ work'.left = work.left
    BY <1>6, <2>1 DEF UndoWork
  <2> QED
    BY <1>0, <1>6, <2>2 DEF WorkOK
<1>7. ASSUME walk_back
      PROVE  TypeInv'
  <2>1. work.phase = "undo" /\ work.left # {} /\ UNCHANGED <<index, journal, runs>>
    BY <1>7 DEF walk_back, Back
  <2>2. e \in Entries /\ jid \in DOMAIN journal
    BY <2>1, NewestIs
  <2>3. CASE CanReturn(e.unit)
    <3>1. place' = Returned(e.unit) /\ work' = [work EXCEPT !.step = "index"]
      BY <1>7, <2>3 DEF walk_back
    <3>2. Sound(e.unit)
      BY <2>2, EntriesAre
    <3>3. PlaceOK'
      BY <1>0, <2>3, <3>1, <3>2, ReturnedIs DEF PlaceOK
    <3>4. WorkOK'
      BY <2>1, <3>1, <1>6
    <3> QED
      BY <1>0, <2>1, <3>3, <3>4 DEF TypeInv, IndexOK
  <2>4. CASE ~CanReturn(e.unit)
    <3>1. place' = place /\ work' = NextEntry(TRUE)
      BY <1>7, <2>4 DEF walk_back
    <3>2. WorkOK'
      BY <1>0, <2>1, <3>1, <1>5
    <3> QED
      BY <1>0, <2>1, <3>1, <3>2 DEF TypeInv, IndexOK, PlaceOK
  <2> QED
    BY <2>3, <2>4
<1>8. ASSUME index_back
      PROVE  TypeInv'
  <2>1. work.phase = "undo" /\ work.left # {} /\ UNCHANGED <<place, journal, runs>>
    BY <1>8 DEF index_back, Back
  <2>2. e \in Entries /\ jid \in DOMAIN journal
    BY <2>1, NewestIs
  <2>3. CASE e.index /\ e.dst \in DOMAIN index /\ ~Follows(e.dst, e.src)
    <3>1. work' = NextEntry(TRUE) /\ index' = index
      BY <1>8, <2>3 DEF index_back
    <3>2. WorkOK'
      BY <1>0, <2>1, <3>1, <1>5
    <3> QED
      BY <1>0, <2>1, <3>1, <3>2 DEF TypeInv, IndexOK, PlaceOK
  <2>4. CASE ~(e.index /\ e.dst \in DOMAIN index /\ ~Follows(e.dst, e.src))
    <3>1. work' = [work EXCEPT !.step = "close"] /\ index' = IF e.index THEN BackInIndex(e) ELSE index
      BY <1>8, <2>4 DEF index_back
    <3>2. WorkOK'
      BY <2>1, <3>1, <1>6
    <3>3. IndexOK'
      <4>1. CASE e.index /\ e.dst \in DOMAIN index
        <5>1. index' = Followed(e.dst, e.src) /\ e.src \in Path(ArchiveDir)
          BY <3>1, <4>1, <2>2, EntriesAre DEF BackInIndex
        <5> QED
          BY <4>1, <5>1, <1>0, FollowedIs DEF IndexOK
      <4>2. CASE ~(e.index /\ e.dst \in DOMAIN index)
        <5>1. index' = index
          BY <3>1, <4>2 DEF BackInIndex
        <5> QED
          BY <1>0, <5>1 DEF IndexOK
      <4> QED
        BY <4>1, <4>2
    <3> QED
      BY <1>0, <2>1, <3>2, <3>3 DEF TypeInv, PlaceOK
  <2> QED
    BY <2>3, <2>4
<1>9. ASSUME close_undone
      PROVE  TypeInv'
  <2>1. /\ work.phase = "undo" /\ work.left # {} /\ UNCHANGED <<place, index, runs>>
        /\ journal' = Closed(jid, "undone") /\ work' = NextEntry(FALSE)
    BY <1>9 DEF close_undone, Back
  <2>2. e \in Entries /\ jid \in DOMAIN journal
    BY <2>1, NewestIs
  <2>3. /\ journal' \in Seq(Entries) /\ DOMAIN journal' = DOMAIN journal
        /\ \A j \in DOMAIN journal : j # jid => journal'[j] = journal[j]
    BY <1>0, <2>1, <2>2, ClosedIs DEF Status
  <2>4. WorkOK'
    BY <2>1, <2>3, <1>5
  <2> QED
    BY <1>0, <2>1, <2>3, <2>4 DEF TypeInv, IndexOK, PlaceOK
<1>10. ASSUME FinishUndo
       PROVE  TypeInv'
  <2>1. work' = Idle /\ UNCHANGED <<place, index, journal, runs>>
    BY <1>10 DEF FinishUndo
  <2>2. WorkOK'
    BY <2>1 DEF WorkOK, Idle
  <2> QED
    BY <1>0, <2>1, <2>2 DEF TypeInv, IndexOK, PlaceOK
<1> QED
  BY <1>2, <1>3, <1>4, <1>7, <1>8, <1>9, <1>10

Leaving(p) == [who |-> p, src |-> place[p], index |-> TRUE,
               dst |-> Put(place[p], Kept(place[p].dir), place[p].stem)]

LEMMA QuarantineIs ==
    ASSUME TypeInv, NEW p \in Photo, Quarantine(p)
    PROVE  /\ place[p] \in Present /\ index[place[p]].who = p /\ place[p].dir \in ArchiveDir
           /\ Sound(Unit(Leaving(p))) /\ Ready(Unit(Leaving(p))) /\ Lead(Leaving(p)) \in Unit(Leaving(p))
           /\ \A u \in Unit(Leaving(p)) : u = Lead(Leaving(p)) \/ u.who \in Side
           /\ place' = Moved(Unit(Leaving(p)))
           /\ index' = [index EXCEPT ![place[p]] = [@ EXCEPT !.state = "quarantined"]]
           /\ Free /\ Disturbed /\ Smoothly /\ UNCHANGED <<work, told, journal>> /\ runs' = runs + 1
<1> DEFINE m == Leaving(p)
<1>1. /\ place[p] \in Present /\ index[place[p]].who = p /\ Ready(Unit(m))
      /\ place' = Moved(Unit(m))
      /\ index' = [index EXCEPT ![place[p]] = [@ EXCEPT !.state = "quarantined"]]
      /\ Free /\ Disturbed /\ Smoothly /\ UNCHANGED <<work, told, journal>> /\ runs' = runs + 1
  BY DEF Quarantine, Other, Leaving
<1>2. place[p].dir \in ArchiveDir /\ place[p].stem \in Seq(Nat) /\ place[p] \in AnyPath
  BY <1>1, PathsAre, PathDirs DEF TypeInv
<1>3. m.who \in Object \ Side /\ m.index = TRUE /\ place[m.who] = m.src /\ m.dst.ext = m.src.ext
  BY ObjectAssumption DEF Leaving, Put, Object
<1>4. m.dst \in AnyPath
  BY <1>2, DirsAre, PathDirs DEF Leaving
<1>5. PlaceOK
  BY DEF TypeInv
<1> HIDE DEF m
<1>6. /\ Sound(Unit(m)) /\ Lead(m) \in Unit(m)
      /\ \A u \in Unit(m) : u = Lead(m) \/ u.who \in Side
  BY <1>3, <1>4, <1>5, UnitIs
<1> QED
  BY <1>1, <1>2, <1>6 DEF m

LEMMA TypesByOthers ==
    ASSUME TypeInv,
           \/ \E p \in Photo : Quarantine(p)
           \/ Index \/ Stops
           \/ \E stray \in Strays : Others(stray[1], stray[2])
           \/ UNCHANGED reorganizeVars
    PROVE  TypeInv'
<1>0. /\ PlaceOK /\ IndexOK /\ journal \in Seq(Entries) /\ runs \in Nat /\ WorkOK
  BY DEF TypeInv
<1>1. ASSUME NEW p \in Photo, Quarantine(p)
      PROVE  TypeInv'
  <2> DEFINE U == Unit(Leaving(p))
  <2>1. /\ place[p] \in Present /\ Sound(U) /\ Ready(U) /\ place' = Moved(U)
        /\ index' = [index EXCEPT ![place[p]] = [@ EXCEPT !.state = "quarantined"]]
        /\ UNCHANGED <<work, journal>> /\ runs' = runs + 1
    BY <1>1, QuarantineIs
  <2> HIDE DEF U
  <2>2. PlaceOK'
    BY <1>0, <2>1, MovedIs DEF PlaceOK
  <2>3. IndexOK'
    <3>1. place[p] \in DOMAIN index /\ index[place[p]] \in Row
      BY <2>1, <1>0 DEF Present, IndexOK
    <3>2. [index[place[p]] EXCEPT !.state = "quarantined"] \in Row
      BY <3>1 DEF Row
    <3> QED
      BY <1>0, <2>1, <3>1, <3>2 DEF IndexOK
  <2>4. WorkOK'
    BY <1>0, <2>1 DEF WorkOK
  <2> QED
    BY <1>0, <2>1, <2>2, <2>3, <2>4 DEF TypeInv
<1>2. ASSUME Index
      PROVE  TypeInv'
  <2> DEFINE D == DOMAIN index \cup {place[p] : p \in Archived}
             row(path) == [who |-> IF \E p \in Archived : place[p] = path
                                   THEN CHOOSE p \in Archived : place[p] = path ELSE index[path].who,
                           state |-> IF path \in DOMAIN index THEN index[path].state ELSE "present"]
  <2>1. index' = [path \in D |-> row(path)] /\ UNCHANGED <<place, journal, runs, work>>
    BY <1>2 DEF Index, Other
  <2>2. \A p \in Archived : p \in Photo /\ place[p] \in Path(ArchiveDir)
    <3>1. \A p \in Photo : place[p] \in AnyPath
      BY <1>0 DEF PlaceOK, Object
    <3>2. \A p \in Archived : p \in Photo /\ place[p].dir[1] \notin {"held", "kept"}
      BY DEF Archived
    <3> QED
      BY <3>1, <3>2, DirsAre, PathDirs
  <2>3. IsFiniteSet(D)
    <3>1. Archived \in SUBSET Object /\ IsFiniteSet(Object)
      BY ObjectAssumption DEF Archived, Object
    <3>2. IsFiniteSet(Archived)
      BY <3>1, FS_Subset
    <3>3. IsFiniteSet({place[p] : p \in Archived})
      BY <3>2, ImageFinite
    <3> QED
      BY <1>0, <3>3, FS_Union DEF IndexOK
  <2>4. D \subseteq Path(ArchiveDir)
    BY <1>0, <2>2 DEF IndexOK
  <2>5. ASSUME NEW path \in D
        PROVE  row(path) \in Row
    <3>1. path \in DOMAIN index => index[path].who \in Photo /\ index[path].state \in {"present", "quarantined"}
      BY <1>0 DEF IndexOK, Row
    <3>2. (IF \E p \in Archived : place[p] = path
           THEN CHOOSE p \in Archived : place[p] = path ELSE index[path].who) \in Photo
      <4>1. CASE \E p \in Archived : place[p] = path
        <5>1. (CHOOSE p \in Archived : place[p] = path) \in Archived
          BY <4>1
        <5> QED
          BY <4>1, <5>1, <2>2
      <4>2. CASE ~\E p \in Archived : place[p] = path
        BY <4>2, <3>1
      <4> QED
        BY <4>1, <4>2
    <3>3. (IF path \in DOMAIN index THEN index[path].state ELSE "present") \in {"present", "quarantined"}
      BY <3>1
    <3> QED
      BY <3>2, <3>3 DEF Row
  <2> HIDE DEF D, row
  <2>6. IndexOK'
    BY <2>1, <2>3, <2>4, <2>5 DEF IndexOK
  <2>7. WorkOK' /\ PlaceOK'
    BY <1>0, <2>1 DEF WorkOK, PlaceOK
  <2> QED
    BY <1>0, <2>1, <2>6, <2>7 DEF TypeInv
<1>3. ASSUME Stops
      PROVE  TypeInv'
  <2>1. work' = Idle /\ UNCHANGED <<place, index, journal, runs>>
    BY <1>3 DEF Stops
  <2>2. WorkOK'
    BY <2>1 DEF WorkOK, Idle
  <2> QED
    BY <1>0, <2>1, <2>2 DEF TypeInv, IndexOK, PlaceOK
<1>4. ASSUME NEW stray \in Strays, Others(stray[1], stray[2])
      PROVE  TypeInv'
  <2> DEFINE o == stray[1]
             path == stray[2]
  <2>1. o \in Object /\ path \in AnyPath
    BY PlacesAssumption, PathDirs
  <2>2. /\ ~Occupied(path) /\ place' = [place EXCEPT ![o] = path]
        /\ UNCHANGED <<index, journal, runs, work>>
    BY <1>4 DEF Others
  <2> HIDE DEF o, path
  <2>3. PlaceOK'
    BY <1>0, <2>1, <2>2 DEF PlaceOK, Apart, Occupied
  <2>4. WorkOK'
    BY <1>0, <2>2 DEF WorkOK
  <2> QED
    BY <1>0, <2>2, <2>3, <2>4 DEF TypeInv, IndexOK
<1>5. ASSUME UNCHANGED reorganizeVars
      PROVE  TypeInv'
  <2>1. UNCHANGED <<place, index, journal, runs, work>>
    BY <1>5 DEF reorganizeVars
  <2> QED
    BY <1>0, <2>1 DEF TypeInv, IndexOK, PlaceOK, WorkOK
<1> QED
  BY <1>1, <1>2, <1>3, <1>4, <1>5

LEMMA TypesStay ==
    TypeInv /\ [ReorganizeNext]_reorganizeVars => TypeInv'
BY TypesByRun, TypesByUndo, TypesByOthers DEF ReorganizeNext

\* No plan sends two files to one name, nor one to the name of a file that
\* stays, and the halves of a shot keep one name: whatever the rows, the dates
\* and the gap (plan.rs Namer).
THEOREM PlansAreFair == ReorganizeSpec => []PlanIsFair
<1>1. TypeInv => PlanIsFair
  BY FairPlans DEF TypeInv
<1> QED
  BY <1>1, TypeStart, TypesStay, PTL DEF ReorganizeSpec

(* -------------------------- the index follows -------------------------- *)
\* Every photograph of the archive has its row, and every row its photograph.
Agree(pl, ix) ==
    /\ \A p \in Photo : pl[p].dir \in ArchiveDir =>
        pl[p] \in DOMAIN ix /\ ix[pl[p]].state = "present" /\ ix[pl[p]].who = p
    /\ \A path \in DOMAIN ix : ix[path].state = "present" => pl[ix[path].who] = path
\* The row still says where the photograph of e was before.
Behind(e, was, is) ==
    place[e.head] = is /\ Agree([place EXCEPT ![e.head] = was], index)
PendingOnlyNow ==
    \A jid \in DOMAIN journal : journal[jid].status = "pending" =>
        work.phase = "move" /\ work.step \in {"rename", "close"} /\ work.cur = jid
SettledRun ==
    work.phase = "move" =>
        LET e == journal[work.cur] IN
        /\ work.step \in {"next", "rename"} => Agree(place, index)
        /\ work.step \in {"close", "follow"} =>
            IF e.index THEN Behind(e, e.src, e.dst) ELSE Agree(place, index)
SettledUndo ==
    work.phase = "undo" =>
        LET e == journal[NewestOf(work.left)] IN
        /\ work.step \in {"next", "close"} => Agree(place, index)
        /\ work.step = "index" =>
            IF e.index THEN \/ place[e.head] = e.src /\ Agree(place, index)
                            \/ Behind(e, e.dst, e.src)
            ELSE Agree(place, index)
SettledInv ==
    told = {} /\ ~meddled =>
        /\ PendingOnlyNow /\ SettledRun /\ SettledUndo
        /\ work.phase = "idle" => Agree(place, index)

LEMMA FollowAgrees ==
    ASSUME TypeInv, NEW p \in Photo, NEW from \in Path(ArchiveDir), NEW to \in Path(ArchiveDir),
           place[p] = to, Agree([place EXCEPT ![p] = from], index)
    PROVE  /\ from \in DOMAIN index
           /\ Follows(from, to) => Agree(place, Followed(from, to))
<1> DEFINE old == [place EXCEPT ![p] = from]
           new == Followed(from, to)
<1>1. /\ old[p] = from /\ \A q \in Photo : q # p => old[q] = place[q]
      /\ \A q \in Photo : q \in DOMAIN place
  BY DEF TypeInv, PlaceOK, Object
<1>2. Agree(old, index)
  OBVIOUS
<1> HIDE DEF old
<1>3. from.dir \in ArchiveDir /\ to.dir \in ArchiveDir
  BY DEF Path
<1>4. from \in DOMAIN index /\ index[from].state = "present" /\ index[from].who = p
  BY <1>1, <1>2, <1>3 DEF Agree
<1>5. /\ DOMAIN new = (DOMAIN index \ {from}) \cup {to} /\ new[to] = index[from]
      /\ \A path \in DOMAIN new : path # to => new[path] = index[path]
  BY DEF Followed
<1>6. \A path \in DOMAIN index : index[path].who \in Photo
  BY DEF TypeInv, IndexOK, Row
<1> HIDE DEF new
<1>7. ASSUME to = from \/ to \notin DOMAIN index
      PROVE  Agree(place, new)
  <2>1. ASSUME NEW q \in Photo, place[q].dir \in ArchiveDir
        PROVE  place[q] \in DOMAIN new /\ new[place[q]].state = "present" /\ new[place[q]].who = q
    <3>1. CASE q = p
      BY <3>1, <1>4, <1>5
    <3>2. CASE q # p
      <4>1. /\ place[q] \in DOMAIN index /\ index[place[q]].state = "present" /\ index[place[q]].who = q
        BY <3>2, <2>1, <1>1, <1>2 DEF Agree
      <4>2. place[q] # from
        BY <4>1, <3>2, <1>4
      <4>3. place[q] # to
        BY <4>1, <4>2, <1>7
      <4> QED
        BY <4>1, <4>2, <4>3, <1>5
    <3> QED
      BY <3>1, <3>2
  <2>2. ASSUME NEW path \in DOMAIN new, new[path].state = "present"
        PROVE  place[new[path].who] = path
    <3>1. CASE path = to
      BY <3>1, <1>4, <1>5
    <3>2. CASE path # to
      <4>1. path \in DOMAIN index /\ path # from /\ new[path] = index[path]
        BY <3>2, <1>5
      <4>2. old[index[path].who] = path
        BY <4>1, <2>2, <1>2 DEF Agree
      <4>3. index[path].who # p
        BY <4>1, <4>2, <1>1
      <4> QED
        BY <4>1, <4>2, <4>3, <1>1, <1>6
    <3> QED
      BY <3>1, <3>2
  <2> QED
    BY <2>1, <2>2 DEF Agree
<1> QED
  BY <1>4, <1>7 DEF Follows, new

\* What becomes of the other photographs is nobody's business.
LEMMA AgreeSame ==
    ASSUME NEW a, NEW b, NEW ix, \A p \in Photo : a[p] = b[p],
           \A path \in DOMAIN ix : ix[path].who \in Photo, Agree(a, ix)
    PROVE  Agree(b, ix)
BY DEF Agree

LEMMA HeadArchived ==
    ASSUME TypeInv, NEW path
    PROVE  path \in DOMAIN index => index[path].who \in Photo
BY DEF TypeInv, IndexOK, Row

LEMMA MovedPhotos ==
    ASSUME TypeInv, NEW e \in Entries, Ready(e.unit)
    PROVE  /\ \A q \in Photo : q # e.head => Moved(e.unit)[q] = place[q]
           /\ Moved(e.unit)[e.head] = e.dst /\ place[e.head] = e.src
           /\ Moved(e.unit) \in [Object -> AnyPath]
<1> DEFINE U == e.unit
<1>1. /\ Sound(U) /\ LeadOf(e) \in U /\ LeadOf(e).who = e.head /\ LeadOf(e).src = e.src /\ LeadOf(e).dst = e.dst
      /\ \A u \in U : u = LeadOf(e) \/ u.who \in Side
  BY EntriesAre
<1> HIDE DEF U
<1>2. /\ \A u \in U : Moved(U)[u.who] = u.dst
      /\ \A o \in Object : (\A u \in U : u.who # o) => Moved(U)[o] = place[o]
      /\ Moved(U) \in [Object -> AnyPath]
  BY <1>1, MovedIs DEF TypeInv, U
<1>3. ASSUME NEW q \in Photo, q # e.head
      PROVE  Moved(U)[q] = place[q]
  <2>1. \A u \in U : u.who # q
    BY <1>1, <1>3, ObjectAssumption
  <2> QED
    BY <2>1, <1>2 DEF Object
<1>4. Moved(U)[e.head] = e.dst /\ place[e.head] = e.src
  BY <1>1, <1>2 DEF Ready, U
<1> QED
  BY <1>2, <1>3, <1>4 DEF U

LEMMA ReturnedPhotos ==
    ASSUME TypeInv, NEW e \in Entries, CanReturn(e.unit)
    PROVE  /\ \A q \in Photo : q # e.head => Returned(e.unit)[q] = place[q]
           /\ Returned(e.unit)[e.head] = e.src
           /\ place[e.head] = e.src \/ place[e.head] = e.dst
           /\ Returned(e.unit) \in [Object -> AnyPath]
<1> DEFINE U == e.unit
<1>1. /\ Sound(U) /\ LeadOf(e) \in U /\ LeadOf(e).who = e.head /\ LeadOf(e).src = e.src /\ LeadOf(e).dst = e.dst
      /\ \A u \in U : u = LeadOf(e) \/ u.who \in Side
  BY EntriesAre
<1> HIDE DEF U
<1>2. /\ \A u \in U : Returned(U)[u.who] = u.src
      /\ \A o \in Object : (\A u \in U : u.who # o) => Returned(U)[o] = place[o]
      /\ Returned(U) \in [Object -> AnyPath]
  BY <1>1, ReturnedIs DEF TypeInv, U
<1>3. ASSUME NEW q \in Photo, q # e.head
      PROVE  Returned(U)[q] = place[q]
  <2>1. \A u \in U : u.who # q
    BY <1>1, <1>3, ObjectAssumption
  <2> QED
    BY <2>1, <1>2 DEF Object
<1>4. Returned(U)[e.head] = e.src /\ (place[e.head] = e.src \/ place[e.head] = e.dst)
  BY <1>1, <1>2 DEF CanReturn, U
<1> QED
  BY <1>2, <1>3, <1>4 DEF U

LEMMA SettledStart ==
    ReorganizeInit => SettledInv
<1> SUFFICES ASSUME ReorganizeInit
             PROVE  SettledInv
  OBVIOUS
<1>1. place = Start /\ work = Idle /\ journal = <<>>
  BY DEF ReorganizeInit
<1>2. index = [path \in {Start[p] : p \in Photo} |->
                  [who |-> CHOOSE p \in Photo : Start[p] = path, state |-> "present"]]
  BY DEF ReorganizeInit
<1>3. ASSUME NEW path \in DOMAIN index
      PROVE  index[path].who \in Photo /\ Start[index[path].who] = path /\ index[path].state = "present"
  <2>1. \E p \in Photo : Start[p] = path
    BY <1>2
  <2>2. (CHOOSE p \in Photo : Start[p] = path) \in Photo /\ Start[CHOOSE p \in Photo : Start[p] = path] = path
    BY <2>1
  <2> QED
    BY <2>2, <1>2
<1>4. ASSUME NEW p \in Photo
      PROVE  Start[p] \in DOMAIN index /\ index[Start[p]].who = p
  <2>1. Start[p] \in DOMAIN index
    BY <1>2
  <2> QED
    BY <2>1, <1>3, PlacesAssumption DEF Object
<1>5. Agree(place, index)
  BY <1>1, <1>3, <1>4 DEF Agree
<1> QED
  BY <1>1, <1>5 DEF SettledInv, PendingOnlyNow, SettledRun, SettledUndo, Idle

LEMMA SettledByRun ==
    ASSUME TypeInv, SettledInv, told' = {}, ~meddled',
           \/ \E gap \in Gaps, run \in 1..MaxRuns, each \in BOOLEAN : organize(run, gap, each)
           \/ work.phase = "move" /\ \E m \in work.left : Refuse(m) \/ BeginMove(m)
           \/ move_unit \/ journal_close \/ set_file_path \/ FinishRun
           \/ work.phase = "move" /\ \E dir \in work.emptied : sweep_litter(dir)
    PROVE  SettledInv'
<1> USE DEF Same, Smoothly
<1>0. TypeInv' /\ journal \in Seq(Entries) /\ DOMAIN journal = 1..Len(journal) /\ Len(journal) \in Nat
  BY TypesByRun DEF TypeInv
<1>a. \A path \in DOMAIN index : index[path].who \in Photo
  BY HeadArchived
<1>1. ASSUME told = {}, ~meddled, UNCHANGED <<place, index, journal>>, Agree(place, index), PendingOnlyNow,
             work.step = "next" \/ work.phase = "idle",
             work'.phase = "idle" \/ (work'.phase = "move" /\ work'.step = "next")
      PROVE  SettledInv'
  <2>1. \A jid \in DOMAIN journal : journal[jid].status # "pending"
    BY <1>1 DEF PendingOnlyNow
  <2>2. PendingOnlyNow'
    BY <1>1, <2>1 DEF PendingOnlyNow
  <2> QED
    BY <1>1, <2>2 DEF SettledInv, SettledRun, SettledUndo, Agree
<1>2. ASSUME NEW gap \in Gaps, NEW run \in 1..MaxRuns, NEW each \in BOOLEAN, organize(run, gap, each)
      PROVE  SettledInv'
  <2>1. /\ UNCHANGED <<place, index, journal, told, meddled>> /\ work.phase = "idle"
        /\ work'.phase = "move" /\ work'.step = "next"
    <3> HIDE DEF Plan
    <3> QED
      BY <1>2 DEF organize, Free
  <2> QED
    BY <2>1, <1>1 DEF SettledInv
<1>3. ASSUME work.phase = "move", NEW m \in work.left, Refuse(m)
      PROVE  SettledInv'
  <2>1. work \in MoveWork
    BY <1>3, WorkIs
  <2>2. /\ UNCHANGED <<place, index, journal, told, meddled>> /\ work.step = "next"
        /\ work'.phase = "move" /\ work'.step = "next"
    BY <1>3, <2>1 DEF Refuse, Moving, MoveWork
  <2> QED
    BY <2>2, <1>1, <1>3 DEF SettledInv, SettledRun
<1>4. ASSUME work.phase = "move", NEW m \in work.left, BeginMove(m)
      PROVE  SettledInv'
  <2>1. work \in MoveWork /\ work.step = "next" /\ UNCHANGED <<place, index, told, meddled>>
    BY <1>4, WorkIs DEF BeginMove, Moving
  <2>2. PendingOnlyNow /\ Agree(place, index)
    BY <2>1, <1>4 DEF SettledInv, SettledRun
  <2>3. work' = [work EXCEPT !.left = @ \ {m}, !.cur = Len(journal) + 1, !.step = "rename"]
    BY <1>4 DEF BeginMove
  <2>4. work'.phase = "move" /\ work'.cur = Len(journal) + 1 /\ work'.step = "rename"
    BY <2>1, <2>3 DEF MoveWork
  <2>5. journal' = Append(journal, Entry(m, work.run))
    BY <1>4 DEF BeginMove
  <2>6. DOMAIN journal' = 1..(Len(journal) + 1) /\ \A j \in DOMAIN journal : journal'[j] = journal[j]
    BY <1>0, <2>5
  <2>7. PendingOnlyNow'
    <3> SUFFICES ASSUME NEW j \in DOMAIN journal', journal'[j].status = "pending"
                 PROVE  j = Len(journal) + 1
      BY <2>4 DEF PendingOnlyNow
    <3> SUFFICES ASSUME j \in DOMAIN journal
                 PROVE  FALSE
      BY <1>0, <2>6
    <3> QED
      BY <2>1, <2>2, <2>6 DEF PendingOnlyNow
  <2> QED
    BY <2>1, <2>2, <2>4, <2>7 DEF SettledInv, SettledRun, SettledUndo, Agree
<1> DEFINE e == journal[work.cur]
<1>5. ASSUME move_unit
      PROVE  SettledInv'
  <2>1. work \in MoveWork /\ work.phase = "move" /\ work.step = "rename" /\ UNCHANGED <<index, told, meddled>>
    BY <1>5, WorkIs DEF move_unit, Moving
  <2>2. work.cur \in DOMAIN journal /\ e \in Entries
    BY <2>1, CurIs
  <2>3. PendingOnlyNow /\ Agree(place, index)
    BY <2>1 DEF SettledInv, SettledRun
  <2>4. CASE Ready(e.unit)
    <3>1. /\ place' = Moved(e.unit) /\ journal' = journal
          /\ work' = [work EXCEPT !.step = "close", !.emptied = @ \cup (IF e.index THEN {e.src.dir} ELSE {})]
      BY <1>5, <2>4 DEF move_unit
    <3> HIDE DEF e
    <3>2. work'.phase = "move" /\ work'.step = "close" /\ work'.cur = work.cur
      BY <2>1, <3>1 DEF MoveWork
    <3>3. PendingOnlyNow'
      BY <2>1, <2>3, <3>1, <3>2 DEF PendingOnlyNow
    <3>4. /\ \A q \in Photo : q # e.head => place'[q] = place[q]
          /\ place'[e.head] = e.dst /\ place[e.head] = e.src /\ place' \in [Object -> AnyPath]
      BY <2>2, <2>4, <3>1, MovedPhotos
    <3>5. CASE e.index
      <4> DEFINE old == [place' EXCEPT ![e.head] = e.src]
      <4>1. \A q \in Photo : old[q] = place[q]
        BY <3>4 DEF Object
      <4> HIDE DEF old
      <4>2. Agree(old, index)
        BY <2>3, <4>1, <1>a, AgreeSame
      <4>3. place'[e.head] = e.dst /\ Agree([place' EXCEPT ![e.head] = e.src], index')
        BY <2>1, <3>4, <4>2 DEF old
      <4>5. journal'[work'.cur] = e
        BY <3>1, <3>2 DEF e
      <4>4. SettledRun'
        BY <3>2, <3>5, <4>3, <4>5 DEF SettledRun, Behind, Agree
      <4> QED
        BY <3>2, <3>3, <4>4 DEF SettledInv, SettledUndo
    <3>6. CASE ~e.index
      <4>1. \A q \in Photo : place'[q] = place[q]
        BY <2>2, <3>4, <3>6, EntriesAre, ObjectAssumption
      <4>2. Agree(place', index')
        BY <2>1, <2>3, <4>1, <1>a, AgreeSame
      <4>3. journal'[work'.cur].index = FALSE
        <5>1. e.index = FALSE
          BY <2>2, <3>6, EntriesAre
        <5> QED
          BY <5>1, <3>1, <3>2 DEF e
      <4> QED
        BY <3>2, <3>3, <4>2, <4>3 DEF SettledInv, SettledRun, SettledUndo, Agree
    <3> QED
      BY <3>5, <3>6
  <2>5. CASE ~Ready(e.unit)
    <3>1. journal' = Closed(work.cur, "failed") /\ place' = place /\ work' = [work EXCEPT !.step = "next", !.cur = 0]
      BY <1>5, <2>5 DEF move_unit
    <3>2. work'.phase = "move" /\ work'.step = "next"
      BY <2>1, <3>1 DEF MoveWork
    <3>3. /\ DOMAIN journal' = DOMAIN journal /\ journal'[work.cur].status = "failed"
          /\ \A j \in DOMAIN journal : j # work.cur => journal'[j] = journal[j]
      BY <1>0, <2>2, <3>1, ClosedIs DEF Status
    <3>4. PendingOnlyNow'
      BY <2>1, <2>3, <3>3 DEF PendingOnlyNow
    <3> QED
      BY <2>1, <2>3, <3>1, <3>2, <3>4 DEF SettledInv, SettledRun, SettledUndo, Agree
  <2> QED
    BY <2>4, <2>5
<1>6. ASSUME journal_close
      PROVE  SettledInv'
  <2>1. /\ work \in MoveWork /\ work.phase = "move" /\ work.step = "close"
        /\ UNCHANGED <<place, index, told, meddled>>
    BY <1>6, WorkIs DEF journal_close, Moving
  <2>2. work.cur \in DOMAIN journal /\ e \in Entries
    BY <2>1, CurIs
  <2>3. PendingOnlyNow /\ IF e.index THEN Behind(e, e.src, e.dst) ELSE Agree(place, index)
    BY <2>1 DEF SettledInv, SettledRun
  <2>4. /\ journal' = Closed(work.cur, "done")
        /\ work' = [work EXCEPT !.step = IF e.index THEN "follow" ELSE "next"]
    BY <1>6 DEF journal_close
  <2>5. /\ DOMAIN journal' = DOMAIN journal /\ journal'[work.cur].status = "done"
        /\ journal'[work.cur].index = e.index /\ journal'[work.cur].head = e.head
        /\ journal'[work.cur].src = e.src /\ journal'[work.cur].dst = e.dst
        /\ \A j \in DOMAIN journal : j # work.cur => journal'[j] = journal[j]
    BY <1>0, <2>2, <2>4, ClosedIs DEF Status
  <2>6. PendingOnlyNow'
    BY <2>1, <2>3, <2>5 DEF PendingOnlyNow
  <2> HIDE DEF e
  <2>7. work'.phase = "move" /\ work'.cur = work.cur /\ work'.step = IF e.index THEN "follow" ELSE "next"
    BY <2>1, <2>4 DEF MoveWork
  <2>8. SettledRun'
    BY <2>1, <2>3, <2>5, <2>7 DEF SettledRun, Behind, Agree
  <2> QED
    BY <2>6, <2>7, <2>8 DEF SettledInv, SettledUndo
<1>7. ASSUME set_file_path
      PROVE  SettledInv'
  <2>1. /\ work \in MoveWork /\ work.phase = "move" /\ work.step = "follow"
        /\ UNCHANGED <<place, journal, meddled>>
    BY <1>7, WorkIs DEF set_file_path, Moving
  <2>2. work.cur \in DOMAIN journal /\ e \in Entries /\ e.index
    BY <2>1, CurIs DEF TypeInv, WorkOK
  <2>3. ~(e.src \in DOMAIN index /\ ~Follows(e.src, e.dst))
    BY <1>7 DEF set_file_path
  <2>4. /\ work' = [work EXCEPT !.step = "next"] /\ told' = told
        /\ index' = IF e.src \in DOMAIN index THEN Followed(e.src, e.dst) ELSE index
    BY <1>7, <2>3 DEF set_file_path
  <2>5. PendingOnlyNow /\ Behind(e, e.src, e.dst)
    BY <2>1, <2>2, <2>4 DEF SettledInv, SettledRun
  <2> HIDE DEF e
  <2>6. e.head \in Photo /\ e.src \in Path(ArchiveDir) /\ e.dst \in Path(ArchiveDir)
    BY <2>2, EntriesAre
  <2>7. Agree(place, index')
    BY <2>3, <2>4, <2>5, <2>6, FollowAgrees DEF Behind
  <2>8. work'.phase = "move" /\ work'.step = "next"
    BY <2>1, <2>4 DEF MoveWork
  <2>9. PendingOnlyNow'
    BY <2>1, <2>5 DEF PendingOnlyNow
  <2>10. SettledRun'
    BY <2>1, <2>7, <2>8 DEF SettledRun, Agree
  <2> QED
    BY <2>8, <2>9, <2>10 DEF SettledInv, SettledUndo
<1>8. ASSUME work.phase = "move", NEW dir \in work.emptied, sweep_litter(dir)
      PROVE  SettledInv'
  <2>1. work \in MoveWork
    BY <1>8, WorkIs
  <2>2. /\ UNCHANGED <<place, index, journal, told, meddled>> /\ work.step = "next"
        /\ work'.phase = "move" /\ work'.step = "next"
    BY <1>8, <2>1 DEF sweep_litter, Moving, MoveWork
  <2> QED
    BY <2>2, <1>1, <1>8 DEF SettledInv, SettledRun
<1>9. ASSUME FinishRun
      PROVE  SettledInv'
  <2>1. /\ UNCHANGED <<place, index, journal, told, meddled>> /\ work.step = "next" /\ work.phase = "move"
        /\ work'.phase = "idle"
    BY <1>9 DEF FinishRun, Moving, Idle
  <2>2. told = {} /\ ~meddled
    BY <1>9 DEF FinishRun
  <2>3. PendingOnlyNow /\ Agree(place, index)
    BY <2>1, <2>2 DEF SettledInv, SettledRun
  <2> QED
    BY <2>1, <2>2, <2>3, <1>1
<1> QED
  BY <1>2, <1>3, <1>4, <1>5, <1>6, <1>7, <1>8, <1>9

LEMMA SettledByUndo ==
    ASSUME TypeInv, SettledInv, told' = {}, ~meddled',
           \/ \E run \in 1..runs : undo_run(run)
           \/ \E jid \in DOMAIN journal : undo(jid) \/ reconcile_undo(jid)
           \/ walk_back \/ index_back \/ close_undone \/ FinishUndo
    PROVE  SettledInv'
<1> USE DEF Same, Smoothly
<1>0. /\ TypeInv' /\ journal \in Seq(Entries) /\ DOMAIN journal = 1..Len(journal) /\ Len(journal) \in Nat
  BY TypesByUndo DEF TypeInv
<1>a. \A path \in DOMAIN index : index[path].who \in Photo
  BY HeadArchived
<1> DEFINE NonePending(jn) == \A j \in DOMAIN jn : jn[j].status # "pending"
<1>1. ASSUME NonePending(journal)
      PROVE  PendingOnlyNow
  BY <1>1 DEF PendingOnlyNow
<1>2. ASSUME NonePending(journal'), Agree(place', index'), work'.phase \in {"idle", "undo"},
             work'.phase = "undo" => work'.step \in {"next", "close"}
      PROVE  SettledInv'
  <2>1. PendingOnlyNow' /\ SettledRun' /\ (work'.phase = "idle" => Agree(place', index'))
    BY <1>2 DEF PendingOnlyNow, SettledRun
  <2>2. SettledUndo'
    BY <1>2 DEF SettledUndo, Agree
  <2> QED
    BY <2>1, <2>2 DEF SettledInv, Agree
<1>3. ASSUME told = {}, ~meddled, work.phase # "move"
      PROVE  NonePending(journal)
  BY <1>3 DEF SettledInv, PendingOnlyNow
<1>4. ASSUME NEW run, undo_run(run)
      PROVE  SettledInv'
  <2>1. /\ UNCHANGED <<place, index, journal, told, meddled>> /\ work.phase = "idle"
        /\ work'.phase = "undo" /\ work'.step = "next"
    BY <1>4 DEF undo_run, Free, Undoing
  <2>2. Agree(place, index) /\ NonePending(journal)
    BY <2>1, <1>3 DEF SettledInv
  <2> HIDE DEF NonePending
  <2> QED
    BY <2>1, <2>2, <1>2
<1>5. ASSUME NEW jid, undo(jid)
      PROVE  SettledInv'
  <2>1. /\ UNCHANGED <<place, index, journal, told, meddled>> /\ work.phase = "idle"
        /\ work'.phase = "undo" /\ work'.step = "next"
    BY <1>5 DEF undo, Free, Undoing
  <2>2. Agree(place, index) /\ NonePending(journal)
    BY <2>1, <1>3 DEF SettledInv
  <2> HIDE DEF NonePending
  <2> QED
    BY <2>1, <2>2, <1>2
<1>6. ASSUME NEW jid \in DOMAIN journal, reconcile_undo(jid)
      PROVE  SettledInv'
  <2>1. told = {} /\ ~meddled /\ work.phase = "idle" /\ journal[jid].status = "pending"
    BY <1>6 DEF reconcile_undo, Free
  <2> QED
    BY <2>1, <1>3
<1> DEFINE jid == NewestOf(work.left)
           e == journal[jid]
\* going on with the next entry
<1>7. ASSUME work.phase = "undo", work.left # {}, NEW failed, work' = NextEntry(failed),
             Agree(place', index'), NonePending(journal')
      PROVE  SettledInv'
  <2>1. work \in UndoWork /\ work' = [work EXCEPT !.left = @ \ {jid}, !.step = "next", !.failed = @ \/ failed]
    BY <1>7, WorkIs DEF NextEntry
  <2>2. work'.phase = "undo" /\ work'.step = "next"
    BY <2>1 DEF UndoWork
  <2> HIDE DEF NonePending, jid
  <2> QED
    BY <2>2, <1>2, <1>7
<1>8. ASSUME walk_back
      PROVE  SettledInv'
  <2>1. /\ work.phase = "undo" /\ work.left # {} /\ work.step = "next"
        /\ UNCHANGED <<index, journal, told, meddled>>
    BY <1>8 DEF walk_back, Back
  <2>2. e \in Entries /\ jid \in DOMAIN journal /\ work \in UndoWork
    BY <2>1, NewestIs, WorkIs
  <2>3. Agree(place, index) /\ NonePending(journal) /\ NonePending(journal')
    BY <2>1, <1>3 DEF SettledInv, SettledUndo
  <2>4. CASE CanReturn(e.unit)
    <3>1. place' = Returned(e.unit) /\ work' = [work EXCEPT !.step = "index"]
      BY <1>8, <2>4 DEF walk_back
    <3>2. work'.phase = "undo" /\ work'.step = "index" /\ NewestOf(work'.left) = jid
      BY <2>2, <3>1 DEF UndoWork
    <3>3. journal'[NewestOf(work'.left)] = e
      BY <2>1, <3>2
    <3> HIDE DEF e, jid, NonePending
    <3>4. /\ \A q \in Photo : q # e.head => place'[q] = place[q]
          /\ place'[e.head] = e.src /\ (place[e.head] = e.src \/ place[e.head] = e.dst)
          /\ place' \in [Object -> AnyPath]
      BY <2>2, <2>4, <3>1, ReturnedPhotos
    <3>5. /\ e.index => e.head \in Photo
          /\ ~e.index => e.head \in Litter
          /\ e.index \in BOOLEAN
      BY <2>2, EntriesAre
    <3>6. IF e.index THEN \/ place'[e.head] = e.src /\ Agree(place', index')
                          \/ place'[e.head] = e.src /\ Agree([place' EXCEPT ![e.head] = e.dst], index')
          ELSE Agree(place', index')
      <4>1. CASE ~e.index
        <5>1. \A q \in Photo : place'[q] = place[q]
          BY <4>1, <3>4, <3>5, ObjectAssumption
        <5> QED
          BY <4>1, <5>1, <2>1, <2>3, <1>a, AgreeSame
      <4>2. CASE e.index /\ place[e.head] = e.src
        <5>1. \A q \in Photo : place'[q] = place[q]
          BY <4>2, <3>4
        <5> QED
          BY <4>2, <5>1, <3>4, <2>1, <2>3, <1>a, AgreeSame
      <4>3. CASE e.index /\ place[e.head] = e.dst
        <5> DEFINE old == [place' EXCEPT ![e.head] = e.dst]
        <5>1. \A q \in Photo : old[q] = place[q]
          BY <4>3, <3>4 DEF Object
        <5> HIDE DEF old
        <5>2. Agree(old, index)
          BY <5>1, <2>3, <1>a, AgreeSame
        <5> QED
          BY <4>3, <5>2, <3>4, <2>1 DEF old
      <4> QED
        BY <4>1, <4>2, <4>3, <3>4, <3>5
    <3>7. SettledUndo'
      BY <3>2, <3>3, <3>6 DEF SettledUndo, Behind, Agree
    <3>8. PendingOnlyNow' /\ SettledRun'
      BY <3>2, <2>3 DEF PendingOnlyNow, SettledRun, NonePending
    <3> QED
      BY <3>2, <3>7, <3>8 DEF SettledInv
  <2>5. CASE ~CanReturn(e.unit)
    <3>1. place' = place /\ work' = NextEntry(TRUE)
      BY <1>8, <2>5 DEF walk_back
    <3> HIDE DEF NonePending, jid
    <3> QED
      BY <2>1, <2>3, <3>1, <1>7
  <2> QED
    BY <2>4, <2>5
<1>9. ASSUME index_back
      PROVE  SettledInv'
  <2>1. /\ work.phase = "undo" /\ work.left # {} /\ work.step = "index"
        /\ UNCHANGED <<place, journal, meddled>>
    BY <1>9 DEF index_back, Back
  <2>2. e \in Entries /\ jid \in DOMAIN journal /\ work \in UndoWork
    BY <2>1, NewestIs, WorkIs
  <2>3. ~(e.index /\ e.dst \in DOMAIN index /\ ~Follows(e.dst, e.src))
    BY <1>9 DEF index_back
  <2>4. /\ work' = [work EXCEPT !.step = "close"] /\ told' = told
        /\ index' = IF e.index THEN BackInIndex(e) ELSE index
    BY <1>9, <2>3 DEF index_back
  <2>5. NonePending(journal') /\ IF e.index THEN \/ place[e.head] = e.src /\ Agree(place, index)
                                          \/ Behind(e, e.dst, e.src)
                          ELSE Agree(place, index)
    BY <2>1, <2>4, <1>3 DEF SettledInv, SettledUndo
  <2>6. work'.phase = "undo" /\ work'.step = "close"
    BY <2>2, <2>4 DEF UndoWork
  <2> HIDE DEF e, jid, NonePending
  <2>7. e.index => e.head \in Photo /\ e.src \in Path(ArchiveDir) /\ e.dst \in Path(ArchiveDir)
    BY <2>2, EntriesAre
  <2>8. Agree(place, index')
    <3>1. CASE ~e.index
      BY <3>1, <2>4, <2>5
    <3>2. CASE e.index /\ Behind(e, e.dst, e.src)
      BY <3>2, <2>3, <2>4, <2>7, FollowAgrees DEF Behind, BackInIndex
    <3>3. CASE e.index /\ place[e.head] = e.src /\ Agree(place, index)
      <4>1. CASE e.dst \notin DOMAIN index
        BY <3>3, <4>1, <2>4 DEF BackInIndex
      <4>2. CASE e.dst \in DOMAIN index
        <5>1. e.src.dir \in ArchiveDir
          BY <2>7, <3>3 DEF Path
        <5>2. e.src \in DOMAIN index
          BY <5>1, <2>7, <3>3 DEF Agree
        <5>3. e.src = e.dst
          BY <5>2, <4>2, <2>3, <3>3 DEF Follows
        <5>4. DOMAIN index' = DOMAIN index /\ \A path \in DOMAIN index : index'[path] = index[path]
          BY <5>2, <5>3, <4>2, <2>4, <3>3 DEF BackInIndex, Followed
        <5> QED
          BY <5>4, <3>3 DEF Agree
      <4> QED
        BY <4>1, <4>2
    <3> QED
      BY <3>1, <3>2, <3>3, <2>5
  <2> QED
    BY <2>1, <2>5, <2>6, <2>8, <1>2
<1>10. ASSUME close_undone
       PROVE  SettledInv'
  <2>1. /\ work.phase = "undo" /\ work.left # {} /\ work.step = "close"
        /\ UNCHANGED <<place, index, told, meddled>>
        /\ journal' = Closed(jid, "undone") /\ work' = NextEntry(FALSE)
    BY <1>10 DEF close_undone, Back
  <2>2. jid \in DOMAIN journal
    BY <2>1, NewestIs
  <2>3. Agree(place, index) /\ NonePending(journal)
    BY <2>1, <1>3 DEF SettledInv, SettledUndo
  <2>4. /\ DOMAIN journal' = DOMAIN journal /\ journal'[jid].status = "undone"
        /\ \A j \in DOMAIN journal : j # jid => journal'[j] = journal[j]
    BY <1>0, <2>1, <2>2, ClosedIs DEF Status
  <2> HIDE DEF jid
  <2>5. NonePending(journal')
    BY <2>3, <2>4
  <2> HIDE DEF NonePending
  <2> QED
    BY <2>1, <2>3, <2>5, <1>7
<1>11. ASSUME FinishUndo
       PROVE  SettledInv'
  <2>1. /\ UNCHANGED <<place, index, journal, told, meddled>> /\ work.phase = "undo" /\ work.left = {}
        /\ work' = Idle
    BY <1>11 DEF FinishUndo
  <2>2. TypeInv /\ work.step = "next"
    <3>1. work \in UndoWork /\ (work.step # "next" => work.left # {})
      BY <2>1, WorkIs DEF TypeInv, WorkOK
    <3> QED
      BY <2>1, <3>1
  <2>3. Agree(place, index) /\ NonePending(journal)
    BY <2>1, <2>2, <1>3 DEF SettledInv, SettledUndo
  <2>4. work'.phase = "idle"
    BY <2>1 DEF Idle
  <2> HIDE DEF NonePending
  <2> QED
    BY <2>1, <2>3, <2>4, <1>2
<1> QED
  BY <1>4, <1>5, <1>6, <1>8, <1>9, <1>10, <1>11

LEMMA SettledByOthers ==
    ASSUME TypeInv, SettledInv, told' = {}, ~meddled',
           \/ \E p \in Photo : Quarantine(p)
           \/ Index \/ Stops
           \/ \E stray \in Strays : Others(stray[1], stray[2])
           \/ UNCHANGED reorganizeVars
    PROVE  SettledInv'
<1>a. \A path \in DOMAIN index : index[path].who \in Photo
  BY HeadArchived
<1>b. PlaceOK
  BY DEF TypeInv
<1>1. ASSUME told = {}, ~meddled, \A j \in DOMAIN journal : journal[j].status # "pending",
             UNCHANGED journal, work'.phase = "idle", Agree(place', index')
      PROVE  SettledInv'
  BY <1>1 DEF SettledInv, PendingOnlyNow, SettledRun, SettledUndo, Agree
<1>2. ASSUME NEW p \in Photo, Quarantine(p)
      PROVE  SettledInv'
  <2> DEFINE U == Unit(Leaving(p))
  <2>1. /\ place[p] \in Present /\ index[place[p]].who = p /\ place[p].dir \in ArchiveDir
        /\ Sound(U) /\ Ready(U) /\ Lead(Leaving(p)) \in U
        /\ \A u \in U : u = Lead(Leaving(p)) \/ u.who \in Side
        /\ place' = Moved(U)
        /\ index' = [index EXCEPT ![place[p]] = [@ EXCEPT !.state = "quarantined"]]
        /\ work.phase = "idle" /\ UNCHANGED <<work, told, journal, meddled>>
    BY <1>2, QuarantineIs DEF Free, Smoothly
  <2>2. Agree(place, index) /\ \A j \in DOMAIN journal : journal[j].status # "pending"
    BY <2>1 DEF SettledInv, PendingOnlyNow
  <2>3. Lead(Leaving(p)).who = p /\ Lead(Leaving(p)).dst.dir = Kept(place[p].dir)
    BY DEF Lead, Leaving, Put
  <2> HIDE DEF U
  <2>4. /\ \A u \in U : Moved(U)[u.who] = u.dst
        /\ \A o \in Object : (\A u \in U : u.who # o) => Moved(U)[o] = place[o]
    BY <2>1, <1>b, MovedIs
  <2>5. place'[p].dir = Kept(place[p].dir)
    BY <2>1, <2>3, <2>4
  <2>6. place'[p].dir \notin ArchiveDir
    <3>1. Kept(place[p].dir) \in AnyDir /\ Kept(place[p].dir)[1] = "kept"
      BY <2>1, DirsAre DEF Kept
    <3> QED
      BY <3>1, <2>5, DirsAre
  <2>7. ASSUME NEW q \in Photo, q # p
        PROVE  place'[q] = place[q]
    <3>1. \A u \in U : u.who # q
      BY <2>1, <2>3, <2>7, ObjectAssumption
    <3> QED
      BY <3>1, <2>1, <2>4 DEF Object
  <2>8. place[p] \in DOMAIN index
    BY <2>1 DEF Present
  <2>9. /\ DOMAIN index' = DOMAIN index /\ index'[place[p]].state # "present"
        /\ \A path \in DOMAIN index : path # place[p] => index'[path] = index[path]
    <3>1. index[place[p]] \in Row
      BY <2>8 DEF TypeInv, IndexOK
    <3>2. [index[place[p]] EXCEPT !.state = "quarantined"].state = "quarantined"
      BY <3>1 DEF Row
    <3> QED
      BY <3>2, <2>1, <2>8
  <2>10. ASSUME NEW q \in Photo, place'[q].dir \in ArchiveDir
         PROVE  place'[q] \in DOMAIN index' /\ index'[place'[q]].state = "present" /\ index'[place'[q]].who = q
    <3>1. q # p /\ place'[q] = place[q]
      BY <2>6, <2>7, <2>10
    <3>2. place[q] # place[p]
      BY <3>1, <1>b DEF PlaceOK, Apart, Object
    <3> QED
      BY <3>1, <3>2, <2>10, <2>2, <2>9 DEF Agree
  <2>11. ASSUME NEW path \in DOMAIN index', index'[path].state = "present"
         PROVE  place'[index'[path].who] = path
    <3>1. path # place[p] /\ index'[path] = index[path] /\ path \in DOMAIN index
      BY <2>9, <2>11
    <3>2. place[index[path].who] = path
      BY <3>1, <2>2, <2>11 DEF Agree
    <3> QED
      BY <3>1, <3>2, <2>7, <1>a
  <2>12. Agree(place', index')
    BY <2>10, <2>11 DEF Agree
  <2> QED
    BY <2>1, <2>2, <2>12, <1>1
<1>3. ASSUME Index
      PROVE  SettledInv'
  <2> DEFINE D == DOMAIN index \cup {place[p] : p \in Archived}
             who(path) == IF \E p \in Archived : place[p] = path
                          THEN CHOOSE p \in Archived : place[p] = path ELSE index[path].who
             stateOf(path) == IF path \in DOMAIN index THEN index[path].state ELSE "present"
  <2>1. /\ index' = [path \in D |-> [who |-> who(path), state |-> stateOf(path)]]
        /\ UNCHANGED <<place, journal, work, told, meddled>> /\ work.phase = "idle"
    BY <1>3 DEF Index, Other, Free, Smoothly
  <2>2. Agree(place, index) /\ \A j \in DOMAIN journal : journal[j].status # "pending"
    BY <2>1 DEF SettledInv, PendingOnlyNow
  <2>3. \A p \in Photo : p \in Archived <=> place[p].dir \in ArchiveDir
    <3>1. \A p \in Photo : place[p] \in AnyPath
      BY <1>b DEF PlaceOK, Object
    <3> QED
      BY <3>1, PathDirs, DirsAre DEF Archived
  <2>4. \A p \in Archived : p \in Photo /\ place[p] \in DOMAIN index /\ index[place[p]].state = "present"
    BY <2>2, <2>3 DEF Agree, Archived
  <2>5. D = DOMAIN index
    BY <2>4
  <2>6. \A p \in Archived : who(place[p]) = p
    <3> TAKE p \in Archived
    <3>1. \A q \in Archived : place[q] = place[p] => q = p
      BY <1>b DEF PlaceOK, Apart, Archived, Object
    <3> QED
      BY <3>1
  <2>7. \A path \in DOMAIN index : (\A p \in Archived : place[p] # path) => who(path) = index[path].who
    OBVIOUS
  <2>8. \A path \in DOMAIN index : stateOf(path) = index[path].state
    OBVIOUS
  <2> HIDE DEF D, who, stateOf
  <2>9. DOMAIN index' = DOMAIN index
        /\ \A path \in DOMAIN index : index'[path].who = who(path) /\ index'[path].state = index[path].state
    BY <2>1, <2>5, <2>8
  <2>10. Agree(place, index')
    <3>1. ASSUME NEW p \in Photo, place[p].dir \in ArchiveDir
          PROVE  place[p] \in DOMAIN index' /\ index'[place[p]].state = "present" /\ index'[place[p]].who = p
      BY <3>1, <2>3, <2>4, <2>6, <2>9
    <3>2. ASSUME NEW path \in DOMAIN index', index'[path].state = "present"
          PROVE  place[index'[path].who] = path
      <4>1. CASE \E p \in Archived : place[p] = path
        BY <4>1, <2>6, <2>9
      <4>2. CASE \A p \in Archived : place[p] # path
        BY <4>2, <3>2, <2>2, <2>7, <2>9 DEF Agree
      <4> QED
        BY <4>1, <4>2
    <3> QED
      BY <3>1, <3>2 DEF Agree
  <2> QED
    BY <2>1, <2>2, <2>10, <1>1
<1>4. ASSUME Stops
      PROVE  SettledInv'
  <2>1. /\ UNCHANGED <<place, index, journal, meddled>> /\ work' = Idle /\ work.phase # "idle"
        /\ told = {} /\ work.step = "next"
    BY <1>4, WorkIs DEF Stops, Free
  <2>2. work.phase \in {"move", "undo"}
    BY <2>1, WorkIs
  <2>3. Agree(place, index) /\ \A j \in DOMAIN journal : journal[j].status # "pending"
    BY <2>1, <2>2 DEF SettledInv, SettledRun, SettledUndo, PendingOnlyNow
  <2>4. work'.phase = "idle"
    BY <2>1 DEF Idle
  <2> QED
    BY <2>1, <2>3, <2>4, <1>1
<1>5. ASSUME NEW stray \in Strays, Others(stray[1], stray[2])
      PROVE  SettledInv'
  BY <1>5 DEF Others
<1>6. ASSUME UNCHANGED reorganizeVars
      PROVE  SettledInv'
  BY <1>6 DEF reorganizeVars, SettledInv, PendingOnlyNow, SettledRun, SettledUndo, Behind, Agree
<1> QED
  BY <1>2, <1>3, <1>4, <1>5, <1>6

\* Nothing takes back that an error named an entry, nor that another program
\* moved something.
LEMMA SettledStays ==
    TypeInv /\ SettledInv /\ [ReorganizeNext]_reorganizeVars => SettledInv'
<1> SUFFICES ASSUME TypeInv, SettledInv, [ReorganizeNext]_reorganizeVars, told' = {}, ~meddled'
             PROVE  SettledInv'
  BY DEF SettledInv
<1> QED
  BY SettledByRun, SettledByUndo, SettledByOthers DEF ReorganizeNext

\* Unless an error named an entry or a kill cut one short, the index says of
\* every photograph in the archive where it is, and of nothing else, after any
\* number of runs, undone or not, of quarantines and of indexings
\* (pc-db organize.rs set_file_path, recovery.rs undo).
THEOREM TheIndexFollows == ReorganizeSpec => []IndexFollows
<1>1. TypeInv /\ SettledInv => IndexFollows
  <2> SUFFICES ASSUME TypeInv, SettledInv, work.phase = "idle", told = {}, ~meddled
               PROVE  /\ \A p \in Archived : place[p] \in Present /\ index[place[p]].who = p
                      /\ \A path \in Present : place[index[path].who] = path
    BY DEF IndexFollows, Free
  <2>1. Agree(place, index)
    BY DEF SettledInv
  <2>2. \A p \in Photo : place[p] \in AnyPath
    BY DEF TypeInv, PlaceOK, Object
  <2>3. \A p \in Archived : p \in Photo /\ place[p].dir \in ArchiveDir
    BY <2>2, PathDirs, DirsAre DEF Archived
  <2> QED
    BY <2>1, <2>3 DEF Agree, Present
<1>2. ReorganizeInit => TypeInv /\ SettledInv
  BY TypeStart, SettledStart
<1>3. TypeInv /\ SettledInv /\ [ReorganizeNext]_reorganizeVars => (TypeInv /\ SettledInv)'
  BY TypesStay, SettledStays
<1> QED
  BY <1>1, <1>2, <1>3, PTL DEF ReorganizeSpec

(* ----------------------- the way back of a calm run -------------------- *)
\* Every row is of a photograph that is there.
Honest(pl, ix) ==
    /\ pl \in [Object -> AnyPath] /\ Apart(pl)
    /\ ix \in [DOMAIN ix -> Row]
    /\ \A path \in DOMAIN ix : ix[path].state = "present" /\ pl[ix[path].who] = path
\* One unit goes from where it is to where nothing is.
Shifted(pl, U, pl2) ==
    /\ \A u \in U : pl[u.who] = u.src /\ pl2[u.who] = u.dst /\ \A o \in Object : pl[o] # u.dst
    /\ \A o \in Object : (\A u \in U : u.who # o) => pl2[o] = pl[o]
Renamed(ix, e) ==
    IF e.index /\ e.src \in DOMAIN ix
    THEN [path \in (DOMAIN ix \ {e.src}) \cup {e.dst} |->
            IF path = e.dst THEN ix[e.src] ELSE ix[path]]
    ELSE ix

LEMMA ShiftedPhotos ==
    ASSUME NEW pl, NEW pl2, NEW e \in Entries, Shifted(pl, e.unit, pl2)
    PROVE  /\ pl[e.head] = e.src /\ pl2[e.head] = e.dst /\ \A o \in Object : pl[o] # e.dst
           /\ \A q \in Photo : q # e.head => pl2[q] = pl[q]
           /\ e.src # e.dst /\ e.head \in Object
<1>1. /\ LeadOf(e) \in e.unit /\ LeadOf(e).who = e.head /\ LeadOf(e).src = e.src /\ LeadOf(e).dst = e.dst
      /\ \A u \in e.unit : u = LeadOf(e) \/ u.who \in Side
      /\ e.head \in Object
  BY EntriesAre
<1>2. pl[e.head] = e.src /\ pl2[e.head] = e.dst /\ \A o \in Object : pl[o] # e.dst
  BY <1>1 DEF Shifted
<1>3. ASSUME NEW q \in Photo, q # e.head
      PROVE  pl2[q] = pl[q]
  <2>1. \A u \in e.unit : u.who # q
    BY <1>1, <1>3, ObjectAssumption
  <2> QED
    BY <2>1 DEF Shifted, Object
<1> QED
  BY <1>1, <1>2, <1>3

LEMMA FreeInIndex ==
    ASSUME NEW pl, NEW ix, Honest(pl, ix), NEW path, \A o \in Object : pl[o] # path
    PROVE  path \notin DOMAIN ix
<1>1. \A p \in DOMAIN ix : ix[p].who \in Object /\ pl[ix[p].who] = p
  BY DEF Honest, Row, Object
<1> QED
  BY <1>1

LEMMA HonestStays ==
    ASSUME NEW pl, NEW ix, Honest(pl, ix), NEW e \in Entries, NEW pl2, Shifted(pl, e.unit, pl2),
           pl2 \in [Object -> AnyPath], Apart(pl2)
    PROVE  Honest(pl2, Renamed(ix, e))
<1> DEFINE ix2 == Renamed(ix, e)
<1>1. /\ pl[e.head] = e.src /\ pl2[e.head] = e.dst /\ \A o \in Object : pl[o] # e.dst
      /\ \A q \in Photo : q # e.head => pl2[q] = pl[q]
      /\ e.src # e.dst /\ e.head \in Object
  BY ShiftedPhotos
<1>2. e.index => e.head \in Photo
  BY EntriesAre
<1>3. ~e.index => e.head \notin Photo
  BY EntriesAre, ObjectAssumption
<1>4. /\ ix \in [DOMAIN ix -> Row] /\ Apart(pl)
      /\ \A path \in DOMAIN ix : /\ ix[path].state = "present" /\ pl[ix[path].who] = path
                                 /\ ix[path].who \in Photo /\ ix[path] \in Row
  BY DEF Honest, Row
<1>5. CASE e.index /\ e.src \in DOMAIN ix
  <2>1. ix2 = [path \in (DOMAIN ix \ {e.src}) \cup {e.dst} |->
                 IF path = e.dst THEN ix[e.src] ELSE ix[path]]
    BY <1>5 DEF Renamed
  <2> HIDE DEF ix2
  <2>2. ix2 \in [DOMAIN ix2 -> Row]
    BY <2>1, <1>4, <1>5
  <2>3. ix[e.src].who = e.head
    BY <1>1, <1>4, <1>5 DEF Apart, Object
  <2>4. ASSUME NEW path \in DOMAIN ix2
        PROVE  ix2[path].state = "present" /\ pl2[ix2[path].who] = path
    <3>1. CASE path = e.dst
      BY <3>1, <2>1, <2>3, <1>1, <1>4, <1>5
    <3>2. CASE path # e.dst
      <4>1. path \in DOMAIN ix /\ path # e.src /\ ix2[path] = ix[path]
        BY <3>2, <2>1
      <4>2. ix[path].who # e.head
        BY <4>1, <1>1, <1>4
      <4> QED
        BY <4>1, <4>2, <1>1, <1>4
    <3> QED
      BY <3>1, <3>2
  <2>5. Honest(pl2, ix2)
    BY <2>2, <2>4 DEF Honest
  <2> QED
    BY <2>5 DEF ix2
<1>6. CASE ~(e.index /\ e.src \in DOMAIN ix)
  <2>1. ix2 = ix
    BY <1>6 DEF Renamed
  <2>2. \A path \in DOMAIN ix : ix[path].who # e.head
    BY <1>1, <1>3, <1>4, <1>6
  <2>3. \A path \in DOMAIN ix : pl2[ix[path].who] = path
    BY <2>2, <1>1, <1>4
  <2> QED
    BY <2>1, <2>3, <1>4 DEF Honest
<1> QED
  BY <1>5, <1>6

\* What a unit did can be walked back, and leads to where it was.
LEMMA ShiftedBack ==
    ASSUME NEW pl, pl \in [Object -> AnyPath], Apart(pl), NEW U, Sound(U), Shifted(pl, U, place),
           place \in [Object -> AnyPath]
    PROVE  CanReturn(U) /\ Returned(U) = pl
<1>1. \A u \in U : u.who \in Object
  BY DEF Sound, Member
<1>2. ASSUME NEW u \in U
      PROVE  place[u.who] = u.dst /\ ~Occupied(u.src)
  <2>1. ASSUME NEW o \in Object, place[o] = u.src
        PROVE  FALSE
    <3>1. CASE \A v \in U : v.who # o
      BY <3>1, <2>1, <1>1 DEF Shifted, Apart
    <3>2. CASE \E v \in U : v.who = o
      BY <3>2, <2>1, <1>1 DEF Shifted
    <3> QED
      BY <3>1, <3>2
  <2> QED
    BY <2>1 DEF Shifted, Occupied
<1>3. CanReturn(U)
  BY <1>2 DEF CanReturn
<1> DEFINE R == Returned(U)
<1>4. R = [o \in Object |-> R[o]]
  BY DEF Returned
<1>5. ASSUME NEW o \in Object
      PROVE  R[o] = pl[o]
  <2>1. CASE \A u \in U : u.who # o
    BY <2>1 DEF Returned, Shifted
  <2>2. ASSUME NEW u \in U, u.who = o
        PROVE  R[o] = pl[o]
    <3>1. (CHOOSE v \in U : v.who = o) = u
      BY <2>2 DEF Sound
    <3>2. R[o] = (CHOOSE v \in U : v.who = o).src
      BY <2>2 DEF Returned
    <3> QED
      BY <2>2, <3>1, <3>2 DEF Shifted
  <2> QED
    BY <2>1, <2>2
<1> HIDE DEF R
<1>6. R = pl
  BY <1>4, <1>5
<1> QED
  BY <1>3, <1>6 DEF R

LEMMA RenamedBack ==
    ASSUME NEW pl, NEW ix, Honest(pl, ix), NEW e \in Entries, NEW pl2, Shifted(pl, e.unit, pl2),
           index = Renamed(ix, e)
    PROVE  /\ e.index /\ e.dst \in DOMAIN index => Follows(e.dst, e.src)
           /\ (IF e.index THEN BackInIndex(e) ELSE index) = ix
<1>1. /\ e.src # e.dst /\ \A o \in Object : pl[o] # e.dst
  BY ShiftedPhotos
<1>2. e.dst \notin DOMAIN ix
  BY <1>1, FreeInIndex
<1>3. CASE e.index /\ e.src \in DOMAIN ix
  <2>1. index = [path \in (DOMAIN ix \ {e.src}) \cup {e.dst} |->
                   IF path = e.dst THEN ix[e.src] ELSE ix[path]]
    BY <1>3 DEF Renamed
  <2>2. /\ DOMAIN index = (DOMAIN ix \ {e.src}) \cup {e.dst} /\ index[e.dst] = ix[e.src]
        /\ \A path \in DOMAIN ix \ {e.src} : index[path] = ix[path]
    BY <2>1, <1>2
  <2>3. Follows(e.dst, e.src)
    BY <2>2, <1>1 DEF Follows
  <2>4. BackInIndex(e) = [path \in (DOMAIN index \ {e.dst}) \cup {e.src} |->
                            IF path = e.src THEN index[e.dst] ELSE index[path]]
    BY <2>2 DEF BackInIndex, Followed
  <2>5. (DOMAIN index \ {e.dst}) \cup {e.src} = DOMAIN ix
    BY <2>2, <1>2, <1>3
  <2>6. \A path \in DOMAIN ix : (IF path = e.src THEN index[e.dst] ELSE index[path]) = ix[path]
    BY <2>2
  <2>7. ix = [path \in DOMAIN ix |-> ix[path]]
    BY DEF Honest
  <2>8. BackInIndex(e) = ix
    BY <2>4, <2>5, <2>6, <2>7
  <2> QED
    BY <2>3, <2>8, <1>3
<1>4. CASE ~(e.index /\ e.src \in DOMAIN ix)
  <2>1. index = ix
    BY <1>4 DEF Renamed
  <2> QED
    BY <2>1, <1>2 DEF BackInIndex
<1> QED
  BY <1>3, <1>4

\* Entries are of runs there were; a calm run, while it works or is undone, is
\* the one that works or is undone.
RunsKnown ==
    /\ \A j \in DOMAIN journal : journal[j].run <= runs
    /\ calm \in Nat /\ calm <= runs
    /\ work.phase # "idle" => work.run <= runs /\ (calm # 0 => work.run = calm)
    /\ work.phase = "move" /\ work.step # "next" => journal[work.cur].run = work.run

LEMMA RunsStay ==
    ASSUME TypeInv, TypeInv', RunsKnown, [ReorganizeNext]_reorganizeVars
    PROVE  RunsKnown'
<1> USE DEF Same, Smoothly
<1>0. /\ journal \in Seq(Entries) /\ DOMAIN journal = 1..Len(journal) /\ Len(journal) \in Nat /\ runs \in Nat
      /\ runs' \in Nat
  BY DEF TypeInv
<1>1. ASSUME UNCHANGED journal, runs' \in Nat, runs <= runs', calm' \in Nat, calm' <= runs', work'.phase = "idle"
      PROVE  RunsKnown'
  <2>1. \A j \in DOMAIN journal : journal[j].run \in Nat /\ journal[j].run <= runs
    BY <1>0, EntriesAre DEF RunsKnown
  <2>2. \A j \in DOMAIN journal' : journal'[j].run <= runs'
    BY <2>1, <1>0, <1>1
  <2> QED
    BY <1>1, <2>2 DEF RunsKnown
<1>2. ASSUME UNCHANGED <<runs, calm, journal>>, work.phase # "idle", work'.phase = work.phase,
             work'.run = work.run,
             work'.step = "next" \/ (work.step # "next" /\ work'.cur = work.cur) \/ work'.phase # "move"
      PROVE  RunsKnown'
  BY <1>2 DEF RunsKnown
<1>3. ASSUME NEW jid \in DOMAIN journal, NEW status \in Status,
             journal' = Closed(jid, status)
      PROVE  \A j \in DOMAIN journal' : j \in DOMAIN journal /\ journal'[j].run = journal[j].run
  <2>1. /\ DOMAIN Closed(jid, status) = DOMAIN journal /\ Closed(jid, status)[jid].run = journal[jid].run
        /\ \A j \in DOMAIN journal : j # jid => Closed(jid, status)[j] = journal[j]
    BY <1>0, <1>3, ClosedIs
  <2> HIDE DEF Closed
  <2> QED
    BY ONLY <2>1, <1>3
<1>4. ASSUME NEW gap \in Gaps, NEW run \in 1..MaxRuns, NEW each \in BOOLEAN, organize(run, gap, each)
      PROVE  RunsKnown'
  <2>1. /\ run \in {runs, runs + 1} /\ runs' = run /\ UNCHANGED journal
        /\ calm' = calm \/ calm' = run \/ calm' = 0
        /\ work'.phase = "move" /\ work'.run = run /\ work'.step = "next"
    <3> HIDE DEF Plan
    <3> QED
      BY <1>4 DEF organize, Disturbed
  <2>2. calm' # 0 => calm' = run
    <3> HIDE DEF Plan
    <3> QED
      BY <1>4 DEF organize, Disturbed
  <2>3. run \in Nat /\ runs <= run
    BY <1>0, <2>1
  <2>4. \A j \in DOMAIN journal : journal[j].run \in Nat /\ journal[j].run <= runs
    BY <1>0, EntriesAre DEF RunsKnown
  <2>5. \A j \in DOMAIN journal' : journal'[j].run <= runs'
    BY <2>1, <2>3, <2>4, <1>0
  <2>6. calm' \in Nat /\ calm' <= runs'
    BY <2>1, <2>2, <2>3
  <2> QED
    BY <2>1, <2>2, <2>3, <2>5, <2>6 DEF RunsKnown
<1>5. ASSUME work.phase = "move", NEW m \in work.left, Refuse(m)
      PROVE  RunsKnown'
  <2>1. work \in MoveWork
    BY <1>5, WorkIs
  <2>2. /\ work'.phase = "move" /\ work'.run = work.run /\ work'.step = "next"
        /\ UNCHANGED <<runs, calm, journal>>
    BY <2>1, <1>5 DEF Refuse, Moving, MoveWork
  <2> QED
    BY <2>2, <1>2, <1>5
<1>6. ASSUME work.phase = "move", NEW m \in work.left, BeginMove(m)
      PROVE  RunsKnown'
  <2>1. work \in MoveWork
    BY <1>6, WorkIs
  <2>2. work' = [work EXCEPT !.left = @ \ {m}, !.cur = Len(journal) + 1, !.step = "rename"]
    BY <1>6 DEF BeginMove
  <2>3. /\ work'.phase = "move" /\ work'.run = work.run /\ work'.cur = Len(journal) + 1
    BY <2>1, <2>2 DEF MoveWork
  <2>4. UNCHANGED <<runs, calm>> /\ journal' = Append(journal, Entry(m, work.run))
    BY <1>6 DEF BeginMove
  <2>5. Entry(m, work.run).run = work.run
    BY DEF Entry
  <2>6. /\ DOMAIN journal' = 1..(Len(journal) + 1) /\ journal'[Len(journal) + 1].run = work.run
        /\ \A j \in DOMAIN journal : journal'[j] = journal[j]
    BY <2>4, <2>5, <1>0
  <2>7. work.run <= runs /\ (calm # 0 => work.run = calm)
    BY <1>6 DEF RunsKnown
  <2> QED
    BY <2>3, <2>4, <2>6, <2>7, <1>0, <1>6 DEF RunsKnown
<1>7. ASSUME move_unit
      PROVE  RunsKnown'
  <2>1. work \in MoveWork /\ work.phase = "move" /\ work.step = "rename" /\ work.cur \in DOMAIN journal
        /\ UNCHANGED <<runs, calm>>
    BY <1>7, WorkIs, CurIs DEF move_unit, Moving
  <2>2. CASE Ready(journal[work.cur].unit)
    <3>1. /\ journal' = journal
          /\ work' = [work EXCEPT !.step = "close",
                      !.emptied = @ \cup (IF journal[work.cur].index THEN {journal[work.cur].src.dir} ELSE {})]
      BY <1>7, <2>2 DEF move_unit
    <3>2. work'.phase = "move" /\ work'.run = work.run /\ work'.cur = work.cur
      BY <2>1, <3>1 DEF MoveWork
    <3> QED
      BY <2>1, <3>1, <3>2, <1>2
  <2>3. CASE ~Ready(journal[work.cur].unit)
    <3>1. journal' = Closed(work.cur, "failed") /\ work' = [work EXCEPT !.step = "next", !.cur = 0]
      BY <1>7, <2>3 DEF move_unit
    <3>2. work'.phase = "move" /\ work'.run = work.run /\ work'.step = "next"
      BY <2>1, <3>1 DEF MoveWork
    <3>3. \A j \in DOMAIN journal' : j \in DOMAIN journal /\ journal'[j].run = journal[j].run
      BY <2>1, <3>1, <1>3 DEF Status
    <3> QED
      BY <2>1, <3>2, <3>3 DEF RunsKnown
  <2> QED
    BY <2>2, <2>3
<1>8. ASSUME journal_close
      PROVE  RunsKnown'
  <2>1. work \in MoveWork /\ work.phase = "move" /\ work.step = "close" /\ work.cur \in DOMAIN journal
        /\ UNCHANGED <<runs, calm>> /\ journal' = Closed(work.cur, "done")
        /\ work' = [work EXCEPT !.step = IF journal[work.cur].index THEN "follow" ELSE "next"]
    BY <1>8, WorkIs, CurIs DEF journal_close, Moving
  <2>2. work'.phase = "move" /\ work'.run = work.run /\ work'.cur = work.cur
    BY <2>1 DEF MoveWork
  <2>3. \A j \in DOMAIN journal' : j \in DOMAIN journal /\ journal'[j].run = journal[j].run
    BY <2>1, <1>3 DEF Status
  <2>4. work.cur \in DOMAIN journal'
    BY <1>0, <2>1, ClosedIs DEF Status
  <2> QED
    BY <2>1, <2>2, <2>3, <2>4 DEF RunsKnown
<1>9. ASSUME set_file_path
      PROVE  RunsKnown'
  <2>1. work \in MoveWork /\ work.phase = "move" /\ UNCHANGED <<runs, calm, journal>>
        /\ (work' = Idle \/ work' = [work EXCEPT !.step = "next"])
    BY <1>9, WorkIs DEF set_file_path, Moving
  <2>2. work'.phase = "idle" \/ (work'.phase = "move" /\ work'.run = work.run /\ work'.step = "next")
    BY <2>1 DEF MoveWork, Idle
  <2>3. CASE work'.phase = "idle"
    <3>1. calm' \in Nat /\ calm' <= runs'
      BY <2>1 DEF RunsKnown
    <3> QED
      BY <2>1, <2>3, <3>1, <1>0, <1>1
  <2> QED
    BY <2>1, <2>2, <2>3, <1>2
<1>10. ASSUME FinishRun \/ FinishUndo
       PROVE  RunsKnown'
  <2>1. work'.phase = "idle" /\ UNCHANGED <<runs, calm, journal>>
    BY <1>10 DEF FinishRun, FinishUndo, Idle
  <2>2. calm' \in Nat /\ calm' <= runs'
    BY <2>1 DEF RunsKnown
  <2> QED
    BY <2>1, <2>2, <1>0, <1>1
<1>11. ASSUME work.phase = "move", NEW dir \in work.emptied, sweep_litter(dir)
       PROVE  RunsKnown'
  <2>1. work \in MoveWork
    BY <1>11, WorkIs
  <2>2. /\ work'.phase = "move" /\ work'.run = work.run /\ work'.step = "next"
        /\ UNCHANGED <<runs, calm, journal>>
    BY <2>1, <1>11 DEF sweep_litter, Moving, MoveWork
  <2> QED
    BY <2>2, <1>2, <1>11
<1>12. ASSUME NEW run \in 1..runs, undo_run(run)
       PROVE  RunsKnown'
  <2>1. /\ UNCHANGED <<journal, runs>> /\ work'.phase = "undo" /\ work'.run = run
        /\ calm' = 0 \/ (calm' = calm /\ calm = run)
    BY <1>12 DEF undo_run, Undoing, Disturbed
  <2>2. run <= runs
    BY <1>0
  <2> QED
    BY <2>1, <2>2, <1>0 DEF RunsKnown
<1>13. ASSUME NEW jid \in DOMAIN journal, undo(jid)
       PROVE  RunsKnown'
  <2>1. /\ UNCHANGED <<journal, runs>> /\ work'.phase = "undo" /\ work'.run = 0 /\ calm' = 0
    BY <1>13 DEF undo, Undoing, Disturbed
  <2> QED
    BY <2>1, <1>0 DEF RunsKnown
<1>14. ASSUME NEW jid \in DOMAIN journal, reconcile_undo(jid)
       PROVE  RunsKnown'
  <2>1. /\ UNCHANGED <<runs, work>> /\ calm' = 0 /\ work.phase = "idle" /\ journal' = Closed(jid, "undone")
    BY <1>14 DEF reconcile_undo, Disturbed, Free
  <2>2. \A j \in DOMAIN journal' : j \in DOMAIN journal /\ journal'[j].run = journal[j].run
    <3>1. "undone" \in Status
      BY DEF Status
    <3> QED
      BY <2>1, <3>1, <1>3
  <2> QED
    BY <2>1, <2>2, <1>0 DEF RunsKnown
<1> DEFINE jid == NewestOf(work.left)
<1>15. ASSUME walk_back \/ index_back \/ close_undone
       PROVE  RunsKnown'
  <2>1. /\ work.phase = "undo" /\ work.left # {} /\ UNCHANGED <<runs, calm>>
        /\ work' \in {[work EXCEPT !.step = "index"], [work EXCEPT !.step = "close"],
                      NextEntry(TRUE), NextEntry(FALSE)}
        /\ journal' = journal \/ journal' = Closed(jid, "undone")
    BY <1>15 DEF walk_back, index_back, close_undone, Back
  <2>2. work \in UndoWork /\ jid \in DOMAIN journal
    BY <2>1, WorkIs, NewestIs
  <2>3. work'.phase = "undo" /\ work'.run = work.run
    BY <2>1, <2>2 DEF UndoWork, NextEntry
  <2>4. \A j \in DOMAIN journal' : j \in DOMAIN journal /\ journal'[j].run = journal[j].run
    BY <2>1, <2>2, <1>3 DEF Status
  <2> QED
    BY <2>1, <2>3, <2>4 DEF RunsKnown
<1>16. ASSUME \/ \E p \in Photo : Quarantine(p)
              \/ Index
       PROVE  RunsKnown'
  <2>1. /\ calm' = 0 /\ UNCHANGED <<work, journal>> /\ work.phase = "idle" /\ (runs' = runs + 1 \/ runs' = runs)
    BY <1>16 DEF Quarantine, Index, Other, Disturbed, Free
  <2> QED
    BY <2>1, <1>0, <1>1
<1>17. ASSUME Stops
       PROVE  RunsKnown'
  <2>1. calm' = 0 /\ UNCHANGED <<runs, journal>> /\ work'.phase = "idle"
    BY <1>17 DEF Stops, Disturbed, Idle
  <2> QED
    BY <2>1, <1>0, <1>1
<1>18. ASSUME \/ \E stray \in Strays : Others(stray[1], stray[2])
              \/ UNCHANGED reorganizeVars
       PROVE  RunsKnown'
  <2>1. (calm' = 0 \/ calm' = calm) /\ UNCHANGED <<runs, journal, work>>
    BY <1>18 DEF Others, Disturbed, reorganizeVars
  <2> QED
    BY <2>1, <1>0 DEF RunsKnown
<1> QED
  BY <1>4, <1>5, <1>6, <1>7, <1>8, <1>9, <1>10, <1>11, <1>12, <1>13, <1>14, <1>15, <1>16, <1>17, <1>18
     DEF ReorganizeNext

\* What each done entry of the run did, from how it was when the run began: of
\* every entry, where everything was and what the index said before it, and
\* after the last one how it is now.
Chain(jn, done, b, P, X) ==
    /\ P[1] = b.place /\ X[1] = b.index
    /\ \A i \in 1..(Len(jn) + 1) : Honest(P[i], X[i])
    /\ \A k \in done : Shifted(P[k], jn[k].unit, P[k + 1]) /\ X[k + 1] = Renamed(X[k], jn[k])
    /\ \A i, j \in 1..(Len(jn) + 1) :
          i <= j /\ (\A k \in done : k < i \/ j <= k) => P[i] = P[j] /\ X[i] = X[j]

LEMMA ChainStarts ==
    ASSUME NEW jn \in Seq(Entries), NEW pl, NEW ix, Honest(pl, ix)
    PROVE  \E P, X : /\ Chain(jn, {}, [place |-> pl, index |-> ix], P, X)
                     /\ P[Len(jn) + 1] = pl /\ X[Len(jn) + 1] = ix
<1> DEFINE n == Len(jn) + 1
           P == [i \in 1..n |-> pl]
           X == [i \in 1..n |-> ix]
<1>1. n \in Nat /\ 1 <= n
  OBVIOUS
<1>2. \A i \in 1..n : P[i] = pl /\ X[i] = ix
  OBVIOUS
<1> HIDE DEF P, X
<1>3. P[1] = pl /\ X[1] = ix /\ P[n] = pl /\ X[n] = ix
  BY <1>1, <1>2
<1>4. Chain(jn, {}, [place |-> pl, index |-> ix], P, X)
  BY <1>2, <1>3 DEF Chain
<1> QED
  BY <1>3, <1>4

LEMMA ChainSame ==
    ASSUME NEW jn, NEW jn2, NEW done, NEW b, NEW P, NEW X, Chain(jn, done, b, P, X),
           Len(jn2) = Len(jn), \A k \in done : jn2[k] = jn[k]
    PROVE  Chain(jn2, done, b, P, X)
BY DEF Chain

LEMMA ChainGrows ==
    ASSUME NEW jn \in Seq(Entries), NEW done \in SUBSET (1..Len(jn)), NEW b, NEW P, NEW X,
           Chain(jn, done, b, P, X), NEW jn2, Len(jn2) = Len(jn) + 1,
           \A k \in 1..Len(jn) : jn2[k] = jn[k]
    PROVE  \E Q, Y : /\ Chain(jn2, done, b, Q, Y)
                     /\ Q[Len(jn2) + 1] = P[Len(jn) + 1] /\ Y[Len(jn2) + 1] = X[Len(jn) + 1]
<1> DEFINE n == Len(jn) + 1
           Q == [i \in 1..(n + 1) |-> IF i <= n THEN P[i] ELSE P[n]]
           Y == [i \in 1..(n + 1) |-> IF i <= n THEN X[i] ELSE X[n]]
<1>1. n \in Nat /\ 1 <= n
  OBVIOUS
<1>2. /\ \A i \in 1..n : Q[i] = P[i] /\ Y[i] = X[i]
      /\ Q[n + 1] = P[n] /\ Y[n + 1] = X[n]
  OBVIOUS
<1>3. done \subseteq 1..(n - 1) /\ Len(jn2) + 1 = n + 1
  OBVIOUS
<1>4. /\ P[1] = b.place /\ X[1] = b.index
      /\ \A i \in 1..n : Honest(P[i], X[i])
      /\ \A k \in done : Shifted(P[k], jn[k].unit, P[k + 1]) /\ X[k + 1] = Renamed(X[k], jn[k])
      /\ \A i, j \in 1..n :
            i <= j /\ (\A k \in done : k < i \/ j <= k) => P[i] = P[j] /\ X[i] = X[j]
  BY DEF Chain
<1> HIDE DEF Q, Y
<1>5. Q[1] = b.place /\ Y[1] = b.index
  BY <1>1, <1>2, <1>4
<1>6. \A i \in 1..(n + 1) : Honest(Q[i], Y[i])
  <2>1. \A i \in 1..(n + 1) : i \in 1..n \/ i = n + 1
    BY <1>1
  <2>2. n \in 1..n
    BY <1>1
  <2> HIDE DEF n
  <2> QED
    BY <2>1, <2>2, <1>2, <1>4
<1>7. ASSUME NEW k \in done
      PROVE  Shifted(Q[k], jn2[k].unit, Q[k + 1]) /\ Y[k + 1] = Renamed(Y[k], jn2[k])
  <2>1. k \in 1..n /\ k + 1 \in 1..n /\ k \in 1..Len(jn)
    BY <1>1, <1>3
  <2> HIDE DEF n
  <2> QED
    BY <2>1, <1>2, <1>4
<1>8. ASSUME NEW i \in 1..(n + 1), NEW j \in 1..(n + 1), i <= j, \A k \in done : k < i \/ j <= k
      PROVE  Q[i] = Q[j] /\ Y[i] = Y[j]
  <2>1. CASE j \in 1..n
    <3>1. i \in 1..n
      BY <1>8, <2>1
    <3> HIDE DEF n
    <3> QED
      BY <3>1, <2>1, <1>2, <1>4, <1>8
  <2>2. CASE j = n + 1 /\ i \in 1..n
    <3>1. \A k \in done : k < i \/ n <= k
      BY <1>3, <1>8, <2>2
    <3>2. P[i] = P[n] /\ X[i] = X[n]
      BY <3>1, <2>2, <1>1, <1>4
    <3> QED
      BY <3>2, <2>2, <1>2
  <2>3. CASE j = n + 1 /\ i = n + 1
    BY <2>3
  <2> QED
    BY <2>1, <2>2, <2>3, <1>1
<1>9. Chain(jn2, done, b, Q, Y)
  <2> HIDE DEF n
  <2> QED
    BY <1>3, <1>5, <1>6, <1>7, <1>8 DEF Chain
<1> QED
  BY <1>2, <1>3, <1>9

\* The last entry is closed, and its unit has gone.
Closing(jn, jn2, done, done2, b, P, X, pl) ==
    LET n == Len(jn) IN
    /\ jn \in Seq(Entries) /\ n \in 1..n
    /\ done \in SUBSET (1..n) /\ n \notin done /\ done2 = done \cup {n}
    /\ Chain(jn, done, b, P, X)
    /\ Len(jn2) = Len(jn) /\ \A k \in done : jn2[k] = jn[k]
    /\ jn2[n].unit = jn[n].unit /\ jn2[n].index = jn[n].index
    /\ jn2[n].src = jn[n].src /\ jn2[n].dst = jn[n].dst
    /\ pl \in [Object -> AnyPath] /\ Apart(pl) /\ Shifted(P[n], jn[n].unit, pl)

LEMMA ChainDone ==
    ASSUME NEW jn, NEW jn2, NEW done, NEW done2, NEW b, NEW P, NEW X, NEW pl,
           Closing(jn, jn2, done, done2, b, P, X, pl)
    PROVE  \E Q, Y : /\ Chain(jn2, done2, b, Q, Y)
                     /\ Q[Len(jn)] = P[Len(jn)] /\ Y[Len(jn)] = X[Len(jn)]
                     /\ Q[Len(jn) + 1] = pl
                     /\ Y[Len(jn) + 1] = Renamed(X[Len(jn)], jn[Len(jn)])
<1> DEFINE n == Len(jn)
           Q == [i \in 1..(n + 1) |-> IF i <= n THEN P[i] ELSE pl]
           Y == [i \in 1..(n + 1) |-> IF i <= n THEN X[i] ELSE Renamed(X[n], jn[n])]
<1>0. /\ jn \in Seq(Entries) /\ n \in 1..Len(jn) /\ n = Len(jn)
      /\ done \in SUBSET (1..Len(jn)) /\ n \notin done /\ done2 = done \cup {n}
      /\ Chain(jn, done, b, P, X)
      /\ Len(jn2) = Len(jn) /\ \A k \in done : jn2[k] = jn[k]
      /\ jn2[n].unit = jn[n].unit /\ jn2[n].index = jn[n].index
      /\ jn2[n].src = jn[n].src /\ jn2[n].dst = jn[n].dst
      /\ pl \in [Object -> AnyPath] /\ Apart(pl) /\ Shifted(P[n], jn[n].unit, pl)
  BY DEF Closing
<1>1. n \in Nat /\ 1 <= n
  BY <1>0
<1>2. /\ \A i \in 1..n : Q[i] = P[i] /\ Y[i] = X[i]
      /\ Q[n + 1] = pl /\ Y[n + 1] = Renamed(X[n], jn[n])
  BY <1>1
<1>3. done \subseteq 1..(n - 1)
  BY <1>0
<1>4. /\ P[1] = b.place /\ X[1] = b.index
      /\ \A i \in 1..(n + 1) : Honest(P[i], X[i])
      /\ \A k \in done : Shifted(P[k], jn[k].unit, P[k + 1]) /\ X[k + 1] = Renamed(X[k], jn[k])
      /\ \A i, j \in 1..(n + 1) :
            i <= j /\ (\A k \in done : k < i \/ j <= k) => P[i] = P[j] /\ X[i] = X[j]
  BY <1>0 DEF Chain
<1>a. jn[n] \in Entries
  BY <1>0
<1> HIDE DEF Q, Y
<1>5. Q[1] = b.place /\ Y[1] = b.index
  BY <1>1, <1>2, <1>4
<1>6. \A i \in 1..(n + 1) : Honest(Q[i], Y[i])
  <2>1. \A i \in 1..(n + 1) : i \in 1..n \/ i = n + 1
    BY <1>1
  <2>2. n \in 1..(n + 1)
    BY <1>1
  <2>3. Honest(pl, Renamed(X[n], jn[n]))
    BY <1>0, <1>a, <1>4, <2>2, HonestStays
  <2>4. \A i \in 1..n : Honest(P[i], X[i])
    BY <1>1, <1>4
  <2> QED
    BY <2>1, <2>3, <2>4, <1>2
<1>7. ASSUME NEW k \in done \cup {n}
      PROVE  Shifted(Q[k], jn2[k].unit, Q[k + 1]) /\ Y[k + 1] = Renamed(Y[k], jn2[k])
  <2>1. CASE k \in done
    <3>1. k \in 1..n /\ k + 1 \in 1..n
      BY <2>1, <1>1, <1>3
    <3> QED
      BY <1>0, <3>1, <2>1, <1>2, <1>4
  <2>2. CASE k = n
    <3>1. Q[n] = P[n] /\ Y[n] = X[n]
      BY <1>1, <1>2
    <3>2. Renamed(X[n], jn2[n]) = Renamed(X[n], jn[n])
      BY <1>0 DEF Renamed
    <3> QED
      BY <1>0, <3>1, <3>2, <2>2, <1>2
  <2> QED
    BY <2>1, <2>2
<1>8. ASSUME NEW i \in 1..(n + 1), NEW j \in 1..(n + 1), i <= j, \A k \in done \cup {n} : k < i \/ j <= k
      PROVE  Q[i] = Q[j] /\ Y[i] = Y[j]
  <2>1. CASE j \in 1..n
    <3>1. i \in 1..n
      BY <1>1, <1>8, <2>1
    <3>2. \A k \in done : k < i \/ j <= k
      BY <1>8
    <3>3. P[i] = P[j] /\ X[i] = X[j]
      BY <3>1, <3>2, <1>1, <1>4, <1>8, <2>1
    <3> QED
      BY <3>1, <3>3, <2>1, <1>2
  <2>2. CASE j = n + 1
    <3>1. i = n + 1
      BY <1>1, <1>8, <2>2
    <3> QED
      BY <3>1, <2>2
  <2> QED
    BY <2>1, <2>2, <1>1
<1>9. Chain(jn2, done \cup {n}, b, Q, Y)
  BY <1>0, <1>5, <1>6, <1>7, <1>8 DEF Chain
<1>10. Q[n] = P[n] /\ Y[n] = X[n]
  BY <1>1, <1>2
<1> QED
  BY <1>0, <1>2, <1>9, <1>10

\* The last entry still done is undone.
Reopening(jn, jn2, done, done2, top, b, P, X) ==
    /\ jn \in Seq(Entries) /\ done \in SUBSET (1..Len(jn)) /\ top \in done
    /\ (\A k \in done : k <= top) /\ done2 = done \ {top}
    /\ Chain(jn, done, b, P, X)
    /\ Len(jn2) = Len(jn) /\ \A k \in done \ {top} : jn2[k] = jn[k]

LEMMA ChainUndone ==
    ASSUME NEW jn, NEW jn2, NEW done, NEW done2, NEW top, NEW b, NEW P, NEW X,
           Reopening(jn, jn2, done, done2, top, b, P, X)
    PROVE  \E Q, Y : /\ Chain(jn2, done2, b, Q, Y)
                     /\ Q[Len(jn2) + 1] = P[top] /\ Y[Len(jn2) + 1] = X[top]
<1> DEFINE n == Len(jn) + 1
           Q == [i \in 1..n |-> IF i <= top THEN P[i] ELSE P[top]]
           Y == [i \in 1..n |-> IF i <= top THEN X[i] ELSE X[top]]
<1>0. /\ jn \in Seq(Entries) /\ done \in SUBSET (1..Len(jn)) /\ top \in done
      /\ (\A k \in done : k <= top) /\ done2 = done \ {top}
      /\ Chain(jn, done, b, P, X)
      /\ Len(jn2) = Len(jn) /\ \A k \in done \ {top} : jn2[k] = jn[k]
  BY DEF Reopening
<1>1. n \in Nat /\ 1 <= n /\ top \in 1..(n - 1) /\ top \in 1..n /\ n > top
  BY <1>0
<1>2. /\ \A i \in 1..n : i <= top => Q[i] = P[i] /\ Y[i] = X[i]
      /\ \A i \in 1..n : i > top => Q[i] = P[top] /\ Y[i] = X[top]
  BY <1>1
<1>4. /\ P[1] = b.place /\ X[1] = b.index
      /\ \A i \in 1..n : Honest(P[i], X[i])
      /\ \A k \in done : Shifted(P[k], jn[k].unit, P[k + 1]) /\ X[k + 1] = Renamed(X[k], jn[k])
      /\ \A i, j \in 1..n :
            i <= j /\ (\A k \in done : k < i \/ j <= k) => P[i] = P[j] /\ X[i] = X[j]
  BY <1>0 DEF Chain
<1>3. \A k \in done \ {top} : k \in 1..n /\ k + 1 \in 1..n /\ k < top /\ k + 1 <= top
  BY <1>0, <1>1
<1>b. Len(jn2) + 1 = n /\ 1 \in 1..n /\ n \in 1..n /\ 1 <= top
  BY <1>0, <1>1
<1> HIDE DEF Q, Y, n
<1>5. Q[1] = b.place /\ Y[1] = b.index
  BY <1>b, <1>2, <1>4
<1>6. \A i \in 1..n : Honest(Q[i], Y[i])
  <2>1. \A i \in 1..n : i <= top \/ i > top
    BY <1>1
  <2> QED
    BY <2>1, <1>1, <1>2, <1>4
<1>7. ASSUME NEW k \in done \ {top}
      PROVE  Shifted(Q[k], jn2[k].unit, Q[k + 1]) /\ Y[k + 1] = Renamed(Y[k], jn2[k])
  <2>1. Q[k] = P[k] /\ Y[k] = X[k] /\ Q[k + 1] = P[k + 1] /\ Y[k + 1] = X[k + 1]
    BY <1>1, <1>2, <1>3
  <2> QED
    BY <2>1, <1>0, <1>4
<1>8. ASSUME NEW i \in 1..n, NEW j \in 1..n, i <= j, \A k \in done \ {top} : k < i \/ j <= k
      PROVE  Q[i] = Q[j] /\ Y[i] = Y[j]
  <2>1. CASE j <= top
    <3>1. i <= top /\ \A k \in done : k < i \/ j <= k
      BY <1>1, <1>8, <2>1
    <3>2. P[i] = P[j] /\ X[i] = X[j]
      BY <3>1, <1>4, <1>8
    <3> QED
      BY <3>1, <3>2, <2>1, <1>2
  <2>2. CASE j > top /\ i <= top
    <3>1. \A k \in done : k < i \/ top <= k
      BY <1>1, <1>3, <1>8, <2>2
    <3>2. P[i] = P[top] /\ X[i] = X[top]
      BY <3>1, <2>2, <1>1, <1>4
    <3> QED
      BY <3>2, <2>2, <1>2
  <2>3. CASE i > top
    <3>1. j > top
      BY <1>1, <1>8, <2>3
    <3> QED
      BY <3>1, <2>3, <1>2
  <2> QED
    BY <2>1, <2>2, <2>3, <1>1
<1>9. Chain(jn2, done \ {top}, b, Q, Y)
  BY <1>0, <1>b, <1>5, <1>6, <1>7, <1>8 DEF Chain
<1> QED
  BY <1>0, <1>1, <1>2, <1>9, <1>b

LEMMA ChainLast ==
    ASSUME NEW jn \in Seq(Entries), NEW done \in SUBSET (1..Len(jn)), NEW b, NEW P, NEW X,
           Chain(jn, done, b, P, X)
    PROVE  /\ \A i \in 1..(Len(jn) + 1) : (\A k \in done : k < i) =>
                P[i] = P[Len(jn) + 1] /\ X[i] = X[Len(jn) + 1]
           /\ \A i \in 1..(Len(jn) + 1) : Honest(P[i], X[i])
BY DEF Chain

CarriedOut(jn, run) == {j \in DOMAIN jn : jn[j].run = run /\ jn[j].status = "done"}
\* Where in that chain the work stands.
Now(jn, wk, pl, ix, run, P, X) ==
    LET n == Len(jn) IN
    /\ wk.phase = "idle" \/ wk.step = "next" => pl = P[n + 1] /\ ix = X[n + 1]
    /\ wk.phase = "move" =>
        /\ wk.step # "next" => wk.cur = n
        /\ wk.step = "rename" => pl = P[n + 1] /\ ix = X[n + 1]
        /\ wk.step = "close" => Shifted(P[n], jn[n].unit, pl) /\ ix = X[n]
        /\ wk.step = "follow" => pl = P[n + 1] /\ ix = X[n]
    /\ wk.phase = "undo" =>
        /\ wk.left = CarriedOut(jn, run) /\ wk.failed = FALSE
        /\ wk.step = "index" => pl = P[NewestOf(wk.left)] /\ ix = X[NewestOf(wk.left) + 1]
        /\ wk.step = "close" => pl = P[NewestOf(wk.left)] /\ ix = X[NewestOf(wk.left)]
CalmOK(jn, wk, pl, ix, run, b) ==
    run # 0 => \E P, X : Chain(jn, CarriedOut(jn, run), b, P, X) /\ Now(jn, wk, pl, ix, run, P, X)
CalmInv == CalmOK(journal, work, place, index, calm, began)

LEMMA CalmNext ==
    CalmOK(journal', work', place', index', calm', began') => CalmInv'
BY DEF CalmInv, CalmOK, Chain, Now, CarriedOut, NewestOf, Honest, Shifted, Renamed, Apart

LEMMA CalmFacts ==
    ASSUME TypeInv, RunsKnown
    PROVE  /\ journal \in Seq(Entries) /\ DOMAIN journal = 1..Len(journal) /\ Len(journal) \in Nat
           /\ CarriedOut(journal, calm) \in SUBSET (1..Len(journal))
           /\ \A j \in DOMAIN journal : journal[j] \in Entries
           /\ place \in [Object -> AnyPath] /\ Apart(place)
           /\ work.phase = "move" /\ work.step # "next" => work.cur \in DOMAIN journal
           /\ work.phase = "move" /\ work.step \in {"rename", "close"} => journal[work.cur].status = "pending"
           /\ work.phase = "move" /\ work.step = "follow" =>
                journal[work.cur].status = "done" /\ journal[work.cur].index
<1>1. journal \in Seq(Entries) /\ PlaceOK /\ WorkOK
  BY DEF TypeInv
<1>2. CarriedOut(journal, calm) \in SUBSET (1..Len(journal))
  BY <1>1 DEF CarriedOut
<1> QED
  BY <1>1, <1>2 DEF PlaceOK, WorkOK

\* A step that leaves the journal, the places and the index as they are.
LEMMA CalmWaits ==
    ASSUME CalmInv, UNCHANGED <<journal, place, index, calm, began>>,
           work.phase = "idle" \/ work.step = "next",
           work'.phase = "idle" \/ (work'.phase = "move" /\ work'.step = "next")
    PROVE  CalmInv'
<1>1. CalmOK(journal, work, place, index, calm, began)
  BY DEF CalmInv
<1> SUFFICES ASSUME calm # 0
             PROVE  \E P, X : /\ Chain(journal, CarriedOut(journal, calm), began, P, X)
                              /\ Now(journal, work', place, index, calm, P, X)
  BY CalmNext DEF CalmOK
<1>2. PICK P, X : /\ Chain(journal, CarriedOut(journal, calm), began, P, X)
                  /\ Now(journal, work, place, index, calm, P, X)
  BY <1>1 DEF CalmOK
<1>3. Now(journal, work', place, index, calm, P, X)
  BY <1>2 DEF Now
<1> QED
  BY <1>2, <1>3

LEMMA CalmOrganize ==
    ASSUME TypeInv, RunsKnown, CalmInv,
           NEW gap \in Gaps, NEW run \in 1..MaxRuns, NEW each \in BOOLEAN, organize(run, gap, each)
    PROVE  CalmInv'
<1> HIDE DEF Plan
<1>1. /\ UNCHANGED <<journal, place, index>> /\ work.phase = "idle"
      /\ work'.phase = "move" /\ work'.step = "next" /\ run \in {runs, runs + 1} /\ runs \in Nat
  BY DEF organize, Free, TypeInv
<1>2. CASE UNCHANGED <<calm, began>>
  BY <1>1, <1>2, CalmWaits
<1>3. CASE calm' = 0
  BY <1>3, CalmNext DEF CalmOK
<1>4. CASE /\ run = runs + 1 /\ calm' = run /\ began' = [place |-> place, index |-> index]
           /\ \A path \in DOMAIN index : index[path].state = "present" /\ place[index[path].who] = path
  <2>1. /\ journal \in Seq(Entries) /\ place \in [Object -> AnyPath] /\ Apart(place)
    BY CalmFacts
  <2>2. Honest(place, index)
    BY <1>4, <2>1 DEF Honest, TypeInv, IndexOK
  <2>3. CarriedOut(journal, run) = {}
    <3>1. \A j \in DOMAIN journal : journal[j].run \in Nat /\ journal[j].run <= runs
      BY <2>1, EntriesAre DEF RunsKnown
    <3>2. \A j \in DOMAIN journal : journal[j].run # run
      BY <3>1, <1>1, <1>4
    <3> QED
      BY <3>2 DEF CarriedOut
  <2>4. PICK P, X : /\ Chain(journal, {}, [place |-> place, index |-> index], P, X)
                    /\ P[Len(journal) + 1] = place /\ X[Len(journal) + 1] = index
    BY <2>1, <2>2, ChainStarts
  <2>5. Now(journal, work', place, index, run, P, X)
    BY <1>1, <2>4 DEF Now
  <2>6. CalmOK(journal', work', place', index', calm', began')
    BY <1>1, <1>4, <2>3, <2>4, <2>5 DEF CalmOK
  <2> QED
    BY <2>6, CalmNext
<1>5. \/ UNCHANGED <<calm, began>>
      \/ calm' = 0
      \/ /\ run = runs + 1 /\ calm' = run /\ began' = [place |-> place, index |-> index]
         /\ \A path \in DOMAIN index : index[path].state = "present" /\ place[index[path].who] = path
  BY <1>1 DEF organize, Disturbed
<1> QED
  BY <1>2, <1>3, <1>4, <1>5

LEMMA CalmBegins ==
    ASSUME TypeInv, RunsKnown, CalmInv, work.phase = "move", NEW m \in work.left, BeginMove(m)
    PROVE  CalmInv'
<1> DEFINE n == Len(journal)
           e == Entry(m, work.run)
<1>1. work \in MoveWork /\ journal \in Seq(Entries) /\ n \in Nat /\ DOMAIN journal = 1..n
      /\ CarriedOut(journal, calm) \in SUBSET (1..n)
  BY WorkIs, CalmFacts
<1>2. /\ work.step = "next" /\ UNCHANGED <<place, index, calm, began>>
      /\ journal' = Append(journal, e)
      /\ work' = [work EXCEPT !.left = @ \ {m}, !.cur = n + 1, !.step = "rename"]
  BY DEF BeginMove, Moving, Same
<1>3. work'.phase = "move" /\ work'.step = "rename" /\ work'.cur = n + 1
  BY <1>1, <1>2 DEF MoveWork
<1>4. e.status = "pending"
  BY DEF Entry
<1> HIDE DEF e
<1>5. /\ Len(journal') = n + 1 /\ DOMAIN journal' = 1..(n + 1) /\ journal'[n + 1] = e
      /\ \A j \in 1..n : journal'[j] = journal[j]
  BY <1>1, <1>2
<1>6. CarriedOut(journal', calm) = CarriedOut(journal, calm)
  <2>1. \A j \in DOMAIN journal' : j \in DOMAIN journal \/ j = n + 1
    BY <1>1, <1>5
  <2> QED
    BY <2>1, <1>1, <1>4, <1>5 DEF CarriedOut
<1> SUFFICES ASSUME calm # 0
             PROVE  \E Q, Y : /\ Chain(journal', CarriedOut(journal', calm), began, Q, Y)
                              /\ Now(journal', work', place, index, calm, Q, Y)
  BY <1>2, CalmNext DEF CalmOK
<1>7. PICK P, X : /\ Chain(journal, CarriedOut(journal, calm), began, P, X)
                  /\ Now(journal, work, place, index, calm, P, X)
  BY DEF CalmInv, CalmOK
<1>8. place = P[n + 1] /\ index = X[n + 1]
  BY <1>2, <1>7 DEF Now
<1>9. PICK Q, Y : /\ Chain(journal', CarriedOut(journal, calm), began, Q, Y)
                  /\ Q[Len(journal') + 1] = P[n + 1] /\ Y[Len(journal') + 1] = X[n + 1]
  BY <1>1, <1>5, <1>7, ChainGrows
<1>10. Now(journal', work', place, index, calm, Q, Y)
  BY <1>3, <1>5, <1>8, <1>9 DEF Now
<1> QED
  BY <1>6, <1>9, <1>10

LEMMA CalmMoves ==
    ASSUME TypeInv, RunsKnown, CalmInv, move_unit
    PROVE  CalmInv'
<1> DEFINE n == Len(journal)
           e == journal[work.cur]
<1>1. /\ work \in MoveWork /\ work.phase = "move" /\ work.step = "rename" /\ UNCHANGED <<index, calm, began>>
  BY WorkIs DEF move_unit, Moving, Same
<1>2. /\ journal \in Seq(Entries) /\ DOMAIN journal = 1..n /\ n \in Nat
      /\ CarriedOut(journal, calm) \in SUBSET (1..n)
      /\ work.cur \in 1..n /\ e \in Entries /\ e.status = "pending"
  BY <1>1, CalmFacts
<1> SUFFICES ASSUME calm # 0
             PROVE  \E Q, Y : /\ Chain(journal', CarriedOut(journal', calm), began, Q, Y)
                              /\ Now(journal', work', place', index, calm, Q, Y)
  BY <1>1, CalmNext DEF CalmOK
<1>3. PICK P, X : /\ Chain(journal, CarriedOut(journal, calm), began, P, X)
                  /\ Now(journal, work, place, index, calm, P, X)
  BY DEF CalmInv, CalmOK
<1>4. work.cur = n /\ place = P[n + 1] /\ index = X[n + 1]
  BY <1>1, <1>3 DEF Now
<1>5. n \notin CarriedOut(journal, calm)
  BY <1>2, <1>4 DEF CarriedOut
<1>6. CASE Ready(e.unit)
  <2>1. /\ place' = Moved(e.unit) /\ journal' = journal
        /\ work' = [work EXCEPT !.step = "close", !.emptied = @ \cup (IF e.index THEN {e.src.dir} ELSE {})]
    BY <1>6 DEF move_unit
  <2>2. work'.phase = "move" /\ work'.step = "close" /\ work'.cur = n
    BY <1>1, <1>4, <2>1 DEF MoveWork
  <2>3. Sound(e.unit) /\ PlaceOK
    BY <1>2, EntriesAre DEF TypeInv
  <2>4. /\ \A u \in e.unit : Moved(e.unit)[u.who] = u.dst
        /\ \A o \in Object : (\A u \in e.unit : u.who # o) => Moved(e.unit)[o] = place[o]
    BY <1>6, <2>3, MovedIs
  <2>5. Shifted(place, e.unit, place')
    BY <1>6, <2>1, <2>4 DEF Shifted, Ready, Occupied
  <2>6. P[n] = P[n + 1] /\ X[n] = X[n + 1]
    <3>1. \A k \in CarriedOut(journal, calm) : k < n
      BY <1>2, <1>5
    <3>2. n \in 1..(n + 1)
      BY <1>2, <1>4
    <3>3. \A i \in 1..(n + 1) : (\A k \in CarriedOut(journal, calm) : k < i) =>
              P[i] = P[n + 1] /\ X[i] = X[n + 1]
      BY <1>2, <1>3, ChainLast
    <3> QED
      BY <3>1, <3>2, <3>3
  <2>7. Shifted(P[n], journal'[n].unit, place') /\ index = X[n]
    BY <1>4, <2>1, <2>5, <2>6
  <2>8. Now(journal', work', place', index, calm, P, X)
    BY <2>1, <2>2, <2>7 DEF Now
  <2> QED
    BY <1>3, <2>1, <2>8
<1>7. CASE ~Ready(e.unit)
  <2>1. journal' = Closed(work.cur, "failed") /\ place' = place /\ work' = [work EXCEPT !.step = "next", !.cur = 0]
    BY <1>7 DEF move_unit
  <2>2. work'.phase = "move" /\ work'.step = "next"
    BY <1>1, <2>1 DEF MoveWork
  <2>3. /\ DOMAIN journal' = 1..n /\ Len(journal') = n /\ journal'[n].status = "failed"
        /\ \A j \in 1..n : j # n => journal'[j] = journal[j]
    <3>1. "failed" \in Status /\ n \in DOMAIN journal /\ journal' = Closed(n, "failed")
      BY <1>2, <1>4, <2>1 DEF Status
    <3>2. /\ DOMAIN Closed(n, "failed") = DOMAIN journal /\ Len(Closed(n, "failed")) = Len(journal)
          /\ Closed(n, "failed")[n].status = "failed"
          /\ \A j \in DOMAIN journal : j # n => Closed(n, "failed")[j] = journal[j]
      BY <1>2, <3>1, ClosedIs
    <3> QED
      BY <1>2, <3>1, <3>2
  <2>4. CarriedOut(journal', calm) = CarriedOut(journal, calm)
    BY <1>2, <1>5, <2>3 DEF CarriedOut
  <2>5. Chain(journal', CarriedOut(journal', calm), began, P, X)
    BY <1>2, <1>3, <1>5, <2>3, <2>4, ChainSame
  <2>6. Now(journal', work', place', index, calm, P, X)
    BY <1>4, <2>1, <2>2, <2>3 DEF Now
  <2> QED
    BY <2>5, <2>6
<1> QED
  BY <1>6, <1>7

LEMMA CalmCloses ==
    ASSUME TypeInv, RunsKnown, CalmInv, journal_close
    PROVE  CalmInv'
<1> DEFINE n == Len(journal)
           e == journal[work.cur]
<1>1. /\ work \in MoveWork /\ work.phase = "move" /\ work.step = "close"
      /\ UNCHANGED <<place, index, calm, began>>
      /\ journal' = Closed(work.cur, "done")
      /\ work' = [work EXCEPT !.step = IF e.index THEN "follow" ELSE "next"]
  BY WorkIs DEF journal_close, Moving, Same
<1>2. /\ journal \in Seq(Entries) /\ DOMAIN journal = 1..n /\ n \in Nat
      /\ CarriedOut(journal, calm) \in SUBSET (1..n)
      /\ work.cur \in 1..n /\ e \in Entries /\ e.status = "pending"
      /\ place \in [Object -> AnyPath] /\ Apart(place)
  BY <1>1, CalmFacts
<1> SUFFICES ASSUME calm # 0
             PROVE  \E Q, Y : /\ Chain(journal', CarriedOut(journal', calm), began, Q, Y)
                              /\ Now(journal', work', place, index, calm, Q, Y)
  BY <1>1, CalmNext DEF CalmOK
<1>3. PICK P, X : /\ Chain(journal, CarriedOut(journal, calm), began, P, X)
                  /\ Now(journal, work, place, index, calm, P, X)
  BY DEF CalmInv, CalmOK
<1>4. work.cur = n /\ Shifted(P[n], e.unit, place) /\ index = X[n]
  BY <1>1, <1>3 DEF Now
<1>5. n \notin CarriedOut(journal, calm) /\ e.run = calm
  BY <1>1, <1>2, <1>4 DEF CarriedOut, RunsKnown
<1>6. /\ DOMAIN journal' = 1..n /\ Len(journal') = n /\ journal'[n].status = "done"
      /\ journal'[n].run = calm /\ journal'[n].unit = e.unit /\ journal'[n].index = e.index
      /\ journal'[n].src = e.src /\ journal'[n].dst = e.dst
      /\ \A j \in 1..n : j # n => journal'[j] = journal[j]
  <2> DEFINE new == Closed(n, "done")
  <2>1. "done" \in Status /\ n \in DOMAIN journal /\ journal' = new /\ e = journal[n]
    BY <1>1, <1>2, <1>4 DEF Status
  <2>2. /\ DOMAIN new = DOMAIN journal /\ Len(new) = Len(journal)
        /\ new[n].status = "done" /\ new[n].run = journal[n].run
        /\ new[n].unit = journal[n].unit /\ new[n].src = journal[n].src
        /\ new[n].dst = journal[n].dst /\ new[n].index = journal[n].index
        /\ \A j \in DOMAIN journal : j # n => new[j] = journal[j]
    BY <1>2, <2>1, ClosedIs
  <2> HIDE DEF new
  <2> QED
    BY <1>2, <1>5, <2>1, <2>2
<1>7. CarriedOut(journal', calm) = CarriedOut(journal, calm) \cup {n}
  BY <1>2, <1>4, <1>6 DEF CarriedOut
<1>8. PICK Q, Y : /\ Chain(journal', CarriedOut(journal, calm) \cup {n}, began, Q, Y)
                  /\ Q[n] = P[n] /\ Y[n] = X[n]
                  /\ Q[n + 1] = place /\ Y[n + 1] = Renamed(X[n], e)
  <2> DEFINE done == CarriedOut(journal, calm)
             done2 == done \cup {n}
  <2>1. e = journal[n] /\ n \in 1..Len(journal) /\ \A k \in done : journal'[k] = journal[k]
    BY <1>2, <1>4, <1>5, <1>6
  <2>2. /\ done \in SUBSET (1..Len(journal)) /\ n \notin done /\ Chain(journal, done, began, P, X)
        /\ Len(journal') = Len(journal) /\ journal'[n].unit = journal[n].unit /\ journal'[n].index = journal[n].index
        /\ journal'[n].src = journal[n].src /\ journal'[n].dst = journal[n].dst
        /\ Shifted(P[n], journal[n].unit, place)
    BY <2>1, <1>2, <1>3, <1>4, <1>5, <1>6
  <2>3. n = Len(journal)
    OBVIOUS
  <2>4. journal \in Seq(Entries) /\ place \in [Object -> AnyPath] /\ Apart(place)
    BY <1>2
  <2>5. Closing(journal, journal', done, done2, began, P, X, place)
    BY <2>1, <2>2, <2>3, <2>4 DEF Closing
  <2>6. e = journal[Len(journal)]
    BY <1>4
  <2> HIDE DEF done2, done, n, e
  <2>7. \E Q, Y : /\ Chain(journal', done2, began, Q, Y)
                  /\ Q[Len(journal)] = P[Len(journal)] /\ Y[Len(journal)] = X[Len(journal)]
                  /\ Q[Len(journal) + 1] = place
                  /\ Y[Len(journal) + 1] = Renamed(X[Len(journal)], journal[Len(journal)])
    BY <2>5, ChainDone
  <2> QED
    BY <2>6, <2>7 DEF done2, done, n
<1>9. /\ work'.phase = "move" /\ work'.cur = n
      /\ work'.step = IF e.index THEN "follow" ELSE "next"
  BY <1>1, <1>4 DEF MoveWork
<1>10. Now(journal', work', place, index, calm, Q, Y)
  <2>1. CASE e.index
    BY <2>1, <1>4, <1>6, <1>8, <1>9 DEF Now
  <2>2. CASE ~e.index
    <3>1. Y[n + 1] = index
      BY <2>2, <1>4, <1>8 DEF Renamed
    <3> QED
      BY <2>2, <3>1, <1>4, <1>6, <1>8, <1>9 DEF Now
  <2> QED
    BY <2>1, <2>2
<1> QED
  BY <1>7, <1>8, <1>10

LEMMA CalmFollows ==
    ASSUME TypeInv, RunsKnown, CalmInv, set_file_path
    PROVE  CalmInv'
<1> DEFINE n == Len(journal)
           e == journal[work.cur]
<1>1. /\ work \in MoveWork /\ work.phase = "move" /\ work.step = "follow"
      /\ UNCHANGED <<place, journal, calm, began>>
  BY WorkIs DEF set_file_path, Moving, Same
<1>2. /\ journal \in Seq(Entries) /\ DOMAIN journal = 1..n /\ n \in Nat
      /\ CarriedOut(journal, calm) \in SUBSET (1..n)
      /\ work.cur \in 1..n /\ e \in Entries /\ e.status = "done" /\ e.index
  BY <1>1, CalmFacts
<1> SUFFICES ASSUME calm # 0
             PROVE  \E Q, Y : /\ Chain(journal, CarriedOut(journal, calm), began, Q, Y)
                              /\ Now(journal, work', place, index', calm, Q, Y)
  BY <1>1, CalmNext DEF CalmOK
<1>3. PICK P, X : /\ Chain(journal, CarriedOut(journal, calm), began, P, X)
                  /\ Now(journal, work, place, index, calm, P, X)
  BY DEF CalmInv, CalmOK
<1>4. work.cur = n /\ place = P[n + 1] /\ index = X[n]
  BY <1>1, <1>3 DEF Now
<1>5. n \in CarriedOut(journal, calm)
  BY <1>1, <1>2, <1>4 DEF CarriedOut, RunsKnown
<1>6. Shifted(P[n], e.unit, P[n + 1]) /\ X[n + 1] = Renamed(X[n], e) /\ Honest(P[n], X[n])
  <2>1. n \in 1..(n + 1)
    BY <1>2, <1>4
  <2> QED
    BY <2>1, <1>3, <1>4, <1>5 DEF Chain
<1>7. e.dst \notin DOMAIN index
  <2>1. \A o \in Object : P[n][o] # e.dst
    <3> DEFINE pl == P[n]
               pl2 == P[n + 1]
    <3>1. Shifted(pl, e.unit, pl2) /\ e \in Entries
      BY <1>2, <1>6
    <3> HIDE DEF pl, pl2, e
    <3>2. \A o \in Object : pl[o] # e.dst
      BY <3>1, ShiftedPhotos
    <3> QED
      BY <3>2 DEF pl
  <2> QED
    BY <2>1, <1>4, <1>6, FreeInIndex
<1>8. ~(e.src \in DOMAIN index /\ ~Follows(e.src, e.dst))
  BY <1>7 DEF Follows
<1>9. /\ work' = [work EXCEPT !.step = "next"]
      /\ index' = IF e.src \in DOMAIN index THEN Followed(e.src, e.dst) ELSE index
  BY <1>8 DEF set_file_path
<1>10. index' = X[n + 1]
  BY <1>2, <1>4, <1>6, <1>9 DEF Renamed, Followed
<1>11. work'.phase = "move" /\ work'.step = "next"
  BY <1>1, <1>9 DEF MoveWork
<1>12. Now(journal, work', place, index', calm, P, X)
  BY <1>4, <1>10, <1>11 DEF Now
<1> QED
  BY <1>3, <1>12

LEMMA CalmUndoes ==
    ASSUME TypeInv, RunsKnown, CalmInv, NEW run, undo_run(run)
    PROVE  CalmInv'
<1>1. /\ UNCHANGED <<journal, place, index>> /\ work.phase = "idle"
      /\ work' = Undoing(DoneOf(run), run)
      /\ (calm = run /\ UNCHANGED <<calm, began>>) \/ calm' = 0
  BY DEF undo_run, Free, Disturbed
<1>2. CASE calm' = 0
  BY <1>2, CalmNext DEF CalmOK
<1>3. CASE calm = run /\ UNCHANGED <<calm, began>>
  <2>1. CalmOK(journal, work, place, index, calm, began)
    BY DEF CalmInv
  <2> SUFFICES ASSUME calm # 0
               PROVE  \E P, X : /\ Chain(journal, CarriedOut(journal, calm), began, P, X)
                                /\ Now(journal, work', place, index, calm, P, X)
    BY <1>1, <1>3, CalmNext DEF CalmOK
  <2>2. PICK P, X : /\ Chain(journal, CarriedOut(journal, calm), began, P, X)
                    /\ Now(journal, work, place, index, calm, P, X)
    BY <2>1 DEF CalmOK
  <2>3. DoneOf(run) = CarriedOut(journal, calm)
    BY <1>3 DEF DoneOf, CarriedOut
  <2>4. /\ work'.phase = "undo" /\ work'.step = "next" /\ work'.failed = FALSE
        /\ work'.left = CarriedOut(journal, calm)
    BY <1>1, <2>3 DEF Undoing
  <2>5. Now(journal, work', place, index, calm, P, X)
    BY <1>1, <2>2, <2>4 DEF Now
  <2> QED
    BY <2>2, <2>5
<1> QED
  BY <1>1, <1>2, <1>3

\* What an undo at work has before it: the last entry still done, and what it did.
LEMMA CalmTop ==
    ASSUME TypeInv, RunsKnown, CalmInv, calm # 0, work.phase = "undo", work.left # {},
           NEW P, NEW X, Chain(journal, CarriedOut(journal, calm), began, P, X),
           Now(journal, work, place, index, calm, P, X)
    PROVE  LET k == NewestOf(work.left) IN
           /\ work.left = CarriedOut(journal, calm)
           /\ k \in CarriedOut(journal, calm) /\ \A j \in CarriedOut(journal, calm) : j <= k
           /\ k \in 1..Len(journal) /\ journal[k] \in Entries
           /\ Shifted(P[k], journal[k].unit, P[k + 1]) /\ X[k + 1] = Renamed(X[k], journal[k])
           /\ Honest(P[k], X[k])
           /\ P[k + 1] = P[Len(journal) + 1] /\ X[k + 1] = X[Len(journal) + 1]
<1> DEFINE k == NewestOf(work.left)
           done == CarriedOut(journal, calm)
<1>1. /\ journal \in Seq(Entries) /\ DOMAIN journal = 1..Len(journal) /\ Len(journal) \in Nat
      /\ done \in SUBSET (1..Len(journal))
  BY CalmFacts
<1>2. work.left = done
  BY DEF Now
<1>3. k \in done /\ (\A j \in done : j <= k) /\ journal[k] \in Entries
  BY <1>2, NewestIs
<1>4. k \in 1..Len(journal)
  BY <1>1, <1>3
<1> HIDE DEF k, done
<1>5. k \in 1..(Len(journal) + 1) /\ k + 1 \in 1..(Len(journal) + 1) /\ \A j \in done : j < k + 1
  BY <1>1, <1>3, <1>4
<1>6. /\ Shifted(P[k], journal[k].unit, P[k + 1]) /\ X[k + 1] = Renamed(X[k], journal[k])
      /\ Honest(P[k], X[k])
  BY <1>3, <1>5 DEF Chain, done
<1>7. P[k + 1] = P[Len(journal) + 1] /\ X[k + 1] = X[Len(journal) + 1]
  <2>1. Chain(journal, done, began, P, X)
    BY DEF done
  <2>2. \A i \in 1..(Len(journal) + 1) : (\A j \in done : j < i) =>
          P[i] = P[Len(journal) + 1] /\ X[i] = X[Len(journal) + 1]
    BY <1>1, <2>1 DEF Chain
  <2> QED
    BY <1>5, <2>2
<1> QED
  BY <1>2, <1>3, <1>4, <1>6, <1>7 DEF k, done

LEMMA CalmWalks ==
    ASSUME TypeInv, RunsKnown, CalmInv, walk_back
    PROVE  CalmInv'
<1> DEFINE k == NewestOf(work.left)
           e == journal[k]
<1>1. /\ work \in UndoWork /\ work.phase = "undo" /\ work.left # {} /\ work.step = "next"
      /\ UNCHANGED <<index, journal, calm, began>>
  BY WorkIs DEF walk_back, Back, Same
<1> SUFFICES ASSUME calm # 0
             PROVE  \E P, X : /\ Chain(journal, CarriedOut(journal, calm), began, P, X)
                              /\ Now(journal, work', place', index, calm, P, X)
  BY <1>1, CalmNext DEF CalmOK
<1>2. PICK P, X : /\ Chain(journal, CarriedOut(journal, calm), began, P, X)
                  /\ Now(journal, work, place, index, calm, P, X)
  BY DEF CalmInv, CalmOK
<1>3. /\ work.left = CarriedOut(journal, calm) /\ e \in Entries
      /\ Shifted(P[k], e.unit, P[k + 1]) /\ Honest(P[k], X[k])
      /\ P[k + 1] = P[Len(journal) + 1] /\ X[k + 1] = X[Len(journal) + 1]
  BY <1>1, <1>2, CalmTop
<1>4. place = P[k + 1] /\ index = X[k + 1] /\ work.failed = FALSE
  BY <1>1, <1>2, <1>3 DEF Now
<1>5. CanReturn(e.unit) /\ Returned(e.unit) = P[k]
  <2> DEFINE pl == P[k]
             U == e.unit
  <2>1. Sound(U) /\ pl \in [Object -> AnyPath] /\ Apart(pl) /\ Shifted(pl, U, place)
    BY <1>3, <1>4, EntriesAre DEF Honest
  <2>2. place \in [Object -> AnyPath]
    BY CalmFacts
  <2> HIDE DEF pl, U, k, e
  <2>3. CanReturn(U) /\ Returned(U) = pl
    BY <2>1, <2>2, ShiftedBack
  <2> QED
    BY <2>3 DEF pl, U
<1>6. place' = P[k] /\ work' = [work EXCEPT !.step = "index"]
  BY <1>5 DEF walk_back
<1>7. /\ work'.phase = "undo" /\ work'.step = "index" /\ work'.left = work.left /\ work'.failed = work.failed
  BY <1>1, <1>6 DEF UndoWork
<1>8. Now(journal, work', place', index, calm, P, X)
  BY <1>3, <1>4, <1>6, <1>7 DEF Now
<1> QED
  BY <1>2, <1>8

LEMMA CalmIndexBack ==
    ASSUME TypeInv, RunsKnown, CalmInv, index_back
    PROVE  CalmInv'
<1> DEFINE k == NewestOf(work.left)
           e == journal[k]
<1>1. /\ work \in UndoWork /\ work.phase = "undo" /\ work.left # {} /\ work.step = "index"
      /\ UNCHANGED <<place, journal, calm, began>>
  BY WorkIs DEF index_back, Back, Same
<1> SUFFICES ASSUME calm # 0
             PROVE  \E P, X : /\ Chain(journal, CarriedOut(journal, calm), began, P, X)
                              /\ Now(journal, work', place, index', calm, P, X)
  BY <1>1, CalmNext DEF CalmOK
<1>2. PICK P, X : /\ Chain(journal, CarriedOut(journal, calm), began, P, X)
                  /\ Now(journal, work, place, index, calm, P, X)
  BY DEF CalmInv, CalmOK
<1>3. /\ work.left = CarriedOut(journal, calm) /\ e \in Entries
      /\ Shifted(P[k], e.unit, P[k + 1]) /\ X[k + 1] = Renamed(X[k], e) /\ Honest(P[k], X[k])
  BY <1>1, <1>2, CalmTop
<1>4. place = P[k] /\ index = X[k + 1] /\ work.failed = FALSE
  BY <1>1, <1>2 DEF Now
<1>5. /\ e.index /\ e.dst \in DOMAIN index => Follows(e.dst, e.src)
      /\ (IF e.index THEN BackInIndex(e) ELSE index) = X[k]
  <2> DEFINE pl == P[k]
             pl2 == P[k + 1]
             ix == X[k]
  <2>1. Honest(pl, ix) /\ Shifted(pl, e.unit, pl2) /\ index = Renamed(ix, e) /\ e \in Entries
    BY <1>3, <1>4
  <2> HIDE DEF pl, pl2, ix, k, e
  <2>2. /\ e.index /\ e.dst \in DOMAIN index => Follows(e.dst, e.src)
        /\ (IF e.index THEN BackInIndex(e) ELSE index) = ix
    BY <2>1, RenamedBack
  <2> QED
    BY <2>2 DEF ix
<1>6. index' = X[k] /\ work' = [work EXCEPT !.step = "close"]
  <2>1. ~(e.index /\ e.dst \in DOMAIN index /\ ~Follows(e.dst, e.src))
    BY <1>5
  <2>2. work' = [work EXCEPT !.step = "close"] /\ index' = (IF e.index THEN BackInIndex(e) ELSE index)
    BY <2>1 DEF index_back
  <2> QED
    BY <1>5, <2>2
<1>7. /\ work'.phase = "undo" /\ work'.step = "close" /\ work'.left = work.left /\ work'.failed = work.failed
  BY <1>1, <1>6 DEF UndoWork
<1>8. Now(journal, work', place, index', calm, P, X)
  BY <1>3, <1>4, <1>6, <1>7 DEF Now
<1> QED
  BY <1>2, <1>8

LEMMA CalmUndone ==
    ASSUME TypeInv, RunsKnown, CalmInv, close_undone
    PROVE  CalmInv'
<1> DEFINE k == NewestOf(work.left)
           done == CarriedOut(journal, calm)
           done2 == done \ {k}
           new == Closed(k, "undone")
<1>1. /\ work \in UndoWork /\ work.phase = "undo" /\ work.left # {} /\ work.step = "close"
      /\ UNCHANGED <<place, index, calm, began>>
      /\ journal' = new /\ work' = NextEntry(FALSE)
  BY WorkIs DEF close_undone, Back, Same
<1> SUFFICES ASSUME calm # 0
             PROVE  \E Q, Y : /\ Chain(journal', CarriedOut(journal', calm), began, Q, Y)
                              /\ Now(journal', work', place, index, calm, Q, Y)
  BY <1>1, CalmNext DEF CalmOK
<1>2. PICK P, X : /\ Chain(journal, CarriedOut(journal, calm), began, P, X)
                  /\ Now(journal, work, place, index, calm, P, X)
  BY DEF CalmInv, CalmOK
<1>3. /\ work.left = done /\ k \in done /\ \A j \in done : j <= k
  BY <1>1, <1>2, CalmTop
<1>4. place = P[k] /\ index = X[k] /\ work.failed = FALSE
  BY <1>1, <1>2 DEF Now
<1>5. /\ journal \in Seq(Entries) /\ DOMAIN journal = 1..Len(journal) /\ Len(journal) \in Nat
      /\ done \in SUBSET (1..Len(journal))
  BY CalmFacts
<1>6. /\ DOMAIN journal' = DOMAIN journal /\ Len(journal') = Len(journal)
      /\ journal'[k].status = "undone"
      /\ \A j \in DOMAIN journal : j # k => journal'[j] = journal[j]
  <2>1. k \in DOMAIN journal /\ "undone" \in Status
    BY <1>3, <1>5 DEF Status
  <2>2. /\ DOMAIN new = DOMAIN journal /\ Len(new) = Len(journal)
        /\ new[k].status = "undone"
        /\ \A j \in DOMAIN journal : j # k => new[j] = journal[j]
    BY <1>5, <2>1, ClosedIs
  <2> QED
    BY <1>1, <2>2
<1>7. CarriedOut(journal', calm) = done2
  BY <1>3, <1>6 DEF CarriedOut
<1>8. /\ work' = [work EXCEPT !.left = @ \ {NewestOf(@)}, !.step = "next", !.failed = @ \/ FALSE]
  BY <1>1 DEF NextEntry
<1>9. /\ work'.phase = "undo" /\ work'.step = "next" /\ work'.left = work.left \ {k}
      /\ work'.failed = FALSE
  BY <1>1, <1>4, <1>8 DEF UndoWork
<1>10. \A j \in done \ {k} : journal'[j] = journal[j]
  BY <1>5, <1>6
<1> HIDE DEF new, k, done2, done
<1>11. PICK Q, Y : /\ Chain(journal', done2, began, Q, Y)
                   /\ Q[Len(journal') + 1] = P[k] /\ Y[Len(journal') + 1] = X[k]
  <2>1. Chain(journal, done, began, P, X)
    BY <1>2 DEF done
  <2>2. done2 = done \ {k}
    BY DEF done2
  <2>3. \E Q, Y : /\ Chain(journal', done2, began, Q, Y)
                  /\ Q[Len(journal') + 1] = P[k] /\ Y[Len(journal') + 1] = X[k]
    <3>1. Reopening(journal, journal', done, done2, k, began, P, X)
      BY <2>1, <2>2, <1>3, <1>5, <1>6, <1>10 DEF Reopening
    <3> QED
      BY <3>1, ChainUndone
  <2> QED
    BY <2>3
<1>12. Now(journal', work', place, index, calm, Q, Y)
  BY <1>3, <1>4, <1>7, <1>9, <1>11 DEF Now, done2
<1> QED
  BY <1>7, <1>11, <1>12

\* Whatever else happens ends the calm.
LEMMA CalmEnds ==
    ASSUME calm' = 0
    PROVE  CalmInv'
BY CalmNext DEF CalmOK

BeganIs == calm # 0 => began = [place |-> began.place, index |-> began.index]

LEMMA BeganSame ==
    ASSUME BeganIs, calm' = 0 \/ UNCHANGED <<calm, began>>
    PROVE  BeganIs'
BY DEF BeganIs

LEMMA CalmStays ==
    ASSUME TypeInv, RunsKnown, CalmInv, BeganIs, [ReorganizeNext]_reorganizeVars
    PROVE  CalmInv' /\ BeganIs'
<1> USE DEF Same
<1>1. ASSUME NEW gap \in Gaps, NEW run \in 1..MaxRuns, NEW each \in BOOLEAN, organize(run, gap, each)
      PROVE  CalmInv' /\ BeganIs'
  <2>1. calm' = 0 \/ UNCHANGED <<calm, began>> \/ began' = [place |-> place, index |-> index]
    <3> HIDE DEF Plan
    <3> QED
      BY <1>1 DEF organize, Disturbed
  <2>2. BeganIs'
    BY <2>1, BeganSame DEF BeganIs
  <2> QED
    BY <2>2, <1>1, CalmOrganize
<1>2. ASSUME work.phase = "move", NEW m \in work.left, Refuse(m)
      PROVE  CalmInv' /\ BeganIs'
  <2>1. work \in MoveWork
    BY <1>2, WorkIs
  <2>2. /\ UNCHANGED <<journal, place, index, calm, began>> /\ work.step = "next"
        /\ work'.phase = "move" /\ work'.step = "next"
    BY <1>2, <2>1 DEF Refuse, Moving, MoveWork
  <2> QED
    BY <2>2, CalmWaits, BeganSame
<1>3. ASSUME work.phase = "move", NEW m \in work.left, BeginMove(m)
      PROVE  CalmInv' /\ BeganIs'
  <2>1. UNCHANGED <<calm, began>>
    BY <1>3 DEF BeginMove
  <2> QED
    BY <2>1, <1>3, CalmBegins, BeganSame
<1>4. ASSUME move_unit
      PROVE  CalmInv' /\ BeganIs'
  <2>1. UNCHANGED <<calm, began>>
    BY <1>4 DEF move_unit
  <2> QED
    BY <2>1, <1>4, CalmMoves, BeganSame
<1>5. ASSUME journal_close
      PROVE  CalmInv' /\ BeganIs'
  <2>1. UNCHANGED <<calm, began>>
    BY <1>5 DEF journal_close
  <2> QED
    BY <2>1, <1>5, CalmCloses, BeganSame
<1>6. ASSUME set_file_path
      PROVE  CalmInv' /\ BeganIs'
  <2>1. UNCHANGED <<calm, began>>
    BY <1>6 DEF set_file_path
  <2> QED
    BY <2>1, <1>6, CalmFollows, BeganSame
<1>7. ASSUME work.phase = "move", NEW dir \in work.emptied, sweep_litter(dir)
      PROVE  CalmInv' /\ BeganIs'
  <2>1. work \in MoveWork
    BY <1>7, WorkIs
  <2>2. /\ UNCHANGED <<journal, place, index, calm, began>> /\ work.step = "next"
        /\ work'.phase = "move" /\ work'.step = "next"
    BY <1>7, <2>1 DEF sweep_litter, Moving, MoveWork
  <2> QED
    BY <2>2, CalmWaits, BeganSame
<1>8. ASSUME FinishRun
      PROVE  CalmInv' /\ BeganIs'
  <2>1. /\ UNCHANGED <<journal, place, index, calm, began>> /\ work.step = "next" /\ work'.phase = "idle"
    BY <1>8 DEF FinishRun, Moving, Idle
  <2> QED
    BY <2>1, CalmWaits, BeganSame
<1>9. ASSUME FinishUndo
      PROVE  CalmInv' /\ BeganIs'
  <2>1. /\ UNCHANGED <<journal, place, index, calm, began>> /\ work.phase = "undo" /\ work.left = {}
        /\ work'.phase = "idle"
    BY <1>9 DEF FinishUndo, Idle
  <2>2. work \in UndoWork /\ (work.step # "next" => work.left # {})
    BY <2>1, WorkIs DEF TypeInv, WorkOK
  <2>3. work.step = "next"
    BY <2>1, <2>2
  <2> QED
    BY <2>1, <2>3, CalmWaits, BeganSame
<1>10. ASSUME NEW run \in 1..runs, undo_run(run)
       PROVE  CalmInv' /\ BeganIs'
  <2>1. calm' = 0 \/ UNCHANGED <<calm, began>>
    BY <1>10 DEF undo_run, Disturbed
  <2> QED
    BY <2>1, <1>10, CalmUndoes, BeganSame
<1>11. ASSUME walk_back
       PROVE  CalmInv' /\ BeganIs'
  <2>1. UNCHANGED <<calm, began>>
    BY <1>11 DEF walk_back
  <2> QED
    BY <2>1, <1>11, CalmWalks, BeganSame
<1>12. ASSUME index_back
       PROVE  CalmInv' /\ BeganIs'
  <2>1. UNCHANGED <<calm, began>>
    BY <1>12 DEF index_back
  <2> QED
    BY <2>1, <1>12, CalmIndexBack, BeganSame
<1>13. ASSUME close_undone
       PROVE  CalmInv' /\ BeganIs'
  <2>1. UNCHANGED <<calm, began>>
    BY <1>13 DEF close_undone
  <2> QED
    BY <2>1, <1>13, CalmUndone, BeganSame
<1>14. ASSUME \/ \E jid \in DOMAIN journal : undo(jid) \/ reconcile_undo(jid)
              \/ \E p \in Photo : Quarantine(p)
              \/ Index \/ Stops
              \/ \E stray \in Strays : Others(stray[1], stray[2])
       PROVE  CalmInv' /\ BeganIs'
  <2>1. calm' = 0
    BY <1>14 DEF undo, reconcile_undo, Quarantine, Index, Other, Stops, Others, Disturbed
  <2> QED
    BY <2>1, CalmEnds, BeganSame
<1>15. ASSUME UNCHANGED reorganizeVars
       PROVE  CalmInv' /\ BeganIs'
  <2>1. UNCHANGED <<journal, work, place, index, calm, began>>
    BY <1>15 DEF reorganizeVars
  <2>2. CalmOK(journal', work', place', index', calm', began')
    BY <2>1 DEF CalmInv
  <2> QED
    BY <2>1, <2>2, CalmNext, BeganSame
<1> QED
  BY <1>1, <1>2, <1>3, <1>4, <1>5, <1>6, <1>7, <1>8, <1>9, <1>10, <1>11, <1>12, <1>13, <1>14, <1>15
     DEF ReorganizeNext

\* Only the end of an undo ends it quietly.
LEMMA UndoEnds ==
    ASSUME TypeInv, [ReorganizeNext]_reorganizeVars,
           work.phase = "undo", work'.phase = "idle", calm # 0, calm' = calm
    PROVE  /\ work.left = {} /\ work.step = "next"
<1>1. work \in UndoWork /\ (work.step # "next" => work.left # {})
  BY WorkIs DEF TypeInv, WorkOK
<1>2. \A step : [work EXCEPT !.step = step].phase = "undo"
  BY <1>1 DEF UndoWork
<1>3. \A failed : NextEntry(failed).phase = "undo"
  BY <1>1 DEF UndoWork, NextEntry
<1>4. ~(walk_back \/ index_back \/ close_undone)
  BY <1>2, <1>3 DEF walk_back, index_back, close_undone
<1>5. \A gap, run, each : ~organize(run, gap, each)
  <2> HIDE DEF Plan
  <2> QED
    BY DEF organize, Free
<1>6. ~(move_unit \/ journal_close \/ set_file_path \/ FinishRun)
  BY DEF move_unit, journal_close, set_file_path, FinishRun, Moving
<1>7. /\ \A run : ~undo_run(run)
      /\ \A jid : ~(undo(jid) \/ reconcile_undo(jid))
      /\ \A p : ~Quarantine(p)
      /\ ~Index
  BY DEF undo_run, undo, reconcile_undo, Quarantine, Index, Other, Free
<1>8. ~Stops /\ \A o, path : ~Others(o, path)
  BY DEF Stops, Others, Disturbed
<1>9. FinishUndo
  BY <1>4, <1>5, <1>6, <1>7, <1>8 DEF ReorganizeNext, reorganizeVars
<1>10. work.left = {}
  BY <1>9 DEF FinishUndo
<1> QED
  BY <1>1, <1>10

\* A run that nothing interfered with is undone to the last file, and the
\* index with it: by induction along the journal, each entry of the run did
\* what it says to the state the entries before it left, and the way back,
\* newest first, meets those states again (organize.rs undo_run, recovery.rs
\* walk_back and undo).
THEOREM WayBack == ReorganizeSpec => BackAsItWas
<1> DEFINE Inv == TypeInv /\ RunsKnown /\ CalmInv /\ BeganIs
           Holds == work.phase = "undo" /\ work'.phase = "idle" /\ calm # 0 /\ calm' = calm /\ work.run = calm
                      => ~work.failed /\ [place |-> place, index |-> index] = began
<1>1. ReorganizeInit => Inv
  <2> SUFFICES ASSUME ReorganizeInit
               PROVE  RunsKnown /\ CalmInv /\ BeganIs
    BY TypeStart
  <2>1. calm = 0 /\ runs = 0 /\ journal = <<>> /\ work = Idle
    BY DEF ReorganizeInit
  <2> QED
    BY <2>1 DEF RunsKnown, CalmInv, CalmOK, BeganIs, Idle
<1>2. Inv /\ [ReorganizeNext]_reorganizeVars => Inv'
  BY TypesStay, RunsStay, CalmStays
<1>3. Inv /\ [ReorganizeNext]_reorganizeVars => [Holds]_reorganizeVars
  <2> SUFFICES ASSUME Inv, [ReorganizeNext]_reorganizeVars,
                      work.phase = "undo", work'.phase = "idle", calm # 0, calm' = calm
               PROVE  ~work.failed /\ [place |-> place, index |-> index] = began
    OBVIOUS
  <2> DEFINE n == Len(journal)
  <2>1. PICK P, X : /\ Chain(journal, CarriedOut(journal, calm), began, P, X)
                    /\ Now(journal, work, place, index, calm, P, X)
    BY DEF CalmInv, CalmOK
  <2>2. work.left = {} /\ work.step = "next"
    BY UndoEnds
  <2>3. /\ work.failed = FALSE /\ CarriedOut(journal, calm) = {}
        /\ place = P[n + 1] /\ index = X[n + 1]
    BY <2>1, <2>2 DEF Now
  <2>4. P[1] = P[n + 1] /\ X[1] = X[n + 1]
    <3>1. n \in Nat
      BY CalmFacts
    <3>2. 1 \in 1..(n + 1) /\ n + 1 \in 1..(n + 1) /\ 1 <= n + 1
      BY <3>1
    <3> QED
      BY <3>2, <2>1, <2>3 DEF Chain
  <2>5. place = began.place /\ index = began.index
    BY <2>1, <2>3, <2>4 DEF Chain
  <2>6. began = [place |-> began.place, index |-> began.index]
    BY DEF BeganIs
  <2> QED
    BY <2>3, <2>5, <2>6
<1> HIDE DEF Inv
<1>4. ReorganizeSpec => [][Holds]_reorganizeVars
  BY <1>1, <1>2, <1>3, PTL DEF ReorganizeSpec
<1> QED
  BY <1>4 DEF BackAsItWas

(* --------------------------- the sidecar follows ----------------------- *)
\* Every member of a unit goes the way of its photograph, and no sidecar
\* beside it is left out.
Whole(e) ==
    /\ \A u \in e.unit : /\ u.src.dir = e.src.dir /\ u.src.stem = e.src.stem
                         /\ u.dst.dir = e.dst.dir /\ u.dst.stem = e.dst.stem
    /\ e.index => \A s \in Side :
          place[s].dir = e.src.dir /\ place[s].stem = e.src.stem => \E u \in e.unit : u.who = s
    /\ ~e.index => \A u \in e.unit : u.who \notin Side
UnitInv ==
    ~meddled /\ work.phase = "move" /\ work.step = "rename" => Whole(journal[work.cur])

LEMMA WholeStays ==
    ASSUME TypeInv, UnitInv, [ReorganizeNext]_reorganizeVars
    PROVE  UnitInv'
<1> USE DEF Same, Smoothly
<1> SUFFICES ASSUME ~meddled', work'.phase = "move", work'.step = "rename"
             PROVE  Whole(journal[work.cur])'
  BY DEF UnitInv
<1>1. CASE work.phase = "move" /\ \E m \in work.left : BeginMove(m)
  <2>1. PICK m \in work.left : BeginMove(m)
    BY <1>1
  <2> DEFINE e == Entry(m, work.run)
  <2>2. /\ work \in MoveWork /\ journal \in Seq(Entries) /\ UNCHANGED place
        /\ work' = [work EXCEPT !.left = @ \ {m}, !.cur = Len(journal) + 1, !.step = "rename"]
        /\ journal' = Append(journal, e)
    BY <1>1, <2>1, WorkIs DEF BeginMove, TypeInv
  <2>3. work'.cur = Len(journal) + 1
    BY <2>2 DEF MoveWork
  <2>4. e.unit = Unit(m) /\ e.src = m.src /\ e.dst = m.dst /\ e.index = m.index
    BY DEF Entry
  <2> HIDE DEF e
  <2>5. journal'[work'.cur] = e
    BY <2>2, <2>3
  <2>6. ASSUME NEW u \in Unit(m)
        PROVE  /\ u.src.dir = m.src.dir /\ u.src.stem = m.src.stem
               /\ u.dst.dir = m.dst.dir /\ u.dst.stem = m.dst.stem
    <3>1. CASE u = [who |-> m.who, src |-> m.src, dst |-> m.dst]
      BY <3>1
    <3>2. CASE \E s \in Companions(m.src) : u = [who |-> s, src |-> place[s], dst |-> SidecarName(s, m)]
      BY <3>2 DEF Companions, SidecarName, Put
    <3> QED
      BY <2>6, <3>1, <3>2 DEF Unit
  <2>7. ASSUME m.index, NEW s \in Side, place[s].dir = m.src.dir, place[s].stem = m.src.stem
        PROVE  \E u \in Unit(m) : u.who = s
    <3> DEFINE u == [who |-> s, src |-> place[s], dst |-> SidecarName(s, m)]
    <3>1. s \in Companions(m.src)
      BY <2>7 DEF Companions
    <3>2. u \in Unit(m) /\ u.who = s
      BY <2>7, <3>1 DEF Unit
    <3> QED
      BY <3>2
  <2>8. ASSUME ~m.index, NEW u \in Unit(m)
        PROVE  u.who \notin Side
    <3>1. m.who \notin Side
      BY <2>1, <2>2, MovesAre DEF MoveWork
    <3>2. u = [who |-> m.who, src |-> m.src, dst |-> m.dst]
      BY <2>8 DEF Unit
    <3> QED
      BY <3>1, <3>2
  <2> QED
    BY <2>2, <2>4, <2>5, <2>6, <2>7, <2>8 DEF Whole
<1>2. CASE work' # work /\ ~(work.phase = "move" /\ \E m \in work.left : BeginMove(m))
  <2>1. ~(\E gap \in Gaps, run \in 1..MaxRuns, each \in BOOLEAN : organize(run, gap, each))
    <3> HIDE DEF Plan
    <3> QED
      BY DEF organize
  <2>2. work.phase = "move" => work \in MoveWork
    BY WorkIs
  <2>3. work.phase = "undo" => work \in UndoWork
    BY WorkIs
  <2>4. ~(work.phase = "move" /\ \E m \in work.left : Refuse(m))
    BY <2>2 DEF Refuse, Moving, MoveWork
  <2>5. ~(work.phase = "move" /\ \E dir \in work.emptied : sweep_litter(dir))
    BY <2>2 DEF sweep_litter, Moving, MoveWork
  <2>6. ~move_unit
    BY <2>2 DEF move_unit, Moving, MoveWork
  <2>7. ~journal_close /\ ~set_file_path /\ ~FinishRun
    BY <2>2 DEF journal_close, set_file_path, FinishRun, Moving, MoveWork, Idle
  <2>8. ~walk_back /\ ~index_back /\ ~close_undone /\ ~FinishUndo
    <3>1. ASSUME work.phase = "undo", NEW step PROVE [work EXCEPT !.step = step].phase = "undo"
      BY <2>3, <3>1 DEF UndoWork
    <3>2. ASSUME work.phase = "undo", NEW failed PROVE NextEntry(failed).phase = "undo"
      BY <2>3, <3>2 DEF UndoWork, NextEntry
    <3>3. ~FinishUndo
      BY DEF FinishUndo, Idle
    <3>4. ~walk_back
      BY <3>1, <3>2 DEF walk_back, Back
    <3>5. ~index_back
      BY <3>1, <3>2 DEF index_back, Back
    <3>6. ~close_undone
      BY <3>2 DEF close_undone, Back
    <3> QED
      BY <3>3, <3>4, <3>5, <3>6
  <2>9. /\ \A run : ~undo_run(run)
        /\ \A jid : ~(undo(jid) \/ reconcile_undo(jid))
        /\ \A p : ~Quarantine(p)
        /\ ~Index /\ ~Stops
        /\ \A o, path : ~Others(o, path)
    BY <1>2 DEF undo_run, undo, reconcile_undo, Undoing, Quarantine, Index, Other, Stops, Others, Idle
  <2> QED
    BY <1>2, <2>1, <2>4, <2>5, <2>6, <2>7, <2>8, <2>9 DEF ReorganizeNext, reorganizeVars
<1>3. CASE work' = work
  <2>1. work.phase = "move" /\ work.step = "rename" /\ work \in MoveWork
    BY <1>3, WorkIs
  <2>2. ~(work.phase = "move" /\ \E m \in work.left : Refuse(m) \/ BeginMove(m))
    BY <2>1 DEF Refuse, BeginMove, Moving
  <2>3. ~(work.phase = "move" /\ \E dir \in work.emptied : sweep_litter(dir))
    BY <2>1 DEF sweep_litter, Moving
  <2>4. ~move_unit
    BY <1>3, <2>1 DEF move_unit, MoveWork
  <2>5. ~journal_close /\ ~set_file_path /\ ~FinishRun
    BY <2>1 DEF journal_close, set_file_path, FinishRun, Moving
  <2>6. ~(\E gap \in Gaps, run \in 1..MaxRuns, each \in BOOLEAN : organize(run, gap, each))
    <3> HIDE DEF Plan
    <3> QED
      BY <2>1 DEF organize, Free
  <2>7. /\ \A run : ~undo_run(run)
        /\ \A jid : ~(undo(jid) \/ reconcile_undo(jid))
        /\ \A p : ~Quarantine(p)
        /\ ~Index
    BY <2>1 DEF undo_run, undo, reconcile_undo, Quarantine, Index, Other, Free
  <2>8. ~Stops /\ \A o, path : ~Others(o, path)
    BY <1>3, <2>1 DEF Stops, Others, Idle
  <2>9. ~walk_back /\ ~index_back /\ ~close_undone /\ ~FinishUndo
    BY <2>1 DEF walk_back, index_back, close_undone, FinishUndo, Back
  <2>10. UNCHANGED reorganizeVars
    BY <2>2, <2>3, <2>4, <2>5, <2>6, <2>7, <2>8, <2>9 DEF ReorganizeNext
  <2> QED
    BY <2>1, <2>10 DEF UnitInv, Whole, reorganizeVars
<1> QED
  BY <1>1, <1>2, <1>3

\* Whatever a run carries out, a sidecar beside photographs stays beside one
\* of them: it goes with the first of them that goes, under its new name, or
\* it stays with those that stay.
THEOREM SidecarsFollow == ReorganizeSpec => SidecarFollows
<1> DEFINE Stay == \A s \in Side : (\E p \in Photo : Beside(s, p)) =>
                       \E p \in Photo : Beside(s, p) /\ Beside(s, p)'
           Holds == work.phase = "move" /\ ~meddled' => Stay
           Inv == TypeInv /\ UnitInv
<1>1. ReorganizeInit => Inv
  BY TypeStart DEF ReorganizeInit, UnitInv, Idle
<1>2. Inv /\ [ReorganizeNext]_reorganizeVars => Inv'
  BY TypesStay, WholeStays
<1>3. Inv /\ [ReorganizeNext]_reorganizeVars => [Holds]_reorganizeVars
  <2> USE DEF Same, Smoothly
  <2> SUFFICES ASSUME TypeInv, UnitInv, [ReorganizeNext]_reorganizeVars, work.phase = "move", ~meddled'
               PROVE  Stay
    OBVIOUS
  <2>1. CASE place' = place
    BY <2>1 DEF Beside
  <2>2. CASE move_unit /\ place' # place
    <3> DEFINE e == journal[work.cur]
    <3>1. /\ work.step = "rename" /\ Ready(e.unit) /\ place' = Moved(e.unit) /\ ~meddled
      BY <2>2 DEF move_unit, Moving
    <3>2. e \in Entries /\ Whole(e)
      BY <3>1, CurIs DEF UnitInv
    <3> HIDE DEF e
    <3>3. /\ Sound(e.unit) /\ LeadOf(e) \in e.unit
          /\ LeadOf(e).who = e.head /\ LeadOf(e).src = e.src /\ LeadOf(e).dst = e.dst
          /\ \A u \in e.unit : u = LeadOf(e) \/ u.who \in Side
          /\ e.index => e.head \in Photo
          /\ ~e.index => e.head \in Litter
      BY <3>2, EntriesAre
    <3>4. /\ \A u \in e.unit : place'[u.who] = u.dst /\ place[u.who] = u.src
          /\ \A o \in Object : (\A u \in e.unit : u.who # o) => place'[o] = place[o]
      BY <3>1, <3>3, MovedIs DEF Ready, TypeInv
    <3>5. ASSUME NEW s \in Side, NEW p \in Photo, Beside(s, p)
          PROVE  \E q \in Photo : Beside(s, q) /\ Beside(s, q)'
      <4>1. CASE ~e.index
        <5>1. \A u \in e.unit : u.who # p
          BY <4>1, <3>3, ObjectAssumption
        <5>2. place'[p] = place[p]
          BY <5>1, <3>4 DEF Object
        <5>3. \A u \in e.unit : u.who # s
          BY <4>1, <3>2 DEF Whole
        <5>4. place'[s] = place[s]
          BY <5>3, <3>4 DEF Object
        <5> QED
          BY <5>2, <5>4, <3>5 DEF Beside
      <4>2. CASE e.index /\ \E u \in e.unit : u.who = s
        <5>1. PICK u \in e.unit : u.who = s
          BY <4>2
        <5>2. /\ place[s].dir = e.src.dir /\ place[s].stem = e.src.stem
              /\ place'[s].dir = e.dst.dir /\ place'[s].stem = e.dst.stem
          BY <5>1, <3>2, <3>4 DEF Whole
        <5>3. place[e.head] = e.src /\ place'[e.head] = e.dst /\ e.head \in Photo
          BY <4>2, <3>3, <3>4
        <5> QED
          BY <5>2, <5>3 DEF Beside
      <4>3. CASE e.index /\ \A u \in e.unit : u.who # s
        <5>1. place'[s] = place[s]
          BY <4>3, <3>4 DEF Object
        <5>2. p # e.head
          <6>1. ~(place[s].dir = e.src.dir /\ place[s].stem = e.src.stem)
            BY <4>3, <3>2 DEF Whole
          <6>2. place[e.head] = e.src
            BY <3>3, <3>4
          <6> QED
            BY <6>1, <6>2, <3>5 DEF Beside
        <5>3. place'[p] = place[p]
          <6>1. \A u \in e.unit : u.who # p
            BY <5>2, <3>3, ObjectAssumption
          <6> QED
            BY <6>1, <3>4 DEF Object
        <5> QED
          BY <5>1, <5>3, <3>5 DEF Beside
      <4> QED
        BY <4>1, <4>2, <4>3
    <3> QED
      BY <3>5
  <2>3. CASE ~move_unit /\ place' # place
    <3>1. ~(\E gap \in Gaps, run \in 1..MaxRuns, each \in BOOLEAN : organize(run, gap, each))
      <4> HIDE DEF Plan
      <4> QED
        BY DEF organize, Free
    <3>2. /\ \A m : ~Refuse(m) /\ ~BeginMove(m)
          /\ \A dir : ~sweep_litter(dir)
          /\ ~journal_close /\ ~set_file_path /\ ~FinishRun
          /\ ~index_back /\ ~close_undone /\ ~FinishUndo /\ ~walk_back
      BY <2>3 DEF Refuse, BeginMove, sweep_litter, journal_close, set_file_path, FinishRun,
                  index_back, close_undone, FinishUndo, walk_back, Back
    <3>3. /\ \A run : ~undo_run(run)
          /\ \A jid : ~(undo(jid) \/ reconcile_undo(jid))
          /\ \A p : ~Quarantine(p)
          /\ ~Index
      BY DEF undo_run, undo, reconcile_undo, Quarantine, Index, Other, Free
    <3>4. ~Stops /\ \A o, path : ~Others(o, path)
      BY <2>3 DEF Stops, Others
    <3> QED
      BY <2>3, <3>1, <3>2, <3>3, <3>4 DEF ReorganizeNext, reorganizeVars
  <2> QED
    BY <2>1, <2>2, <2>3
<1> HIDE DEF Inv
<1>4. ReorganizeSpec => [][Holds]_reorganizeVars
  BY <1>1, <1>2, <1>3, PTL DEF ReorganizeSpec
<1> QED
  BY <1>4 DEF SidecarFollows

------------------------------------------------------------------------------
(***************************************************************************)
(* What lets one writer in (WriterGate).                                   *)
(***************************************************************************)
USE NumbersAssumption, NamesAssumption

------------------------------------------------------------------------------
(* What a holder of the lock is called, and a server's latest job.           *)

LEMMA HoldersNames ==
    /\ \A s \in Servers, u \in Uses :
          <<s, u>> # None /\ <<s, u>> # Cli /\ <<s, u>> \in Servers \X Uses
    /\ \A s, t \in Servers, u, v \in Uses : <<s, u>> = <<t, v>> => s = t /\ u = v
    /\ \A u \in {"job", "edit", "open"} : u \in Uses
    /\ Jobs \subseteq Nat
    /\ Ends \subseteq RowStates
    /\ \A x \in {"none", "queued", "running", "interrupted"} : x \in RowStates
    /\ "failed" \in Ends /\ "done" \in Ends /\ "cancelled" \in Ends
BY DEF Uses, Jobs, RowStates, Ends

LEMMA Faults == ASSUME faults \in 0 .. MaxFaults, Fault \/ Works PROVE faults' \in 0 .. MaxFaults
BY DEF Fault, Works

LEMMA NewestIsLatest ==
    ASSUME NEW s \in Servers, \E j \in Jobs : IsLatest(j, s)
    PROVE  Newest(s) \in Jobs /\ IsLatest(Newest(s), s)
BY DEF Newest, IsLatest

------------------------------------------------------------------------------
(* The invariant, action by action.                                          *)

LEMMA InitInv == Init => GateInv
<1> SUFFICES ASSUME Init PROVE GateInv
  OBVIOUS
<1>1. TypeOK
  <2>1. left \in [Jobs -> 0 .. MaxFiles] /\ faults \in 0 .. MaxFaults
    BY DEF Init
  <2> QED  BY <2>1, HoldersNames DEF Init, TypeOK
<1>2. LockIsTold /\ JobIsPlaced /\ RowIsTold /\ ShutIsTold
  BY HoldersNames DEF Init, LockIsTold, JobIsPlaced, RowIsTold, ShutIsTold, Holding,
                 NothingStartsPastTheGate, Ends
<1>3. WorkerIsTold
  BY DEF Init, WorkerIsTold, IsLatest
<1> QED BY <1>1, <1>2, <1>3 DEF GateInv

LEMMA OpenAskInv == ASSUME GateInv, NEW s \in Servers, OpenAsk(s) PROVE GateInv'
<1> USE HoldersNames DEF OpenAsk, GateInv, job, LockIsFree
<1>0. faults' \in 0 .. MaxFaults
  BY Faults DEF TypeOK
<1>1. TypeOK'
  BY <1>0 DEF TypeOK
<1>2. LockIsTold'
  BY DEF LockIsTold, Holding, TypeOK
<1>3. JobIsPlaced'
  BY DEF JobIsPlaced, TypeOK
<1>4. RowIsTold'
  BY DEF RowIsTold, TypeOK, RowStates
<1>5. ShutIsTold'
  BY DEF ShutIsTold, NothingStartsPastTheGate, TypeOK
<1>6. WorkerIsTold'
  BY DEF WorkerIsTold, IsLatest, TypeOK
<1> QED BY <1>1, <1>2, <1>3, <1>4, <1>5, <1>6

LEMMA OpenMarkInv == ASSUME GateInv, NEW s \in Servers, OpenMark(s) PROVE GateInv'
<1> USE HoldersNames DEF OpenMark, GateInv
<1>0. faults' \in 0 .. MaxFaults
  BY Faults DEF TypeOK
<1>1. TypeOK'
  BY <1>0 DEF TypeOK
<1>2. LockIsTold'
  BY DEF LockIsTold, Holding, TypeOK
<1>3. JobIsPlaced'
  BY DEF JobIsPlaced, TypeOK, Abandoned, RowStates, Ends
<1>4. RowIsTold'
  BY DEF RowIsTold, LockIsTold, JobIsPlaced, Holding, TypeOK, Abandoned, RowStates, Ends
<1>5. ShutIsTold'
  BY DEF ShutIsTold, NothingStartsPastTheGate, TypeOK
<1>6. WorkerIsTold'
  BY DEF WorkerIsTold, IsLatest, TypeOK, Abandoned, RowStates, Ends
<1> QED BY <1>1, <1>2, <1>3, <1>4, <1>5, <1>6

LEMMA EnterInv == ASSUME GateInv, NEW s \in Servers, Enter(s) PROVE GateInv'
<1> USE HoldersNames DEF Enter, GateInv, Inside, job, Admitted, Serving
<1>0. faults' \in 0 .. MaxFaults
  BY Faults DEF TypeOK
<1>1. TypeOK'
  BY <1>0 DEF TypeOK
<1>2. LockIsTold'
  BY DEF LockIsTold, Holding, TypeOK
<1>3. JobIsPlaced'
  BY DEF JobIsPlaced, TypeOK
<1>4. RowIsTold'
  BY DEF RowIsTold, TypeOK, RowStates
<1>5. ShutIsTold'
  BY DEF ShutIsTold, NothingStartsPastTheGate, TypeOK
<1>6. WorkerIsTold'
  BY DEF WorkerIsTold, IsLatest, TypeOK
<1> QED BY <1>1, <1>2, <1>3, <1>4, <1>5, <1>6

LEMMA TakeForJobInv == ASSUME GateInv, NEW s \in Servers, TakeForJob(s) PROVE GateInv'
<1> USE HoldersNames DEF TakeForJob, GateInv, Inside, job, LockIsFree
<1>0. faults' \in 0 .. MaxFaults
  BY Faults DEF TypeOK
<1>1. TypeOK'
  BY <1>0 DEF TypeOK
<1>2. LockIsTold'
  BY DEF LockIsTold, Holding, TypeOK
<1>3. JobIsPlaced'
  BY DEF JobIsPlaced, TypeOK
<1>4. RowIsTold'
  BY DEF RowIsTold, TypeOK, RowStates
<1>5. ShutIsTold'
  BY DEF ShutIsTold, NothingStartsPastTheGate, TypeOK
<1>6. WorkerIsTold'
  BY DEF WorkerIsTold, IsLatest, TypeOK
<1> QED BY <1>1, <1>2, <1>3, <1>4, <1>5, <1>6

LEMMA InsertJobInv == ASSUME GateInv, NEW s \in Servers, InsertJob(s) PROVE GateInv'
<1> USE HoldersNames DEF InsertJob, GateInv, Inside
<1>0. faults' \in 0 .. MaxFaults
  BY Faults DEF TypeOK
<1>i. CASE UNCHANGED <<state, owner, active>> /\ lock' = None /\ Inside(s, "insert", "free")
  <2>1. TypeOK' /\ LockIsTold' /\ JobIsPlaced'
    BY <1>0, <1>i DEF TypeOK, LockIsTold, JobIsPlaced, Holding
  <2>2. RowIsTold' /\ ShutIsTold'
    BY <1>0, <1>i DEF TypeOK, RowIsTold, ShutIsTold, NothingStartsPastTheGate
  <2>3. WorkerIsTold'
    BY <1>0, <1>i DEF TypeOK, WorkerIsTold, IsLatest
  <2> QED  BY <2>1, <2>2, <2>3
<1>n. CASE /\ UNCHANGED lock /\ Inside(s, "insert", "spawn")
            /\ \E j \in Jobs : /\ IsNext(j)
                              /\ state' = [state EXCEPT ![j] = "queued"]
                              /\ owner' = [owner EXCEPT ![j] = s]
                              /\ active' = [active EXCEPT ![s] = j]
  <2> PICK k \in Jobs : /\ IsNext(k)
                       /\ state' = [state EXCEPT ![k] = "queued"]
                       /\ owner' = [owner EXCEPT ![k] = s]
                       /\ active' = [active EXCEPT ![s] = k]
    BY <1>n
  <2>1. TypeOK'
    BY <1>0, <1>n DEF TypeOK
  <2>2. state[k] = "none" /\ owner[k] = None /\ thread[k] = "none"
    BY DEF IsNext, JobIsPlaced
  <2>3. LockIsTold'
    BY <1>n, <2>2 DEF TypeOK, LockIsTold, Holding
  <2>4. \A j \in Jobs \ {k} : owner'[j] = owner[j] /\ state'[j] = state[j]
    BY DEF TypeOK
  <2>4a. owner'[k] = s /\ state'[k] = "queued" /\ thread' = thread
    BY DEF TypeOK
  <2>4b. active'[s] = k /\ gate'[s] = "spawn" /\ gate[s] = "insert"
    BY <1>n DEF TypeOK
  <2>4c. \A t \in Servers \ {s} : active'[t] = active[t] /\ gate'[t] = gate[t]
    BY <1>n DEF TypeOK
  <2>4d. \A t \in Servers : active[t] # k
    BY <2>2 DEF JobIsPlaced
  <2>5. JobIsPlaced'
    BY <2>2, <2>4, <2>4a, <2>4b, <2>4c, <2>4d DEF JobIsPlaced
  <2>6. RowIsTold'
    BY <2>2, <2>4, <2>4a, UNCHANGED <<end, cut>> DEF RowIsTold, Ends
  <2>7. ShutIsTold'
    BY <1>n DEF TypeOK, ShutIsTold, NothingStartsPastTheGate
  <2>8. \A j \in Jobs : owner[j] \in Servers => j < k
    <3> SUFFICES ASSUME NEW j \in Jobs, owner[j] \in Servers PROVE j < k
      OBVIOUS
    <3>1. state[j] # "none"
      BY DEF JobIsPlaced
    <3>2. ~(k < j)
      BY <2>2, <3>1 DEF WorkerIsTold
    <3>3. j # k
      BY <2>2, <3>1
    <3>4. QED
      BY <3>2, <3>3 DEF Jobs
  <2>9. WorkerIsTold'
    <3>1. \A i, j \in Jobs : i < j /\ state'[i] = "none" => state'[j] = "none"
      BY <2>2, <2>4, <2>4a DEF IsNext, WorkerIsTold, Jobs
    <3>0. UNCHANGED <<up, shut, worker>>
      OBVIOUS
    <3> HIDE DEF InsertJob
    <3>2. IsLatest(k, s)'
      BY <2>2, <2>4, <2>4a, <2>8 DEF IsLatest, Jobs
    <3>3. \A t \in Servers \ {s}, j \in Jobs : IsLatest(j, t)' <=> IsLatest(j, t)
      BY <2>2, <2>4, <2>4a DEF IsLatest
    <3>4. \A j \in Jobs : owner[j] = s => thread[j] \in {"say", "gone"}
      <4> SUFFICES ASSUME NEW j \in Jobs, owner[j] = s PROVE thread[j] \in {"say", "gone"}
        OBVIOUS
      <4>1. thread[j] # "none"
        BY <2>4b DEF JobIsPlaced
      <4>2. ~Holding(j)
        BY <2>4b DEF LockIsTold
      <4> QED  BY <4>1, <4>2 DEF Holding, TypeOK
    <3>5. \A t \in Servers : (\E j \in Jobs : owner'[j] = t) => \E j \in Jobs : IsLatest(j, t)'
      <4> SUFFICES ASSUME NEW t \in Servers, NEW i \in Jobs, owner'[i] = t
                   PROVE  \E j \in Jobs : IsLatest(j, t)'
        OBVIOUS
      <4>1. CASE t = s
        BY <3>2, <4>1 DEF IsLatest
      <4>2. CASE t # s
        <5>1. PICK j \in Jobs : IsLatest(j, t)
          BY <4>2, <2>4, <2>4a DEF WorkerIsTold
        <5> QED  BY <3>3, <4>2, <5>1
      <4> QED  BY <4>1, <4>2
    <3>6. \A j \in Jobs : owner'[j] \in Servers =>
            thread'[j] \in {"say", "gone"} \/ IsLatest(j, owner[j])'
      <4> SUFFICES ASSUME NEW j \in Jobs, owner'[j] \in Servers, thread[j] \notin {"say", "gone"}
                   PROVE  IsLatest(j, owner[j])'
        BY <2>4a
      <4>1. CASE j = k
        BY <3>2, <4>1, <2>4a DEF IsLatest
      <4>2. CASE j # k
        <5>1. owner'[j] = owner[j] /\ owner[j] # s /\ IsLatest(j, owner[j])
          BY <3>4, <4>2, <2>4 DEF WorkerIsTold
        <5> QED  BY <5>1, <3>3 DEF IsLatest
      <4> QED  BY <4>1, <4>2
    <3>7. \A t \in Servers \ {s}, j \in Jobs : owner'[j] = t <=> owner[j] = t
      BY <2>2, <2>4, <2>4a
    <3>8. up[s] = "on" /\ shut[s] # "stop"
      BY <2>4b DEF WorkerIsTold
    <3>9. ASSUME NEW t \in Servers
          PROVE  /\ gate'[t] \in {"spawn", "record"} => \E j \in Jobs : owner'[j] = t
                 /\ up'[t] # "on" \/ shut'[t] = "stop" => gate'[t] = "free" /\ worker'[t] = None
      <4>1. CASE t = s
        BY <3>8, <4>1, <2>4a, <2>4b, <3>0
      <4>2. CASE t # s
        BY <3>7, <4>2, <2>4c, <3>0 DEF WorkerIsTold
      <4> QED  BY <4>1, <4>2
    <3>10. ASSUME NEW t \in Servers, gate'[t] \notin {"spawn", "record"}
           PROVE  /\ worker'[t] # None => worker'[t] \in Jobs /\ IsLatest(worker[t], t)'
                  /\ worker'[t] = None => \A j \in Jobs : owner'[j] = t =>
                        thread'[j] \in {"say", "gone"} /\ (IsLatest(j, t)' => thread'[j] = "gone")
      <4>1. t # s /\ gate[t] \notin {"spawn", "record"} /\ worker' = worker
        BY <3>10, <2>4b, <2>4c, <3>0
      <4>2. /\ worker[t] # None => worker[t] \in Jobs /\ IsLatest(worker[t], t)
            /\ worker[t] = None => \A j \in Jobs : owner[j] = t =>
                  thread[j] \in {"say", "gone"} /\ (IsLatest(j, t) => thread[j] = "gone")
        BY <4>1 DEF WorkerIsTold
      <4>3. ASSUME worker[t] \in Jobs, IsLatest(worker[t], t) PROVE IsLatest(worker[t], t)'
        BY <3>7, <4>1, <4>3 DEF IsLatest
      <4> QED  BY <3>3, <3>7, <4>1, <4>2, <4>3, <2>4a
    <3> QED  BY <3>1, <3>5, <3>6, <3>9, <3>10 DEF WorkerIsTold, IsLatest
  <2> QED  BY <2>1, <2>3, <2>5, <2>6, <2>7, <2>9
<1> QED  BY <1>i, <1>n

LEMMA SpawnWorkerInv == ASSUME GateInv, NEW s \in Servers, SpawnWorker(s) PROVE GateInv'
<1> USE HoldersNames DEF SpawnWorker, GateInv, Inside
<1>0. faults' \in 0 .. MaxFaults
  BY Faults DEF TypeOK
<1>p. /\ active[s] \in Jobs /\ owner[active[s]] = s /\ gate[s] = "spawn"
      /\ thread[active[s]] \in {"none", "begin", "run", "over"}
      /\ thread' = [thread EXCEPT ![active[s]] = "begin"]
      /\ lock = <<s, "job">> /\ \A j \in Jobs : ~Holding(j)
  BY DEF JobIsPlaced, LockIsTold
<1>q. thread[active[s]] = "none" /\ IsLatest(active[s], s)
  <2>1. thread[active[s]] = "none"
    BY <1>p DEF Holding
  <2> HIDE DEF SpawnWorker
  <2>2. IsLatest(active[s], owner[active[s]])
    BY <1>p, <2>1 DEF WorkerIsTold
  <2> QED  BY <1>p, <2>1, <2>2
<1>1. TypeOK'
  BY <1>0 DEF TypeOK
<1>2. LockIsTold'
  BY <1>p DEF LockIsTold, Holding, TypeOK
<1>3. JobIsPlaced'
  BY DEF JobIsPlaced, TypeOK
<1>4. RowIsTold'
  BY <1>p DEF RowIsTold, TypeOK, RowStates
<1>5. ShutIsTold'
  BY DEF ShutIsTold, NothingStartsPastTheGate, TypeOK
<1>6. WorkerIsTold'
  BY <1>p, <1>q DEF WorkerIsTold, IsLatest, TypeOK
<1> QED BY <1>1, <1>2, <1>3, <1>4, <1>5, <1>6

LEMMA RecordWorkerInv == ASSUME GateInv, NEW s \in Servers, RecordWorker(s) PROVE GateInv'
<1> USE HoldersNames DEF RecordWorker, GateInv, Inside, job
<1>0. faults' \in 0 .. MaxFaults
  BY Faults DEF TypeOK
<1>w. Newest(s) \in Jobs /\ IsLatest(Newest(s), s)
  BY NewestIsLatest DEF WorkerIsTold
<1>1. TypeOK'
  BY <1>0, <1>w DEF TypeOK
<1>2. LockIsTold'
  BY DEF LockIsTold, Holding, TypeOK
<1>3. JobIsPlaced'
  BY DEF JobIsPlaced, TypeOK
<1>4. RowIsTold'
  BY DEF RowIsTold, TypeOK, RowStates
<1>5. ShutIsTold'
  BY DEF ShutIsTold, NothingStartsPastTheGate, TypeOK
<1>6. WorkerIsTold'
  BY <1>w DEF WorkerIsTold, IsLatest, TypeOK
<1> QED BY <1>1, <1>2, <1>3, <1>4, <1>5, <1>6

LEMMA TakeForEditInv == ASSUME GateInv, NEW s \in Servers, TakeForEdit(s) PROVE GateInv'
<1> USE HoldersNames DEF TakeForEdit, GateInv, Inside, job, LockIsFree
<1>0. faults' \in 0 .. MaxFaults
  BY Faults DEF TypeOK
<1>1. TypeOK'
  BY <1>0 DEF TypeOK
<1>2. LockIsTold'
  BY DEF LockIsTold, Holding, TypeOK
<1>3. JobIsPlaced'
  BY DEF JobIsPlaced, TypeOK
<1>4. RowIsTold'
  BY DEF RowIsTold, TypeOK, RowStates
<1>5. ShutIsTold'
  BY DEF ShutIsTold, NothingStartsPastTheGate, TypeOK
<1>6. WorkerIsTold'
  BY DEF WorkerIsTold, IsLatest, TypeOK
<1> QED BY <1>1, <1>2, <1>3, <1>4, <1>5, <1>6

LEMMA EditInv == ASSUME GateInv, NEW s \in Servers, Edit(s) PROVE GateInv'
<1> USE HoldersNames DEF Edit, GateInv, Inside, job
<1>0. faults' \in 0 .. MaxFaults
  BY Faults DEF TypeOK
<1>1. TypeOK'
  BY <1>0 DEF TypeOK
<1>2. LockIsTold'
  BY DEF LockIsTold, Holding, TypeOK
<1>3. JobIsPlaced'
  BY DEF JobIsPlaced, TypeOK
<1>4. RowIsTold'
  BY DEF RowIsTold, TypeOK, RowStates
<1>5. ShutIsTold'
  BY DEF ShutIsTold, NothingStartsPastTheGate, TypeOK
<1>6. WorkerIsTold'
  BY DEF WorkerIsTold, IsLatest, TypeOK
<1> QED BY <1>1, <1>2, <1>3, <1>4, <1>5, <1>6

LEMMA CancelInv == ASSUME GateInv, NEW s \in Servers, Cancel(s) PROVE GateInv'
<1> USE HoldersNames DEF Cancel, GateInv, server, Serving
<1>0. faults' \in 0 .. MaxFaults
  BY Faults DEF TypeOK
<1>1. TypeOK'
  BY <1>0, active[s] \in Jobs DEF TypeOK
<1>2. LockIsTold'
  BY DEF LockIsTold, Holding, TypeOK
<1>3. JobIsPlaced'
  BY DEF JobIsPlaced, TypeOK
<1>4. RowIsTold'
  BY DEF RowIsTold, TypeOK, RowStates
<1>5. ShutIsTold'
  BY DEF ShutIsTold, NothingStartsPastTheGate, TypeOK
<1>6. WorkerIsTold'
  BY DEF WorkerIsTold, IsLatest, TypeOK
<1> QED BY <1>1, <1>2, <1>3, <1>4, <1>5, <1>6

LEMMA CloseInv == ASSUME GateInv, NEW s \in Servers, Close(s) PROVE GateInv'
<1> USE HoldersNames DEF Close, GateInv, job
<1>0. faults' \in 0 .. MaxFaults
  BY Faults DEF TypeOK
<1>1. TypeOK'
  BY <1>0 DEF TypeOK
<1>2. LockIsTold'
  BY DEF LockIsTold, Holding, TypeOK
<1>3. JobIsPlaced'
  BY DEF JobIsPlaced, TypeOK
<1>4. RowIsTold'
  BY DEF RowIsTold, TypeOK, RowStates
<1>5. ShutIsTold'
  BY DEF ShutIsTold, NothingStartsPastTheGate, TypeOK
<1>6. WorkerIsTold'
  BY DEF WorkerIsTold, IsLatest, TypeOK
<1> QED BY <1>1, <1>2, <1>3, <1>4, <1>5, <1>6

LEMMA PassGateInv == ASSUME GateInv, NEW s \in Servers, PassGate(s) PROVE GateInv'
<1> USE HoldersNames DEF PassGate, GateInv, job
<1>0. faults' \in 0 .. MaxFaults
  BY Faults DEF TypeOK
<1>1. TypeOK'
  BY <1>0 DEF TypeOK
<1>2. LockIsTold'
  BY DEF LockIsTold, Holding, TypeOK
<1>3. JobIsPlaced'
  BY DEF JobIsPlaced, TypeOK
<1>4. RowIsTold'
  BY DEF RowIsTold, TypeOK, RowStates
<1>5. ShutIsTold'
  BY DEF ShutIsTold, NothingStartsPastTheGate, GateIsOut, TypeOK
<1>6. WorkerIsTold'
  BY DEF WorkerIsTold, IsLatest, TypeOK
<1> QED BY <1>1, <1>2, <1>3, <1>4, <1>5, <1>6

LEMMA AskJobInv == ASSUME GateInv, NEW s \in Servers, AskJob(s) PROVE GateInv'
<1> USE HoldersNames DEF AskJob, GateInv
<1>0. faults' \in 0 .. MaxFaults
  BY Faults DEF TypeOK
<1>a. {active[s]} \ {None} \subseteq Jobs
  BY DEF TypeOK
<1>1. TypeOK'
  <2>1. cancel' \subseteq Jobs
    BY <1>a DEF TypeOK
  <2>2. closing' \subseteq Servers /\ shut' \in [Servers -> {"no", "gate", "ask", "wait", "stop"}]
    BY DEF TypeOK
  <2> QED  BY <1>0, <2>1, <2>2 DEF TypeOK
<1>2. LockIsTold'
  BY DEF LockIsTold, Holding, TypeOK
<1>3. JobIsPlaced'
  BY DEF JobIsPlaced, TypeOK
<1>4. RowIsTold'
  BY DEF RowIsTold, TypeOK, RowStates
<1>5. ShutIsTold'
  BY DEF ShutIsTold, NothingStartsPastTheGate, TypeOK
<1>6. WorkerIsTold'
  BY DEF WorkerIsTold, IsLatest, TypeOK
<1> QED BY <1>1, <1>2, <1>3, <1>4, <1>5, <1>6

LEMMA AwaitInv == ASSUME GateInv, NEW s \in Servers, Await(s) PROVE GateInv'
<1> USE HoldersNames DEF Await, GateInv, job
<1>0. faults' \in 0 .. MaxFaults
  BY Faults DEF TypeOK
<1>a. gate[s] = "free" /\ up[s] = "on"
  BY DEF ShutIsTold, NothingStartsPastTheGate
<1>b. \A j \in Jobs : owner[j] = s => thread[j] # "none"
  BY <1>a DEF JobIsPlaced
<1>c. \A j \in Jobs : owner[j] = s =>
        thread[j] \in {"say", "gone"} /\ (IsLatest(j, s) => thread[j] = "gone")
  <2>1. CASE worker[s] = None
    BY <1>a, <2>1 DEF WorkerIsTold
  <2>2. CASE worker[s] # None
    BY <1>a, <1>b, <2>2 DEF WorkerIsTold, Awaited, Alive, IsLatest, Jobs
  <2> QED  BY <2>1, <2>2
<1>1. TypeOK'
  BY <1>0 DEF TypeOK
<1>2. LockIsTold'
  BY DEF LockIsTold, Holding, TypeOK
<1>3. JobIsPlaced'
  BY DEF JobIsPlaced, TypeOK
<1>4. RowIsTold'
  BY DEF RowIsTold, TypeOK, RowStates
<1>5. ShutIsTold'
  BY DEF ShutIsTold, NothingStartsPastTheGate, TypeOK
<1>6. WorkerIsTold'
  BY <1>a, <1>c DEF WorkerIsTold, IsLatest, TypeOK
<1> QED BY <1>1, <1>2, <1>3, <1>4, <1>5, <1>6

LEMMA StopInv == ASSUME GateInv, NEW s \in Servers, Stop(s) PROVE GateInv'
<1> USE HoldersNames DEF Stop, GateInv, job
<1>0. faults' \in 0 .. MaxFaults
  BY Faults DEF TypeOK
<1>1. TypeOK'
  BY <1>0 DEF TypeOK
<1>2. LockIsTold'
  BY DEF LockIsTold, Holding, TypeOK, ShutIsTold
<1>3. JobIsPlaced'
  BY DEF JobIsPlaced, TypeOK
<1>4. RowIsTold'
  BY DEF RowIsTold, TypeOK, RowStates
<1>5. ShutIsTold'
  BY DEF ShutIsTold, NothingStartsPastTheGate, TypeOK
<1>6. WorkerIsTold'
  BY DEF WorkerIsTold, IsLatest, TypeOK
<1> QED BY <1>1, <1>2, <1>3, <1>4, <1>5, <1>6

LEMMA KillInv == ASSUME GateInv, NEW s \in Servers, Kill(s) PROVE GateInv'
<1> USE HoldersNames DEF Kill, GateInv
<1>0. faults' \in 0 .. MaxFaults
  BY Faults DEF TypeOK
<1>a. /\ UNCHANGED owner /\ \A j \in Jobs : owner[j] # s => thread'[j] = thread[j]
      /\ \A j \in Jobs : owner[j] = s => thread'[j] = "gone"
  BY DEF TypeOK
<1>b. /\ up'[s] = "off" /\ gate'[s] = "free"
      /\ \A t \in Servers \ {s} : up'[t] = up[t] /\ gate'[t] = gate[t]
  BY DEF TypeOK
<1>c. \A u \in Uses : lock' # <<s, u>>
  OBVIOUS
<1>d. \A t \in Servers \ {s}, u \in Uses : lock = <<t, u>> <=> lock' = <<t, u>>
  OBVIOUS
<1>e. (lock = Cli <=> lock' = Cli) /\ UNCHANGED cli
  OBVIOUS
<1>1. TypeOK'
  BY <1>0 DEF TypeOK
<1>2. LockIsTold'
  <2> HIDE DEF Kill
  <2>1. \A j \in Jobs : Holding(j)' => Holding(j) /\ owner[j] # s
    BY <1>a DEF Holding
  <2>2. \A j \in Jobs : owner[j] # s => (Holding(j) <=> Holding(j)')
    BY <1>a DEF Holding
  <2>3. \A j \in Jobs : Holding(j)' => owner'[j] \in Servers /\ lock' = <<owner'[j], "job">>
    BY <1>a, <1>d, <2>1 DEF LockIsTold
  <2>4. \A t \in Servers : lock' = <<t, "job">> =>
            gate'[t] \in {"insert", "spawn"} \/ \E j \in Jobs : Holding(j)'
    BY <1>b, <1>c, <1>d, <2>2 DEF LockIsTold
  <2>5. \A t \in Servers : /\ (up'[t] = "mark" <=> lock' = <<t, "open">>)
                           /\ (gate'[t] = "write" <=> lock' = <<t, "edit">>)
    BY <1>b, <1>c, <1>d DEF LockIsTold
  <2>6. \A t \in Servers : gate'[t] \in {"insert", "spawn"} =>
            lock' = <<t, "job">> /\ \A j \in Jobs : ~Holding(j)'
    BY <1>b, <1>d, <2>1 DEF LockIsTold
  <2> QED  BY <1>e, <2>1, <2>3, <2>4, <2>5, <2>6 DEF LockIsTold
<1>3. JobIsPlaced'
  BY DEF JobIsPlaced, TypeOK
<1>4. RowIsTold'
  BY DEF RowIsTold, TypeOK, RowStates
<1>5. ShutIsTold'
  BY DEF ShutIsTold, NothingStartsPastTheGate, TypeOK
<1>6. WorkerIsTold'
  BY DEF WorkerIsTold, IsLatest, TypeOK
<1> QED BY <1>1, <1>2, <1>3, <1>4, <1>5, <1>6

LEMMA BeginInv == ASSUME GateInv, NEW j \in Jobs, Begin(j) PROVE GateInv'
<1> USE HoldersNames DEF Begin, GateInv, At, server
<1>0. faults' \in 0 .. MaxFaults
  BY Faults DEF TypeOK
<1>t. /\ thread[j] = "begin" /\ state[j] # "none" /\ state'[j] # "none"
      /\ thread'[j] \in {"run", "over"}
  BY DEF JobIsPlaced, TypeOK
<1>u. \A i \in Jobs \ {j} : state'[i] = state[i] /\ thread'[i] = thread[i]
  BY DEF TypeOK
<1>1. TypeOK'
  BY <1>0 DEF TypeOK
<1>2. LockIsTold'
  BY DEF LockIsTold, Holding, TypeOK
<1>3. JobIsPlaced'
  <2>1. /\ UNCHANGED <<active, owner, gate>>
        /\ \A i \in Jobs : state'[i] = "none" <=> state[i] = "none"
    BY <1>t, <1>u
  <2>2. \A i \in Jobs : thread'[i] = "none" <=> thread[i] = "none"
    BY <1>t, <1>u
  <2>3. \A i \in Jobs : thread[i] \in {"none", "begin", "run", "over"} =>
                        thread'[i] \in {"none", "begin", "run", "over"}
    BY <1>t, <1>u
  <2> HIDE DEF Begin, At, EndsAs
  <2> QED  BY <2>1, <2>2, <2>3 DEF JobIsPlaced
<1>4. RowIsTold'
  BY thread[j] = "begin" DEF RowIsTold, TypeOK, RowStates, Ends
<1>5. ShutIsTold'
  BY DEF ShutIsTold, NothingStartsPastTheGate, TypeOK
<1>6. WorkerIsTold'
  BY thread[j] = "begin", state[j] # "none" DEF WorkerIsTold, IsLatest, TypeOK, JobIsPlaced
<1> QED BY <1>1, <1>2, <1>3, <1>4, <1>5, <1>6

LEMMA WorkOnInv == ASSUME GateInv, NEW j \in Jobs, WorkOn(j) PROVE GateInv'
<1> USE HoldersNames DEF WorkOn, GateInv, EndsAs, server, At
<1>0. faults' \in 0 .. MaxFaults
  BY Faults DEF TypeOK
<1>t. thread[j] = "run" /\ thread'[j] \in {"run", "over"}
  BY DEF TypeOK
<1>u. \A i \in Jobs \ {j} : thread'[i] = thread[i]
  BY DEF TypeOK
<1>1. TypeOK'
  BY <1>0, left[j] \in 0 .. MaxFiles DEF TypeOK, MoreFiles
<1>2. LockIsTold'
  BY DEF LockIsTold, Holding, TypeOK
<1>3. JobIsPlaced'
  <2>1. /\ UNCHANGED <<active, owner, gate>>
        /\ \A i \in Jobs : state'[i] = "none" <=> state[i] = "none"
    BY <1>t, <1>u
  <2>2. \A i \in Jobs : thread'[i] = "none" <=> thread[i] = "none"
    BY <1>t, <1>u
  <2>3. \A i \in Jobs : thread[i] \in {"none", "begin", "run", "over"} =>
                        thread'[i] \in {"none", "begin", "run", "over"}
    BY <1>t, <1>u
  <2> HIDE DEF WorkOn, At, EndsAs
  <2> QED  BY <2>1, <2>2, <2>3 DEF JobIsPlaced
<1>4. RowIsTold'
  BY DEF RowIsTold, TypeOK, RowStates
<1>5. ShutIsTold'
  BY DEF ShutIsTold, NothingStartsPastTheGate, TypeOK
<1>6. WorkerIsTold'
  BY DEF WorkerIsTold, IsLatest, TypeOK
<1> QED BY <1>1, <1>2, <1>3, <1>4, <1>5, <1>6

LEMMA ClearActiveInv == ASSUME GateInv, NEW j \in Jobs, ClearActive(j) PROVE GateInv'
<1> USE HoldersNames DEF ClearActive, GateInv, At
<1>0. faults' \in 0 .. MaxFaults
  BY Faults DEF TypeOK
<1>o. owner[j] \in Servers /\ thread[j] = "over" /\ gate[owner[j]] # "spawn"
  BY DEF LockIsTold, Holding
<1>p. /\ active'[owner[j]] = None /\ thread'[j] = "cleared"
      /\ \A i \in Jobs \ {j} : thread'[i] = thread[i]
      /\ \A t \in Servers \ {owner[j]} : active'[t] = active[t]
  BY <1>o DEF TypeOK
<1>1. TypeOK'
  BY <1>0 DEF TypeOK
<1>2. LockIsTold'
  BY DEF LockIsTold, Holding, TypeOK
<1>3. JobIsPlaced'
  BY <1>o, <1>p DEF JobIsPlaced
<1>4. RowIsTold'
  BY DEF RowIsTold, TypeOK, RowStates
<1>5. ShutIsTold'
  BY DEF ShutIsTold, NothingStartsPastTheGate, TypeOK
<1>6. WorkerIsTold'
  BY DEF WorkerIsTold, IsLatest, TypeOK
<1> QED BY <1>1, <1>2, <1>3, <1>4, <1>5, <1>6

LEMMA DropWriterInv == ASSUME GateInv, NEW j \in Jobs, DropWriter(j) PROVE GateInv'
<1> USE HoldersNames DEF DropWriter, GateInv, At, server
<1>0. faults' \in 0 .. MaxFaults
  BY Faults DEF TypeOK
<1>1. TypeOK'
  BY <1>0 DEF TypeOK
<1>2. LockIsTold'
  BY DEF LockIsTold, Holding, TypeOK
<1>3. JobIsPlaced'
  BY DEF JobIsPlaced, TypeOK
<1>4. RowIsTold'
  BY DEF RowIsTold, TypeOK, RowStates
<1>5. ShutIsTold'
  BY DEF ShutIsTold, NothingStartsPastTheGate, TypeOK
<1>6. WorkerIsTold'
  BY DEF WorkerIsTold, IsLatest, TypeOK
<1> QED BY <1>1, <1>2, <1>3, <1>4, <1>5, <1>6

LEMMA SayInv == ASSUME GateInv, NEW j \in Jobs, Say(j) PROVE GateInv'
<1> USE HoldersNames DEF Say, GateInv, At, server
<1>0. faults' \in 0 .. MaxFaults
  BY Faults DEF TypeOK
<1>e. end[j] \in Ends /\ thread[j] = "say" /\ state[j] # "none" /\ j \in Jobs
  BY DEF RowIsTold, JobIsPlaced
<1>1. TypeOK'
  BY <1>0, <1>e DEF TypeOK
<1>2. LockIsTold'
  BY DEF LockIsTold, Holding, TypeOK
<1>3. JobIsPlaced'
  BY <1>e DEF JobIsPlaced, TypeOK, Ends
<1>4. RowIsTold'
  BY <1>e DEF RowIsTold, TypeOK, Ends
<1>5. ShutIsTold'
  BY DEF ShutIsTold, NothingStartsPastTheGate, TypeOK
<1>6. WorkerIsTold'
  BY <1>e DEF WorkerIsTold, IsLatest, TypeOK, Ends
<1> QED BY <1>1, <1>2, <1>3, <1>4, <1>5, <1>6

LEMMA CliTakesInv == ASSUME GateInv, CliTakes PROVE GateInv'
<1> USE HoldersNames DEF CliTakes, GateInv, job, LockIsFree
<1>0. faults' \in 0 .. MaxFaults
  BY Faults DEF TypeOK
<1>1. TypeOK'
  BY <1>0 DEF TypeOK
<1>2. LockIsTold'
  BY DEF LockIsTold, Holding, TypeOK
<1>3. JobIsPlaced'
  BY DEF JobIsPlaced, TypeOK
<1>4. RowIsTold'
  BY DEF RowIsTold, TypeOK, RowStates
<1>5. ShutIsTold'
  BY DEF ShutIsTold, NothingStartsPastTheGate, TypeOK
<1>6. WorkerIsTold'
  BY DEF WorkerIsTold, IsLatest, TypeOK
<1> QED BY <1>1, <1>2, <1>3, <1>4, <1>5, <1>6

LEMMA CliEndsInv == ASSUME GateInv, CliEnds PROVE GateInv'
<1> USE HoldersNames DEF CliEnds, GateInv, job
<1>0. faults' \in 0 .. MaxFaults
  BY Faults DEF TypeOK
<1>1. TypeOK'
  BY <1>0 DEF TypeOK
<1>2. LockIsTold'
  BY DEF LockIsTold, Holding, TypeOK
<1>3. JobIsPlaced'
  BY DEF JobIsPlaced, TypeOK
<1>4. RowIsTold'
  BY DEF RowIsTold, TypeOK, RowStates
<1>5. ShutIsTold'
  BY DEF ShutIsTold, NothingStartsPastTheGate, TypeOK
<1>6. WorkerIsTold'
  BY DEF WorkerIsTold, IsLatest, TypeOK
<1> QED BY <1>1, <1>2, <1>3, <1>4, <1>5, <1>6

------------------------------------------------------------------------------
(* The theorems.                                                             *)

LEMMA NextInv == ASSUME GateInv, [Next]_vars PROVE GateInv'
<1>1. CASE UNCHANGED vars
  BY <1>1 DEF vars, server, job, GateInv, TypeOK, LockIsTold, Holding, JobIsPlaced, RowIsTold,
              ShutIsTold, NothingStartsPastTheGate, WorkerIsTold, IsLatest
<1>2. CASE Next
  BY <1>2, OpenAskInv, OpenMarkInv, EnterInv, TakeForJobInv, InsertJobInv,
     SpawnWorkerInv, RecordWorkerInv, TakeForEditInv, EditInv, CancelInv,
     CloseInv, PassGateInv, AskJobInv, AwaitInv, StopInv, KillInv,
     BeginInv, WorkOnInv, ClearActiveInv, DropWriterInv, SayInv,
     CliTakesInv, CliEndsInv
     DEF Next, InGate, Shutdown, Thread
<1> QED  BY <1>1, <1>2

\* Who holds the writer lock, where every job and thread is, what every row
\* says and where every shutdown stands fit together at every moment.
THEOREM GateInvariance == Spec => []GateInv
<1> QED  BY InitInv, NextInv, PTL DEF Spec

\* Whatever the servers, killed or stopped, and the command line do, one of them
\* at most is writing to the archive, and it holds the lock (lock.rs).
THEOREM OneWriterAlways == Spec => []OneWriter
<1>1. GateInv => OneWriter
  <2> SUFFICES ASSUME GateInv PROVE OneWriter
    OBVIOUS
  <2> USE HoldersNames DEF GateInv
  <2>1. \A j \in Jobs : Working(j) =>
            Holding(j) /\ owner[j] \in Servers /\ lock = <<owner[j], "job">>
    BY DEF Working, Holding, LockIsTold
  <2>2. \A w, v \in Writing : w = v
    BY <2>1 DEF Writing, LockIsTold
  <2> QED  BY <2>1, <2>2 DEF OneWriter, LockIsTold
<1> QED  BY <1>1, GateInvariance, PTL

\* A job that says how it ended has opened both gates, and one called
\* interrupted is not moving files (jobs.rs, state.rs).
THEOREM StateStaysTrue == Spec => []StateIsTrue
<1>1. GateInv => StateIsTrue
  <2> SUFFICES ASSUME GateInv PROVE StateIsTrue
    OBVIOUS
  <2> USE DEF GateInv
  <2>1. EndedMeansFree
    BY DEF EndedMeansFree, TypeOK, JobIsPlaced, RowIsTold, Working
  <2>2. InterruptedIsOver
    BY DEF InterruptedIsOver, RowIsTold, Working
  <2> QED  BY <2>1, <2>2 DEF StateIsTrue
<1> QED  BY <1>1, GateInvariance, PTL

\* Past its gate a shutdown lets nothing in, and a server that stopped left no
\* lock, no thread at work and no unsettled job behind (server.rs).
THEOREM ShutdownStaysClean == Spec => []ShutdownIsClean
<1>1. GateInv => ShutdownIsClean
  <2> SUFFICES ASSUME GateInv PROVE ShutdownIsClean
    OBVIOUS
  <2> USE HoldersNames DEF GateInv
  <2>1. ASSUME NEW s \in Servers, shut[s] = "stop" \/ up[s] = "off"
        PROVE  /\ \A u \in Uses : lock # <<s, u>>
               /\ \A j \in Jobs : owner[j] = s =>
                     /\ thread[j] \in {"say", "gone"}
                     /\ j = Newest(s) => thread[j] = "gone"
                                         /\ (state[j] \in {"queued", "running"} => j \in cut)
    <3>1. gate[s] = "free" /\ worker[s] = None /\ up[s] # "mark"
      BY <2>1 DEF WorkerIsTold, ShutIsTold
    <3>2. \A j \in Jobs : owner[j] = s =>
             thread[j] \in {"say", "gone"} /\ (IsLatest(j, s) => thread[j] = "gone")
      BY <3>1 DEF WorkerIsTold
    <3>3. \A u \in Uses : lock # <<s, u>>
      BY <3>1, <3>2 DEF LockIsTold, Holding, Uses
    <3>4. \A j \in Jobs : owner[j] = s /\ j = Newest(s) => IsLatest(j, s)
      <4> SUFFICES ASSUME NEW j \in Jobs, owner[j] = s PROVE IsLatest(Newest(s), s)
        OBVIOUS
      <4>1. \E i \in Jobs : IsLatest(i, s)
        BY DEF WorkerIsTold
      <4> HIDE DEF GateInv
      <4> QED  BY <4>1, NewestIsLatest
    <3> QED  BY <3>2, <3>3, <3>4 DEF RowIsTold
  <2> QED  BY <2>1 DEF ShutdownIsClean, StoppedMeansSettled, ShutIsTold
<1> QED  BY <1>1, GateInvariance, PTL
=============================================================================

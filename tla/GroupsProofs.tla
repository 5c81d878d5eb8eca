---------------------------- MODULE GroupsProofs ----------------------------
(***************************************************************************)
(* What a plan may take of the groups, for any files, folders, pictures,   *)
(* bursts, requests and writes of other programs: never the last file of a *)
(* group, never a copy whose picture is not still at home, never without   *)
(* the approval of what is there; and an undone choice stays undone.       *)
(***************************************************************************)
EXTENDS Groups, FiniteSetTheorems, WellFoundedInduction, SequenceTheorems, TLAPS

(* ----------------------- the operators of the model -------------------- *)
\* The best of a finite set of files is one of them, and none is better:
\* a file with nothing above it, found by going up from set to subset.
LEMMA BestIsOneOfThem ==
    ASSUME NEW S \in SUBSET File, S # {}
    PROVE  Best(S) \in S /\ \A q \in S : Worth[q] <= Worth[Best(S)]
<1> DEFINE Above(m) == {q \in S : Worth[m] < Worth[q]}
           T == {Above(m) : m \in S}
<1>0. \A m \in S : Worth[m] \in Nat
  BY FileAssumption
<1>1. IsFiniteSet(S)
  BY FileAssumption, FS_Subset
<1>2. T \subseteq FiniteSubsetsOf(S)
  <2>1. FiniteSubsetsOf(S) = SUBSET S
    BY <1>1, FS_FiniteSubsetsOfFinite
  <2> QED
    BY <2>1
<1>3. T # {}
  OBVIOUS
<1>4. IsWellFoundedOn(StrictSubsetOrdering(S), FiniteSubsetsOf(S))
  BY FS_StrictSubsetOrderingWellFounded
<1> HIDE DEF T
<1>5. PICK x \in T : \A y \in T : ~(<<y, x>> \in StrictSubsetOrdering(S))
  BY <1>2, <1>3, <1>4, WFMin
<1>6. PICK m \in S : x = Above(m)
  BY DEF T
<1>7. \A q \in S : Worth[q] <= Worth[m]
  <2> SUFFICES ASSUME NEW q \in S, ~(Worth[q] <= Worth[m])
               PROVE  FALSE
    OBVIOUS
  <2>1. Worth[m] < Worth[q]
    BY <1>0
  <2>2. q \in Above(m) /\ q \notin Above(q)
    BY <2>1, <1>0
  <2>3. Above(q) \subseteq Above(m)
    BY <2>1, <1>0
  <2>4. <<Above(q), Above(m)>> \in StrictSubsetOrdering(S)
    BY <2>2, <2>3 DEF StrictSubsetOrdering
  <2>5. Above(q) \in T
    BY DEF T
  <2> QED
    BY <2>4, <2>5, <1>5, <1>6
<1> QED
  BY <1>7 DEF Best

LEMMA FileIsNotZero == 0 \notin File
BY FileAssumption

\* Giving groups another keeper leaves the groups what they are.
LEMMA ReKeptIsFamily ==
    ASSUME NEW fm, Family(fm), NEW pick, FileInv
    PROVE  Family(ReKeep(fm, pick)) /\ ReKeep(fm, pick).group = fm.group
<1> DEFINE K == [f \in File |-> IF pick[f] # 0 THEN pick[f] ELSE fm.keeper[f]]
           R == [f \in File |-> IF pick[f] # 0 THEN Reconciled(fm, pick[f], f) ELSE fm.role[f]]
<1>1. ReKeep(fm, pick) = [group |-> fm.group, keeper |-> K, role |-> R]
  <2>1. fm \in [group : {fm.group}, keeper : {fm.keeper}, role : {fm.role}]
    <3>1. fm = [group |-> fm.group, keeper |-> fm.keeper, role |-> fm.role]
      BY DEF Family
    <3> QED
      BY <3>1
  <2>2. ReKeep(fm, pick) = [fm EXCEPT !.keeper = K, !.role = R]
    BY DEF ReKeep
  <2> HIDE DEF K, R
  <2>3. [fm EXCEPT !.keeper = K, !.role = R] \in [group : {fm.group}, keeper : {K}, role : {R}]
    BY <2>1
  <2> QED
    BY <2>2, <2>3
<1>2. ASSUME NEW f \in File, NEW k
      PROVE  Reconciled(fm, k, f) \in Role
  <2> DEFINE twins == {m \in fm.group[k] \cap present : pic[m].frame = pic[k].frame}
             words == {m \in twins \ {k} : fm.role[m] # "copy"}
  <2>1. words \in SUBSET File
    BY DEF FileInv
  <2>2. words # {} => Best(words) \in File
    BY <2>1, BestIsOneOfThem
  <2>3. fm.role \in [File -> Role]
    BY DEF Family
  <2>4. Reconciled(fm, k, f) =
          CASE f \notin twins                             -> fm.role[f]
            [] f \in twins /\ f # k                       -> "copy"
            [] f = k /\ fm.role[k] # "copy"               -> fm.role[k]
            [] f = k /\ fm.role[k] = "copy" /\ words # {} -> fm.role[Best(words)]
            [] OTHER                                      -> "unknown"
    BY DEF Reconciled
  <2> HIDE DEF twins, words
  <2>5. fm.role[f] \in Role
    BY <2>3
  <2>6. words # {} => fm.role[Best(words)] \in Role
    BY <2>2, <2>3
  <2>7. f = k => fm.role[k] \in Role
    BY <2>5
  <2> QED
    BY <2>4, <2>5, <2>6, <2>7 DEF Role
<1>3. R \in [File -> Role]
  BY <1>2 DEF Family
<1> HIDE DEF K, R
<1> QED
  BY <1>1, <1>3 DEF Family

LEMMA BurstedIsFamily ==
    ASSUME NEW fm, Family(fm), FileInv
    PROVE  Family(Bursted(fm))
BY ReKeptIsFamily DEF Bursted

LEMMA SettledIsFamily ==
    ASSUME NEW fm, Family(fm), NEW kp, NEW mk, FileInv
    PROVE  Family(Settled(fm, kp, mk).fam)
<1>1. PICK first : Settled(fm, kp, mk).fam = ReKeep(ReKeep(fm, first[1]), first[2])
  <2> DEFINE freed == Uncovered(fm, kp, mk)
             left == Without(kp, freed)
             fell == [f \in File |->
                IF fm.group[f] \cap freed # {} /\ fm.group[f] \cap present # {}
                THEN Best(fm.group[f] \cap present) ELSE 0]
             fallen == ReKeep(fm, fell)
             Takes(f) == {m \in fm.group[f] \cap present :
                /\ Dir[m] \in mk /\ MayTake(m) /\ fallen.keeper[f] # 0
                /\ Identity(pic[m]) = Identity(pic[fallen.keeper[f]])}
             pick == [f \in File |->
                IF Hand(left, fm.group[f]) # {} \/ Takes(f) = {} THEN 0 ELSE Best(Takes(f))]
  <2>1. Settled(fm, kp, mk).fam = ReKeep(fallen, pick)
    BY DEF Settled
  <2>2. Settled(fm, kp, mk).fam = ReKeep(ReKeep(fm, fell), pick)
    BY <2>1
  <2> HIDE DEF fell, pick
  <2> WITNESS <<fell, pick>>
  <2> QED
    BY <2>2
<1>2. Family(ReKeep(fm, first[1]))
  BY ReKeptIsFamily
<1> QED
  BY <1>1, <1>2, ReKeptIsFamily

(* --------------------------- building the groups ----------------------- *)
LinkClosed(S) == \A a \in S, b \in present : Linked(a, b) => b \in S

LEMMA LinkedBothWays == \A a, b : Linked(a, b) => Linked(b, a)
<1> SUFFICES ASSUME NEW a, NEW b, Linked(a, b)
             PROVE  Linked(b, a)
  OBVIOUS
<1>1. {a, b} = {b, a}
  OBVIOUS
<1> QED
  BY <1>1 DEF Linked

LEMMA JoinedIsLeast ==
    ASSUME NEW f \in present
    PROVE  /\ Joined(f) \in SUBSET present /\ f \in Joined(f) /\ LinkClosed(Joined(f))
           /\ \A S \in SUBSET present : f \in S /\ LinkClosed(S) => Joined(f) \subseteq S
<1>1. \A g : g \in Joined(f) <=>
         g \in present /\ \A S \in SUBSET present : f \in S /\ LinkClosed(S) => g \in S
  BY DEF Joined, LinkClosed
<1>2. Joined(f) \in SUBSET present /\ f \in Joined(f)
  BY <1>1
<1>3. LinkClosed(Joined(f))
  <2> SUFFICES ASSUME NEW a \in Joined(f), NEW b \in present, Linked(a, b)
               PROVE  b \in Joined(f)
    BY DEF LinkClosed
  <2> SUFFICES ASSUME NEW S \in SUBSET present, f \in S, LinkClosed(S)
               PROVE  b \in S
    BY <1>1
  <2>1. a \in S
    BY <1>1
  <2> QED
    BY <2>1 DEF LinkClosed
<1> QED
  BY <1>1, <1>2, <1>3

\* The files linked to one another, in however many steps, are one group,
\* whichever of them it is built from.
LEMMA JoinedIsOne ==
    ASSUME NEW f \in present, NEW g \in Joined(f)
    PROVE  Joined(g) = Joined(f)
<1>0. g \in present
  BY JoinedIsLeast
<1>1. Joined(g) \subseteq Joined(f)
  BY <1>0, JoinedIsLeast
<1>2. f \in Joined(g)
  <2> DEFINE C == present \ Joined(g)
  <2> SUFFICES ASSUME f \notin Joined(g)
               PROVE  FALSE
    OBVIOUS
  <2>1. LinkClosed(C)
    <3> SUFFICES ASSUME NEW a \in C, NEW b \in present, Linked(a, b), b \in Joined(g)
                 PROVE  FALSE
      BY DEF LinkClosed
    <3>1. Linked(b, a)
      BY LinkedBothWays
    <3>2. LinkClosed(Joined(g))
      BY <1>0, JoinedIsLeast
    <3> QED
      BY <3>1, <3>2 DEF LinkClosed
  <2>2. f \in C /\ C \in SUBSET present
    OBVIOUS
  <2>3. g \in C
    BY <2>1, <2>2, JoinedIsLeast
  <2> QED
    BY <2>3, <1>0, JoinedIsLeast
<1>3. Joined(f) \subseteq Joined(g)
  <2>1. Joined(g) \in SUBSET present /\ LinkClosed(Joined(g))
    BY <1>0, JoinedIsLeast
  <2> QED
    BY <1>2, <2>1, JoinedIsLeast
<1> QED
  BY <1>1, <1>3

LEMMA BuiltIsFamily ==
    ASSUME FileInv
    PROVE  Family(Built)
<1> DEFINE G(f) == IF f \in present THEN Joined(f) ELSE {}
           Gs == [f \in File |-> G(f)]
           Ks == [f \in File |-> IF G(f) = {} THEN 0 ELSE KeeperIn(G(f), Decided(kept, G(f)))]
           Rs == [f \in File |-> IF G(f) = {} THEN "unknown" ELSE RoleIn(G(f), Decided(kept, G(f)), f)]
<1>1. Built = [group |-> Gs, keeper |-> Ks, role |-> Rs]
  BY DEF Built
<1>2. present \subseteq File
  BY DEF FileInv
<1>3. Whole(Gs)
  <2>1. \A f \in File : G(f) \in SUBSET File /\ (G(f) = {} \/ f \in G(f))
    BY <1>2, JoinedIsLeast
  <2>2. ASSUME NEW f \in File, NEW g \in Gs[f]
        PROVE  Gs[g] = Gs[f]
    <3>1. f \in present /\ Gs[f] = Joined(f)
      BY <2>2
    <3>2. g \in present /\ g \in File
      BY <3>1, <2>2, <1>2, JoinedIsLeast
    <3>3. Gs[g] = Joined(g)
      BY <3>2
    <3> QED
      BY <3>1, <3>3, <2>2, JoinedIsOne
  <2>3. Gs \in [File -> SUBSET File]
    BY <2>1
  <2>4. \A f \in File : Gs[f] = {} \/ f \in Gs[f]
    BY <2>1
  <2> HIDE DEF Gs
  <2> QED
    BY <2>2, <2>3, <2>4 DEF Whole
<1>4. Rs \in [File -> Role]
  <2>1. \A S, d, f : RoleIn(S, d, f) \in Role
    BY DEF RoleIn, Role
  <2> QED
    BY <2>1 DEF Role
<1> HIDE DEF Gs, Ks, Rs
<1> QED
  BY <1>1, <1>3, <1>4 DEF Family

\* Another file's group stays whole when one file is taken out of it.
LEMMA SplitIsFamily ==
    ASSUME FileInv, FamInv, NEW f \in File, split_family(f)
    PROVE  FamInv'
<1> DEFINE G == fam.group[f]
           rest == G \ {f}
           Gs == [g \in File |-> IF g = f THEN {f} ELSE IF g \in rest THEN rest ELSE fam.group[g]]
           Ks == [g \in File |-> IF g = f THEN f
                                 ELSE IF g \in rest /\ fam.keeper[g] = f THEN Best(rest)
                                 ELSE fam.keeper[g]]
           Rs == [fam.role EXCEPT ![f] = "unknown"]
<1>1. fam' = [group |-> Gs, keeper |-> Ks, role |-> Rs]
  BY DEF split_family
<1>2. /\ fam.group \in [File -> SUBSET File]
      /\ \A g \in File : fam.group[g] = {} \/ g \in fam.group[g]
      /\ \A g \in File : \A h \in fam.group[g] : fam.group[h] = fam.group[g]
  BY DEF FamInv, Family, Whole
<1>3. /\ Gs \in [File -> SUBSET File]
      /\ \A g \in File : Gs[g] = {} \/ g \in Gs[g]
  BY <1>2
<1>4. ASSUME NEW g \in File, NEW h \in Gs[g]
      PROVE  Gs[h] = Gs[g]
  <2>0. h \in File
    BY <1>3, <1>4
  <2>1. CASE g = f
    BY <2>1, <1>4
  <2>2. CASE g # f /\ g \in rest
    <3>1. h \in rest /\ Gs[g] = rest
      BY <2>2, <1>4
    <3> QED
      BY <3>1, <2>0
  <2>3. CASE g # f /\ g \notin rest
    <3>1. Gs[g] = fam.group[g] /\ h \in fam.group[g]
      BY <2>3, <1>4
    <3>2. fam.group[h] = fam.group[g] /\ g \in fam.group[g]
      BY <3>1, <1>2
    <3>3. h \notin G /\ h # f
      <4> SUFFICES ASSUME h \in G \/ h = f
                   PROVE  FALSE
        OBVIOUS
      <4>1. fam.group[h] = G
        BY <1>2
      <4>2. g \in G
        BY <4>1, <3>2
      <4> QED
        BY <4>2, <2>3
    <3> QED
      BY <3>1, <3>2, <3>3, <2>0
  <2> QED
    BY <2>1, <2>2, <2>3
<1>5. Rs \in [File -> Role]
  BY DEF FamInv, Family, Role
<1> HIDE DEF Gs, Ks, Rs
<1>6. Whole(Gs)
  BY <1>3, <1>4 DEF Whole
<1> QED
  BY <1>1, <1>5, <1>6 DEF FamInv, Family

(* ------------------------ the choices of the review -------------------- *)
Entries == [before : UNION {[D -> Choice] : D \in SUBSET File}, undone : BOOLEAN]
HistoryShape(h) ==
    /\ Len(h) \in Nat
    /\ h = [i \in 1..Len(h) |-> [before |-> h[i].before, undone |-> h[i].undone]]
    /\ \A i \in 1..Len(h) :
          h[i].undone \in BOOLEAN /\ \E D \in SUBSET File : h[i].before \in [D -> Choice]

LEMMA HistoryIsSequence ==
    ASSUME NEW h
    PROVE  HistoryShape(h) <=> h \in Seq(Entries)
<1>1. ASSUME HistoryShape(h)
      PROVE  h \in Seq(Entries)
  <2>1. ASSUME NEW i \in 1..Len(h)
        PROVE  [before |-> h[i].before, undone |-> h[i].undone] \in Entries
    <3>1. h[i].undone \in BOOLEAN
      BY <1>1 DEF HistoryShape
    <3>2. PICK D \in SUBSET File : h[i].before \in [D -> Choice]
      BY <1>1 DEF HistoryShape
    <3>3. h[i].before \in UNION {[E -> Choice] : E \in SUBSET File}
      BY <3>2
    <3> QED
      BY <3>1, <3>3 DEF Entries
  <2>2. PICK n \in Nat : n = Len(h)
    BY <1>1 DEF HistoryShape
  <2>3. h \in [1..n -> Entries]
    <3>1. h = [i \in 1..n |-> [before |-> h[i].before, undone |-> h[i].undone]]
      BY <1>1, <2>2 DEF HistoryShape
    <3>2. DOMAIN h = 1..n /\ \A i \in 1..n : h[i] = [before |-> h[i].before, undone |-> h[i].undone]
      BY <3>1
    <3>3. \A i \in 1..n : h[i] \in Entries
      BY <3>2, <2>1, <2>2
    <3>4. h = [i \in 1..n |-> h[i]]
      BY <3>1, <3>2
    <3> QED
      BY <3>3, <3>4
  <2> QED
    BY <2>3
<1>2. ASSUME h \in Seq(Entries)
      PROVE  HistoryShape(h)
  <2>1. Len(h) \in Nat /\ h = [i \in 1..Len(h) |-> h[i]] /\ \A i \in 1..Len(h) : h[i] \in Entries
    BY <1>2
  <2>2. \A e \in Entries : /\ e = [before |-> e.before, undone |-> e.undone]
                           /\ e.undone \in BOOLEAN
                           /\ e.before \in UNION {[D -> Choice] : D \in SUBSET File}
    BY DEF Entries
  <2>3. \A b \in UNION {[D -> Choice] : D \in SUBSET File} : \E D \in SUBSET File : b \in [D -> Choice]
    OBVIOUS
  <2>4. \A i \in 1..Len(h) : h[i] = [before |-> h[i].before, undone |-> h[i].undone]
    BY <2>1, <2>2
  <2>5. [i \in 1..Len(h) |-> h[i]]
          = [i \in 1..Len(h) |-> [before |-> h[i].before, undone |-> h[i].undone]]
    BY <2>4
  <2>6. \A i \in 1..Len(h) :
          h[i].undone \in BOOLEAN /\ \E D \in SUBSET File : h[i].before \in [D -> Choice]
    BY <2>1, <2>2, <2>3
  <2> QED
    BY <2>1, <2>5, <2>6 DEF HistoryShape
<1> QED
  BY <1>1, <1>2

\* What the invariant says of the choices, by name.
AllApproved ==
    /\ \A f \in File : Approved(review[f])
    /\ \A i \in 1..Len(history) : \A f \in DOMAIN Before(i) : Approved(Before(i)[f])
Rooted ==
    \A f \in File : review[f].op # 0 =>
        Stands(review[f].op) /\ f \in DOMAIN Before(review[f].op)
Chained ==
    \A i \in 1..Len(history), j \in 1..Len(history), f \in File :
        Stems(i, f, j) =>
            /\ j < i /\ Stands(j) /\ f \in DOMAIN Before(j)
            /\ review[f].op # j
            /\ \A k \in 1..Len(history) : Stems(k, f, j) => k = i
Counted ==
    \A i \in 1..Len(history) : \A f \in DOMAIN Before(i) : Before(i)[f].op \in 0..Len(history)

LEMMA ChoicesByName ==
    ChoiceInv <=> /\ review \in [File -> Choice] /\ HistoryShape(history)
                  /\ AllApproved /\ Rooted /\ Chained /\ Counted
BY DEF ChoiceInv, HistoryShape, AllApproved, Rooted, Chained, Counted, Before

LEMMA ChoicesByNameNext ==
    ChoiceInv' <=> /\ review' \in [File -> Choice] /\ HistoryShape(history')
                   /\ AllApproved' /\ Rooted' /\ Chained' /\ Counted'
BY DEF ChoiceInv, HistoryShape, AllApproved, Rooted, Chained, Counted, Before

LEMMA NoChoiceIsChoice == NoChoice \in Choice /\ NoChoice.op = 0 /\ NoChoice.state # "plan"
BY DEF NoChoice, Choice

\* A decision that takes the place of the review's forgets it.
LEMMA ForgettingKeepsChoices ==
    ASSUME ChoiceInv, UNCHANGED <<history, agreed>>, NEW forget,
           review' = [f \in File |-> IF f \in forget THEN NoChoice ELSE review[f]]
    PROVE  ChoiceInv'
<1>0. /\ review \in [File -> Choice] /\ HistoryShape(history)
      /\ AllApproved /\ Rooted /\ Chained /\ Counted
  BY ChoicesByName
<1>1. review' \in [File -> Choice] /\ \A f \in File : review'[f] = NoChoice \/ review'[f] = review[f]
  BY <1>0, NoChoiceIsChoice
<1>2. HistoryShape(history')
  BY <1>0
<1>3. AllApproved'
  BY <1>0, <1>1, NoChoiceIsChoice DEF AllApproved, Approved, Before
<1>4. Rooted'
  BY <1>0, <1>1, NoChoiceIsChoice DEF Rooted, Stands, Before
<1>5. Chained'
  <2> SUFFICES ASSUME NEW i \in 1..Len(history), NEW j \in 1..Len(history), NEW f \in File,
                      Stems(i, f, j)
               PROVE  /\ j < i /\ Stands(j) /\ f \in DOMAIN Before(j)
                      /\ review'[f].op # j
                      /\ \A k \in 1..Len(history) : Stems(k, f, j) => k = i
    BY DEF Chained, Stems, Stands, Before
  <2>1. /\ j < i /\ Stands(j) /\ f \in DOMAIN Before(j) /\ review[f].op # j
        /\ \A k \in 1..Len(history) : Stems(k, f, j) => k = i
    BY <1>0 DEF Chained
  <2>2. j # 0
    OBVIOUS
  <2> QED
    BY <2>1, <2>2, <1>1, NoChoiceIsChoice
<1>6. Counted'
  BY <1>0 DEF Counted, Before
<1> QED
  BY <1>1, <1>2, <1>3, <1>4, <1>5, <1>6, ChoicesByNameNext

LEMMA ChoicesStay ==
    ASSUME ChoiceInv, UNCHANGED <<review, history, agreed>>
    PROVE  ChoiceInv'
<1>0. /\ review \in [File -> Choice] /\ HistoryShape(history)
      /\ AllApproved /\ Rooted /\ Chained /\ Counted
  BY ChoicesByName
<1>1. AllApproved'
  BY <1>0 DEF AllApproved, Approved, Before
<1>2. Rooted'
  BY <1>0 DEF Rooted, Stands, Before
<1>3. Chained'
  BY <1>0 DEF Chained, Stems, Stands, Before
<1>4. Counted'
  BY <1>0 DEF Counted, Before
<1> QED
  BY <1>0, <1>1, <1>2, <1>3, <1>4, ChoicesByNameNext

LEMMA SeenIsEvidence ==
    ASSUME FileInv, FamInv, NEW G
    PROVE  Seen(G) \in SUBSET Evidence
<1>1. \A m \in Rows(G) : m \in File /\ fam.role[m] \in Role /\ pic[m] \in Pictures
  BY DEF Rows, FileInv, FamInv, Family
<1>2. ASSUME NEW m \in Rows(G)
      PROVE  [file |-> m, keeper |-> m = KeepsFile(G), role |-> fam.role[m], pic |-> pic[m]] \in Evidence
  <2>1. (m = KeepsFile(G)) \in BOOLEAN
    OBVIOUS
  <2> HIDE DEF KeepsFile
  <2> QED
    BY <1>1, <2>1 DEF Evidence
<1> QED
  BY <1>2 DEF Seen

\* A choice saved: its entry is the youngest, and what it remembers of each
\* file is the choice that stood.
LEMMA SavingKeepsChoices ==
    ASSUME FileInv, FamInv, ChoiceInv, NEW gs, NEW state \in {"plan", "keep", "defer"},
           save_review(gs, state)
    PROVE  ChoiceInv'
<1>0. /\ review \in [File -> Choice] /\ HistoryShape(history)
      /\ AllApproved /\ Rooted /\ Chained /\ Counted
  BY ChoicesByName
<1> DEFINE files == UNION {Rows(G) : G \in gs}
           about(f) == CHOOSE G \in gs : f \in G
           said(f) == [state |-> state, op |-> Len(history) + 1, seen |-> Seen(about(f))]
           was == [f \in files |-> review[f]]
           entry == [before |-> was, undone |-> FALSE]
<1>1. PICK n \in Nat : n = Len(history)
  BY <1>0 DEF HistoryShape
<1>2. /\ TokenHolds(gs)
      /\ history' = Append(history, entry)
      /\ review' = [f \in File |-> IF f \in files THEN said(f) ELSE review[f]]
      /\ agreed' = agreed \cup (IF state = "plan" THEN {t.seen : t \in page.tokens} ELSE {})
  BY DEF save_review
<1>3. files \in SUBSET File
  BY DEF Rows, FileInv
<1>4. entry \in Entries
  <2>1. was \in [files -> Choice]
    BY <1>0, <1>3
  <2>2. was \in UNION {[D -> Choice] : D \in SUBSET File}
    BY <2>1, <1>3
  <2> HIDE DEF was
  <2> QED
    BY <2>2 DEF Entries
<1>5. /\ history \in Seq(Entries) /\ history' \in Seq(Entries) /\ Len(history') = n + 1
      /\ \A i \in 1..n : history'[i] = history[i]
      /\ history'[n + 1] = entry
  <2>1. history \in Seq(Entries)
    BY <1>0, HistoryIsSequence
  <2> HIDE DEF entry
  <2> QED
    BY <2>1, <1>1, <1>2, <1>4
<1>6. /\ \A i \in 1..n : Before(i)' = Before(i) /\ (Stands(i)' <=> Stands(i))
      /\ Before(n + 1)' = was /\ Stands(n + 1)'
      /\ \A i : Stands(i)' => i \in 1..(n + 1)
  <2>1. entry.before = was /\ entry.undone = FALSE
    OBVIOUS
  <2>2. \A i \in 1..n : Before(i)' = Before(i) /\ (Stands(i)' <=> Stands(i))
    <3> HIDE DEF entry
    <3> QED
      BY <1>1, <1>5 DEF Before, Stands
  <2>3. Before(n + 1)' = was /\ Stands(n + 1)'
    <3> HIDE DEF entry, was
    <3> QED
      BY <1>1, <1>5, <2>1 DEF Before, Stands
  <2> QED
    BY <2>2, <2>3, <1>5 DEF Stands
<1>7. ASSUME NEW f \in files
      PROVE  /\ review'[f] \in Choice /\ review'[f].op = n + 1 /\ review'[f].state = state
             /\ state = "plan" => review'[f].seen \in agreed'
  <2>1. f \in File
    BY <1>3
  <2>2. review'[f] = said(f)
    BY <1>2, <2>1
  <2>3. Seen(about(f)) \in SUBSET Evidence
    BY SeenIsEvidence
  <2>4. about(f) \in gs
    <3>1. \E G \in gs : f \in G
      BY DEF Rows
    <3> QED
      BY <3>1
  <2>5. state = "plan" => Seen(about(f)) \in agreed'
    <3> SUFFICES ASSUME state = "plan"
                 PROVE  Seen(about(f)) \in agreed'
      OBVIOUS
    <3> HIDE DEF about
    <3>1. Token(about(f)) \in page.tokens
      BY <2>4, <1>2 DEF TokenHolds
    <3>2. Token(about(f)).seen = Seen(about(f))
      BY DEF Token
    <3> QED
      BY <3>1, <3>2, <1>2
  <2> HIDE DEF about
  <2>6. /\ said(f) \in Choice /\ said(f).op = n + 1 /\ said(f).state = state
        /\ said(f).seen = Seen(about(f))
    BY <2>3, <1>1 DEF Choice
  <2> HIDE DEF said
  <2> QED
    BY <2>2, <2>5, <2>6
<1>8. \A f \in File \ files : review'[f] = review[f]
  BY <1>2
<1>9. \A f \in files : was[f] = review[f]
  OBVIOUS
<1>10. DOMAIN was = files
  OBVIOUS
<1>11. review' \in [File -> Choice]
  <2>1. \A f \in File : review'[f] \in Choice
    BY <1>7, <1>8, <1>0
  <2>2. DOMAIN review' = File /\ review' = [f \in File |-> review'[f]]
    BY <1>2
  <2> QED
    BY <2>1, <2>2
<1> HIDE DEF was, entry, files
<1>12. HistoryShape(history')
  BY <1>5, HistoryIsSequence
<1>13. AllApproved'
  <2>1. agreed \subseteq agreed'
    BY <1>2
  <2>2. \A c : Approved(c) => Approved(c)'
    BY <2>1 DEF Approved
  <2>3. \A f \in File : Approved(review[f])
    BY <1>0 DEF AllApproved
  <2>4. ASSUME NEW f \in File
        PROVE  review'[f].state = "plan" => review'[f].seen \in agreed'
    <3>1. CASE f \in files
      BY <3>1, <1>7
    <3>2. CASE f \notin files
      BY <3>2, <1>8, <2>3, <2>1 DEF Approved
    <3> QED
      BY <3>1, <3>2
  <2>5. ASSUME NEW i \in 1..n, NEW f \in DOMAIN Before(i)
        PROVE  Approved(Before(i)[f])'
    <3>1. Approved(Before(i)[f])
      BY <1>0, <1>1 DEF AllApproved
    <3> QED
      BY <3>1, <2>1, <1>6 DEF Approved
  <2>6. ASSUME NEW f \in files
        PROVE  was[f].state = "plan" => was[f].seen \in agreed'
    BY <1>3, <1>9, <2>3, <2>1 DEF Approved
  <2>7. \A i \in 1..(n + 1) : i \in 1..n \/ i = n + 1
    OBVIOUS
  <2>8. ASSUME NEW i \in 1..Len(history)', NEW f \in DOMAIN Before(i)'
        PROVE  Approved(Before(i)[f])'
    <3>1. CASE i \in 1..n
      BY <3>1, <2>5, <1>6
    <3>2. CASE i = n + 1
      BY <3>2, <2>6, <1>6, <1>10 DEF Approved
    <3> QED
      BY <3>1, <3>2, <2>7, <1>5
  <2> QED
    BY <2>4, <2>8 DEF AllApproved, Approved
<1>14. Rooted'
  <2> SUFFICES ASSUME NEW f \in File, review'[f].op # 0
               PROVE  Stands(review[f].op)' /\ f \in DOMAIN Before(review[f].op)'
    BY DEF Rooted
  <2>1. CASE f \in files
    <3>1. review'[f].op = n + 1
      BY <2>1, <1>7
    <3> QED
      BY <3>1, <2>1, <1>6, <1>10
  <2>2. CASE f \notin files
    <3>1. review'[f].op = review[f].op
      BY <2>2, <1>8
    <3>2. Stands(review[f].op) /\ f \in DOMAIN Before(review[f].op)
      BY <3>1, <1>0 DEF Rooted
    <3>3. review[f].op \in 1..n
      BY <3>2, <1>1 DEF Stands
    <3> QED
      BY <3>1, <3>2, <3>3, <1>6
  <2> QED
    BY <2>1, <2>2
<1>15. Chained'
  <2> SUFFICES ASSUME NEW i \in 1..(n + 1), NEW j \in 1..(n + 1), NEW f \in File,
                      Stems(i, f, j)'
               PROVE  /\ j < i /\ Stands(j)' /\ f \in DOMAIN Before(j)'
                      /\ review'[f].op # j
                      /\ \A k \in 1..(n + 1) : Stems(k, f, j)' => k = i
    BY <1>5 DEF Chained
  <2>1. \A k \in 1..n : \A l : Stems(k, f, l)' <=> Stems(k, f, l)
    BY <1>6 DEF Stems
  <2>2. \A l : Stems(n + 1, f, l)' <=> f \in files /\ review[f].op = l
    BY <1>6, <1>9, <1>10 DEF Stems
  <2>3. review[f].op # 0 => review[f].op \in 1..n /\ Stands(review[f].op)
                            /\ f \in DOMAIN Before(review[f].op)
    BY <1>0, <1>1 DEF Rooted, Stands
  <2>4. \A k \in 1..n, l \in 1..n : Stems(k, f, l) =>
           /\ l < k /\ Stands(l) /\ f \in DOMAIN Before(l) /\ review[f].op # l
           /\ \A q \in 1..n : Stems(q, f, l) => q = k
    BY <1>0, <1>1 DEF Chained
  <2>5. \A k \in 1..n : \A l : Stems(k, f, l) => l \in 0..n
    BY <1>0, <1>1 DEF Counted, Stems
  <2>6. j # 0 /\ \A k \in 1..(n + 1) : k \in 1..n \/ k = n + 1
    OBVIOUS
  <2>7. CASE i = n + 1
    <3>1. f \in files /\ review[f].op = j
      BY <2>7, <2>2
    <3>2. j \in 1..n /\ Stands(j) /\ f \in DOMAIN Before(j)
      BY <3>1, <2>3, <2>6
    <3>3. j < i /\ Stands(j)' /\ f \in DOMAIN Before(j)'
      BY <3>2, <2>7, <1>6
    <3>4. review'[f].op # j
      BY <3>1, <3>2, <1>7
    <3>5. \A k \in 1..n : ~Stems(k, f, j)
      BY <3>1, <3>2, <2>4
    <3> QED
      BY <3>3, <3>4, <3>5, <2>1, <2>6, <2>7
  <2>8. CASE i \in 1..n
    <3>1. Stems(i, f, j)
      BY <2>8, <2>1
    <3>2. j \in 1..n
      BY <3>1, <2>8, <2>5, <2>6
    <3>3. /\ j < i /\ Stands(j) /\ f \in DOMAIN Before(j) /\ review[f].op # j
          /\ \A q \in 1..n : Stems(q, f, j) => q = i
      BY <3>1, <3>2, <2>4, <2>8
    <3>4. j < i /\ Stands(j)' /\ f \in DOMAIN Before(j)'
      BY <3>2, <3>3, <1>6
    <3>5. review'[f].op # j
      <4>1. CASE f \in files
        BY <4>1, <3>2, <1>7
      <4>2. CASE f \notin files
        BY <4>2, <3>3, <1>8
      <4> QED
        BY <4>1, <4>2
    <3>6. ~Stems(n + 1, f, j)'
      BY <2>2, <3>3
    <3> QED
      BY <3>3, <3>4, <3>5, <3>6, <2>1, <2>6
  <2> QED
    BY <2>6, <2>7, <2>8
<1>16. Counted'
  <2> SUFFICES ASSUME NEW i \in 1..(n + 1), NEW f \in DOMAIN Before(i)'
               PROVE  Before(i)'[f].op \in 0..(n + 1)
    BY <1>5 DEF Counted
  <2>1. CASE i \in 1..n
    BY <2>1, <1>0, <1>1, <1>6 DEF Counted
  <2>2. CASE i = n + 1
    <3>1. f \in files /\ Before(i)'[f] = review[f]
      BY <2>2, <1>6, <1>9, <1>10
    <3>2. review[f].op = 0 \/ review[f].op \in 1..n
      BY <3>1, <1>3, <1>0, <1>1 DEF Rooted, Stands
    <3> QED
      BY <3>1, <3>2
  <2> QED
    BY <2>1, <2>2
<1> QED
  BY <1>11, <1>12, <1>13, <1>14, <1>15, <1>16, ChoicesByNameNext

\* A choice undone: what each of its files had before comes back, and that
\* is never a choice of an entry undone already.
LEMMA UndoingKeepsChoices ==
    ASSUME ChoiceInv, NEW op \in 1..Len(history), undo_review(op)
    PROVE  ChoiceInv'
<1>0. /\ review \in [File -> Choice] /\ HistoryShape(history)
      /\ AllApproved /\ Rooted /\ Chained /\ Counted
  BY ChoicesByName
<1>1. PICK n \in Nat : n = Len(history)
  BY <1>0 DEF HistoryShape
<1>2. PICK D \in SUBSET File : Before(op) \in [D -> Choice]
  BY <1>0 DEF HistoryShape, Before
<1>3. /\ Stands(op)
      /\ \A f \in D : review[f].op = op
      /\ review' = [f \in File |-> IF f \in D THEN Before(op)[f] ELSE review[f]]
      /\ history' = [history EXCEPT ![op].undone = TRUE]
      /\ agreed' = agreed
  <2>1. history[op].before = Before(op) /\ DOMAIN Before(op) = D
    BY <1>2 DEF Before
  <2>2. Stands(op)
    BY DEF undo_review, Stands
  <2>3. \A f \in D : review[f].op = op
    BY <2>1 DEF undo_review, Undoable
  <2>4. review' = [f \in File |-> IF f \in DOMAIN history[op].before
                                  THEN history[op].before[f] ELSE review[f]]
    BY DEF undo_review
  <2>5. history' = [history EXCEPT ![op].undone = TRUE] /\ agreed' = agreed
    BY DEF undo_review, Screens
  <2> HIDE DEF Before
  <2> QED
    BY <2>1, <2>2, <2>3, <2>4, <2>5
<1>4. history \in Seq(Entries)
  BY <1>0, HistoryIsSequence
<1>5. PICK e : e = [history[op] EXCEPT !.undone = TRUE]
  OBVIOUS
<1>6. e \in Entries /\ e.before = Before(op) /\ e.undone = TRUE
  <2>1. history[op] \in Entries
    BY <1>4
  <2>2. \A x \in Entries : /\ [x EXCEPT !.undone = TRUE] \in Entries
                           /\ [x EXCEPT !.undone = TRUE].before = x.before
                           /\ [x EXCEPT !.undone = TRUE].undone = TRUE
    BY DEF Entries
  <2> QED
    BY <2>1, <2>2, <1>5 DEF Before
<1>7. /\ history' \in Seq(Entries) /\ Len(history') = n
      /\ history'[op] = e /\ \A i \in 1..n : i # op => history'[i] = history[i]
  <2>1. history' = [history EXCEPT ![op] = e]
    BY <1>3, <1>5
  <2> QED
    BY <2>1, <1>1, <1>4, <1>6
<1>8. \A i \in 1..n : Before(i)' = Before(i) /\ (Stands(i)' <=> Stands(i) /\ i # op)
  <2> SUFFICES ASSUME NEW i \in 1..n
               PROVE  Before(i)' = Before(i) /\ (Stands(i)' <=> Stands(i) /\ i # op)
    OBVIOUS
  <2>1. CASE i = op
    BY <2>1, <1>6, <1>7 DEF Before, Stands
  <2>2. CASE i # op
    BY <2>2, <1>1, <1>7 DEF Before, Stands
  <2> QED
    BY <2>1, <2>2
<1>9. \A f \in File : (f \in D => review'[f] = Before(op)[f]) /\ (f \notin D => review'[f] = review[f])
  BY <1>3
<1>10. DOMAIN Before(op) = D /\ \A f \in D : Before(op)[f] \in Choice
  BY <1>2
<1>11. \A k \in 1..n, l \in 1..n, f \in File : Stems(k, f, l) =>
           /\ l < k /\ Stands(l) /\ f \in DOMAIN Before(l) /\ review[f].op # l
           /\ \A q \in 1..n : Stems(q, f, l) => q = k
  BY <1>0, <1>1 DEF Chained
<1>12. \A f \in D : Before(op)[f].op # 0 => Before(op)[f].op \in 1..n /\ Stems(op, f, Before(op)[f].op)
  BY <1>0, <1>1, <1>3, <1>10 DEF Counted, Stems
<1>13. \A k \in 1..n : \A f, l : Stems(k, f, l)' <=> Stems(k, f, l) /\ k # op
  BY <1>8 DEF Stems
<1>14. \A f \in File : review[f].op # 0 =>
          review[f].op \in 1..n /\ Stands(review[f].op) /\ f \in DOMAIN Before(review[f].op)
  BY <1>0, <1>1 DEF Rooted, Stands
<1>15. review' \in [File -> Choice]
  <2>1. \A f \in File : review'[f] \in Choice
    BY <1>9, <1>10, <1>0
  <2>2. DOMAIN review' = File /\ review' = [f \in File |-> review'[f]]
    BY <1>3
  <2> QED
    BY <2>1, <2>2
<1>16. HistoryShape(history')
  BY <1>7, HistoryIsSequence
<1>17. AllApproved'
  <2>1. \A f \in File : Approved(review'[f])
    BY <1>0, <1>1, <1>9, <1>10 DEF AllApproved
  <2>2. \A i \in 1..n : \A f \in DOMAIN Before(i) : Approved(Before(i)[f])
    BY <1>0, <1>1 DEF AllApproved
  <2> QED
    BY <2>1, <2>2, <1>3, <1>7, <1>8 DEF AllApproved, Approved
<1>18. Rooted'
  <2> SUFFICES ASSUME NEW f \in File, review'[f].op # 0
               PROVE  Stands(review[f].op)' /\ f \in DOMAIN Before(review[f].op)'
    BY DEF Rooted
  <2>1. CASE f \in D
    <3>1. PICK j : j = Before(op)[f].op
      OBVIOUS
    <3>2. review'[f].op = j /\ j \in 1..n /\ Stems(op, f, j)
      BY <2>1, <3>1, <1>9, <1>12
    <3>3. j < op /\ Stands(j) /\ f \in DOMAIN Before(j)
      BY <3>2, <1>1, <1>11
    <3> QED
      BY <3>2, <3>3, <1>8
  <2>2. CASE f \notin D
    <3>1. PICK j : j = review[f].op
      OBVIOUS
    <3>2. review'[f].op = j /\ j \in 1..n /\ Stands(j) /\ f \in DOMAIN Before(j)
      BY <2>2, <3>1, <1>9, <1>14
    <3>3. j # op
      BY <3>2, <2>2, <1>10
    <3> QED
      BY <3>2, <3>3, <1>8
  <2> QED
    BY <2>1, <2>2
<1>19. Chained'
  <2> SUFFICES ASSUME NEW i \in 1..n, NEW j \in 1..n, NEW f \in File, Stems(i, f, j)'
               PROVE  /\ j < i /\ Stands(j)' /\ f \in DOMAIN Before(j)'
                      /\ review'[f].op # j
                      /\ \A k \in 1..n : Stems(k, f, j)' => k = i
    BY <1>7 DEF Chained
  <2>1. Stems(i, f, j) /\ i # op
    BY <1>13
  <2>2. /\ j < i /\ Stands(j) /\ f \in DOMAIN Before(j) /\ review[f].op # j
        /\ \A q \in 1..n : Stems(q, f, j) => q = i
    BY <2>1, <1>11
  <2>3. j # op
    BY <2>2, <1>3, <1>10
  <2>4. review'[f].op # j
    <3>1. CASE f \in D
      <4>1. ~Stems(op, f, j)
        BY <2>1, <2>2, <1>1
      <4>2. Before(op)[f].op # j
        BY <4>1, <3>1, <1>12
      <4> QED
        BY <4>2, <3>1, <1>9
    <3>2. CASE f \notin D
      BY <3>2, <2>2, <1>9
    <3> QED
      BY <3>1, <3>2
  <2>5. \A k \in 1..n : Stems(k, f, j)' => k = i
    BY <2>2, <1>13
  <2> QED
    BY <2>2, <2>3, <2>4, <2>5, <1>8
<1>20. Counted'
  BY <1>0, <1>1, <1>7, <1>8 DEF Counted
<1> QED
  BY <1>15, <1>16, <1>17, <1>18, <1>19, <1>20, ChoicesByNameNext

(* -------------------------------- the plan ----------------------------- *)
LEMMA GroupsOfFiles ==
    ASSUME FileInv, FamInv
    PROVE  /\ \A G \in Groups : G \in SUBSET File /\ G # {}
           /\ \A G \in Groups : \A f \in G : f \in File /\ fam.group[f] = G
           /\ \A f \in File : fam.group[f] # {} => f \in fam.group[f] /\ fam.group[f] \in Groups
<1>1. /\ fam.group \in [File -> SUBSET File]
      /\ \A f \in File : fam.group[f] = {} \/ f \in fam.group[f]
      /\ \A f \in File : \A g \in fam.group[f] : fam.group[g] = fam.group[f]
  BY DEF FamInv, Family, Whole
<1>2. \A G : G \in Groups <=> G # {} /\ \E f \in File : G = fam.group[f]
  BY DEF Groups
<1> QED
  BY <1>1, <1>2

\* A plan keeps one of the files that are there.
LEMMA PlanKeeperIsThere ==
    ASSUME FileInv, NEW G, Rows(G) # {}
    PROVE  PlanKeeper(G) \in Rows(G)
<1>1. Rows(G) \in SUBSET File
  BY DEF Rows, FileInv
<1> QED
  BY <1>1, BestIsOneOfThem DEF PlanKeeper

\* What the plan names, before anything is taken back: files at home, each
\* with the file its group keeps or with none.
AllOf(req) ==
    LET auto == UNION {Automatic(req, G) : G \in {H \in Groups : Rows(H) # {}}}
    IN auto \cup ByHand(req, {c.file : c \in auto})

LEMMA PlanNames ==
    ASSUME FileInv, FamInv, NEW req, NEW c \in AllOf(req)
    PROVE  /\ c \in Planned /\ c.file \in present /\ c.keeper # c.file
           /\ c.keeper # 0 => /\ c.file \in fam.group[c.file]
                              /\ c.keeper \in Rows(fam.group[c.file])
<1>1. present \subseteq File /\ \A m \in File : fam.role[m] \in Role
  BY DEF FileInv, FamInv, Family
<1> DEFINE auto == UNION {Automatic(req, G) : G \in {H \in Groups : Rows(H) # {}}}
<1>2. CASE c \in auto
  <2>1. PICK G \in Groups : Rows(G) # {} /\ c \in Automatic(req, G)
    BY <1>2
  <2>2. PICK k : k = PlanKeeper(G)
    OBVIOUS
  <2>3. k \in Rows(G) /\ Rows(G) \subseteq G /\ Rows(G) \subseteq present
    BY <2>1, <2>2, PlanKeeperIsThere DEF Rows
  <2>4. PICK m \in Rows(G) \ {k} : c = [file |-> m, keeper |-> k, role |-> fam.role[m]]
    BY <2>1, <2>2 DEF Automatic
  <2>5. m \in File /\ k \in File
    BY <2>3, <2>4, <1>1
  <2>6. c.file = m /\ c.keeper = k /\ c \in Planned
    BY <2>4, <2>5, <1>1 DEF Planned
  <2>7. m \in G /\ fam.group[m] = G
    BY <2>3, <2>4, GroupsOfFiles
  <2> QED
    BY <2>3, <2>4, <2>6, <2>7
<1>3. CASE c \notin auto
  <2>1. c \in ByHand(req, {d.file : d \in auto})
    BY <1>3 DEF AllOf
  <2>2. PICK m \in RejectedRows : c = [file |-> m, keeper |-> 0, role |-> "unknown"]
    BY <2>1 DEF ByHand
  <2>3. m \in present /\ m \in File
    BY <1>1 DEF RejectedRows
  <2>4. c \in Planned /\ c.file = m /\ c.keeper = 0
    BY <2>2, <2>3 DEF Planned, Role
  <2> QED
    BY <2>3, <2>4, FileIsNotZero
<1> QED
  BY <1>2, <1>3

LEMMA PlanIsSmaller ==
    ASSUME NEW req \in Requests
    PROVE  /\ MakePreview(req) \subseteq Compute(req)
           /\ Compute(req) \subseteq BeforeReview(req)
           /\ BeforeReview(req) \subseteq AllOf(req)
           /\ BeforeReview(req) = AllOf(req) \ UNION {Rescued(AllOf(req), G) : G \in Groups}
<1>1. Compute(req) \subseteq BeforeReview(req)
  BY DEF Compute
<1>2. BeforeReview(req) = AllOf(req) \ UNION {Rescued(AllOf(req), G) : G \in Groups}
  BY DEF BeforeReview, AllOf
<1>3. MakePreview(req) \subseteq Compute(req)
  <2>1. ReviewedPlan(req) \subseteq Compute(req)
    BY DEF ReviewedPlan
  <2> DEFINE K(c) == IF c.keeper # 0 THEN c.keeper ELSE GroupKeeper(c.file)
             marked == {c \in Compute(req) : K(c) # 0 /\ Dir[K(c)] \in marks}
  <2>2. MakePreview(req) = CASE req.scope = "all"      -> Compute(req)
                             [] req.scope = "reviewed" -> ReviewedPlan(req)
                             [] req.scope = "marked"   -> marked
    BY DEF MakePreview
  <2>3. marked \subseteq Compute(req)
    OBVIOUS
  <2> HIDE DEF marked
  <2> QED
    BY <2>1, <2>2, <2>3, RequestAssumption
<1> QED
  BY <1>1, <1>2, <1>3

\* A plan leaves a file of every group that has one.
LEMMA PlanSpares ==
    ASSUME FileInv, FamInv, NEW req \in Requests, NEW G \in Groups, Rows(G) # {}
    PROVE  Rows(G) \ {c.file : c \in MakePreview(req)} # {}
<1> SUFFICES ASSUME Rows(G) \subseteq {c.file : c \in MakePreview(req)}
             PROVE  FALSE
  OBVIOUS
<1> DEFINE all == AllOf(req)
           taken == {c \in all : c.file \in G}
           files == {c.file : c \in taken}
           stays == IF PlanKeeper(G) \in files THEN PlanKeeper(G) ELSE Best(files)
<1>1. \A c \in all : c.file \in present
  BY PlanNames
<1>2. MakePreview(req) \subseteq all
  BY PlanIsSmaller
<1>3. Rows(G) = G \cap present
  BY DEF Rows
<1> HIDE DEF all
<1>4. Rows(G) \subseteq files /\ files \subseteq Rows(G)
  BY <1>1, <1>2, <1>3
<1>5. files \in SUBSET File /\ files # {}
  BY <1>4, <1>3 DEF FileInv
<1>6. stays \in files
  <2> HIDE DEF files
  <2> QED
    BY <1>5, BestIsOneOfThem
<1>7. Rescued(all, G) = {c \in taken : c.file = stays}
  BY <1>4 DEF Rescued
<1>8. stays \in Rows(G)
  <2> HIDE DEF files, stays
  <2> QED
    BY <1>4, <1>6
<1> HIDE DEF stays
<1>9. PICK c \in MakePreview(req) : c.file = stays
  BY <1>8
<1>10. c \in taken
  BY <1>2, <1>3, <1>8, <1>9
<1>11. c \in Rescued(all, G)
  BY <1>7, <1>9, <1>10
<1>12. c \notin UNION {Rescued(all, H) : H \in Groups}
  BY PlanIsSmaller DEF all
<1> QED
  BY <1>11, <1>12

(* -------------------------------- the steps ---------------------------- *)
LEMMA FilesStay ==
    ASSUME FileInv, UNCHANGED <<now, present, pic>>
    PROVE  FileInv'
BY DEF FileInv

LEMMA FamiliesStay ==
    ASSUME FamInv, UNCHANGED fam
    PROVE  FamInv'
BY DEF FamInv

LEMMA NoRun ==
    ASSUME job'.phase # "move"
    PROVE  RunInv'
BY DEF RunInv

LEMMA RunStays ==
    ASSUME RunInv, UNCHANGED <<now, job, present, fam>>
    PROVE  RunInv'
BY DEF RunInv, HeldPair, KeeperStands, Spared, Leaving, Rows

LEMMA RunRests ==
    ASSUME RunInv, UNCHANGED <<job, present, fam>>,
           job.cur.keeper # 0 /\ job.cur.asked /\ ~job.cur.late =>
              <<job.cur.keeper, now'[job.cur.keeper]>> \in job.cur.was
    PROVE  RunInv'
BY DEF RunInv, HeldPair, KeeperStands, Spared, Leaving, Rows

\* A run that goes on with what it compared, asked or written to.
LEMMA RunGoesOn ==
    ASSUME RunInv, job.phase = "move", UNCHANGED <<present, fam>>, NEW cur \in Compared,
           cur.file = job.cur.file, cur.keeper = job.cur.keeper, cur.was = job.cur.was,
           job' = [job EXCEPT !.cur = cur],
           cur.keeper # 0 /\ cur.asked /\ ~cur.late => <<cur.keeper, now'[cur.keeper]>> \in cur.was
    PROVE  RunInv'
<1>1. PICK left, old : left = job.left /\ old = job.cur
  OBVIOUS
<1>2. /\ job = [phase |-> "move", left |-> left, cur |-> old]
      /\ left \in SUBSET Planned /\ \A e \in left : e.keeper # e.file
      /\ old.keeper # 0 => HeldPair(old)
      /\ \A f \in File : Spared(fam.group[f])
  BY <1>1 DEF RunInv
<1>3. job' \in [phase : {"move"}, left : {left}, cur : {cur}]
  <2>1. job \in [phase : {"move"}, left : {left}, cur : {old}]
    BY <1>2
  <2> QED
    BY <2>1
<1>4. job'.phase = "move" /\ job'.left = left /\ job'.cur = cur
      /\ job' = [phase |-> "move", left |-> job'.left, cur |-> job'.cur]
  BY <1>3
<1>5. cur.keeper # 0 => HeldPair(cur)'
  BY <1>1, <1>2 DEF HeldPair
<1>6. Leaving' = Leaving
  BY <1>1, <1>4 DEF Leaving
<1>7. \A f \in File : Spared(fam.group[f])'
  BY <1>2, <1>6 DEF Spared, Rows
<1>8. cur.keeper # 0 /\ cur.asked /\ ~cur.late => KeeperStands(cur)'
  BY DEF KeeperStands
<1> QED
  BY <1>2, <1>4, <1>5, <1>7, <1>8 DEF RunInv

LEMMA PressKeeps ==
    ASSUME GroupsInv, NEW pick, NEW aside, NEW forget, Press(pick, aside, forget)
    PROVE  GroupsInv'
<1>0. FileInv /\ FamInv /\ ChoiceInv /\ RunInv
  BY DEF GroupsInv
<1>1. FileInv'
  BY <1>0, FilesStay DEF Press, Files
<1>2. FamInv'
  <2>1. fam' = ReKeep(fam, pick) /\ Family(fam)
    BY <1>0 DEF Press, FamInv
  <2> QED
    BY <2>1, <1>0, ReKeptIsFamily DEF FamInv
<1>3. ChoiceInv'
  BY <1>0, ForgettingKeepsChoices DEF Press, Screens
<1>4. RunInv'
  BY NoRun DEF Press, Pressed, Free, Screens
<1> QED
  BY <1>1, <1>2, <1>3, <1>4 DEF GroupsInv

LEMMA MarkingKeeps ==
    ASSUME GroupsInv, NEW rj, NEW forget, MarkFiles(rj, forget)
    PROVE  GroupsInv'
<1>0. FileInv /\ FamInv /\ ChoiceInv /\ RunInv
  BY DEF GroupsInv
<1>1. FileInv'
  BY <1>0, FilesStay DEF MarkFiles, Files
<1>2. FamInv'
  BY <1>0, FamiliesStay DEF MarkFiles
<1>3. ChoiceInv'
  BY <1>0, ForgettingKeepsChoices DEF MarkFiles, Screens
<1>4. RunInv'
  BY NoRun DEF MarkFiles, Pressed, Free, Screens
<1> QED
  BY <1>1, <1>2, <1>3, <1>4 DEF GroupsInv

\* A step of a stage or of a press that leaves the choices and the files as
\* they are and gives the groups keepers.
LEMMA RegroupingKeeps ==
    ASSUME GroupsInv, UNCHANGED <<now, present, pic, review, history, agreed>>,
           FamInv', job'.phase # "move"
    PROVE  GroupsInv'
BY FilesStay, ChoicesStay, NoRun DEF GroupsInv

LEMMA StagesKeep ==
    ASSUME GroupsInv, Reindex \/ Rebuild \/ Series \/ restore_curation
    PROVE  GroupsInv'
<1>0. FileInv /\ FamInv /\ ChoiceInv /\ RunInv
  BY DEF GroupsInv
<1>f. Family(fam)
  BY <1>0 DEF FamInv
<1>1. CASE Reindex
  <2>1. FileInv'
    <3>1. pic' = [f \in File |-> IF f \in present THEN now[f] ELSE pic[f]] /\ now' = now /\ present' = present
      BY <1>1 DEF Reindex
    <3>2. \A f \in File : now[f] \in Pictures /\ pic[f] \in Pictures
      BY <1>0 DEF FileInv
    <3> QED
      BY <1>0, <3>1, <3>2 DEF FileInv
  <2>2. FamInv' /\ ChoiceInv' /\ RunInv'
    BY <1>0, <1>1, FamiliesStay, ChoicesStay, NoRun DEF Reindex, Free, reviewed
  <2> QED
    BY <2>1, <2>2 DEF GroupsInv
<1>2. CASE Rebuild
  <2>1. fam' = Settled(Bursted(Built), kept, marks).fam /\ job' = [phase |-> "restore"]
        /\ UNCHANGED <<now, present, pic, review, history, agreed>>
    BY <1>2 DEF Rebuild, Files, reviewed
  <2>2. Family(Bursted(Built))
    BY <1>0, BuiltIsFamily, BurstedIsFamily
  <2>3. FamInv'
    BY <2>1, <2>2, <1>0, SettledIsFamily DEF FamInv
  <2>4. job'.phase # "move"
    BY <2>1
  <2> QED
    BY <2>1, <2>3, <2>4, RegroupingKeeps
<1>3. CASE Series
  <2>1. fam' = Bursted(fam) /\ job' = [phase |-> "restore"]
        /\ UNCHANGED <<now, present, pic, review, history, agreed>>
    BY <1>3 DEF Series, Files, reviewed
  <2>2. FamInv'
    BY <2>1, <1>0, <1>f, BurstedIsFamily DEF FamInv
  <2>3. job'.phase # "move"
    BY <2>1
  <2> QED
    BY <2>1, <2>2, <2>3, RegroupingKeeps
<1>4. CASE restore_curation
  <2> DEFINE d(f) == Decided(kept, fam.group[f])
             K == [f \in File |-> IF d(f) # 0 THEN d(f) ELSE fam.keeper[f]]
             fm == [fam EXCEPT !.keeper = K]
  <2>1. fam' = Settled(fm, kept, marks).fam /\ job' = Idle
        /\ UNCHANGED <<now, present, pic, review, history, agreed>>
    BY <1>4 DEF restore_curation, Files, reviewed
  <2>2. Family(fm)
    <3> HIDE DEF K
    <3>1. fam = [group |-> fam.group, keeper |-> fam.keeper, role |-> fam.role]
          /\ Whole(fam.group) /\ fam.role \in [File -> Role]
      BY <1>f DEF Family
    <3>2. fam \in [group : {fam.group}, keeper : {fam.keeper}, role : {fam.role}]
      BY <3>1
    <3>3. fm \in [group : {fam.group}, keeper : {K}, role : {fam.role}]
      BY <3>2
    <3> HIDE DEF fm
    <3>4. fm = [group |-> fm.group, keeper |-> fm.keeper, role |-> fm.role]
          /\ fm.group = fam.group /\ fm.role = fam.role
      BY <3>3
    <3> QED
      BY <3>1, <3>4 DEF Family
  <2> HIDE DEF fm
  <2>3. FamInv'
    BY <2>1, <2>2, <1>0, SettledIsFamily DEF FamInv
  <2>4. job'.phase # "move"
    BY <2>1 DEF Idle
  <2> QED
    BY <2>1, <2>3, <2>4, RegroupingKeeps
<1> QED
  BY <1>1, <1>2, <1>3, <1>4

LEMMA MarkedFoldersKeep ==
    ASSUME GroupsInv, NEW d, NEW mk, set_original_folder(d, mk)
    PROVE  GroupsInv'
<1>0. FileInv /\ Family(fam)
  BY DEF GroupsInv, FamInv
<1>1. fam' = Settled(fam, kept, mk).fam
      /\ UNCHANGED <<now, present, pic, review, history, agreed>> /\ job'.phase # "move"
  BY DEF set_original_folder, Files, Screens, Pressed, Free
<1>2. FamInv'
  BY <1>0, <1>1, SettledIsFamily DEF FamInv
<1> QED
  BY <1>1, <1>2, RegroupingKeeps

LEMMA SplittingKeeps ==
    ASSUME GroupsInv, NEW f \in File, split_family(f)
    PROVE  GroupsInv'
<1>1. FamInv'
  BY SplitIsFamily DEF GroupsInv
<1>2. UNCHANGED <<now, present, pic, review, history, agreed>> /\ job'.phase # "move"
  BY DEF split_family, Files, Screens, Pressed, Free
<1> QED
  BY <1>1, <1>2, RegroupingKeeps

LEMMA PressesKeep ==
    ASSUME GroupsInv,
           \/ \E f \in File : keep_only(f) \/ reject(f)
           \/ \E d \in Dirs : keep_folder_only(d) \/ prefer_folder(d)
           \/ \E G \in Groups : keep_all_versions(G)
           \/ \E B \in Bursts : keep_all(B) \/ \E f \in File : reject_rest(B, f)
    PROVE  GroupsInv'
<1>1. ASSUME NEW f \in File, keep_only(f)
      PROVE  GroupsInv'
  BY <1>1, PressKeeps DEF keep_only
<1>2. ASSUME NEW f \in File, reject(f)
      PROVE  GroupsInv'
  BY <1>2, MarkingKeeps DEF reject
<1>3. ASSUME NEW d \in Dirs, keep_folder_only(d)
      PROVE  GroupsInv'
  BY <1>3, PressKeeps DEF keep_folder_only
<1>4. ASSUME NEW d \in Dirs, prefer_folder(d)
      PROVE  GroupsInv'
  BY <1>4, PressKeeps DEF prefer_folder
<1>5. ASSUME NEW G \in Groups, keep_all_versions(G)
      PROVE  GroupsInv'
  BY <1>5, MarkingKeeps DEF keep_all_versions
<1>6. ASSUME NEW B \in Bursts, keep_all(B)
      PROVE  GroupsInv'
  BY <1>6, MarkingKeeps DEF keep_all
<1>7. ASSUME NEW B \in Bursts, NEW f \in File, reject_rest(B, f)
      PROVE  GroupsInv'
  BY <1>7, MarkingKeeps DEF reject_rest
<1> QED
  BY <1>1, <1>2, <1>3, <1>4, <1>5, <1>6, <1>7

LEMMA LookingKeeps ==
    ASSUME GroupsInv, Look
    PROVE  GroupsInv'
<1>1. UNCHANGED <<now, present, pic, fam, review, history, agreed, job>>
  BY DEF Look, Show, Files
<1> QED
  BY <1>1, FilesStay, FamiliesStay, ChoicesStay, RunStays DEF GroupsInv

LEMMA SavingKeeps ==
    ASSUME GroupsInv, NEW gs, NEW state \in {"plan", "keep", "defer"}, save_review(gs, state)
    PROVE  GroupsInv'
<1>1. UNCHANGED <<now, present, pic, fam, job>> /\ job.phase # "move"
  BY DEF save_review, Files, Pressed, Free
<1>2. ChoiceInv'
  BY SavingKeepsChoices DEF GroupsInv
<1> QED
  BY <1>1, <1>2, FilesStay, FamiliesStay, NoRun DEF GroupsInv

LEMMA UndoingKeeps ==
    ASSUME GroupsInv, NEW op \in 1..Len(history), undo_review(op)
    PROVE  GroupsInv'
<1>1. UNCHANGED <<now, present, pic, fam, job>> /\ job.phase # "move"
  BY DEF undo_review, Files, Screens, Free
<1>2. ChoiceInv'
  BY UndoingKeepsChoices DEF GroupsInv
<1> QED
  BY <1>1, <1>2, FilesStay, FamiliesStay, NoRun DEF GroupsInv

LEMMA NoneIsCompared ==
    None \in Compared /\ None.keeper = 0 /\ None.file = 0 /\ ~None.asked
BY DEF None, Compared, Role

LEMMA StartingKeeps ==
    ASSUME GroupsInv, NEW req \in Requests, Start(req)
    PROVE  GroupsInv'
<1>0. FileInv /\ FamInv /\ ChoiceInv
  BY DEF GroupsInv
<1>1. UNCHANGED <<now, present, pic, fam, review, history, agreed>>
      /\ job' = [phase |-> "move", left |-> MakePreview(req), cur |-> None]
  BY DEF Start, Files, reviewed
<1>2. PICK plan : plan = MakePreview(req)
  OBVIOUS
<1>3. /\ job'.phase = "move" /\ job'.left = plan /\ job'.cur = None
      /\ job' = [phase |-> "move", left |-> job'.left, cur |-> job'.cur]
  BY <1>1, <1>2
<1>4. \A c \in plan : c \in Planned /\ c.file # c.keeper
  BY <1>0, <1>2, PlanNames, PlanIsSmaller
<1>5. None \in Compared /\ None.keeper = 0 /\ None.file = 0
  BY NoneIsCompared
<1>6. \A f \in File : Spared(fam.group[f])'
  <2> SUFFICES ASSUME NEW f \in File, Rows(fam.group[f]) # {}
               PROVE  Rows(fam.group[f]) \ ({c.file : c \in plan} \cup {0}) # {}
    BY <1>1, <1>3, <1>5 DEF Spared, Leaving, Rows
  <2>1. fam.group[f] \in Groups
    BY DEF Groups, Rows
  <2>2. Rows(fam.group[f]) \ {c.file : c \in plan} # {}
    BY <2>1, <1>0, <1>2, PlanSpares
  <2>3. 0 \notin Rows(fam.group[f])
    BY <1>0, FileIsNotZero DEF Rows, FileInv
  <2> QED
    BY <2>2, <2>3
<1>7. RunInv'
  BY <1>3, <1>4, <1>5, <1>6 DEF RunInv
<1> QED
  BY <1>0, <1>1, <1>7, FilesStay, FamiliesStay, ChoicesStay DEF GroupsInv

\* The steps of a run leave all but what is at home and the run itself.
LEMMA MovingKeeps ==
    ASSUME GroupsInv, Moving, present' \in SUBSET File, RunInv'
    PROVE  GroupsInv'
<1>1. FileInv'
  BY DEF GroupsInv, FileInv, Moving
<1>2. FamInv' /\ ChoiceInv'
  BY FamiliesStay, ChoicesStay DEF GroupsInv, Moving, reviewed
<1> QED
  BY <1>1, <1>2 DEF GroupsInv

LEMMA ComparingKeeps ==
    ASSUME GroupsInv, NEW c \in job.left, Compare(c)
    PROVE  GroupsInv'
<1>0. FileInv /\ RunInv /\ Moving /\ job.phase = "move" /\ fam' = fam /\ present' = present
  BY DEF GroupsInv, Compare, Moving
<1>1. PICK left, cur : left = job.left /\ cur = job.cur /\ cur = None
  BY DEF Compare
<1>2. /\ job = [phase |-> "move", left |-> left, cur |-> cur]
      /\ left \in SUBSET Planned /\ c \in left /\ \A e \in left : e.keeper # e.file
      /\ \A f \in File : Spared(fam.group[f])
  BY <1>0, <1>1 DEF RunInv
<1>3. c.file \in File /\ c.keeper \in File \cup {0} /\ c.role \in Role
  BY <1>2 DEF Planned
<1>4. None \in Compared /\ None.keeper = 0
  BY NoneIsCompared
<1>5. Leaving = {e.file : e \in left} \cup {0}
  BY <1>1 DEF Leaving, None
<1>6. \A f \in File : Rows(fam.group[f]) = Rows(fam.group[f])'
  BY <1>0 DEF Rows
<1>7. 0 \notin present
  BY <1>0, FileIsNotZero DEF FileInv
<1>d. Drop(c) = [phase |-> "move", left |-> left \ {c}, cur |-> cur]
  <2>1. job \in [phase : {"move"}, left : {left}, cur : {cur}]
    BY <1>2
  <2>2. Drop(c) = [job EXCEPT !.left = left \ {c}]
    BY <1>1 DEF Drop
  <2>3. [job EXCEPT !.left = left \ {c}] \in [phase : {"move"}, left : {left \ {c}}, cur : {cur}]
    BY <2>1
  <2> QED
    BY <2>2, <2>3
<1>8. CASE job' = Drop(c)
  <2>1. job'.phase = "move" /\ job'.left = left \ {c} /\ job'.cur = cur
        /\ job' = [phase |-> "move", left |-> job'.left, cur |-> job'.cur]
    BY <1>8, <1>d
  <2>2. Leaving' \subseteq Leaving
    BY <2>1, <1>1 DEF Leaving
  <2>3. \A f \in File : Spared(fam.group[f])'
    BY <2>2, <1>0, <1>2, <1>6 DEF Spared
  <2>4. RunInv'
    BY <2>1, <2>3, <1>1, <1>2, <1>4 DEF RunInv
  <2> QED
    BY <2>4, <1>0, MovingKeeps DEF FileInv
<1>9. CASE job' # Drop(c)
  <2>0. PICK held : held = [file |-> c.file, keeper |-> c.keeper, role |-> c.role, was |-> Now(c),
                             asked |-> FALSE, late |-> FALSE]
    OBVIOUS
  <2>1. /\ c.keeper = 0 \/ (c.keeper \in present /\ SamePicture(now[c.file], now[c.keeper]))
        /\ job' = [Drop(c) EXCEPT !.cur = held]
    BY <1>9, <2>0 DEF Compare
  <2>2. Now(c) \in SUBSET (File \X Pictures)
    BY <1>0 DEF Now, FileInv
  <2>3. held \in Compared /\ held.keeper = c.keeper /\ held.file = c.file /\ held.was = Now(c)
        /\ ~held.asked
    BY <2>0, <2>2, <1>3 DEF Compared
  <2>4. c.keeper # 0 => HeldPair(held)'
    <3> SUFFICES ASSUME c.keeper # 0
                 PROVE  HeldPair(held)'
      OBVIOUS
    <3>1. c.keeper \in present /\ SamePicture(now[c.file], now[c.keeper])
      BY <2>1
    <3>2. c.keeper # c.file
      BY <1>2
    <3>3. c.keeper \in File /\ now[c.file] \in Pictures /\ now[c.keeper] \in Pictures
      BY <3>1, <1>0, <1>3 DEF FileInv
    <3>4. Now(c) = {<<c.file, now[c.file]>>, <<c.keeper, now[c.keeper]>>}
      BY <3>3, <1>3 DEF Now
    <3>5. \E p, q \in Pictures : held.was = {<<c.file, p>>, <<c.keeper, q>>} /\ SamePicture(p, q)
      BY <3>1, <3>3, <3>4, <2>3
    <3> QED
      BY <3>1, <3>2, <3>5, <2>3, <1>0, <1>3 DEF HeldPair
  <2>5. job' \in [phase : {"move"}, left : {left \ {c}}, cur : {held}]
    <3>1. Drop(c) \in [phase : {"move"}, left : {left \ {c}}, cur : {cur}]
      BY <1>d
    <3> HIDE DEF Drop
    <3> QED
      BY <3>1, <2>1
  <2>6. job'.phase = "move" /\ job'.left = left \ {c} /\ job'.cur = held
        /\ job' = [phase |-> "move", left |-> job'.left, cur |-> job'.cur]
    BY <2>5
  <2>7. Leaving' \subseteq Leaving
    <3>1. Leaving' = {e.file : e \in left \ {c}} \cup {c.file}
      BY <2>3, <2>6 DEF Leaving
    <3> QED
      BY <3>1, <1>2, <1>5
  <2>8. \A f \in File : Spared(fam.group[f])'
    BY <2>7, <1>0, <1>2, <1>6 DEF Spared
  <2>9. RunInv'
    BY <2>3, <2>4, <2>6, <2>8, <1>2 DEF RunInv
  <2> QED
    BY <2>9, <1>0, MovingKeeps DEF FileInv
<1> QED
  BY <1>8, <1>9

\* The last question changes nothing of what was compared.
LEMMA AskingKeeps ==
    ASSUME GroupsInv, Ask
    PROVE  GroupsInv'
<1>0. FileInv /\ RunInv /\ Moving /\ job.phase = "move" /\ fam' = fam /\ present' = present /\ now' = now
  BY DEF GroupsInv, Ask, Moving
<1>1. job.cur \in Compared
  BY <1>0 DEF RunInv
<1>2. CASE AsCompared(job.cur)
  <2>1. PICK cur : cur = [job.cur EXCEPT !.asked = TRUE]
    OBVIOUS
  <2>2. /\ cur \in Compared
        /\ cur.file = job.cur.file /\ cur.keeper = job.cur.keeper /\ cur.was = job.cur.was
    BY <1>1, <2>1 DEF Compared
  <2>3. job' = [job EXCEPT !.cur = cur]
    BY <1>2, <2>1 DEF Ask
  <2>4. cur.keeper # 0 => <<cur.keeper, now'[cur.keeper]>> \in cur.was
    <3> SUFFICES ASSUME cur.keeper # 0
                 PROVE  <<cur.keeper, now'[cur.keeper]>> \in cur.was
      OBVIOUS
    <3>1. cur.keeper \in {job.cur.file, job.cur.keeper} \cap File
      BY <1>1, <2>2 DEF Compared
    <3> QED
      BY <1>0, <1>2, <2>2, <3>1 DEF AsCompared, Now
  <2>5. RunInv'
    BY <1>0, <2>2, <2>3, <2>4, RunGoesOn
  <2> QED
    BY <1>0, <2>5, MovingKeeps DEF FileInv
<1>3. CASE ~AsCompared(job.cur)
  <2>1. PICK left, cur : left = job.left /\ cur = job.cur
    OBVIOUS
  <2>2. /\ job = [phase |-> "move", left |-> left, cur |-> cur]
        /\ left \in SUBSET Planned /\ \A e \in left : e.keeper # e.file
        /\ \A f \in File : Spared(fam.group[f])
    BY <1>0, <2>1 DEF RunInv
  <2>3. job' \in [phase : {"move"}, left : {left}, cur : {None}]
    <3>1. job \in [phase : {"move"}, left : {left}, cur : {cur}]
      BY <2>2
    <3>2. job' = [job EXCEPT !.cur = None]
      BY <1>3 DEF Ask
    <3> QED
      BY <3>1, <3>2
  <2>4. job'.phase = "move" /\ job'.left = left /\ job'.cur = None
        /\ job' = [phase |-> "move", left |-> job'.left, cur |-> job'.cur]
    BY <2>3
  <2>5. \A f \in File : Spared(fam.group[f])'
    <3>1. Leaving' = {e.file : e \in left} \cup {0}
      BY <2>4, NoneIsCompared DEF Leaving
    <3>2. {e.file : e \in left} \subseteq Leaving
      BY <2>1 DEF Leaving
    <3>3. 0 \notin present
      BY <1>0, FileIsNotZero DEF FileInv
    <3> QED
      BY <1>0, <2>2, <3>1, <3>2, <3>3 DEF Spared, Rows
  <2>6. RunInv'
    BY <2>2, <2>4, <2>5, NoneIsCompared DEF RunInv
  <2> QED
    BY <1>0, <2>6, MovingKeeps DEF FileInv
<1> QED
  BY <1>2, <1>3

\* The file that was compared leaves only as it was compared.
LEMMA TakingKeeps ==
    ASSUME GroupsInv, Move
    PROVE  GroupsInv'
<1>0. FileInv /\ RunInv /\ Moving /\ job.phase = "move" /\ fam' = fam
  BY DEF GroupsInv, Move, Moving
<1>1. PICK left, cur : left = job.left /\ cur = job.cur
  OBVIOUS
<1>2. /\ job = [phase |-> "move", left |-> left, cur |-> cur]
      /\ left \in SUBSET Planned /\ \A e \in left : e.keeper # e.file
      /\ \A f \in File : Spared(fam.group[f])
  BY <1>0, <1>1 DEF RunInv
<1>3. None \in Compared /\ None.keeper = 0 /\ None.file = 0
  BY NoneIsCompared
<1>4. present \ {cur.file} \subseteq present' /\ present' \subseteq present
  BY <1>1 DEF Move
<1>5. job' = [job EXCEPT !.cur = None]
  BY DEF Move
<1>6. job' \in [phase : {"move"}, left : {left}, cur : {None}]
  <2>1. job \in [phase : {"move"}, left : {left}, cur : {cur}]
    BY <1>2
  <2> QED
    BY <2>1, <1>5
<1>7. job'.phase = "move" /\ job'.left = left /\ job'.cur = None
      /\ job' = [phase |-> "move", left |-> job'.left, cur |-> job'.cur]
  BY <1>6
<1>8. ASSUME NEW f \in File
      PROVE  Spared(fam.group[f])'
  <2>1. PICK G : G = fam.group[f]
    OBVIOUS
  <2>2. G \cap present # {} => (G \cap present) \ ({e.file : e \in left} \cup {cur.file}) # {}
    BY <2>1, <1>1, <1>2 DEF Spared, Leaving, Rows
  <2>3. G \cap present' # {} => (G \cap present') \ ({e.file : e \in left} \cup {0}) # {}
    <3> SUFFICES ASSUME G \cap present' # {}
                 PROVE  (G \cap present') \ ({e.file : e \in left} \cup {0}) # {}
      OBVIOUS
    <3>1. PICK g \in G \cap present : g \notin {e.file : e \in left} /\ g # cur.file
      BY <2>2, <1>4
    <3>2. g \in present' /\ g # 0
      BY <3>1, <1>0, <1>4, FileIsNotZero DEF FileInv
    <3> QED
      BY <3>1, <3>2
  <2> QED
    BY <2>1, <2>3, <1>0, <1>3, <1>7 DEF Spared, Leaving, Rows
<1>9. RunInv'
  BY <1>2, <1>3, <1>7, <1>8 DEF RunInv
<1> QED
  BY <1>0, <1>4, <1>9, MovingKeeps DEF FileInv

LEMMA EndingKeeps ==
    ASSUME GroupsInv, Finish \/ Kill
    PROVE  GroupsInv'
<1>1. UNCHANGED <<now, present, pic, fam, review, history, agreed>> /\ job' = Idle
  BY DEF Finish, Moving, Kill, Files, reviewed
<1> QED
  BY <1>1, FilesStay, FamiliesStay, ChoicesStay, NoRun DEF GroupsInv, Idle

LEMMA ReturningKeeps ==
    ASSUME GroupsInv, NEW f \in File, Return(f)
    PROVE  GroupsInv'
<1>1. /\ UNCHANGED <<now, pic, fam, review, history, agreed, job>>
      /\ present' = present \cup {f} /\ job.phase # "move"
  BY DEF Return, reviewed, Pressed, Free
<1>2. FileInv'
  BY <1>1 DEF GroupsInv, FileInv
<1> QED
  BY <1>1, <1>2, FamiliesStay, ChoicesStay, NoRun DEF GroupsInv

LEMMA WritingKeeps ==
    ASSUME GroupsInv, NEW f \in File, NEW p \in Pictures, Write(f, p)
    PROVE  GroupsInv'
<1>0. RunInv /\ FileInv
  BY DEF GroupsInv
<1>1. /\ UNCHANGED <<present, pic, fam, review, history, agreed>>
      /\ now' = [now EXCEPT ![f] = p]
      /\ job' = IF Asked(f) THEN [job EXCEPT !.cur.late = TRUE] ELSE job
  BY DEF Write, reviewed
<1>2. FileInv'
  BY <1>0, <1>1 DEF FileInv
<1>3. ASSUME job.phase # "move"
      PROVE  RunInv'
  BY <1>1, <1>3, NoRun DEF Asked
<1>4. ASSUME job.phase = "move"
      PROVE  RunInv'
  <2>0. job.cur \in Compared
    BY <1>0, <1>4 DEF RunInv
  <2>1. CASE Asked(f)
    <3>1. PICK cur : cur = [job.cur EXCEPT !.late = TRUE]
      OBVIOUS
    <3>2. /\ cur \in Compared /\ cur.late
          /\ cur.file = job.cur.file /\ cur.keeper = job.cur.keeper /\ cur.was = job.cur.was
      BY <2>0, <3>1 DEF Compared
    <3>3. job' = [job EXCEPT !.cur = cur]
      BY <1>1, <2>1, <3>1
    <3> QED
      BY <1>0, <1>1, <1>4, <3>2, <3>3, RunGoesOn
  <2>2. CASE ~Asked(f)
    <3>1. job' = job /\ (job.cur.asked => job.cur.keeper # f)
      BY <1>1, <1>4, <2>2 DEF Asked
    <3>2. job.cur.keeper # 0 /\ job.cur.asked /\ ~job.cur.late =>
             <<job.cur.keeper, now'[job.cur.keeper]>> \in job.cur.was
      <4>1. now'[job.cur.keeper] = now[job.cur.keeper] \/ job.cur.keeper = f \/ job.cur.keeper = 0
        BY <1>0, <1>1, <2>0 DEF Compared, FileInv
      <4>2. job.cur.keeper # 0 /\ job.cur.asked /\ ~job.cur.late =>
               <<job.cur.keeper, now[job.cur.keeper]>> \in job.cur.was
        BY <1>0, <1>4 DEF RunInv, KeeperStands
      <4>3. job.cur.asked /\ job.cur.keeper # 0 => now'[job.cur.keeper] = now[job.cur.keeper]
        BY <3>1, <4>1
      <4> QED
        BY <4>2, <4>3
    <3> QED
      BY <1>0, <1>1, <1>4, <2>0, <3>1, <3>2, RunRests
  <2> QED
    BY <2>1, <2>2
<1> QED
  BY <1>1, <1>2, <1>3, <1>4, FamiliesStay, ChoicesStay DEF GroupsInv

LEMMA NothingKeeps ==
    ASSUME GroupsInv, UNCHANGED vars
    PROVE  GroupsInv'
BY FilesStay, FamiliesStay, ChoicesStay, RunStays DEF GroupsInv, vars

LEMMA InitEstablishes ==
    ASSUME Init
    PROVE  GroupsInv
<1>1. FileInv
  BY FileAssumption DEF Init, FileInv
<1>2. FamInv
  <2> DEFINE Gs == [f \in File |-> {}]
             Ks == [f \in File |-> 0]
             Rs == [f \in File |-> "unknown"]
  <2>1. fam = [group |-> Gs, keeper |-> Ks, role |-> Rs]
    BY DEF Init
  <2>2. Whole(Gs) /\ Rs \in [File -> Role]
    BY DEF Whole, Role
  <2> HIDE DEF Gs, Ks, Rs
  <2> QED
    BY <2>1, <2>2 DEF FamInv, Family
<1>3. ChoiceInv
  <2>1. review = [f \in File |-> NoChoice] /\ history = <<>>
    BY DEF Init
  <2>2. HistoryShape(history) /\ Len(history) = 0
    <3>1. history \in Seq(Entries) /\ Len(history) = 0
      BY <2>1
    <3> QED
      BY <3>1, HistoryIsSequence
  <2>3. review \in [File -> Choice]
    BY <2>1, NoChoiceIsChoice
  <2>4. \A f \in File : review[f] = NoChoice
    BY <2>1
  <2>5. 1..Len(history) = {}
    BY <2>2
  <2>6. AllApproved /\ Rooted /\ Chained /\ Counted
    BY <2>4, <2>5, NoChoiceIsChoice DEF AllApproved, Approved, Rooted, Chained, Counted
  <2> QED
    BY <2>2, <2>3, <2>6, ChoicesByName
<1>4. RunInv
  BY DEF Init, Idle, RunInv
<1> QED
  BY <1>1, <1>2, <1>3, <1>4 DEF GroupsInv

LEMMA NextKeeps ==
    ASSUME GroupsInv, [Next]_vars
    PROVE  GroupsInv'
<1>1. CASE Reindex \/ Rebuild \/ Series \/ restore_curation
  BY <1>1, StagesKeep
<1>2. CASE Look
  BY <1>2, LookingKeeps
<1>3. CASE batch
  BY <1>3, SavingKeeps DEF batch
<1>4. CASE \/ \E f \in File : keep_only(f) \/ reject(f)
           \/ \E d \in Dirs : keep_folder_only(d) \/ prefer_folder(d)
           \/ \E G \in Groups : keep_all_versions(G)
           \/ \E B \in Bursts : keep_all(B) \/ \E f \in File : reject_rest(B, f)
  BY <1>4, PressesKeep
<1>5. CASE \E f \in File : split_family(f)
  BY <1>5, SplittingKeeps
<1>6. CASE \E f \in File : Return(f)
  BY <1>6, ReturningKeeps
<1>7. CASE \E f \in File : \E p \in Pictures : Write(f, p)
  BY <1>7, WritingKeeps
<1>8. CASE \E d \in Dirs : \E mk \in {marks \cup {d}, marks \ {d}} : set_original_folder(d, mk)
  BY <1>8, MarkedFoldersKeep
<1>9. CASE \E s \in {"plan", "keep", "defer"} : decide(s)
  BY <1>9, SavingKeeps DEF decide
<1>10. CASE \E op \in 1..Len(history) : undo_review(op)
  BY <1>10, UndoingKeeps
<1>11. CASE \E req \in Requests : Start(req)
  BY <1>11, StartingKeeps
<1>12. CASE Move
  BY <1>12, TakingKeeps
<1>13. CASE Finish \/ Kill
  BY <1>13, EndingKeeps
<1>14. CASE \E c \in job.left : Compare(c)
  BY <1>14, ComparingKeeps
<1>15. CASE UNCHANGED vars
  BY <1>15, NothingKeeps
<1>16. CASE Ask
  BY <1>16, AskingKeeps
<1> QED
  BY <1>1, <1>2, <1>3, <1>4, <1>5, <1>6, <1>7, <1>8, <1>9, <1>10, <1>11, <1>12,
     <1>13, <1>14, <1>15, <1>16 DEF Next

\* The groups are a partition, the choices of each file are a chain of
\* entries that stand, every approval was given on a page, and a run that is
\* under way leaves a file of every group (families.rs, review.rs, plan.rs).
THEOREM GroupsInvariance == Spec => []GroupsInv
<1>1. Init => GroupsInv
  BY InitEstablishes
<1>2. GroupsInv /\ [Next]_vars => GroupsInv'
  BY NextKeeps
<1> QED
  BY <1>1, <1>2, PTL DEF Spec

(* ------------------------------ what follows --------------------------- *)
\* Only a run takes a file away, and only the one it compared.
LEMMA OnlyARunTakes ==
    ASSUME GroupsInv, [Next]_vars, NEW f \in present \ present'
    PROVE  Move
<1>1. \/ Reindex \/ Rebuild \/ Series \/ restore_curation \/ Look \/ batch
      \/ \E g \in File : keep_only(g) \/ reject(g) \/ split_family(g) \/ Return(g)
                         \/ \E p \in Pictures : Write(g, p)
      \/ \E d \in Dirs : \/ keep_folder_only(d) \/ prefer_folder(d)
                         \/ \E mk \in {marks \cup {d}, marks \ {d}} : set_original_folder(d, mk)
      \/ \E G \in Groups : keep_all_versions(G)
      \/ \E B \in Bursts : keep_all(B) \/ \E g \in File : reject_rest(B, g)
      \/ \E s \in {"plan", "keep", "defer"} : decide(s)
      \/ \E op \in 1..Len(history) : undo_review(op)
      \/ \E req \in Requests : Start(req)
      \/ Ask \/ Move \/ Finish \/ Kill
      \/ \E c \in job.left : Compare(c)
      \/ UNCHANGED vars
  BY DEF Next
<1>2. present' # present /\ ~(present \subseteq present')
  OBVIOUS
<1>3. ~(Reindex \/ Rebuild \/ Series \/ restore_curation \/ Look \/ batch)
  BY <1>2 DEF Reindex, Rebuild, Series, restore_curation, Look, Show, batch, save_review, Files
<1>4. ASSUME NEW pick, NEW aside, NEW forget
      PROVE  ~Press(pick, aside, forget) /\ ~MarkFiles(aside, forget)
  BY <1>2 DEF Press, MarkFiles, Files
<1>5. \A g \in File : ~(keep_only(g) \/ reject(g) \/ split_family(g) \/ Return(g)
                         \/ \E p \in Pictures : Write(g, p))
  BY <1>2, <1>4 DEF keep_only, reject, split_family, Return, Write, Files
<1>6. \A d \in Dirs : ~(keep_folder_only(d) \/ prefer_folder(d)
                         \/ \E mk \in {marks \cup {d}, marks \ {d}} : set_original_folder(d, mk))
  BY <1>2, <1>4 DEF keep_folder_only, prefer_folder, set_original_folder, Files
<1>7. /\ \A G \in Groups : ~keep_all_versions(G)
      /\ \A B \in Bursts : ~keep_all(B) /\ \A g \in File : ~reject_rest(B, g)
  BY <1>4 DEF keep_all_versions, keep_all, reject_rest
<1>8. /\ \A s \in {"plan", "keep", "defer"} : ~decide(s)
      /\ \A op \in 1..Len(history) : ~undo_review(op)
      /\ \A req \in Requests : ~Start(req)
  BY <1>2 DEF decide, save_review, undo_review, Start, Files
<1>9. ~Ask /\ ~Finish /\ ~Kill /\ ~(\E c \in job.left : Compare(c)) /\ ~UNCHANGED vars
  BY <1>2 DEF Ask, Finish, Kill, Compare, Files, vars
<1> QED
  BY <1>1, <1>3, <1>5, <1>6, <1>7, <1>8, <1>9

LEMMA TakingSpares ==
    ASSUME GroupsInv, [Next]_vars, NEW f \in present \ present'
    PROVE  fam.group[f] = {} \/ fam.group[f] \cap present' # {}
<1>1. Move /\ job.phase = "move"
  BY OnlyARunTakes DEF Move, Moving
<1>2. f \in File /\ (fam.group[f] # {} => f \in fam.group[f])
  BY DEF GroupsInv, FileInv, FamInv, Family, Whole
<1>3. Spared(fam.group[f])
  BY <1>1, <1>2 DEF GroupsInv, RunInv
<1>4. present \ {job.cur.file} \subseteq present'
  BY <1>1 DEF Move
<1> QED
  BY <1>2, <1>3, <1>4 DEF Spared, Leaving, Rows

LEMMA TakingHolds ==
    ASSUME GroupsInv, [Next]_vars, NEW f \in present \ present', job.cur.keeper # 0, ~job.cur.late
    PROVE  \E g \in present' : SamePicture(now'[f], now'[g])
<1>1. Move /\ job.phase = "move" /\ now' = now
  BY OnlyARunTakes DEF Move, Moving
<1>2. PICK c : c = job.cur
  OBVIOUS
<1>3. HeldPair(c) /\ KeeperStands(c)
  BY <1>1, <1>2 DEF GroupsInv, RunInv, Move
<1>4. Unchanged(c) /\ present' = present \ {c.file} /\ f = c.file
  BY <1>1, <1>2 DEF Move
<1>5. PICK p \in Pictures, q \in Pictures :
         c.was = {<<c.file, p>>, <<c.keeper, q>>} /\ SamePicture(p, q)
  BY <1>3 DEF HeldPair
<1>6. c.keeper \in present /\ c.keeper # c.file
  BY <1>3 DEF HeldPair
<1>7. <<c.file, now[c.file]>> \in {<<c.file, p>>, <<c.keeper, q>>}
  BY <1>4, <1>5 DEF Unchanged
<1>8. <<c.keeper, now[c.keeper]>> \in {<<c.file, p>>, <<c.keeper, q>>}
  BY <1>3, <1>5 DEF KeeperStands
<1>9. now[c.file] = p /\ now[c.keeper] = q
  BY <1>6, <1>7, <1>8
<1> QED
  BY <1>1, <1>4, <1>5, <1>6, <1>9

\* A run of a plan never takes the last file of a group.
THEOREM GroupsAreNeverEmptied == Spec => NeverEmptied
<1>1. GroupsInv /\ [Next]_vars =>
        [\A f \in present \ present' :
            fam.group[f] = {} \/ fam.group[f] \cap present' # {}]_vars
  BY TakingSpares
<1> QED
  BY <1>1, GroupsInvariance, PTL DEF Spec, NeverEmptied

\* A file the tool chose leaves only while its picture is at home elsewhere,
\* unless the keeper was written between the last question and the rename.
THEOREM CopiesAreHeld == Spec => CopyIsHeld
<1>1. GroupsInv /\ [Next]_vars =>
        [\A f \in present \ present' :
            job.cur.keeper # 0 =>
               \/ job.cur.late
               \/ \E g \in present' : SamePicture(now'[f], now'[g])]_vars
  BY TakingHolds
<1> QED
  BY <1>1, GroupsInvariance, PTL DEF Spec, CopyIsHeld

\* A group that stands approved is the group that was on a page.
LEMMA ApprovedGroupWasSeen ==
    ASSUME GroupsInv, NEW G \in Queue, State(G) = "plan", NEW f \in Rows(G)
    PROVE  Seen(G) \in agreed
<1> DEFINE choices == {review[m] : m \in Rows(G)}
           said == {c.state : c \in choices}
<1>1. Cardinality(said) = 1 /\ said # {"none"} /\ \A c \in choices : SameEvidence(c, G)
  <2> SUFFICES ASSUME ~(Cardinality(said) = 1 /\ said # {"none"}
                        /\ \A c \in choices : SameEvidence(c, G))
               PROVE  FALSE
    OBVIOUS
  <2>1. State(G) = IF Source(G) # "none" THEN "reviewed" ELSE "pending"
    BY DEF State
  <2> QED
    BY <2>1
<1>2. State(G) = CHOOSE s \in said : TRUE
  BY <1>1 DEF State
<1>3. review[f] \in choices /\ review[f].state \in said
  OBVIOUS
<1>4. f \in File
  BY DEF Rows, GroupsInv, FileInv
<1>5. IsFiniteSet(said)
  <2>1. \A m \in Rows(G) : review[m] \in Choice
    BY DEF Rows, GroupsInv, FileInv, ChoiceInv
  <2>2. said \in SUBSET {"none", "plan", "keep", "defer"}
    BY <2>1 DEF Choice
  <2>3. /\ IsFiniteSet({"none"}) /\ IsFiniteSet({"plan"})
        /\ IsFiniteSet({"keep"}) /\ IsFiniteSet({"defer"})
    BY FS_Singleton
  <2>4. IsFiniteSet(({"none"} \cup {"plan"}) \cup ({"keep"} \cup {"defer"}))
    <3>1. IsFiniteSet({"none"} \cup {"plan"}) /\ IsFiniteSet({"keep"} \cup {"defer"})
      BY <2>3, FS_Union
    <3> QED
      BY <3>1, FS_Union
  <2>5. said \in SUBSET (({"none"} \cup {"plan"}) \cup ({"keep"} \cup {"defer"}))
    BY <2>2
  <2> HIDE DEF said
  <2> QED
    BY <2>4, <2>5, FS_Subset
<1>6. review[f].state = "plan" /\ SameEvidence(review[f], G)
  <2> HIDE DEF said
  <2>1. \E s : said = {s}
    BY <1>1, <1>5, FS_Singleton
  <2>2. "plan" \in said
    BY <1>2, <1>3
  <2> QED
    BY <1>1, <1>3, <2>1, <2>2
<1>7. review[f].seen = Seen(G)
  BY <1>6 DEF SameEvidence
<1>8. Approved(review[f])
  BY <1>4 DEF GroupsInv, ChoiceInv
<1> QED
  BY <1>6, <1>7, <1>8 DEF Approved

LEMMA ReviewedPlanWasSeen ==
    ASSUME GroupsInv, NEW req \in Requests, req.scope = "reviewed",
           NEW c \in MakePreview(req), c.keeper # 0
    PROVE  LET G == fam.group[c.file]
           IN KeeperSource(G) # "none" \/ c.file \in rejects \/ Seen(G) \in agreed
<1>0. FileInv /\ FamInv
  BY DEF GroupsInv
<1>1. c \in ReviewedPlan(req)
  BY DEF MakePreview
<1>2. c.file \in present
  BY <1>0, PlanNames, PlanIsSmaller
<1>3. \/ \E G \in Queue : State(G) = "plan" /\ c.file \in G
      \/ \E G \in Groups : KeeperSource(G) # "none" /\ c.file \in G
      \/ c.file \in rejects
  BY <1>1 DEF ReviewedPlan
<1>4. \A G \in Groups : c.file \in G => fam.group[c.file] = G
  BY <1>0, GroupsOfFiles
<1>5. ASSUME NEW G \in Queue, State(G) = "plan", c.file \in G
      PROVE  Seen(fam.group[c.file]) \in agreed
  <2>1. G \in Groups /\ c.file \in Rows(G)
    BY <1>2, <1>5 DEF Queue, Rows
  <2>2. Seen(G) \in agreed
    BY <2>1, <1>5, ApprovedGroupWasSeen
  <2> QED
    BY <2>1, <2>2, <1>4, <1>5
<1> QED
  BY <1>3, <1>4, <1>5

\* What a reviewed plan takes by the tool's own choice was decided, or
\* approved on a page as it is; and an undone choice never comes back.
THEOREM ApprovalsWereSeen == Spec => []ApprovedWasSeen
<1>1. GroupsInv => ApprovedWasSeen
  <2> SUFFICES ASSUME GroupsInv
               PROVE  ApprovedWasSeen
    OBVIOUS
  <2>1. \A f \in File : review[f].op # 0 => ~history[review[f].op].undone
    BY DEF GroupsInv, ChoiceInv, Stands
  <2> QED
    BY <2>1, ReviewedPlanWasSeen DEF ApprovedWasSeen
<1> QED
  BY <1>1, GroupsInvariance, PTL
(* ------------------------- decisions in their order --------------------- *)
\* A finite set of numbers has a greatest one.
LEMMA GreatestIs ==
    ASSUME NEW S \in SUBSET Nat, S # {}, IsFiniteSet(S)
    PROVE  Max(S) \in S /\ \A q \in S : q <= Max(S)
<1> DEFINE Above(m) == {q \in S : m < q}
           T == {Above(m) : m \in S}
<1>1. T \subseteq FiniteSubsetsOf(S)
  <2>1. FiniteSubsetsOf(S) = SUBSET S
    BY FS_FiniteSubsetsOfFinite
  <2> QED
    BY <2>1
<1>2. T # {}
  OBVIOUS
<1>3. IsWellFoundedOn(StrictSubsetOrdering(S), FiniteSubsetsOf(S))
  BY FS_StrictSubsetOrderingWellFounded
<1> HIDE DEF T
<1>4. PICK x \in T : \A y \in T : ~(<<y, x>> \in StrictSubsetOrdering(S))
  BY <1>1, <1>2, <1>3, WFMin
<1>5. PICK m \in S : x = Above(m)
  BY DEF T
<1>6. ASSUME NEW q \in S, ~(q <= m)
      PROVE  FALSE
  <2>1. m < q /\ m \in Nat /\ q \in Nat
    BY <1>6
  <2>2. q \in Above(m) /\ q \notin Above(q)
    BY <2>1, <1>6
  <2>3. ASSUME NEW r \in Above(q)
        PROVE  r \in Above(m)
    <3>1. r \in S /\ r \in Nat /\ q < r
      OBVIOUS
    <3>2. m < r
      BY <2>1, <3>1
    <3> QED
      BY <3>1, <3>2
  <2>4. <<Above(q), Above(m)>> \in StrictSubsetOrdering(S)
    BY <2>2, <2>3 DEF StrictSubsetOrdering
  <2>5. Above(q) \in T
    BY <1>6 DEF T
  <2> QED
    BY <2>4, <2>5, <1>4, <1>5
<1>7. \A q \in S : m >= q
  BY <1>6
<1>8. Max(S) \in S /\ \A q \in S : Max(S) >= q
  BY <1>7 DEF Max
<1> QED
  BY <1>8

\* The numbers of a finite set can be put in their order.
Increasing(s, n) == \A i, j \in 1..n : i < j => s[i] < s[j]
LEMMA OrderIs ==
    ASSUME NEW S \in SUBSET Nat, IsFiniteSet(S)
    PROVE  \E s \in [1..Cardinality(S) -> S] : Increasing(s, Cardinality(S))
<1> DEFINE Ordered(U) == \E s \in [1..Cardinality(U) -> U] : Increasing(s, Cardinality(U))
           T == {U \in SUBSET S : ~Ordered(U)}
<1> SUFFICES ASSUME T # {}
             PROVE  FALSE
  BY DEF T
<1>1. FiniteSubsetsOf(S) = SUBSET S
  BY FS_FiniteSubsetsOfFinite
<1>2. IsWellFoundedOn(StrictSubsetOrdering(S), FiniteSubsetsOf(S))
  BY FS_StrictSubsetOrderingWellFounded
<1>3. PICK U \in T : \A y \in T : ~(<<y, U>> \in StrictSubsetOrdering(S))
  <2> HIDE DEF T
  <2>1. T \subseteq FiniteSubsetsOf(S)
    BY <1>1 DEF T
  <2> QED
    BY <2>1, <1>2, WFMin
<1>4. U \in SUBSET S /\ U \in SUBSET Nat /\ IsFiniteSet(U) /\ ~Ordered(U)
  BY <1>3, FS_Subset
<1>5. U # {}
  <2> SUFFICES ASSUME U = {} PROVE Ordered(U)
    BY <1>4
  <2>1. Cardinality(U) = 0 /\ 1..0 = {}
    BY FS_EmptySet
  <2>2. [i \in 1..0 |-> 0] \in [1..Cardinality(U) -> U] /\ Increasing([i \in 1..0 |-> 0], Cardinality(U))
    BY <2>1 DEF Increasing
  <2> QED
    BY <2>2
<1> DEFINE m == Max(U)
           V == U \ {m}
           n == Cardinality(V)
<1>6. m \in U /\ \A q \in U : q <= m
  <2>1. U \in SUBSET Nat /\ U # {} /\ IsFiniteSet(U)
    BY <1>4, <1>5
  <2> QED
    BY <2>1, GreatestIs
<1> HIDE DEF m
<1>7. IsFiniteSet(V) /\ n \in Nat /\ Cardinality(U) = n + 1
  <2>1. IsFiniteSet(U) /\ m \in U
    BY <1>4, <1>6
  <2> HIDE DEF T, V
  <2>2. IsFiniteSet(V) /\ n = Cardinality(U) - 1
    BY <2>1, FS_RemoveElement DEF V
  <2>3. Cardinality(U) \in Nat /\ n \in Nat
    BY <2>1, <2>2, FS_CardinalityType
  <2> QED
    BY <2>2, <2>3
<1>8. Ordered(V)
  <2> SUFFICES ASSUME V \in T PROVE FALSE
    BY <1>4 DEF T
  <2>1. <<V, U>> \in StrictSubsetOrdering(S)
    BY <1>4, <1>6 DEF StrictSubsetOrdering
  <2> QED
    BY <2>1, <1>3
<1>9. PICK s \in [1..n -> V] : Increasing(s, n)
  BY <1>8
<1> HIDE DEF n
<1> DEFINE t == [i \in 1..(n + 1) |-> IF i <= n THEN s[i] ELSE m]
<1>10. \A i \in 1..n : s[i] \in V /\ s[i] \in Nat /\ s[i] < m
  <2> TAKE i \in 1..n
  <2>1. s[i] \in V
    OBVIOUS
  <2>2. s[i] \in U /\ s[i] # m /\ s[i] \in Nat /\ m \in Nat
    BY <2>1, <1>4, <1>6
  <2> QED
    BY <2>1, <2>2, <1>6
<1>11. t \in [1..(n + 1) -> U]
  BY <1>6, <1>7, <1>10
<1>12. Increasing(t, n + 1)
  <2> SUFFICES ASSUME NEW i \in 1..(n + 1), NEW j \in 1..(n + 1), i < j
               PROVE  t[i] < t[j]
    BY DEF Increasing
  <2>1. i <= n /\ i \in 1..n /\ (j <= n => j \in 1..n) /\ (~(j <= n) => t[j] = m) /\ t[i] = s[i]
    BY <1>7
  <2>2. CASE j <= n
    BY <2>1, <2>2, <1>9 DEF Increasing
  <2>3. CASE ~(j <= n)
    BY <2>1, <2>3, <1>10
  <2> QED
    BY <2>2, <2>3
<1> HIDE DEF t
<1>13. Ordered(U)
  BY <1>7, <1>11, <1>12
<1> QED
  BY <1>13, <1>4

LEMMA InOrderIs ==
    ASSUME NEW S \in SUBSET Nat, IsFiniteSet(S)
    PROVE  /\ Cardinality(S) \in Nat
           /\ InOrder(S) \in [1..Cardinality(S) -> S]
           /\ \A i, j \in 1..Cardinality(S) : i < j => InOrder(S)[i] < InOrder(S)[j]
           /\ \A x \in S : \E i \in 1..Cardinality(S) : InOrder(S)[i] = x
<1> DEFINE n == Cardinality(S)
           s == InOrder(S)
<1>1. n \in Nat
  BY FS_CardinalityType
<1>2. s \in [1..n -> S] /\ \A i, j \in 1..n : i < j => s[i] < s[j]
  BY OrderIs DEF Increasing, InOrder
<1> HIDE DEF s
<1>3. \A i, j \in 1..n : i # j => s[i] # s[j]
  <2> TAKE i, j \in 1..n
  <2> HIDE DEF n
  <2>1. s[i] \in S /\ s[j] \in S
    BY <1>2
  <2>2. s[i] \in Nat /\ s[j] \in Nat
    BY <2>1
  <2>3. i \in Int /\ j \in Int
    BY <1>1
  <2>4. i # j => i < j \/ j < i
    BY <2>3
  <2> QED
    BY <2>2, <2>4, <1>2
<1>4. s \in Injection(1..n, S)
  BY <1>2, <1>3 DEF Injection, IsInjective
<1>5. Cardinality(1..n) = n
  BY <1>1, FS_Interval
<1>6. s \in Surjection(1..n, S)
  BY <1>4, <1>5, FS_Injection
<1> QED
  BY <1>1, <1>2, <1>6 DEF Surjection, s

\* The latest of the decisions E, if there is one, and where it stands.
LEMMA LatestIs ==
    ASSUME NEW kp \in Seq(Decision), NEW E, \E i \in 1..Len(kp) : kp[i] \in E
    PROVE  \E i \in 1..Len(kp) : /\ kp[i] \in E /\ Latest(kp, E) = kp[i].file
                                 /\ \A j \in 1..Len(kp) : kp[j] \in E => j <= i
<1> DEFINE at == {i \in 1..Len(kp) : kp[i] \in E}
<1>1. Len(kp) \in Nat /\ DOMAIN kp = 1..Len(kp)
  OBVIOUS
<1>2. at \in SUBSET Nat /\ at # {}
  BY <1>1
<1>3. IsFiniteSet(at)
  <2>1. IsFiniteSet(1..Len(kp)) /\ at \in SUBSET (1..Len(kp))
    BY <1>1, FS_Interval
  <2> QED
    BY <2>1, FS_Subset
<1>4. Latest(kp, E) = kp[Max(at)].file
  BY <1>1 DEF Latest
<1>5. Max(at) \in at /\ \A q \in at : q <= Max(at)
  <2> HIDE DEF at
  <2> QED
    BY <1>2, <1>3, GreatestIs
<1> QED
  BY <1>4, <1>5

\* It stays the latest where nothing of E goes and nothing of E is added.
Drawn(kp, kp2, E, n, h) ==
    /\ n \in 0..Len(kp2) /\ h \in [1..n -> 1..Len(kp)]
    /\ \A i, j \in 1..n : i < j => h[i] < h[j]
    /\ \A i \in 1..n : kp2[i] = kp[h[i]]
    /\ \A i \in 1..Len(kp2) : i > n => kp2[i] \notin E
    /\ \A j \in 1..Len(kp) : kp[j] \in E => \E i \in 1..n : h[i] = j
LEMMA LatestStays ==
    ASSUME NEW kp \in Seq(Decision), NEW kp2 \in Seq(Decision), NEW E, NEW n, NEW h,
           \E i \in 1..Len(kp) : kp[i] \in E, Drawn(kp, kp2, E, n, h)
    PROVE  Latest(kp2, E) = Latest(kp, E)
<1> USE DEF Drawn
<1>1. PICK j \in 1..Len(kp) : /\ kp[j] \in E /\ Latest(kp, E) = kp[j].file
                              /\ \A q \in 1..Len(kp) : kp[q] \in E => q <= j
  BY LatestIs
<1>2. PICK i \in 1..n : h[i] = j
  BY <1>1
<1>3. Len(kp) \in Nat /\ Len(kp2) \in Nat /\ n \in Nat /\ i \in 1..Len(kp2) /\ kp2[i] \in E
  BY <1>1, <1>2
<1>4. PICK k \in 1..Len(kp2) : /\ kp2[k] \in E /\ Latest(kp2, E) = kp2[k].file
                               /\ \A q \in 1..Len(kp2) : kp2[q] \in E => q <= k
  <2>1. \E q \in 1..Len(kp2) : kp2[q] \in E
    BY <1>3
  <2> QED
    BY <2>1, LatestIs
<1>5. k \in 1..n /\ i <= k
  BY <1>3, <1>4
<1>6. h[k] <= h[i]
  BY <1>1, <1>2, <1>4, <1>5
<1>7. ~(i < k)
  <2> SUFFICES ASSUME i < k PROVE FALSE
    OBVIOUS
  <2>1. h[i] < h[k] /\ h[i] \in Nat /\ h[k] \in Nat
    BY <1>3, <1>5
  <2> QED
    BY <2>1, <1>6
<1>8. i = k
  BY <1>3, <1>5, <1>7
<1> QED
  BY <1>1, <1>2, <1>4, <1>8

\* What is left, in its order, when the decisions on some files go.
LeftOf(kp, files, t) ==
    /\ t \in Seq(Decision)
    /\ \E h \in [1..Len(t) -> 1..Len(kp)] :
         /\ \A i, j \in 1..Len(t) : i < j => h[i] < h[j]
         /\ \A i \in 1..Len(t) : t[i] = kp[h[i]] /\ kp[h[i]].file \notin files
         /\ \A j \in 1..Len(kp) : kp[j].file \notin files => \E i \in 1..Len(t) : h[i] = j
LEMMA WithoutIs ==
    ASSUME NEW kp \in Seq(Decision), NEW files
    PROVE  LeftOf(kp, files, Without(kp, files))
<1> DEFINE left == {i \in 1..Len(kp) : kp[i].file \notin files}
           n == Cardinality(left)
           h == InOrder(left)
           t == Without(kp, files)
<1>1. Len(kp) \in Nat /\ DOMAIN kp = 1..Len(kp)
  OBVIOUS
<1>2. left \in SUBSET Nat /\ IsFiniteSet(left)
  <2>1. IsFiniteSet(1..Len(kp)) /\ left \in SUBSET (1..Len(kp))
    BY <1>1, FS_Interval
  <2> QED
    BY <1>1, <2>1, FS_Subset
<1>3. /\ n \in Nat /\ h \in [1..n -> left]
      /\ \A i, j \in 1..n : i < j => h[i] < h[j]
      /\ \A x \in left : \E i \in 1..n : h[i] = x
  <2> HIDE DEF left
  <2> QED
    BY <1>2, InOrderIs
<1>4. t = [i \in 1..n |-> kp[h[i]]]
  BY <1>1 DEF Without
<1> HIDE DEF t, h, n
<1>5. \A i \in 1..n : h[i] \in 1..Len(kp) /\ kp[h[i]] \in Decision /\ kp[h[i]].file \notin files
  <2> TAKE i \in 1..n
  <2>1. h[i] \in left
    BY <1>3
  <2>2. h[i] \in 1..Len(kp) /\ kp[h[i]].file \notin files
    BY <2>1
  <2> QED
    BY <2>2
<1>6. t \in Seq(Decision) /\ Len(t) = n
  BY <1>3, <1>4, <1>5
<1>7. h \in [1..n -> 1..Len(kp)]
  BY <1>3, <1>5
<1>8. \A i \in 1..n : t[i] = kp[h[i]] /\ kp[h[i]].file \notin files
  BY <1>4, <1>5
<1>9. \A j \in 1..Len(kp) : kp[j].file \notin files => \E i \in 1..n : h[i] = j
  BY <1>3
<1>10. t \in Seq(Decision) /\
       \E g \in [1..Len(t) -> 1..Len(kp)] :
         /\ \A i, j \in 1..Len(t) : i < j => g[i] < g[j]
         /\ \A i \in 1..Len(t) : t[i] = kp[g[i]] /\ kp[g[i]].file \notin files
         /\ \A j \in 1..Len(kp) : kp[j].file \notin files => \E i \in 1..Len(t) : g[i] = j
  <2>1. h \in [1..Len(t) -> 1..Len(kp)] /\ \A i, j \in 1..Len(t) : i < j => h[i] < h[j]
    BY <1>3, <1>6, <1>7
  <2>2. \A i \in 1..Len(t) : t[i] = kp[h[i]] /\ kp[h[i]].file \notin files
    BY <1>6, <1>8
  <2>3. \A j \in 1..Len(kp) : kp[j].file \notin files => \E i \in 1..Len(t) : h[i] = j
    BY <1>6, <1>9
  <2> QED
    BY <1>6, <2>1, <2>2, <2>3
<1> QED
  BY <1>10 DEF t, LeftOf

LEMMA PickedIs ==
    ASSUME NEW pick \in [File -> File \cup {0}], NEW by \in {"hand", "folder"}
    PROVE  LET S == Picked(pick)
               new == [i \in 1..Cardinality(S) |-> [file |-> InOrder(S)[i], by |-> by]]
           IN /\ new \in Seq(Decision)
              /\ \A i \in 1..Len(new) : \E f \in File : pick[f] # 0 /\ new[i] = [file |-> pick[f], by |-> by]
              /\ \A f \in File : pick[f] # 0 =>
                    \E i \in 1..Len(new) : new[i] = [file |-> pick[f], by |-> by]
<1> DEFINE S == Picked(pick)
           n == Cardinality(S)
           new == [i \in 1..n |-> [file |-> InOrder(S)[i], by |-> by]]
<1>1. S \in SUBSET File /\ \A x \in S : \E f \in File : pick[f] # 0 /\ x = pick[f]
  BY DEF Picked
<1>2. S \in SUBSET Nat /\ IsFiniteSet(S)
  BY <1>1, FileAssumption, FS_Subset
<1>3. \A f \in File : pick[f] # 0 => pick[f] \in S
  BY DEF Picked
<1> HIDE DEF S
<1>4. /\ n \in Nat /\ InOrder(S) \in [1..n -> S]
      /\ \A x \in S : \E i \in 1..n : InOrder(S)[i] = x
  BY <1>2, InOrderIs
<1> HIDE DEF n
<1>5. \A i \in 1..n : [file |-> InOrder(S)[i], by |-> by] \in Decision
  BY <1>1, <1>4 DEF Decision
<1>6. new \in Seq(Decision) /\ Len(new) = n /\ \A i \in 1..n : new[i] = [file |-> InOrder(S)[i], by |-> by]
  BY <1>4, <1>5
<1> HIDE DEF new
<1>7. \A i \in 1..n : \E f \in File : pick[f] # 0 /\ new[i] = [file |-> pick[f], by |-> by]
  BY <1>1, <1>4, <1>6
<1>8. \A f \in File : pick[f] # 0 => \E i \in 1..n : new[i] = [file |-> pick[f], by |-> by]
  BY <1>3, <1>4, <1>6
<1>9. /\ new \in Seq(Decision)
      /\ \A i \in 1..Len(new) : \E f \in File : pick[f] # 0 /\ new[i] = [file |-> pick[f], by |-> by]
      /\ \A f \in File : pick[f] # 0 =>
            \E i \in 1..Len(new) : new[i] = [file |-> pick[f], by |-> by]
  BY <1>6, <1>7, <1>8
<1> QED
  BY <1>9 DEF new, n, S

\* What stands after some groups got a decision each.
LEMMA KeptAfterIs ==
    ASSUME NEW kp \in Seq(Decision), NEW pick \in [File -> File \cup {0}], NEW by \in {"hand", "folder"}
    PROVE  LET kp2 == KeptAfter(kp, pick, by)
               New(x) == \E f \in File : pick[f] # 0 /\ x = [file |-> pick[f], by |-> by]
           IN /\ kp2 \in Seq(Decision)
              /\ \A x : x \in ToSet(kp2) <=> (x \in ToSet(kp) /\ pick[x.file] = 0) \/ New(x)
              /\ \A E : /\ \E x \in ToSet(kp) : x \in E
                        /\ \A x \in ToSet(kp) : x \in E => pick[x.file] = 0
                        /\ \A x \in E : ~New(x)
                        => Latest(kp2, E) = Latest(kp, E)
<1> DEFINE New(x) == \E f \in File : pick[f] # 0 /\ x = [file |-> pick[f], by |-> by]
           gone == {f \in File : pick[f] # 0}
           t == Without(kp, gone)
           S == Picked(pick)
           new == [i \in 1..Cardinality(S) |-> [file |-> InOrder(S)[i], by |-> by]]
           kp2 == t \o new
<1>0. KeptAfter(kp, pick, by) = kp2
  BY DEF KeptAfter
<1>1. /\ new \in Seq(Decision)
      /\ \A i \in 1..Len(new) : New(new[i])
      /\ \A x : New(x) => \E i \in 1..Len(new) : new[i] = x
  <2>1. /\ new \in Seq(Decision)
        /\ \A i \in 1..Len(new) : \E f \in File : pick[f] # 0 /\ new[i] = [file |-> pick[f], by |-> by]
        /\ \A f \in File : pick[f] # 0 =>
              \E i \in 1..Len(new) : new[i] = [file |-> pick[f], by |-> by]
    BY PickedIs
  <2> HIDE DEF new
  <2> QED
    BY <2>1
<1> HIDE DEF new, New
<1>g. \A f : f \notin gone <=> ~(f \in File /\ pick[f] # 0)
  OBVIOUS
<1> HIDE DEF gone
<1>2. LeftOf(kp, gone, t)
  BY WithoutIs
<1> HIDE DEF t
<1>3. PICK h \in [1..Len(t) -> 1..Len(kp)] :
           /\ \A i, j \in 1..Len(t) : i < j => h[i] < h[j]
           /\ \A i \in 1..Len(t) : t[i] = kp[h[i]] /\ kp[h[i]].file \notin gone
           /\ \A j \in 1..Len(kp) : kp[j].file \notin gone => \E i \in 1..Len(t) : h[i] = j
  BY <1>2 DEF LeftOf
<1>4. /\ Len(t) \in Nat /\ Len(new) \in Nat /\ Len(kp) \in Nat
      /\ kp2 \in Seq(Decision) /\ Len(kp2) = Len(t) + Len(new)
      /\ \A i \in 1..(Len(t) + Len(new)) : kp2[i] = IF i <= Len(t) THEN t[i] ELSE new[i - Len(t)]
  BY <1>1, <1>2, ConcatProperties DEF LeftOf
<1> HIDE DEF kp2
<1>5. \A i \in 1..Len(t) : i \in 1..Len(kp2) /\ kp2[i] = kp[h[i]]
  BY <1>3, <1>4
<1>6. \A i \in 1..Len(kp2) : i > Len(t) => i - Len(t) \in 1..Len(new) /\ kp2[i] = new[i - Len(t)]
  <2> SUFFICES ASSUME NEW i \in 1..Len(kp2), i > Len(t)
               PROVE  i - Len(t) \in 1..Len(new) /\ kp2[i] = new[i - Len(t)]
    OBVIOUS
  <2>1. i \in 1..(Len(t) + Len(new)) /\ ~(i <= Len(t))
    BY <1>4
  <2>2. kp2[i] = new[i - Len(t)]
    BY <1>4, <2>1
  <2>3. i - Len(t) \in 1..Len(new)
    BY <1>4, <2>1
  <2> QED
    BY <2>2, <2>3
<1>7. \A i \in 1..Len(new) : i + Len(t) \in 1..Len(kp2) /\ kp2[i + Len(t)] = new[i]
  <2> TAKE i \in 1..Len(new)
  <2>1. i + Len(t) \in 1..(Len(t) + Len(new)) /\ ~(i + Len(t) <= Len(t)) /\ (i + Len(t)) - Len(t) = i
    BY <1>4
  <2>2. kp2[i + Len(t)] = new[(i + Len(t)) - Len(t)]
    BY <1>4, <2>1
  <2> QED
    BY <1>4, <2>1, <2>2
<1>8. \A j \in 1..Len(kp) : kp[j] \in Decision /\ (kp[j].file \notin gone <=> pick[kp[j].file] = 0)
  <2> TAKE j \in 1..Len(kp)
  <2>1. kp[j] \in Decision
    OBVIOUS
  <2>2. kp[j].file \in File
    BY <2>1 DEF Decision
  <2> QED
    BY <2>1, <2>2, <1>g
<1>9. ToSet(kp) = {kp[i] : i \in 1..Len(kp)} /\ ToSet(kp2) = {kp2[i] : i \in 1..Len(kp2)}
  <2>1. DOMAIN kp = 1..Len(kp)
    OBVIOUS
  <2>2. DOMAIN kp2 = 1..Len(kp2)
    BY <1>4
  <2> QED
    BY <2>1, <2>2, Zenon DEF ToSet
<1>10. ASSUME NEW x \in ToSet(kp2)
       PROVE  (x \in ToSet(kp) /\ pick[x.file] = 0) \/ New(x)
  <2>1. PICK i \in 1..Len(kp2) : x = kp2[i]
    BY <1>9, <1>10
  <2>2. CASE i <= Len(t)
    <3>1. i \in 1..Len(t)
      BY <1>4, <2>2
    <3>2. x = kp[h[i]] /\ h[i] \in 1..Len(kp) /\ kp[h[i]].file \notin gone
      BY <1>3, <1>5, <2>1, <3>1
    <3> QED
      BY <3>2, <1>8, <1>9
  <2>3. CASE i > Len(t)
    <3>1. i - Len(t) \in 1..Len(new) /\ x = new[i - Len(t)]
      BY <1>6, <2>1, <2>3
    <3> QED
      BY <3>1, <1>1
  <2> QED
    BY <1>4, <2>2, <2>3
<1>11. ASSUME NEW x, (x \in ToSet(kp) /\ pick[x.file] = 0) \/ New(x)
       PROVE  x \in ToSet(kp2)
  <2>1. CASE x \in ToSet(kp) /\ pick[x.file] = 0
    <3>1. PICK j \in 1..Len(kp) : x = kp[j]
      BY <1>9, <2>1
    <3>2. PICK i \in 1..Len(t) : h[i] = j
      BY <1>3, <1>8, <2>1, <3>1
    <3> QED
      BY <3>1, <3>2, <1>5, <1>9
  <2>2. CASE New(x)
    <3>1. PICK i \in 1..Len(new) : new[i] = x
      BY <2>2, <1>1
    <3> QED
      BY <3>1, <1>7, <1>9
  <2> QED
    BY <1>11, <2>1, <2>2
<1>12. ASSUME NEW E, \E x \in ToSet(kp) : x \in E,
              \A x \in ToSet(kp) : x \in E => pick[x.file] = 0, \A x \in E : ~New(x)
       PROVE  Latest(kp2, E) = Latest(kp, E)
  <2>1. \E i \in 1..Len(kp) : kp[i] \in E
    BY <1>9, <1>12
  <2>2. \A i \in 1..Len(kp2) : i > Len(t) => kp2[i] \notin E
    BY <1>1, <1>6, <1>12
  <2>3. \A j \in 1..Len(kp) : kp[j] \in E => \E i \in 1..Len(t) : h[i] = j
    BY <1>3, <1>8, <1>9, <1>12
  <2>4. Len(t) \in 0..Len(kp2) /\ kp2 \in Seq(Decision)
    BY <1>4
  <2>5. \A i, j \in 1..Len(t) : i < j => h[i] < h[j]
    BY <1>3
  <2>6. \A i \in 1..Len(t) : kp2[i] = kp[h[i]]
    BY <1>5
  <2> HIDE <1>12
  <2> DEFINE n == Len(t)
  <2>7. Drawn(kp, kp2, E, n, h)
    BY <2>2, <2>3, <2>4, <2>5, <2>6 DEF Drawn
  <2> HIDE DEF n
  <2> QED
    BY <2>1, <2>4, <2>7, LatestStays
<1> QED
  BY <1>0, <1>4, <1>10, <1>11, <1>12 DEF New

\* A choice of keepers, the same for every file of a group and one of them;
\* 0 where the group keeps what it has.
PerGroup(fm, pick) ==
    /\ pick \in [File -> File \cup {0}]
    /\ \A f \in File : pick[f] # 0 => pick[f] \in fm.group[f]
    /\ \A f \in File : \A g \in fm.group[f] : pick[g] = pick[f]
\* HandHolds, file by file.
HoldsFor(fm, kp) ==
    \A f \in File : LET hand == Hand(kp, fm.group[f]) IN
        fm.group[f] # {} /\ hand # {} => fm.keeper[f] = Latest(kp, hand)

LEMMA ReKeptKeeper ==
    ASSUME NEW fm, Family(fm), FileInv, NEW pick
    PROVE  /\ Family(ReKeep(fm, pick)) /\ ReKeep(fm, pick).group = fm.group
           /\ \A f \in File : ReKeep(fm, pick).keeper[f] = IF pick[f] # 0 THEN pick[f] ELSE fm.keeper[f]
<1> DEFINE K == [f \in File |-> IF pick[f] # 0 THEN pick[f] ELSE fm.keeper[f]]
           R == [f \in File |-> IF pick[f] # 0 THEN Reconciled(fm, pick[f], f) ELSE fm.role[f]]
<1>1. fm \in [group : {fm.group}, keeper : {fm.keeper}, role : {fm.role}]
  <2>1. fm = [group |-> fm.group, keeper |-> fm.keeper, role |-> fm.role]
    BY DEF Family
  <2> QED
    BY <2>1
<1>2. ReKeep(fm, pick) = [fm EXCEPT !.keeper = K, !.role = R]
  BY DEF ReKeep
<1>3. \A f \in File : K[f] = IF pick[f] # 0 THEN pick[f] ELSE fm.keeper[f]
  OBVIOUS
<1> HIDE DEF K, R
<1>4. [fm EXCEPT !.keeper = K, !.role = R].keeper = K
  BY <1>1
<1> QED
  BY <1>2, <1>3, <1>4, ReKeptIsFamily

LEMMA ReKeptIsOne ==
    ASSUME NEW fm, Family(fm), FileInv, KeeperIsOne(fm), NEW pick, PerGroup(fm, pick)
    PROVE  KeeperIsOne(ReKeep(fm, pick))
<1> DEFINE k == ReKeep(fm, pick)
<1>1. k.group = fm.group /\ \A f \in File : k.keeper[f] = IF pick[f] # 0 THEN pick[f] ELSE fm.keeper[f]
  BY ReKeptKeeper
<1> HIDE DEF k
<1>2. ASSUME NEW f \in File, NEW g \in fm.group[f]
      PROVE  k.keeper[g] = k.keeper[f]
  <2>1. g \in File
    BY DEF Family, Whole
  <2>2. pick[g] = pick[f] /\ fm.keeper[g] = fm.keeper[f]
    BY DEF PerGroup, KeeperIsOne
  <2> QED
    BY <1>1, <2>1, <2>2
<1>3. KeeperIsOne(k)
  BY <1>1, <1>2 DEF KeeperIsOne
<1> QED
  BY <1>3 DEF k

\* What a file's group is decided by hand does not change with the decisions
\* on the others.
LEMMA HandIsLeft ==
    ASSUME NEW fm, Family(fm), NEW kp \in Seq(Decision), NEW pick, PerGroup(fm, pick),
           NEW by \in {"hand", "folder"}, NEW f \in File, pick[f] = 0
    PROVE  LET kp2 == KeptAfter(kp, pick, by)
               G == fm.group[f]
           IN /\ Hand(kp2, G) = Hand(kp, G)
              /\ Hand(kp, G) # {} => Latest(kp2, Hand(kp, G)) = Latest(kp, Hand(kp, G))
<1> DEFINE kp2 == KeptAfter(kp, pick, by)
           New(x) == \E g \in File : pick[g] # 0 /\ x = [file |-> pick[g], by |-> by]
           E == Hand(kp, fm.group[f])
<1>0. pick \in [File -> File \cup {0}]
  BY DEF PerGroup
<1>1. /\ kp2 \in Seq(Decision)
      /\ \A x : x \in ToSet(kp2) <=> (x \in ToSet(kp) /\ pick[x.file] = 0) \/ New(x)
      /\ \A F : /\ \E x \in ToSet(kp) : x \in F
                /\ \A x \in ToSet(kp) : x \in F => pick[x.file] = 0
                /\ \A x \in F : ~New(x)
                => Latest(kp2, F) = Latest(kp, F)
  BY <1>0, KeptAfterIs, Zenon
<1> HIDE DEF kp2
<1>2. ASSUME NEW x, x.file \in fm.group[f]
      PROVE  pick[x.file] = 0
  BY <1>2 DEF PerGroup
<1>3. ASSUME NEW x, x.file \in fm.group[f], New(x)
      PROVE  FALSE
  <2>1. PICK g \in File : pick[g] # 0 /\ x = [file |-> pick[g], by |-> by]
    BY <1>3
  <2>2. pick[g] \in fm.group[g] /\ pick[pick[g]] = pick[g]
    BY <2>1 DEF PerGroup
  <2>3. pick[x.file] # 0
    BY <2>1, <2>2
  <2> QED
    BY <2>3, <1>2, <1>3
<1> HIDE DEF New
<1>4. Hand(kp2, fm.group[f]) = E
  BY <1>1, <1>2, <1>3 DEF Hand, Mine
<1>5. ASSUME E # {}
      PROVE  Latest(kp2, E) = Latest(kp, E)
  <2>1. \E x \in ToSet(kp) : x \in E
    BY <1>5 DEF Hand, Mine
  <2>2. \A x \in E : x.file \in fm.group[f]
    BY DEF Hand, Mine
  <2> HIDE DEF E
  <2> QED
    BY <2>1, <2>2, <1>1, <1>2, <1>3
<1> QED
  BY <1>4, <1>5 DEF kp2

\* A press gives each group it settles its own decision, the latest there.
LEMMA PressHolds ==
    ASSUME NEW fm, Family(fm), FileInv, NEW kp \in Seq(Decision), NEW pick, PerGroup(fm, pick),
           HoldsFor(fm, kp)
    PROVE  HoldsFor(ReKeep(fm, pick), KeptAfter(kp, pick, "hand"))
<1> DEFINE k == ReKeep(fm, pick)
           kp2 == KeptAfter(kp, pick, "hand")
           New(x) == \E g \in File : pick[g] # 0 /\ x = [file |-> pick[g], by |-> "hand"]
<1>1. k.group = fm.group /\ \A f \in File : k.keeper[f] = IF pick[f] # 0 THEN pick[f] ELSE fm.keeper[f]
  BY ReKeptKeeper
<1>2. kp2 \in Seq(Decision) /\ \A x : x \in ToSet(kp2) <=> (x \in ToSet(kp) /\ pick[x.file] = 0) \/ New(x)
  BY KeptAfterIs DEF PerGroup
<1>3. ASSUME NEW f \in File, pick[f] = 0
      PROVE  LET G == fm.group[f]
             IN /\ Hand(kp2, G) = Hand(kp, G)
                /\ Hand(kp, G) # {} => Latest(kp2, Hand(kp, G)) = Latest(kp, Hand(kp, G))
  BY <1>3, HandIsLeft
<1> HIDE DEF k, kp2
<1>4. SUFFICES ASSUME NEW f \in File, fm.group[f] # {}, Hand(kp2, fm.group[f]) # {}
               PROVE  k.keeper[f] = Latest(kp2, Hand(kp2, fm.group[f]))
  BY <1>1 DEF HoldsFor, k, kp2
<1> DEFINE E == Hand(kp2, fm.group[f])
<1>5. CASE pick[f] = 0
  BY <1>1, <1>3, <1>4, <1>5 DEF HoldsFor
<1>6. CASE pick[f] # 0
  <2>1. ASSUME NEW x \in E
        PROVE  x.file = pick[f]
    <3>1. x \in ToSet(kp2) /\ x.file \in fm.group[f]
      BY DEF Hand, Mine
    <3>2. pick[x.file] = pick[f]
      BY <3>1 DEF PerGroup
    <3>3. PICK g \in File : pick[g] # 0 /\ x = [file |-> pick[g], by |-> "hand"]
      BY <1>2, <1>6, <3>1, <3>2
    <3>4. pick[pick[g]] = pick[g]
      BY <3>3 DEF PerGroup
    <3> QED
      BY <3>2, <3>3, <3>4
  <2>2. \E i \in 1..Len(kp2) : kp2[i] \in E
    <3>1. ToSet(kp2) = {kp2[i] : i \in 1..Len(kp2)}
      BY <1>2 DEF ToSet
    <3> QED
      BY <1>4, <3>1 DEF Hand, Mine
  <2> HIDE DEF E
  <2>3. PICK i \in 1..Len(kp2) : kp2[i] \in E /\ Latest(kp2, E) = kp2[i].file
    BY <2>2, <1>2, LatestIs
  <2>4. Latest(kp2, E) = pick[f]
    BY <2>1, <2>3
  <2> QED
    BY <2>4, <1>1, <1>6 DEF E
<1> QED
  BY <1>5, <1>6

\* A burst moves no keeper a decision names.
LEMMA BurstedHolds ==
    ASSUME NEW fm, Family(fm), FileInv, KeeperIsOne(fm), kept \in Seq(Decision)
    PROVE  /\ Bursted(fm).group = fm.group /\ Family(Bursted(fm)) /\ KeeperIsOne(Bursted(fm))
           /\ HoldsFor(fm, kept) => HoldsFor(Bursted(fm), kept)
<1> DEFINE manual == {e.file : e \in ToSet(kept)}
           k(f) == fm.keeper[f]
           Movers(f) == {g \in fm.group[f] \cap present :
               /\ \E B \in Bursts : g \in B /\ Dir[g] = Home(fm, B)
               /\ k(f) \in (UNION Bursts) \cap present /\ g # k(f)
               /\ {k(f), g} \cap manual = {}
               /\ pic[g].frame = pic[k(f)].frame}
           pick == [f \in File |-> IF Movers(f) = {} THEN 0 ELSE Max(Movers(f))]
<1>1. Bursted(fm) = ReKeep(fm, pick)
  BY DEF Bursted
<1>2. \A f \in File : Movers(f) \in SUBSET (fm.group[f] \cap File)
  BY DEF FileInv
<1>3. \A f \in File : \A g \in fm.group[f] : g \in File /\ Movers(g) = Movers(f)
  <2> TAKE f \in File
  <2> TAKE g \in fm.group[f]
  <2>1. g \in File /\ fm.group[g] = fm.group[f] /\ fm.keeper[g] = fm.keeper[f]
    BY DEF Family, Whole, KeeperIsOne
  <2> QED
    BY <2>1
<1>4. \A f \in File : k(f) \in manual => Movers(f) = {}
  OBVIOUS
<1> HIDE DEF Movers
<1>5. \A f \in File : Movers(f) # {} => Max(Movers(f)) \in Movers(f)
  <2> TAKE f \in File
  <2>1. Movers(f) \in SUBSET File
    BY <1>2
  <2>2. Movers(f) \in SUBSET Nat /\ IsFiniteSet(Movers(f))
    BY <2>1, FileAssumption, FS_Subset
  <2> QED
    BY <2>2, GreatestIs
<1>6. PerGroup(fm, pick)
  <2>1. \A f \in File : Movers(f) # {} => Max(Movers(f)) \in File /\ Max(Movers(f)) \in fm.group[f]
    BY <1>2, <1>5
  <2>2. pick \in [File -> File \cup {0}]
    BY <2>1
  <2>3. \A f \in File : \A g \in fm.group[f] : pick[g] = pick[f]
    BY <1>3
  <2> QED
    BY <2>1, <2>2, <2>3 DEF PerGroup
<1>7. \A f \in File : k(f) \in manual => pick[f] = 0
  BY <1>4
<1> HIDE DEF pick
<1>8. /\ Family(ReKeep(fm, pick)) /\ ReKeep(fm, pick).group = fm.group
      /\ \A f \in File : ReKeep(fm, pick).keeper[f] = IF pick[f] # 0 THEN pick[f] ELSE fm.keeper[f]
      /\ KeeperIsOne(ReKeep(fm, pick))
  BY <1>6, ReKeptKeeper, ReKeptIsOne
<1>9. ASSUME HoldsFor(fm, kept), NEW f \in File, fm.group[f] # {}, Hand(kept, fm.group[f]) # {}
      PROVE  ReKeep(fm, pick).keeper[f] = Latest(kept, Hand(kept, fm.group[f]))
  <2> DEFINE E == Hand(kept, fm.group[f])
  <2>1. fm.keeper[f] = Latest(kept, E)
    BY <1>9 DEF HoldsFor
  <2>2. \E i \in 1..Len(kept) : kept[i] \in E
    BY <1>9 DEF Hand, Mine, ToSet
  <2> HIDE DEF E
  <2>3. PICK i \in 1..Len(kept) : Latest(kept, E) = kept[i].file
    BY <2>2, LatestIs
  <2>4. kept[i].file \in manual
    BY DEF ToSet
  <2> QED
    BY <2>1, <2>3, <2>4, <1>7, <1>8 DEF E
<1>10. HoldsFor(fm, kept) => HoldsFor(ReKeep(fm, pick), kept)
  BY <1>8, <1>9 DEF HoldsFor
<1> QED
  BY <1>1, <1>8, <1>10

(* ------------------------- what the folder rules do --------------------- *)
\* The groups whose mark went keep their best file, and then every group no
\* person decided keeps one of the marked folders, if it holds the picture.
Settling(fm, kp, mk, fell, pick) ==
    LET freed == Uncovered(fm, kp, mk)
        left == Without(kp, freed)
        fallen == ReKeep(fm, fell)
    IN /\ Settled(fm, kp, mk) = [fam |-> ReKeep(fallen, pick), kept |-> KeptAfter(left, pick, "folder")]
       /\ PerGroup(fm, fell) /\ PerGroup(fm, pick)
       /\ freed = {} => \A f \in File : fell[f] = 0
       /\ \A f \in File : Hand(left, fm.group[f]) # {} => pick[f] = 0
       /\ \A f \in File : pick[f] # 0 =>
             /\ pick[f] \in present /\ Dir[pick[f]] \in mk /\ pick[f] \notin rejects
             /\ Identity(pic[pick[f]]) = Identity(pic[fallen.keeper[f]])

LEMMA SettledIsSettling ==
    ASSUME NEW fm, Family(fm), FileInv, KeeperIsOne(fm), NEW kp, NEW mk
    PROVE  \E fell, pick : Settling(fm, kp, mk, fell, pick)
<1> DEFINE freed == Uncovered(fm, kp, mk)
           left == Without(kp, freed)
           fell == [f \in File |->
              IF fm.group[f] \cap freed # {} /\ fm.group[f] \cap present # {}
              THEN Best(fm.group[f] \cap present) ELSE 0]
           fallen == ReKeep(fm, fell)
           Takes(f) == {m \in fm.group[f] \cap present :
              /\ Dir[m] \in mk /\ MayTake(m) /\ fallen.keeper[f] # 0
              /\ Identity(pic[m]) = Identity(pic[fallen.keeper[f]])}
           pick == [f \in File |->
              IF Hand(left, fm.group[f]) # {} \/ Takes(f) = {} THEN 0 ELSE Best(Takes(f))]
<1>1. Settled(fm, kp, mk) = [fam |-> ReKeep(fallen, pick), kept |-> KeptAfter(left, pick, "folder")]
  BY DEF Settled
<1>2. freed = {} => \A f \in File : fell[f] = 0
  OBVIOUS
<1> HIDE DEF freed
<1>3. present \in SUBSET File /\ \A f \in File : fm.group[f] \in SUBSET File
  BY DEF FileInv, Family, Whole
<1>4. \A f \in File : \A g \in fm.group[f] :
         g \in File /\ fm.group[g] = fm.group[f] /\ fm.keeper[g] = fm.keeper[f]
  BY DEF Family, Whole, KeeperIsOne
<1>5. PerGroup(fm, fell)
  <2>1. ASSUME NEW f \in File, fm.group[f] \cap present # {}
        PROVE  Best(fm.group[f] \cap present) \in fm.group[f] \cap present
    <3>1. fm.group[f] \cap present \in SUBSET File
      BY <1>3
    <3> QED
      BY <2>1, <3>1, BestIsOneOfThem
  <2>2. fell \in [File -> File \cup {0}]
    BY <2>1, <1>3
  <2>3. \A f \in File : fell[f] # 0 => fell[f] \in fm.group[f]
    BY <2>1
  <2>4. \A f \in File : \A g \in fm.group[f] : fell[g] = fell[f]
    BY <1>4
  <2> QED
    BY <2>2, <2>3, <2>4 DEF PerGroup
<1> HIDE DEF fell, left
<1>6. \A f \in File : \A g \in fm.group[f] : fallen.keeper[g] = fallen.keeper[f]
  <2>1. KeeperIsOne(fallen) /\ fallen.group = fm.group
    BY <1>5, ReKeptIsOne, ReKeptKeeper
  <2> HIDE DEF fallen
  <2> QED
    BY <2>1 DEF KeeperIsOne
<1> HIDE DEF fallen
<1>7. ASSUME NEW f \in File, NEW g \in fm.group[f]
      PROVE  pick[g] = pick[f]
  <2>1. g \in File /\ fm.group[g] = fm.group[f] /\ fallen.keeper[g] = fallen.keeper[f]
    BY <1>4, <1>6
  <2>2. Takes(g) = Takes(f)
    BY <2>1
  <2> HIDE DEF Takes
  <2> QED
    BY <2>1, <2>2
<1>8. \A f \in File : /\ Takes(f) \in SUBSET File
                      /\ \A m \in Takes(f) : /\ m \in fm.group[f] /\ m \in present
                                             /\ Dir[m] \in mk /\ m \notin rejects
                                             /\ Identity(pic[m]) = Identity(pic[fallen.keeper[f]])
  BY <1>3 DEF MayTake
<1> HIDE DEF Takes
<1>9. \A f \in File : Takes(f) # {} => Best(Takes(f)) \in Takes(f) /\ Best(Takes(f)) \in File
  BY <1>8, BestIsOneOfThem
<1>10. PerGroup(fm, pick)
  <2>1. pick \in [File -> File \cup {0}]
    BY <1>9
  <2>2. \A f \in File : pick[f] # 0 => pick[f] \in fm.group[f]
    BY <1>8, <1>9
  <2>3. \A f \in File : \A g \in fm.group[f] : pick[g] = pick[f]
    BY <1>7
  <2> QED
    BY <2>1, <2>2, <2>3 DEF PerGroup
<1>11. \A f \in File : Hand(left, fm.group[f]) # {} => pick[f] = 0
  OBVIOUS
<1>12. \A f \in File : pick[f] # 0 =>
         /\ pick[f] \in present /\ Dir[pick[f]] \in mk /\ pick[f] \notin rejects
         /\ Identity(pic[pick[f]]) = Identity(pic[fallen.keeper[f]])
  BY <1>8, <1>9
<1> HIDE DEF pick
<1>13. Settling(fm, kp, mk, fell, pick)
  BY <1>1, <1>2, <1>5, <1>10, <1>11, <1>12 DEF Settling, freed, left, fallen
<1> QED
  BY <1>13

\* Nothing is lost of a decision that is not on the files taken out.
LEMMA NothingGone ==
    ASSUME NEW kp \in Seq(Decision)
    PROVE  /\ ToSet(Without(kp, {})) = ToSet(kp)
           /\ \A E : (\E x \in ToSet(kp) : x \in E) => Latest(Without(kp, {}), E) = Latest(kp, E)
<1> DEFINE t == Without(kp, {})
<1>1. t \in Seq(Decision)
  BY WithoutIs DEF LeftOf
<1>2. PICK h \in [1..Len(t) -> 1..Len(kp)] :
        /\ \A i, j \in 1..Len(t) : i < j => h[i] < h[j]
        /\ \A i \in 1..Len(t) : t[i] = kp[h[i]]
        /\ \A j \in 1..Len(kp) : \E i \in 1..Len(t) : h[i] = j
  BY WithoutIs DEF LeftOf
<1> HIDE DEF t
<1>3. ToSet(kp) = {kp[i] : i \in 1..Len(kp)} /\ ToSet(t) = {t[i] : i \in 1..Len(t)}
  BY <1>1 DEF ToSet
<1>4. ToSet(t) = ToSet(kp)
  <2>1. ASSUME NEW x \in ToSet(t)
        PROVE  x \in ToSet(kp)
    BY <1>2, <1>3, <2>1
  <2>2. ASSUME NEW x \in ToSet(kp)
        PROVE  x \in ToSet(t)
    <3>1. PICK j \in 1..Len(kp) : x = kp[j]
      BY <1>3, <2>2
    <3>2. PICK i \in 1..Len(t) : h[i] = j
      BY <1>2
    <3>3. x = t[i]
      BY <1>2, <3>1, <3>2
    <3> QED
      BY <1>3, <3>3
  <2> QED
    BY <2>1, <2>2
<1>5. ASSUME NEW E, \E x \in ToSet(kp) : x \in E
      PROVE  Latest(t, E) = Latest(kp, E)
  <2>1. \E i \in 1..Len(kp) : kp[i] \in E
    BY <1>3, <1>5
  <2>2. Len(t) \in 0..Len(t)
    BY <1>1
  <2>3. \A i \in 1..Len(t) : ~(i > Len(t))
    BY <1>1
  <2>4. Drawn(kp, t, E, Len(t), h)
    BY <1>2, <2>2, <2>3 DEF Drawn
  <2> QED
    BY <1>1, <2>1, <2>4, LatestStays
<1> QED
  BY <1>4, <1>5 DEF t

\* The folder rules take back what no mark covers and add what one does,
\* never a file that was set aside, and never against a person's decision.
ByFolder(kp) == {e \in ToSet(kp) : e.by = "folder"}
CoveredBy(fm, mk, e) == fm.group[e.file] = {} \/ Dir[e.file] \in mk
LEMMA SettledStands ==
    ASSUME NEW fm, Family(fm), FileInv, KeeperIsOne(fm), NEW kp \in Seq(Decision), NEW mk
    PROVE  LET s == Settled(fm, kp, mk)
           IN /\ Family(s.fam) /\ KeeperIsOne(s.fam) /\ s.fam.group = fm.group
              /\ s.kept \in Seq(Decision)
              /\ \A e \in ByFolder(s.kept) : CoveredBy(fm, mk, e)
              /\ \A e \in ToSet(s.kept) \ ToSet(kp) : e.file \notin rejects
              /\ (\A e \in ByFolder(kp) : CoveredBy(fm, mk, e)) =>
                    \A e \in ToSet(s.kept) \ ToSet(kp) :
                       Identity(pic[e.file]) = Identity(pic[fm.keeper[e.file]])
              /\ ByFolder(kp) \subseteq ByFolder(s.kept) /\ HoldsFor(fm, kp) => HoldsFor(s.fam, s.kept)
<1> DEFINE s == Settled(fm, kp, mk)
           freed == Uncovered(fm, kp, mk)
           left == Without(kp, freed)
<1>0. PICK fell, pick : Settling(fm, kp, mk, fell, pick)
  BY SettledIsSettling
<1> DEFINE fallen == ReKeep(fm, fell)
           after == ReKeep(fallen, pick)
           kp2 == KeptAfter(left, pick, "folder")
           New(x) == \E f \in File : pick[f] # 0 /\ x = [file |-> pick[f], by |-> "folder"]
<1>1. s.fam = after /\ s.kept = kp2
  BY <1>0 DEF Settling
<1>2. PerGroup(fm, fell) /\ PerGroup(fm, pick) /\ pick \in [File -> File \cup {0}]
  BY <1>0 DEF Settling, PerGroup
<1>3. /\ Family(fallen) /\ KeeperIsOne(fallen) /\ fallen.group = fm.group
      /\ \A f \in File : fallen.keeper[f] = IF fell[f] # 0 THEN fell[f] ELSE fm.keeper[f]
  BY <1>2, ReKeptKeeper, ReKeptIsOne
<1>4. \A f \in File : pick[f] # 0 =>
        /\ Dir[pick[f]] \in mk /\ pick[f] \notin rejects /\ pick[f] \in fm.group[f]
        /\ Identity(pic[pick[f]]) = Identity(pic[fallen.keeper[f]])
  BY <1>0 DEF Settling, PerGroup
<1>5. /\ freed = {} => \A f \in File : fell[f] = 0
      /\ \A f \in File : Hand(left, fm.group[f]) # {} => pick[f] = 0
  BY <1>0 DEF Settling
<1> HIDE DEF fallen, s
<1>6. PerGroup(fallen, pick)
  BY <1>2, <1>3 DEF PerGroup
<1>7. /\ Family(after) /\ KeeperIsOne(after) /\ after.group = fm.group
      /\ \A f \in File : after.keeper[f] = IF pick[f] # 0 THEN pick[f] ELSE fallen.keeper[f]
  BY <1>3, <1>6, ReKeptKeeper, ReKeptIsOne
<1> HIDE DEF after
<1>8. left \in Seq(Decision)
  BY WithoutIs DEF LeftOf
<1>9. \A x \in ToSet(left) : x \in ToSet(kp) /\ x.file \notin freed
  <2>1. PICK h \in [1..Len(left) -> 1..Len(kp)] :
          \A i \in 1..Len(left) : left[i] = kp[h[i]] /\ kp[h[i]].file \notin freed
    BY WithoutIs DEF LeftOf
  <2> HIDE DEF left, freed
  <2>2. ToSet(left) = {left[i] : i \in 1..Len(left)} /\ ToSet(kp) = {kp[i] : i \in 1..Len(kp)}
    BY <1>8 DEF ToSet
  <2> QED
    BY <2>1, <2>2
<1> HIDE DEF left
<1>10. kp2 \in Seq(Decision) /\ \A x : x \in ToSet(kp2) <=> (x \in ToSet(left) /\ pick[x.file] = 0) \/ New(x)
  BY <1>2, <1>8, KeptAfterIs, Zenon
<1> HIDE DEF kp2
<1>11. \A e \in ToSet(kp) : e = [file |-> e.file, by |-> e.by] /\ e.file \in File
  <2>1. ToSet(kp) \subseteq Decision
    BY DEF ToSet
  <2> QED
    BY <2>1 DEF Decision
<1>12. ASSUME NEW e \in ToSet(kp), e.by = "folder", e.file \notin freed
       PROVE  CoveredBy(fm, mk, e)
  BY <1>11, <1>12 DEF Uncovered, covering, CoveredBy
<1>13. ASSUME NEW e, New(e)
       PROVE  /\ e.file \in File /\ pick[e.file] = e.file /\ e.by = "folder"
              /\ Dir[e.file] \in mk /\ e.file \notin rejects
              /\ Identity(pic[e.file]) = Identity(pic[fallen.keeper[e.file]])
  <2>1. PICK f \in File : pick[f] # 0 /\ e = [file |-> pick[f], by |-> "folder"]
    BY <1>13
  <2>2. pick[f] \in fm.group[f] /\ pick[f] \in File
    BY <1>2, <1>4, <2>1
  <2>3. pick[pick[f]] = pick[f]
    BY <1>2, <2>2 DEF PerGroup
  <2>4. fallen.keeper[pick[f]] = fallen.keeper[f]
    BY <1>3, <2>2 DEF KeeperIsOne
  <2>5. e.file = pick[f] /\ e.by = "folder"
    BY <2>1
  <2> QED
    BY <1>4, <2>1, <2>2, <2>3, <2>4, <2>5
<1> HIDE DEF New
<1>14. \A e \in ByFolder(kp2) : CoveredBy(fm, mk, e)
  <2> TAKE e \in ByFolder(kp2)
  <2>1. e \in ToSet(kp2) /\ e.by = "folder"
    BY DEF ByFolder
  <2>2. CASE New(e)
    BY <1>13, <2>2 DEF CoveredBy
  <2>3. CASE e \in ToSet(left)
    BY <1>9, <1>12, <2>1, <2>3
  <2> QED
    BY <1>10, <2>1, <2>2, <2>3
<1>15. \A e \in ToSet(kp2) \ ToSet(kp) : New(e)
  BY <1>9, <1>10
<1>16. (\A e \in ByFolder(kp) : CoveredBy(fm, mk, e)) => freed = {}
  BY DEF ByFolder, CoveredBy, Uncovered, covering
<1>17. freed = {} => \A f \in File : fallen.keeper[f] = fm.keeper[f]
  BY <1>3, <1>5
<1> HIDE DEF freed
<1>18. ASSUME ByFolder(kp) \subseteq ByFolder(kp2), HoldsFor(fm, kp)
       PROVE  HoldsFor(after, kp2)
  <2>1. freed = {}
    BY <1>14, <1>16, <1>18
  <2>2. /\ ToSet(left) = ToSet(kp)
        /\ \A E : (\E x \in ToSet(kp) : x \in E) => Latest(left, E) = Latest(kp, E)
    BY <2>1, NothingGone DEF left
  <2> SUFFICES ASSUME NEW f \in File, fm.group[f] # {}, Hand(kp2, fm.group[f]) # {}
               PROVE  after.keeper[f] = Latest(kp2, Hand(kp2, fm.group[f]))
    BY <1>7 DEF HoldsFor
  <2> DEFINE E == Hand(kp, fm.group[f])
  <2>3. Hand(left, fm.group[f]) = E
    BY <2>2 DEF Hand, Mine
  <2>4. E # {}
    <3>1. PICK e \in ToSet(kp2) : e.file \in fm.group[f] /\ e.by = "hand"
      BY DEF Hand, Mine
    <3>2. ~New(e)
      BY <1>13, <3>1
    <3>3. e \in ToSet(kp)
      BY <1>10, <2>2, <3>1, <3>2
    <3> QED
      BY <3>1, <3>3 DEF Hand, Mine
  <2>5. pick[f] = 0
    BY <1>5, <2>3, <2>4
  <2>6. Hand(kp2, fm.group[f]) = E /\ Latest(kp2, E) = Latest(left, E)
    <3> HIDE DEF E
    <3>1. /\ Hand(kp2, fm.group[f]) = Hand(left, fm.group[f])
          /\ Hand(left, fm.group[f]) # {} => Latest(kp2, Hand(left, fm.group[f])) = Latest(left, Hand(left, fm.group[f]))
      BY <1>2, <1>8, <2>5, HandIsLeft DEF kp2
    <3> QED
      BY <2>3, <2>4, <3>1
  <2>7. \E x \in ToSet(kp) : x \in E
    BY <2>4 DEF Hand, Mine
  <2>8. fm.keeper[f] = Latest(kp, E)
    BY <1>18, <2>4 DEF HoldsFor
  <2> HIDE DEF E
  <2>9. after.keeper[f] = fm.keeper[f]
    BY <1>7, <1>17, <2>1, <2>5
  <2> QED
    BY <2>2, <2>6, <2>7, <2>8, <2>9
<1>19. (\A e \in ByFolder(kp) : CoveredBy(fm, mk, e)) =>
          \A e \in ToSet(kp2) \ ToSet(kp) : Identity(pic[e.file]) = Identity(pic[fm.keeper[e.file]])
  <2> SUFFICES ASSUME \A e \in ByFolder(kp) : CoveredBy(fm, mk, e), NEW e \in ToSet(kp2) \ ToSet(kp)
               PROVE  Identity(pic[e.file]) = Identity(pic[fm.keeper[e.file]])
    OBVIOUS
  <2>1. New(e) /\ freed = {}
    BY <1>15, <1>16
  <2>2. e.file \in File /\ Identity(pic[e.file]) = Identity(pic[fallen.keeper[e.file]])
    BY <1>13, <2>1
  <2> QED
    BY <1>17, <2>1, <2>2
<1>20. \A e \in ToSet(kp2) \ ToSet(kp) : e.file \notin rejects
  BY <1>13, <1>15
<1> QED
  BY <1>1, <1>7, <1>10, <1>14, <1>18, <1>19, <1>20 DEF s

(* ---------------------- the steps and the decisions --------------------- *)
\* HandHolds says of a group's every file what HoldsFor says.
LEMMA HoldsIs ==
    ASSUME NEW fm, Family(fm), KeeperIsOne(fm), NEW kp
    PROVE  (\A G \in {fm.group[f] : f \in File} \ {{}} :
               Hand(kp, G) # {} => fm.keeper[CHOOSE m \in G : TRUE] = Latest(kp, Hand(kp, G)))
           <=> HoldsFor(fm, kp)
<1>1. \A f \in File : fm.group[f] # {} => fm.keeper[CHOOSE m \in fm.group[f] : TRUE] = fm.keeper[f]
  <2> SUFFICES ASSUME NEW f \in File, fm.group[f] # {}
               PROVE  fm.keeper[CHOOSE m \in fm.group[f] : TRUE] = fm.keeper[f]
    OBVIOUS
  <2>1. (CHOOSE m \in fm.group[f] : TRUE) \in fm.group[f]
    OBVIOUS
  <2> QED
    BY <2>1 DEF KeeperIsOne
<1>2. ASSUME HoldsFor(fm, kp), NEW G \in {fm.group[f] : f \in File} \ {{}}, Hand(kp, G) # {}
      PROVE  fm.keeper[CHOOSE m \in G : TRUE] = Latest(kp, Hand(kp, G))
  <2>1. PICK f \in File : G = fm.group[f] /\ G # {}
    OBVIOUS
  <2> QED
    BY <1>1, <1>2, <2>1 DEF HoldsFor
<1>3. ASSUME \A G \in {fm.group[f] : f \in File} \ {{}} :
                Hand(kp, G) # {} => fm.keeper[CHOOSE m \in G : TRUE] = Latest(kp, Hand(kp, G)),
             NEW f \in File, fm.group[f] # {}, Hand(kp, fm.group[f]) # {}
      PROVE  fm.keeper[f] = Latest(kp, Hand(kp, fm.group[f]))
  <2>1. fm.group[f] \in {fm.group[g] : g \in File} \ {{}}
    BY <1>3
  <2>2. fm.keeper[CHOOSE m \in fm.group[f] : TRUE] = Latest(kp, Hand(kp, fm.group[f]))
    BY <1>3, <2>1
  <2> QED
    BY <1>1, <1>3, <2>2
<1> QED
  BY <1>2, <1>3 DEF HoldsFor

\* A person's decision is the group's.
LEMMA DecidedByHand ==
    ASSUME NEW kp \in Seq(Decision), NEW G, Hand(kp, G) # {}
    PROVE  Decided(kp, G) = Latest(kp, Hand(kp, G)) /\ Decided(kp, G) \in File
<1>1. Decided(kp, G) = Latest(kp, Hand(kp, G))
  BY DEF Decided
<1>2. \E i \in 1..Len(kp) : kp[i] \in Hand(kp, G)
  BY DEF Hand, Mine, ToSet
<1>3. PICK i \in 1..Len(kp) : Latest(kp, Hand(kp, G)) = kp[i].file
  BY <1>2, LatestIs
<1>4. kp[i] \in Decision
  OBVIOUS
<1> QED
  BY <1>1, <1>3, <1>4 DEF Decision

\* The groups are built around what was decided, and a file that was split
\* off is linked to none.
LEMMA BuiltHolds ==
    ASSUME FileInv, DecisionInv
    PROVE  /\ Family(Built) /\ KeeperIsOne(Built) /\ HoldsFor(Built, kept)
           /\ \A f \in splits : Built.group[f] \subseteq {f}
<1> DEFINE G(f) == IF f \in present THEN Joined(f) ELSE {}
           Gs == [f \in File |-> G(f)]
           Ks == [f \in File |-> IF G(f) = {} THEN 0 ELSE KeeperIn(G(f), Decided(kept, G(f)))]
<1>1. Built.group = Gs /\ Built.keeper = Ks
  BY DEF Built
<1>2. Family(Built)
  BY BuiltIsFamily
<1>3. \A f \in File : Built.group[f] = G(f)
  BY <1>1
<1>4. \A f \in File : Built.keeper[f] = IF Built.group[f] = {} THEN 0
                        ELSE KeeperIn(Built.group[f], Decided(kept, Built.group[f]))
  BY <1>1
<1>5. KeeperIsOne(Built)
  <2> SUFFICES ASSUME NEW f \in File, NEW g \in Built.group[f]
               PROVE  Built.keeper[g] = Built.keeper[f]
    BY DEF KeeperIsOne
  <2>1. g \in File /\ Built.group[g] = Built.group[f]
    BY <1>2 DEF Family, Whole
  <2> QED
    BY <1>4, <2>1
<1>6. HoldsFor(Built, kept)
  <2> SUFFICES ASSUME NEW f \in File, Built.group[f] # {}, Hand(kept, Built.group[f]) # {}
               PROVE  Built.keeper[f] = Latest(kept, Hand(kept, Built.group[f]))
    BY DEF HoldsFor
  <2> DEFINE d == Decided(kept, Built.group[f])
  <2>1. d = Latest(kept, Hand(kept, Built.group[f])) /\ d \in File
    BY DecidedByHand DEF DecisionInv
  <2> HIDE DEF d
  <2>2. KeeperIn(Built.group[f], d) = d
    BY <2>1, FileIsNotZero DEF KeeperIn
  <2> QED
    BY <1>4, <2>1, <2>2 DEF d
<1>7. ASSUME NEW f \in splits
      PROVE  Built.group[f] \subseteq {f}
  <2>1. f \in File
    BY DEF DecisionInv
  <2>2. CASE f \in present
    <3>1. LinkClosed({f})
      <4> SUFFICES ASSUME NEW b \in present, Linked(f, b)
                   PROVE  b \in {f}
        BY DEF LinkClosed
      <4>1. f \in {f, b} \cap splits
        OBVIOUS
      <4> QED
        BY <4>1 DEF Linked
    <3>2. {f} \in SUBSET present
      BY <2>2
    <3>3. Joined(f) \subseteq {f}
      BY <2>2, <3>1, <3>2, JoinedIsLeast
    <3> QED
      BY <1>3, <2>1, <3>3
  <2>3. CASE f \notin present
    BY <1>3, <2>1, <2>3
  <2> QED
    BY <2>2, <2>3
<1> QED
  BY <1>2, <1>5, <1>6, <1>7

\* What the stages put back on top of the groups first: what was decided.
Restored(fm, kp) ==
    [fm EXCEPT !.keeper = [f \in File |->
        IF Decided(kp, fm.group[f]) # 0 THEN Decided(kp, fm.group[f]) ELSE @[f]]]
LEMMA RestoredHolds ==
    ASSUME NEW fm, Family(fm), KeeperIsOne(fm), NEW kp \in Seq(Decision)
    PROVE  LET r == Restored(fm, kp)
           IN Family(r) /\ KeeperIsOne(r) /\ HoldsFor(r, kp) /\ r.group = fm.group
<1> DEFINE d(f) == Decided(kp, fm.group[f])
           K == [f \in File |-> IF d(f) # 0 THEN d(f) ELSE fm.keeper[f]]
           r == Restored(fm, kp)
<1>1. fm \in [group : {fm.group}, keeper : {fm.keeper}, role : {fm.role}]
  <2>1. fm = [group |-> fm.group, keeper |-> fm.keeper, role |-> fm.role]
    BY DEF Family
  <2> QED
    BY <2>1
<1>2. r = [fm EXCEPT !.keeper = K]
  BY DEF Restored
<1>3. \A f \in File : K[f] = IF d(f) # 0 THEN d(f) ELSE fm.keeper[f]
  OBVIOUS
<1> HIDE DEF K
<1>4. r = [group |-> fm.group, keeper |-> K, role |-> fm.role]
  BY <1>1, <1>2
<1> HIDE DEF r
<1>5. Family(r)
  BY <1>4 DEF Family
<1>6. KeeperIsOne(r)
  <2> SUFFICES ASSUME NEW f \in File, NEW g \in fm.group[f]
               PROVE  K[g] = K[f]
    BY <1>4 DEF KeeperIsOne
  <2>1. g \in File /\ fm.group[g] = fm.group[f] /\ fm.keeper[g] = fm.keeper[f]
    BY DEF Family, Whole, KeeperIsOne
  <2> QED
    BY <1>3, <2>1
<1>7. HoldsFor(r, kp)
  <2> SUFFICES ASSUME NEW f \in File, Hand(kp, fm.group[f]) # {}
               PROVE  K[f] = Latest(kp, Hand(kp, fm.group[f]))
    BY <1>4 DEF HoldsFor
  <2>1. d(f) = Latest(kp, Hand(kp, fm.group[f])) /\ d(f) \in File
    BY DecidedByHand
  <2> HIDE DEF d
  <2> QED
    BY <1>3, <2>1, FileIsNotZero
<1> QED
  BY <1>4, <1>5, <1>6, <1>7 DEF r

HoldsStep == HandHolds /\ splits' = splits /\ FolderKept \subseteq FolderKept' => HandHolds'
ModestStep ==
    /\ \A e \in FolderKept' : fam'.group[e.file] = {} \/ Dir[e.file] \in marks'
    /\ \A e \in FolderKept' \ FolderKept :
         /\ e.file \notin rejects
         /\ marks \subseteq marks' /\ marks # marks' =>
              Identity(pic[e.file]) = Identity(pic[fam.keeper[e.file]])
Stays == DecisionInv' /\ HoldsStep /\ ModestStep
Standing == FileInv /\ FamInv /\ DecisionInv

LEMMA HandHoldsIs ==
    ASSUME FamInv, DecisionInv
    PROVE  HandHolds <=> HoldsFor(fam, kept)
<1>1. Family(fam) /\ KeeperIsOne(fam)
  BY DEF FamInv, DecisionInv
<1> QED
  BY <1>1, HoldsIs DEF HandHolds, Groups, KeepsFile
LEMMA HandHoldsIsNext ==
    ASSUME FamInv', DecisionInv'
    PROVE  HandHolds' <=> HoldsFor(fam', kept')
<1>1. Family(fam') /\ KeeperIsOne(fam')
  BY DEF FamInv, DecisionInv
<1> DEFINE Gs == {fam'.group[f] : f \in File} \ {{}}
<1>2. HandHolds' <=> \A G \in Gs : Hand(kept', G) # {} => fam'.keeper[CHOOSE m \in G : TRUE] = Latest(kept', Hand(kept', G))
  BY DEF HandHolds, Groups, KeepsFile
<1> QED
  BY <1>1, <1>2, HoldsIs

LEMMA RestStays ==
    ASSUME Standing, UNCHANGED <<fam, kept, splits, marks>>
    PROVE  Stays
<1>1. FolderKept' = FolderKept
  BY DEF FolderKept
<1>2. DecisionInv'
  BY <1>1 DEF Standing, DecisionInv, Covered
<1>3. HoldsStep
  BY DEF HoldsStep, HandHolds, Groups, KeepsFile
<1>4. ModestStep
  BY <1>1 DEF Standing, DecisionInv, Covered, ModestStep
<1> QED
  BY <1>2, <1>3, <1>4 DEF Stays

LEMMA SettlingStays ==
    ASSUME Standing, NEW fm, Family(fm), KeeperIsOne(fm), NEW mk,
           \A f \in splits : fm.group[f] \subseteq {f},
           HandHolds => HoldsFor(fm, kept),
           fam' = Settled(fm, kept, mk).fam, kept' = Settled(fm, kept, mk).kept,
           splits' = splits, marks' = mk, mk = marks \/ fm = fam
    PROVE  Stays
<1>0. FileInv /\ kept \in Seq(Decision) /\ FamInv /\ DecisionInv
  BY DEF Standing, DecisionInv
<1>1. /\ Family(fam') /\ KeeperIsOne(fam') /\ fam'.group = fm.group
      /\ kept' \in Seq(Decision)
      /\ \A e \in ByFolder(kept') : CoveredBy(fm, mk, e)
      /\ \A e \in ToSet(kept') \ ToSet(kept) : e.file \notin rejects
      /\ (\A e \in ByFolder(kept) : CoveredBy(fm, mk, e)) =>
            \A e \in ToSet(kept') \ ToSet(kept) :
               Identity(pic[e.file]) = Identity(pic[fm.keeper[e.file]])
      /\ ByFolder(kept) \subseteq ByFolder(kept') /\ HoldsFor(fm, kept) => HoldsFor(fam', kept')
  BY <1>0, SettledStands
<1>2. FolderKept = ByFolder(kept) /\ FolderKept' = ByFolder(kept')
  BY DEF FolderKept, ByFolder
<1>3. \A e \in FolderKept' : fam'.group[e.file] = {} \/ Dir[e.file] \in marks'
  BY <1>1, <1>2 DEF CoveredBy
<1>4. DecisionInv'
  <2>1. \A f \in splits' : fam'.group[f] \subseteq {f}
    BY <1>1
  <2>2. splits' \in SUBSET File
    BY <1>0 DEF DecisionInv
  <2>3. (\A e \in FolderKept : Covered(e))'
    BY <1>3 DEF Covered
  <2> QED
    BY <1>1, <2>1, <2>2, <2>3 DEF DecisionInv
<1>5. FamInv'
  BY <1>1 DEF FamInv
<1>6. HoldsStep
  BY <1>1, <1>2, <1>4, <1>5, HandHoldsIsNext DEF HoldsStep
<1>7. ModestStep
  <2>1. ASSUME NEW e \in FolderKept' \ FolderKept
        PROVE  e \in ToSet(kept') \ ToSet(kept)
    BY <1>2, <2>1 DEF ByFolder
  <2>2. ASSUME marks \subseteq marks', marks # marks'
        PROVE  fm = fam /\ \A e \in ByFolder(kept) : CoveredBy(fm, mk, e)
    BY <1>0, <1>2, <2>2 DEF DecisionInv, Covered, CoveredBy
  <2>3. \A e \in FolderKept' \ FolderKept : e.file \notin rejects
    BY <1>1, <2>1
  <2>4. marks \subseteq marks' /\ marks # marks' =>
           \A e \in FolderKept' \ FolderKept : Identity(pic[e.file]) = Identity(pic[fam.keeper[e.file]])
    BY <1>1, <2>1, <2>2
  <2> QED
    BY <1>3, <2>3, <2>4 DEF ModestStep
<1> QED
  BY <1>4, <1>6, <1>7 DEF Stays

LEMMA RebuildStays ==
    ASSUME Standing, Rebuild
    PROVE  Stays
<1>1. FileInv /\ DecisionInv /\ kept \in Seq(Decision)
  BY DEF Standing, DecisionInv
<1> DEFINE fm == Bursted(Built)
<1>2. /\ Family(Built) /\ KeeperIsOne(Built) /\ HoldsFor(Built, kept)
      /\ \A f \in splits : Built.group[f] \subseteq {f}
  BY <1>1, BuiltHolds
<1>3. /\ fm.group = Built.group /\ Family(fm) /\ KeeperIsOne(fm)
      /\ HoldsFor(Built, kept) => HoldsFor(fm, kept)
  BY <1>1, <1>2, BurstedHolds
<1>4. /\ fam' = Settled(fm, kept, marks).fam /\ kept' = Settled(fm, kept, marks).kept
      /\ splits' = splits /\ marks' = marks
  BY DEF Rebuild
<1> HIDE DEF fm
<1> QED
  BY <1>2, <1>3, <1>4, SettlingStays

LEMMA RestoringStays ==
    ASSUME Standing, restore_curation
    PROVE  Stays
<1>1. FileInv /\ DecisionInv /\ kept \in Seq(Decision) /\ Family(fam) /\ KeeperIsOne(fam)
  BY DEF Standing, DecisionInv, FamInv
<1> DEFINE fm == Restored(fam, kept)
<1>2. Family(fm) /\ KeeperIsOne(fm) /\ HoldsFor(fm, kept) /\ fm.group = fam.group
  BY <1>1, RestoredHolds
<1>3. /\ fam' = Settled(fm, kept, marks).fam /\ kept' = Settled(fm, kept, marks).kept
      /\ splits' = splits /\ marks' = marks
  BY DEF restore_curation, Restored
<1>4. \A f \in splits : fm.group[f] \subseteq {f}
  BY <1>1, <1>2 DEF DecisionInv
<1> HIDE DEF fm
<1> QED
  BY <1>2, <1>3, <1>4, SettlingStays

LEMMA MarkedFolderStays ==
    ASSUME Standing, NEW d, NEW mk, set_original_folder(d, mk)
    PROVE  Stays
<1>1. FamInv /\ DecisionInv /\ Family(fam) /\ KeeperIsOne(fam) /\ \A f \in splits : fam.group[f] \subseteq {f}
  BY DEF Standing, DecisionInv, FamInv
<1>2. HandHolds => HoldsFor(fam, kept)
  BY <1>1, HandHoldsIs
<1>3. /\ fam' = Settled(fam, kept, mk).fam /\ kept' = Settled(fam, kept, mk).kept
      /\ splits' = splits /\ marks' = mk
  BY DEF set_original_folder
<1> QED
  BY <1>1, <1>2, <1>3, SettlingStays

LEMMA SeriesStays ==
    ASSUME Standing, Series
    PROVE  Stays
<1>1. FileInv /\ FamInv /\ DecisionInv /\ Family(fam) /\ KeeperIsOne(fam) /\ kept \in Seq(Decision)
  BY DEF Standing, DecisionInv, FamInv
<1>2. /\ fam'.group = fam.group /\ Family(fam') /\ KeeperIsOne(fam')
      /\ HoldsFor(fam, kept) => HoldsFor(fam', kept)
  BY <1>1, BurstedHolds DEF Series
<1>3. kept' = kept /\ splits' = splits /\ marks' = marks
  BY DEF Series, decisions
<1>4. FolderKept' = FolderKept
  BY <1>3 DEF FolderKept
<1>5. DecisionInv'
  BY <1>1, <1>2, <1>3, <1>4 DEF DecisionInv, Covered
<1>6. HoldsStep
  BY <1>1, <1>2, <1>3, <1>5, HandHoldsIs, HandHoldsIsNext DEF HoldsStep, FamInv
<1>7. ModestStep
  BY <1>1, <1>2, <1>3, <1>4 DEF ModestStep, DecisionInv, Covered
<1> QED
  BY <1>5, <1>6, <1>7 DEF Stays

LEMMA PressStays ==
    ASSUME Standing, NEW pick, PerGroup(fam, pick), NEW aside, NEW forget, Press(pick, aside, forget)
    PROVE  Stays
<1>1. FileInv /\ FamInv /\ DecisionInv /\ Family(fam) /\ KeeperIsOne(fam) /\ kept \in Seq(Decision)
  BY DEF Standing, DecisionInv, FamInv
<1> DEFINE New(x) == \E f \in File : pick[f] # 0 /\ x = [file |-> pick[f], by |-> "hand"]
<1>2. /\ fam' = ReKeep(fam, pick) /\ kept' = KeptAfter(kept, pick, "hand")
      /\ splits' = splits /\ marks' = marks
  BY DEF Press
<1>3. Family(fam') /\ KeeperIsOne(fam') /\ fam'.group = fam.group
  BY <1>1, <1>2, ReKeptKeeper, ReKeptIsOne
<1>4. HoldsFor(fam, kept) => HoldsFor(fam', kept')
  BY <1>1, <1>2, PressHolds
<1>5. pick \in [File -> File \cup {0}]
  BY DEF PerGroup
<1>6. kept' \in Seq(Decision) /\ \A x : x \in ToSet(kept') <=> (x \in ToSet(kept) /\ pick[x.file] = 0) \/ New(x)
  <2> DEFINE kp2 == KeptAfter(kept, pick, "hand")
  <2>1. kp2 \in Seq(Decision) /\ \A x : x \in ToSet(kp2) <=> (x \in ToSet(kept) /\ pick[x.file] = 0) \/ New(x)
    BY <1>1, <1>5, KeptAfterIs, Zenon
  <2> HIDE DEF kp2, New
  <2> QED
    BY <2>1, <1>2 DEF kp2
<1>7. FolderKept' \subseteq FolderKept
  BY <1>6 DEF FolderKept
<1>8. DecisionInv'
  BY <1>1, <1>2, <1>3, <1>6, <1>7 DEF DecisionInv, Covered
<1>9. HoldsStep
  BY <1>1, <1>3, <1>4, <1>8, HandHoldsIs, HandHoldsIsNext DEF HoldsStep, FamInv
<1>10. ModestStep
  BY <1>1, <1>2, <1>3, <1>7 DEF ModestStep, DecisionInv, Covered
<1> QED
  BY <1>8, <1>9, <1>10 DEF Stays

LEMMA FilesPressStays ==
    ASSUME Standing, \/ \E f \in File : keep_only(f)
                     \/ \E d \in Dirs : keep_folder_only(d) \/ prefer_folder(d)
    PROVE  Stays
<1>1. /\ present \in SUBSET File
      /\ \A f \in File : fam.group[f] \in SUBSET File
      /\ \A f \in File : \A g \in fam.group[f] :
            g \in File /\ fam.group[g] = fam.group[f] /\ fam.keeper[g] = fam.keeper[f]
      /\ \A f \in File : fam.group[f] = {} \/ f \in fam.group[f]
  BY DEF Standing, FileInv, FamInv, Family, Whole, DecisionInv, KeeperIsOne
<1>2. ASSUME NEW f \in File, keep_only(f)
      PROVE  Stays
  <2> DEFINE G == fam.group[f]
             pick == [g \in File |-> IF g \in G THEN f ELSE 0]
  <2>1. f \in G /\ Press(pick, Rows(G) \ {f}, G)
    BY <1>2 DEF keep_only, Rows
  <2>2. pick \in [File -> File \cup {0}]
    OBVIOUS
  <2>3. \A g \in File : pick[g] # 0 => pick[g] \in fam.group[g]
    BY <1>1, <2>1
  <2>4. ASSUME NEW g \in File, NEW h \in fam.group[g]
        PROVE  pick[h] = pick[g]
    <3>1. h \in File /\ fam.group[h] = fam.group[g] /\ g \in fam.group[g]
      BY <1>1, <2>4
    <3>2. h \in G <=> g \in G
      BY <1>1, <3>1
    <3> QED
      BY <3>1, <3>2
  <2>5. PerGroup(fam, pick)
    BY <2>2, <2>3, <2>4 DEF PerGroup
  <2> HIDE DEF pick
  <2> QED
    BY <2>1, <2>5, PressStays
<1>3. ASSUME NEW d \in Dirs, keep_folder_only(d)
      PROVE  Stays
  <2> DEFINE here(f) == {m \in Rows(fam.group[f]) : Dir[m] = d}
             pick == Favourite(d)
  <2>1. pick = [f \in File |-> IF here(f) = {} THEN 0 ELSE Best(here(f))]
    BY DEF Favourite
  <2>2. \A f \in File : here(f) \in SUBSET File /\ here(f) \subseteq fam.group[f]
    BY <1>1 DEF Rows
  <2>3. \A f \in File : \A g \in fam.group[f] : g \in File /\ here(g) = here(f)
    BY <1>1
  <2> HIDE DEF here
  <2>4. \A f \in File : here(f) # {} => Best(here(f)) \in here(f)
    BY <2>2, BestIsOneOfThem
  <2> HIDE DEF pick
  <2>5. pick \in [File -> File \cup {0}]
    BY <2>1, <2>2, <2>4
  <2>6. \A f \in File : pick[f] # 0 => pick[f] \in fam.group[f]
    BY <2>1, <2>2, <2>4
  <2>7. \A f \in File : \A g \in fam.group[f] : pick[g] = pick[f]
    BY <2>1, <2>3
  <2>8. PerGroup(fam, pick)
    BY <2>5, <2>6, <2>7 DEF PerGroup
  <2> DEFINE settled == {f \in File : pick[f] # 0}
             aside == (settled \cap present) \ {pick[f] : f \in File}
  <2>9. Press(pick, aside, settled)
    BY <1>3 DEF keep_folder_only, pick
  <2> HIDE DEF settled, aside
  <2> QED
    BY <2>8, <2>9, PressStays
<1>4. ASSUME NEW d \in Dirs, prefer_folder(d)
      PROVE  Stays
  <2> DEFINE same(f) == {m \in Rows(fam.group[f]) : Dir[m] = d /\ pic[m].frame = pic[fam.keeper[f]].frame}
             pick == [f \in File |-> IF same(f) = {} THEN 0 ELSE Best(same(f))]
  <2>1. Press(pick, {}, {})
    BY <1>4 DEF prefer_folder
  <2>2. \A f \in File : same(f) \in SUBSET File /\ same(f) \subseteq fam.group[f]
    BY <1>1 DEF Rows
  <2>3. \A f \in File : \A g \in fam.group[f] : g \in File /\ same(g) = same(f)
    <3> TAKE f \in File
    <3> TAKE g \in fam.group[f]
    <3>1. g \in File /\ fam.group[g] = fam.group[f] /\ fam.keeper[g] = fam.keeper[f]
      BY <1>1
    <3> QED
      BY <3>1
  <2> HIDE DEF same
  <2>4. \A f \in File : same(f) # {} => Best(same(f)) \in same(f)
    BY <2>2, BestIsOneOfThem
  <2>5. pick \in [File -> File \cup {0}]
    BY <2>2, <2>4
  <2>6. \A f \in File : pick[f] # 0 => pick[f] \in fam.group[f]
    BY <2>2, <2>4
  <2>7. \A f \in File : \A g \in fam.group[f] : pick[g] = pick[f]
    BY <2>3
  <2>8. PerGroup(fam, pick)
    BY <2>5, <2>6, <2>7 DEF PerGroup
  <2> HIDE DEF pick
  <2> QED
    BY <2>1, <2>8, PressStays
<1> QED
  BY <1>2, <1>3, <1>4

\* A file split off keeps itself; splitting one that was split off already
\* changes nothing.
LEMMA SplittingStays ==
    ASSUME Standing, NEW f \in File, split_family(f)
    PROVE  Stays
<1> DEFINE G == fam.group[f]
           rest == G \ {f}
<1>0. FileInv /\ FamInv /\ DecisionInv /\ kept \in Seq(Decision)
  BY DEF Standing, DecisionInv
<1>1. /\ fam.group \in [File -> SUBSET File]
      /\ \A g \in File : fam.group[g] = {} \/ g \in fam.group[g]
      /\ \A g \in File : \A h \in fam.group[g] :
            h \in File /\ fam.group[h] = fam.group[g] /\ fam.keeper[h] = fam.keeper[g]
      /\ splits \in SUBSET File /\ \A g \in splits : fam.group[g] \subseteq {g}
  BY <1>0 DEF FamInv, Family, Whole, DecisionInv, KeeperIsOne
<1>2. /\ \A g \in File : fam'.group[g] = IF g = f THEN {f} ELSE IF g \in rest THEN rest ELSE fam.group[g]
      /\ \A g \in File : fam'.keeper[g] = IF g = f THEN f
                            ELSE IF g \in rest /\ fam.keeper[g] = f THEN Best(rest) ELSE fam.keeper[g]
  BY DEF split_family
<1>3. kept' = kept /\ splits' = splits \cup {f} /\ marks' = marks /\ f \in G
  BY <1>1 DEF split_family
<1>4. FamInv' /\ Family(fam')
  <2>1. FamInv'
    BY <1>0, SplitIsFamily
  <2> QED
    BY <2>1 DEF FamInv
<1>5. \A g \in File : g \notin G => \A h \in fam.group[g] : h \notin G
  BY <1>1
<1>6. KeeperIsOne(fam')
  <2> SUFFICES ASSUME NEW g \in File, NEW h \in fam'.group[g]
               PROVE  fam'.keeper[h] = fam'.keeper[g]
    BY DEF KeeperIsOne
  <2>1. CASE g = f
    BY <1>2, <2>1
  <2>2. CASE g # f /\ g \in rest
    <3>1. h \in rest /\ h \in File /\ fam.keeper[h] = fam.keeper[g]
      <4>1. h \in rest
        BY <1>2, <2>2
      <4>2. h \in G /\ g \in G
        BY <2>2, <4>1
      <4> QED
        BY <1>1, <4>1, <4>2
    <3> QED
      BY <1>2, <2>2, <3>1
  <2>3. CASE g # f /\ g \notin rest
    <3>1. h \in fam.group[g] /\ g \notin G
      BY <1>2, <2>3
    <3>2. h \in File /\ h \notin G /\ fam.keeper[h] = fam.keeper[g]
      BY <1>1, <1>5, <3>1
    <3> QED
      BY <1>2, <1>3, <2>3, <3>2
  <2> QED
    BY <2>1, <2>2, <2>3
<1>7. FolderKept' = FolderKept
  BY <1>3 DEF FolderKept
<1>8. ASSUME NEW e \in FolderKept
      PROVE  fam'.group[e.file] = {} \/ Dir[e.file] \in marks
  <2>1. e \in Decision
    BY <1>0 DEF FolderKept, ToSet
  <2>2. e.file \in File
    BY <2>1 DEF Decision
  <2>3. fam.group[e.file] = {} \/ Dir[e.file] \in marks
    BY <1>0, <1>8 DEF DecisionInv, Covered
  <2>4. ASSUME fam.group[e.file] = {}
        PROVE  e.file # f /\ e.file \notin rest
    BY <1>1, <1>3, <2>4
  <2> QED
    BY <1>2, <2>2, <2>3, <2>4
<1>9. DecisionInv'
  <2>1. ASSUME NEW g \in splits \cup {f}
        PROVE  fam'.group[g] \subseteq {g}
    <3>1. g \in File
      BY <1>1
    <3>2. CASE g = f
      BY <1>2, <3>2
    <3>3. CASE g # f
      <4>1. fam.group[g] \subseteq {g} /\ g \notin rest
        BY <1>1, <1>3, <3>3
      <4> QED
        BY <1>2, <3>1, <3>3, <4>1
    <3> QED
      BY <3>2, <3>3
  <2>2. (\A e \in FolderKept : Covered(e))'
    BY <1>3, <1>7, <1>8 DEF Covered
  <2>3. splits' \in SUBSET File
    BY <1>1, <1>3
  <2>4. \A g \in splits' : fam'.group[g] \subseteq {g}
    BY <1>3, <2>1
  <2> QED
    BY <1>0, <1>3, <1>6, <2>2, <2>3, <2>4 DEF DecisionInv
<1>10. ASSUME HandHolds, splits' = splits
       PROVE  HandHolds'
  <2>1. HoldsFor(fam, kept)
    BY <1>0, <1>10, HandHoldsIs
  <2>2. G = {f} /\ rest = {}
    BY <1>1, <1>3, <1>10
  <2>3. \A g \in File : fam'.group[g] = fam.group[g]
    BY <1>2, <2>2
  <2>4. \A g \in File : g # f => fam'.keeper[g] = fam.keeper[g]
    BY <1>2, <2>2
  <2>5. ASSUME Hand(kept, G) # {}
        PROVE  Latest(kept, Hand(kept, G)) = f
    <3>1. \E i \in 1..Len(kept) : kept[i] \in Hand(kept, G)
      BY <1>0, <2>5 DEF Hand, Mine, ToSet
    <3>2. PICK i \in 1..Len(kept) : kept[i] \in Hand(kept, G) /\ Latest(kept, Hand(kept, G)) = kept[i].file
      BY <1>0, <3>1, LatestIs
    <3>3. kept[i].file \in G
      BY <3>2 DEF Hand, Mine
    <3> QED
      BY <2>2, <3>2, <3>3
  <2>6. fam'.keeper[f] = f
    BY <1>2
  <2> HIDE DEF G, rest
  <2>7. HoldsFor(fam', kept')
    <3> SUFFICES ASSUME NEW g \in File, fam'.group[g] # {}, Hand(kept', fam'.group[g]) # {}
                 PROVE  fam'.keeper[g] = Latest(kept', Hand(kept', fam'.group[g]))
      BY DEF HoldsFor
    <3>1. CASE g = f
      BY <1>3, <2>3, <2>5, <2>6, <3>1 DEF G
    <3>2. CASE g # f
      BY <1>3, <2>1, <2>3, <2>4, <3>2 DEF HoldsFor
    <3> QED
      BY <3>1, <3>2
  <2> QED
    BY <1>4, <1>9, <2>7, HandHoldsIsNext
<1>11. ModestStep
  BY <1>3, <1>7, <1>8 DEF ModestStep
<1> QED
  BY <1>9, <1>10, <1>11 DEF Stays, HoldsStep

LEMMA NextStands ==
    ASSUME Standing, [Next]_vars
    PROVE  Stays
<1>1. CASE Rebuild
  BY <1>1, RebuildStays
<1>2. CASE Series
  BY <1>2, SeriesStays
<1>3. CASE restore_curation
  BY <1>3, RestoringStays
<1>4. CASE \/ \E f \in File : keep_only(f)
           \/ \E d \in Dirs : keep_folder_only(d) \/ prefer_folder(d)
  BY <1>4, FilesPressStays
<1>5. CASE \E f \in File : split_family(f)
  BY <1>5, SplittingStays
<1>6. CASE \E d \in Dirs : \E mk \in {marks \cup {d}, marks \ {d}} : set_original_folder(d, mk)
  BY <1>6, MarkedFolderStays
<1>7. CASE \/ Reindex \/ Look \/ batch
           \/ \E f \in File : reject(f) \/ Return(f) \/ \E p \in Pictures : Write(f, p)
           \/ \E G \in Groups : keep_all_versions(G)
           \/ \E B \in Bursts : keep_all(B) \/ \E f \in File : reject_rest(B, f)
           \/ \E s \in {"plan", "keep", "defer"} : decide(s)
           \/ \E op \in 1..Len(history) : undo_review(op)
           \/ \E req \in Requests : Start(req)
           \/ Ask \/ Move \/ Finish \/ Kill
           \/ \E c \in job.left : Compare(c)
           \/ UNCHANGED vars
  <2>1. UNCHANGED <<fam, kept, splits, marks>>
    <3>1. CASE Reindex
      BY <3>1 DEF Reindex, decisions
    <3>2. CASE Look
      BY <3>2 DEF Look, Show, decisions
    <3>3. CASE batch \/ \E s \in {"plan", "keep", "defer"} : decide(s)
      BY <3>3 DEF batch, decide, save_review, decisions
    <3>4. CASE \/ \E f \in File : reject(f)
               \/ \E G \in Groups : keep_all_versions(G)
               \/ \E B \in Bursts : keep_all(B) \/ \E f \in File : reject_rest(B, f)
      BY <3>4 DEF reject, keep_all_versions, keep_all, reject_rest, MarkFiles
    <3>5. CASE \E f \in File : Return(f) \/ \E p \in Pictures : Write(f, p)
      BY <3>5 DEF Return, Write, decisions
    <3>6. CASE \E op \in 1..Len(history) : undo_review(op)
      BY <3>6 DEF undo_review, decisions
    <3>7. CASE (\E req \in Requests : Start(req)) \/ Ask \/ Move \/ Finish \/ Kill \/ (\E c \in job.left : Compare(c))
      BY <3>7 DEF Start, Ask, Move, Finish, Kill, Compare, Moving, decisions
    <3>8. CASE UNCHANGED vars
      BY <3>8 DEF vars, decisions
    <3> QED
      BY <1>7, <3>1, <3>2, <3>3, <3>4, <3>5, <3>6, <3>7, <3>8
  <2> QED
    BY <2>1, RestStays
<1> QED
  BY <1>1, <1>2, <1>3, <1>4, <1>5, <1>6, <1>7 DEF Next

\* The decisions are one for each group and file, a file that was split off
\* is alone, and no folder's decision outlives its mark (marks.rs
\* revoke_uncovered_folder_keepers, pc-db files.rs, families.rs).
THEOREM DecisionsInvariance == Spec => []DecisionInv
<1>1. Init => DecisionInv
  <2> SUFFICES ASSUME Init
               PROVE  DecisionInv
    OBVIOUS
  <2>1. kept = <<>> /\ splits = {} /\ fam.group = [f \in File |-> {}]
    BY DEF Init
  <2>2. kept \in Seq(Decision) /\ FolderKept = {}
    BY <2>1 DEF FolderKept, ToSet
  <2>3. KeeperIsOne(fam)
    BY <2>1 DEF KeeperIsOne
  <2> QED
    BY <2>1, <2>2, <2>3 DEF DecisionInv
<1>2. FileInv /\ FamInv /\ DecisionInv /\ [Next]_vars => DecisionInv'
  BY NextStands DEF Standing, Stays
<1>3. GroupsInv => FileInv /\ FamInv
  BY DEF GroupsInv
<1> QED
  BY <1>1, <1>2, <1>3, GroupsInvariance, PTL DEF Spec

\* A group a person decided keeps what the person chose through rebuilds,
\* bursts, folder marks and the decisions on other groups, and a folder's
\* decision stays within its bounds (lib.rs build_controlled, folders.rs
\* settle_keepers, originals.rs settle, service.rs restore_curation).
THEOREM DecisionsAlwaysStand == Spec => DecisionsStand
<1>1. GroupsInv /\ DecisionInv /\ [Next]_vars => HoldsStep /\ ModestStep
  BY NextStands DEF GroupsInv, Standing, Stays
<1>2. Spec => HandStands
  <2>1. GroupsInv /\ DecisionInv /\ [Next]_vars =>
           [HandHolds /\ splits' = splits /\ FolderKept \subseteq FolderKept' => HandHolds']_vars
    BY <1>1 DEF HoldsStep
  <2> QED
    BY <2>1, GroupsInvariance, DecisionsInvariance, PTL DEF Spec, HandStands
<1>3. Spec => RulesAreModest
  <2>1. GroupsInv /\ DecisionInv /\ [Next]_vars =>
           [/\ \A e \in FolderKept' : fam'.group[e.file] = {} \/ Dir[e.file] \in marks'
            /\ \A e \in FolderKept' \ FolderKept :
                 /\ e.file \notin rejects
                 /\ marks \subseteq marks' /\ marks # marks' =>
                      Identity(pic[e.file]) = Identity(pic[fam.keeper[e.file]])]_vars
    BY <1>1 DEF ModestStep
  <2> QED
    BY <2>1, GroupsInvariance, DecisionsInvariance, PTL DEF Spec, RulesAreModest
<1> QED
  BY <1>2, <1>3 DEF DecisionsStand

=============================================================================

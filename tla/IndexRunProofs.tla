--------------------------- MODULE IndexRunProofs ---------------------------
(***************************************************************************)
(* Proofs about IndexRun, for any archive, pool of readers and channel:    *)
(* what counts as indexed was indexed as it is and has its thumbnail, and  *)
(* a refused cache ends the recording.  Then about Thumbnails, which the   *)
(* run writes, and about Resemblance, made of what it recorded.            *)
(***************************************************************************)
EXTENDS IndexRun, Thumbnails, Resemblance, FiniteSetTheorems, WellFoundedInduction, TLAPS

USE NumbersAssumption, OddAssumption, NoneAssumption

------------------------------------------------------------------------------
(* What is in hand after a step on one reader, on the channel or the writer. *)

LEMMA NothingInHand ==
    ASSUME hand = None, channel = <<>>, \A r \in Readers : reader[r] = None
    PROVE  InHand = {}
BY DEF InHand

\* One reader took up x, nothing else changed hands.
LEMMA ReaderHolds ==
    ASSUME reader \in [Readers -> Item \cup {None}], NEW r \in Readers, NEW x,
           reader' = [reader EXCEPT ![r] = x], UNCHANGED <<channel, hand>>
    PROVE  \A i \in InHand' : i \in InHand \/ i = x
BY DEF InHand

\* A reader hands its item to the channel.
LEMMA SentIsInHand ==
    ASSUME ItemsHonest, NEW r \in Readers, reader[r] # None,
           channel' = Append(channel, reader[r]) \/ channel' = channel,
           reader' = [reader EXCEPT ![r] = None], UNCHANGED hand
    PROVE  /\ channel' \in Seq(Item)
           /\ \A i \in InHand' : i \in InHand
<1> reader[r] \in Item
  BY DEF ItemsHonest
<1>1. CASE channel' = channel
  BY <1>1 DEF ItemsHonest, InHand
<1>2. CASE channel' = Append(channel, reader[r])
  <2>1. /\ channel' \in Seq(Item) /\ Len(channel') = Len(channel) + 1 /\ Len(channel) \in Nat
        /\ \A k \in 1 .. Len(channel) : channel'[k] = channel[k]
        /\ channel'[Len(channel) + 1] = reader[r]
    BY <1>2 DEF ItemsHonest
  <2>2. \A k \in 1 .. Len(channel') : channel'[k] \in InHand
    BY <2>1 DEF InHand, ItemsHonest
  <2>3. \A s \in Readers : reader'[s] = None \/ reader'[s] = reader[s]
    BY DEF ItemsHonest
  <2>4. \A i \in InHand' : i \in InHand
    BY <2>2, <2>3 DEF InHand
  <2> QED  BY <2>1, <2>4
<1> QED  BY <1>1, <1>2

\* The writer takes the first item, or drops it.
LEMMA ReceivedIsInHand ==
    ASSUME ItemsHonest, channel # <<>>, channel' = Tail(channel),
           hand' = None \/ hand' = Head(channel), UNCHANGED reader
    PROVE  /\ channel' \in Seq(Item) /\ hand' \in Item \cup {None}
           /\ \A i \in InHand' : i \in InHand
<1>1. /\ channel' \in Seq(Item) /\ Len(channel) \in Nat \ {0} /\ Head(channel) = channel[1]
      /\ Len(channel') = Len(channel) - 1
      /\ \A k \in 1 .. Len(channel') : channel'[k] = channel[k + 1]
  BY DEF ItemsHonest
<1>2. \A k \in 1 .. Len(channel') : channel'[k] \in InHand
  BY <1>1 DEF InHand, ItemsHonest
<1>3. channel[1] \in Item /\ channel[1] \in InHand
  BY <1>1 DEF InHand, ItemsHonest
<1> QED  BY <1>1, <1>2, <1>3 DEF InHand, ItemsHonest

LEMMA SameInHand ==
    ASSUME UNCHANGED <<reader, channel, hand>>
    PROVE  InHand' = InHand
BY DEF InHand

------------------------------------------------------------------------------
(* The invariant, action by action.                                          *)

LEMMA InitIndexInv == Init => IndexInv
<1> SUFFICES ASSUME Init PROVE IndexInv
  OBVIOUS
<1>1. InHand = {}
  BY NothingInHand DEF Init
<1> QED
  BY <1>1 DEF Init, IndexInv, Numbered, HitsInPlace, ItemsHonest, RowsHonest

LEMMA StartInv == ASSUME IndexInv, Start PROVE IndexInv'
<1> USE DEF Start, archive, pool, IndexInv
<1>1. InHand' = InHand
  BY SameInHand
<1> QED  BY <1>1 DEF Numbered, HitsInPlace, ItemsHonest, ItemIsHonest, RowsHonest, RowIsHonest, Overtaken

LEMMA LookInv == ASSUME IndexInv, NEW p \in Files, Look(p) PROVE IndexInv'
<1> USE DEF Look, archive, pool, writer, IndexInv
<1>1. InHand' = InHand
  BY SameInHand
<1>2. HitsInPlace'
  BY DEF HitsInPlace, Numbered, Hit, Contents
<1> QED  BY <1>1, <1>2 DEF Numbered, ItemsHonest, ItemIsHonest, RowsHonest, RowIsHonest, Overtaken

LEMMA SelectInv == ASSUME IndexInv, Select \/ StopWalk PROVE IndexInv'
<1> USE DEF Select, StopWalk, archive, walk, pool, writer, IndexInv
<1>1. InHand' = InHand
  BY SameInHand
<1>2. HitsInPlace'
  BY DEF HitsInPlace
<1>3. hand = None
  BY DEF ItemsHonest, InHand
<1> QED  BY <1>1, <1>2, <1>3 DEF Numbered, ItemsHonest, ItemIsHonest, RowsHonest, RowIsHonest, Overtaken

LEMMA TakeInv == ASSUME IndexInv, NEW r \in Readers, Take(r) PROVE IndexInv'
<1> USE DEF archive, walk, writer, IndexInv
<1> DEFINE x(h) == [path |-> h.path, stamp |-> h.stamp, read |-> 0, reason |-> FALSE,
                    thumb |-> "none"]
<1>0. PICK h \in todo :
         /\ todo' = todo \ {h}
         /\ \/ UNCHANGED <<reader, step>>
            \/ /\ step' = [step EXCEPT ![r] = "wait"]
               /\ reader' = [reader EXCEPT ![r] = x(h)]
  BY DEF Take
<1>1. h \in Hit /\ h.stamp \in 1 .. writes /\ aside[h.path] # h.stamp
  BY DEF Take, HitsInPlace, Reading
<1>2. HitsInPlace'
  BY <1>0 DEF Take, HitsInPlace, Reading
<1>3. CASE UNCHANGED <<reader, step>>
  <2>1. InHand' = InHand
    BY <1>3, SameInHand DEF Take
  <2> QED
    BY <1>2, <1>3, <2>1 DEF Take, Numbered, ItemsHonest, ItemIsHonest, RowsHonest, RowIsHonest, Overtaken
<1>4. CASE reader' = [reader EXCEPT ![r] = x(h)] /\ step' = [step EXCEPT ![r] = "wait"]
  <2>1. x(h) \in Item
    BY <1>1, NumbersAssumption DEF Item, Hit, Contents
  <2>2. \A i \in InHand' : i \in InHand \/ i = x(h)
    <3> reader \in [Readers -> Item \cup {None}] /\ UNCHANGED <<channel, hand>>
      BY DEF Take, ItemsHonest
    <3> HIDE DEF x
    <3> QED  BY <1>4, ReaderHolds
  <2>3. \A i \in InHand' : ItemIsHonest(i)'
    BY <1>1, <2>2 DEF Take, ItemsHonest, Overtaken, ItemIsHonest
  <2>4. ItemsHonest'
    BY <1>4, <2>1, <2>3 DEF Take, ItemsHonest, Reading, Item
  <2> QED  BY <1>2, <2>4 DEF Take, Numbered, RowsHonest, RowIsHonest, Overtaken
<1> QED  BY <1>0, <1>3, <1>4

LEMMA AcquireInv == ASSUME IndexInv, NEW r \in Readers, Acquire(r) PROVE IndexInv'
<1> USE DEF Acquire, archive, walk, writer, IndexInv
<1>1. InHand' = InHand
  BY SameInHand
<1> QED
  BY <1>1 DEF Numbered, HitsInPlace, ItemsHonest, ItemIsHonest, RowsHonest, RowIsHonest, Overtaken

\* A reader at work holds an item, and what it does to it keeps path and stamp.
LEMMA AtWork ==
    ASSUME IndexInv, NEW r \in Readers, step[r] # "free"
    PROVE  /\ reader[r] \in Item /\ reader[r] \in InHand /\ ItemIsHonest(reader[r])
           /\ step[r] # "send" => reader[r].thumb = "none"
           /\ run \notin {"idle", "walk", "end"}
<1>1. reader[r] \in InHand
  BY DEF IndexInv, ItemsHonest, InHand
<1> QED  BY <1>1 DEF IndexInv, ItemsHonest

\* The file a reader opens is the one the walk saw, or was written later.
LEMMA ReadInv == ASSUME IndexInv, NEW r \in Readers, Read(r) PROVE IndexInv'
<1> USE DEF archive, walk, writer, IndexInv
<1> DEFINE content == disk[reader[r].path]
           seen == [reader[r] EXCEPT !.read = content]
           lost == [reader[r] EXCEPT !.reason = TRUE]
<1>0. /\ reader[r] \in Item /\ ItemIsHonest(reader[r]) /\ reader[r].thumb = "none"
      /\ run \notin {"idle", "walk", "end"}
  BY AtWork DEF Read
<1>1. content \in 0 .. writes /\ content \in 0 .. MaxWrites
  BY <1>0 DEF Numbered, Item
<1>2. PICK x \in {seen, lost} :
         /\ reader' = [reader EXCEPT ![r] = x]
         /\ \E s \in {"store", "send"} : step' = [step EXCEPT ![r] = s]
  BY DEF Read
<1>3. seen \in Item /\ lost \in Item /\ seen.thumb = "none" /\ lost.thumb = "none"
  BY <1>0, <1>1 DEF Item
<1>4. ItemIsHonest(seen) /\ ItemIsHonest(lost)
  BY <1>0, <1>1 DEF ItemIsHonest, Overtaken, Item, Numbered
<1> HIDE DEF seen, lost
<1>5. \A i \in InHand' : i \in InHand \/ i = x
  BY <1>2, ReaderHolds DEF Read, ItemsHonest
<1>6. \A i \in InHand' : ItemIsHonest(i)'
  BY <1>2, <1>4, <1>5 DEF Read, ItemsHonest, ItemIsHonest, Overtaken
<1>7. ItemsHonest'
  BY <1>0, <1>2, <1>3, <1>6, NoneAssumption DEF Read, ItemsHonest
<1> QED
  BY <1>7 DEF Read, Numbered, HitsInPlace, RowsHonest, RowIsHonest, Overtaken

LEMMA StoreInv == ASSUME IndexInv, NEW r \in Readers, Store(r) PROVE IndexInv'
<1> USE DEF archive, walk, writer, IndexInv
<1> DEFINE done(t) == [reader[r] EXCEPT !.thumb = t]
<1>0. /\ reader[r] \in Item /\ ItemIsHonest(reader[r]) /\ run \notin {"idle", "walk", "end"}
  BY AtWork DEF Store
<1>1. PICK t \in {"stored", "refused", "failed"} :
         /\ reader' = [reader EXCEPT ![r] = done(t)]
         /\ t = "stored" => reader[r].read \in stored'
  BY DEF Store
<1>2. stored \subseteq stored' /\ step' = [step EXCEPT ![r] = "send"]
  BY DEF Store
<1>3. PICK x \in Item : x = done(t)
  BY <1>0 DEF Item
<1>4. ItemIsHonest(x)'
  BY <1>0, <1>1, <1>3 DEF Store, ItemIsHonest, Overtaken, Item
<1>5. \A i \in InHand' : i \in InHand \/ i = x
  <2> reader' = [reader EXCEPT ![r] = x]
    BY <1>1, <1>3
  <2> HIDE DEF done
  <2> QED  BY ReaderHolds DEF Store, ItemsHonest
<1>6. ASSUME NEW i \in InHand' PROVE ItemIsHonest(i)'
  <2>1. CASE i = x
    BY <1>4, <2>1
  <2>2. CASE i \in InHand
    BY <1>2, <2>2 DEF Store, ItemsHonest, ItemIsHonest, Overtaken
  <2> QED  BY <1>5, <2>1, <2>2
<1>7. ItemsHonest'
  BY <1>0, <1>1, <1>2, <1>3, <1>6, NoneAssumption DEF Store, ItemsHonest
<1> QED
  BY <1>2, <1>7 DEF Store, Numbered, HitsInPlace, RowsHonest, RowIsHonest, Overtaken

LEMMA SendInv == ASSUME IndexInv, NEW r \in Readers, Send(r) PROVE IndexInv'
<1> USE DEF Send, archive, walk, writer, IndexInv
<1>0. reader[r] \in Item /\ run \notin {"idle", "walk", "end"}
  BY AtWork
<1>1. channel' \in Seq(Item) /\ \A i \in InHand' : i \in InHand
  BY <1>0, SentIsInHand, NoneAssumption
<1>2. \A i \in InHand' : ItemIsHonest(i)'
  BY <1>1 DEF ItemsHonest, ItemIsHonest, Overtaken
<1>3. ItemsHonest'
  BY <1>0, <1>1, <1>2 DEF ItemsHonest
<1> QED
  BY <1>3 DEF Numbered, HitsInPlace, RowsHonest, RowIsHonest, Overtaken

LEMMA ReceiveInv == ASSUME IndexInv, Receive PROVE IndexInv'
<1> USE DEF Receive, archive, walk, IndexInv
<1>1. /\ channel' \in Seq(Item) /\ hand' \in Item \cup {None} /\ \A i \in InHand' : i \in InHand
  BY ReceivedIsInHand DEF Sent
<1>2. \A i \in InHand' : ItemIsHonest(i)'
  BY <1>1 DEF ItemsHonest, ItemIsHonest, Overtaken
<1>3. ItemsHonest'
  BY <1>1, <1>2 DEF ItemsHonest, Drops
<1> QED
  BY <1>3 DEF Numbered, HitsInPlace, RowsHonest, RowIsHonest, Overtaken

\* An error of the writer: what was read is forgotten.
LEMMA AbortInv ==
    ASSUME IndexInv, run = "work", Abort,
           UNCHANGED <<archive, walk, db, stored, todo, reader, step>>
    PROVE  IndexInv'
<1> USE DEF Abort, archive, walk, IndexInv
<1>1. \A i \in InHand' : i \in InHand
  BY DEF InHand
<1>2. channel' \in Seq(Item)
  OBVIOUS
<1>3. ItemsHonest'
  BY <1>1, <1>2 DEF ItemsHonest, ItemIsHonest, Overtaken
<1> QED
  BY <1>3 DEF Numbered, HitsInPlace, RowsHonest, RowIsHonest, Overtaken

LEMMA RecordInv == ASSUME IndexInv, Record PROVE IndexInv'
<1> USE DEF Record, archive, walk, IndexInv
<1>0. hand \in Item /\ hand \in InHand /\ ItemIsHonest(hand)
  BY DEF ItemsHonest, InHand
<1>1. CASE hand' = None /\ UNCHANGED <<run, channel, open>>
  <2>1. \A i \in InHand' : i \in InHand
    BY <1>1 DEF InHand
  <2>2. ItemsHonest'
    BY <1>1, <2>1 DEF ItemsHonest, ItemIsHonest, Overtaken
  <2> QED  BY <1>1, <2>2 DEF Numbered, HitsInPlace, RowsHonest, RowIsHonest, Overtaken
<1>2. CASE /\ hand' = None /\ UNCHANGED <<run, channel, halted>>
           /\ open' = [open EXCEPT ![hand.path] = RowOf(hand)]
  <2>1. \A i \in InHand' : i \in InHand
    BY <1>2 DEF InHand
  <2>2. ItemsHonest'
    BY <1>2, <2>1 DEF ItemsHonest, ItemIsHonest, Overtaken
  <2>3. RowOf(hand) \in Row
    BY <1>0 DEF RowOf, StampOf, Row, Item, RowsHonest, States
  <2>4. RowIsHonest(hand.path, RowOf(hand))
    BY <1>0 DEF RowOf, StampOf, RowIsHonest, ItemIsHonest
  <2> HIDE DEF IndexInv
  <2>5. RowsHonest'
    BY <1>0, <1>2, <2>3, <2>4, NoneAssumption
    DEF IndexInv, RowsHonest, RowIsHonest, Overtaken, Item
  <2> QED  BY <1>2, <2>2, <2>5 DEF IndexInv, Numbered, HitsInPlace
<1>3. CASE Abort
  BY <1>3, AbortInv
<1> QED  BY <1>1, <1>2, <1>3

LEMMA CommitInv == ASSUME IndexInv, Commit PROVE IndexInv'
<1> USE DEF Commit, archive, walk, IndexInv
<1>1. CASE /\ db' = open /\ UNCHANGED <<open, channel, hand>>
           /\ UNCHANGED run \/ (AllRead /\ channel = <<>> /\ run' = "end")
  <2>1. InHand' = InHand
    BY <1>1, SameInHand
  <2>2. ASSUME run' = "end" PROVE InHand = {} /\ todo = {}
    <3>1. AllRead /\ channel = <<>> /\ hand = None
      BY <1>1, <2>2
    <3>2. \A r \in Readers : reader[r] = None
      BY <3>1 DEF AllRead, ItemsHonest
    <3> QED  BY <3>1, <3>2, NothingInHand DEF AllRead
  <2>3. run' \in {"work", "end"}
    BY <1>1
  <2> QED
    BY <1>1, <2>1, <2>2, <2>3
    DEF Numbered, HitsInPlace, ItemsHonest, ItemIsHonest, RowsHonest, RowIsHonest, Overtaken
<1>2. CASE Abort /\ UNCHANGED db
  BY <1>2, AbortInv
<1> QED  BY <1>1, <1>2

LEMMA JoinInv == ASSUME IndexInv, Join PROVE IndexInv'
<1> USE DEF Join, archive, walk, pool, writer, IndexInv
<1>1. InHand' = InHand
  BY SameInHand
<1>2. InHand = {}
  <2>1. \A r \in Readers : reader[r] = None
    BY DEF AllRead, ItemsHonest
  <2> QED  BY <2>1, NothingInHand DEF ItemsHonest
<1>3. HitsInPlace'
  BY DEF HitsInPlace, AllRead
<1> QED
  BY <1>1, <1>2, <1>3 DEF Numbered, ItemsHonest, ItemIsHonest, RowsHonest, RowIsHonest, Overtaken

LEMMA EndInv == ASSUME IndexInv, End \/ Cancel \/ CacheChanges PROVE IndexInv'
<1> USE DEF End, Cancel, CacheChanges, archive, walk, pool, writer, IndexInv
<1>1. InHand' = InHand
  BY SameInHand
<1> QED
  BY <1>1 DEF Numbered, HitsInPlace, ItemsHonest, ItemIsHonest, RowsHonest, RowIsHonest, Overtaken

LEMMA KillInv == ASSUME IndexInv, Kill PROVE IndexInv'
<1> USE DEF Kill, archive, walk, IndexInv
<1>1. InHand' = {}
  BY DEF InHand
<1>2. reader' \in [Readers -> Item \cup {None}] /\ step' = [r \in Readers |-> "free"]
  OBVIOUS
<1>3. channel' = <<>> /\ channel' \in Seq(Item)
  OBVIOUS
<1> QED
  BY <1>1, <1>2, <1>3 DEF Numbered, HitsInPlace, ItemsHonest, RowsHonest, RowIsHonest, Overtaken

\* Another program's write is newer than all that was seen; taking a file away
\* shows nothing.
LEMMA OtherInv ==
    ASSUME IndexInv, NEW p \in Files, OtherWrites(p) \/ OtherRemoves(p)
    PROVE  IndexInv'
<1> USE DEF OtherWrites, OtherRemoves, walk, pool, writer, IndexInv
<1>1. InHand' = InHand
  BY SameInHand
<1>2. writes' \in 0 .. MaxWrites /\ writes <= writes' /\ writes \in 0 .. MaxWrites
  BY NumbersAssumption DEF Numbered
<1>3. PICK now \in {0} \cup writes + 1 .. writes' : disk' = [disk EXCEPT ![p] = now]
  BY <1>2
<1>4. \A q \in Files, s \in 1 .. writes : Overtaken(q, s) => Overtaken(q, s)'
  BY <1>2, <1>3 DEF Overtaken, Numbered
<1>5. Numbered' /\ HitsInPlace'
  BY <1>2, <1>3 DEF Numbered, HitsInPlace
<1>6. ItemsHonest'
  <2>1. InHand \subseteq Item
    BY DEF InHand, ItemsHonest
  <2>2. ASSUME NEW i \in InHand PROVE ItemIsHonest(i)'
    <3>1. i.path \in Files /\ ItemIsHonest(i)
      BY <2>1 DEF Item, ItemsHonest
    <3> QED  BY <1>2, <1>4, <3>1 DEF ItemIsHonest
  <2> QED  BY <1>1, <2>2 DEF ItemsHonest
<1>7. RowsHonest'
  BY <1>2, <1>4 DEF RowsHonest, RowIsHonest
<1> QED  BY <1>5, <1>6, <1>7

\* Between runs, a file that moves keeps its content and its row.
LEMMA ToStateInv ==
    ASSUME IndexInv, NEW p \in Files, NEW s \in States, ToState(p, s), Numbered',
           \A q \in Files, t \in 1 .. writes : Overtaken(q, t) => Overtaken(q, t)',
           UNCHANGED pool
    PROVE  IndexInv'
<1> USE DEF ToState, walk, pool, IndexInv
<1>1. InHand' = InHand
  BY SameInHand
<1>2. HitsInPlace' /\ ItemsHonest'
  BY <1>1 DEF HitsInPlace, ItemsHonest
<1>3. db' = [db EXCEPT ![p] = WithState(db[p], s)] /\ open' = db' /\ db \in [Files -> Row \cup {None}]
  BY DEF RowsHonest
<1>4. db[p] # None => /\ WithState(db[p], s) \in Row
                      /\ RowIsHonest(p, WithState(db[p], s))
  BY <1>3 DEF WithState, Row, RowsHonest, RowIsHonest
<1>5. db[p] = None => WithState(db[p], s) = None
  BY DEF WithState
<1>6. ASSUME NEW q \in Files, NEW row, row = db'[q], row # None PROVE RowIsHonest(q, row)'
  <2>1. RowIsHonest(q, row)
    BY <1>3, <1>4, <1>5, <1>6 DEF RowsHonest
  <2> QED  BY <2>1 DEF RowIsHonest
<1>7. db' \in [Files -> Row \cup {None}] /\ open' = db'
  BY <1>3, <1>4, <1>5
<1>8. RowsHonest'
  BY <1>6, <1>7 DEF RowsHonest
<1> QED  BY <1>2, <1>8

LEMMA MovedInv ==
    ASSUME IndexInv, NEW p \in Files, Quarantine(p) \/ Undo(p) \/ Purge(p)
    PROVE  IndexInv'
<1> USE DEF IndexInv, Numbered
<1>1. CASE Quarantine(p)
  <2>1. Numbered' /\ \A q \in Files, t \in 1 .. writes : Overtaken(q, t) => Overtaken(q, t)'
    BY <1>1 DEF Quarantine, ToState, Overtaken
  <2> QED  BY <1>1, <2>1, ToStateInv DEF Quarantine, ToState, States, pool
<1>2. CASE Undo(p)
  <2>1. Numbered' /\ \A q \in Files, t \in 1 .. writes : Overtaken(q, t) => Overtaken(q, t)'
    BY <1>2 DEF Undo, ToState, Overtaken
  <2> QED  BY <1>2, <2>1, ToStateInv DEF Undo, ToState, States, pool
<1>3. CASE Purge(p)
  <2>1. Numbered' /\ \A q \in Files, t \in 1 .. writes : Overtaken(q, t) => Overtaken(q, t)'
    BY <1>3 DEF Purge, ToState, Overtaken
  <2> QED  BY <1>3, <2>1, ToStateInv DEF Purge, ToState, States, pool
<1> QED  BY <1>1, <1>2, <1>3

LEMMA ResetInv == ASSUME IndexInv, Reset PROVE IndexInv'
<1> USE DEF Reset, archive, walk, pool, IndexInv
<1>1. InHand' = InHand
  BY SameInHand
<1> QED
  BY <1>1 DEF Numbered, HitsInPlace, ItemsHonest, ItemIsHonest, RowsHonest, Overtaken

LEMMA StutterInv == ASSUME IndexInv, UNCHANGED vars PROVE IndexInv'
<1> USE DEF vars, archive, walk, pool, writer, IndexInv
<1>1. InHand' = InHand
  BY SameInHand
<1> QED
  BY <1>1 DEF Numbered, HitsInPlace, ItemsHonest, ItemIsHonest, RowsHonest, RowIsHonest, Overtaken

------------------------------------------------------------------------------
(* What follows.                                                             *)

\* Whatever another program writes, the walk saw it or it is newer than what was
\* seen: the inductive invariant of run_controlled, its walk and its readers.
THEOREM IndexInvariance == Spec => []IndexInv
<1>1. Init => IndexInv
  BY InitIndexInv
<1>2. IndexInv /\ [Next]_vars => IndexInv'
  <2> SUFFICES ASSUME IndexInv, [Next]_vars PROVE IndexInv'
    OBVIOUS
  <2>1. ASSUME NEW r \in Readers, Reader(r) PROVE IndexInv'
    BY <2>1, TakeInv, AcquireInv, ReadInv, StoreInv, SendInv DEF Reader
  <2>2. CASE Writer
    BY <2>2, ReceiveInv, RecordInv, CommitInv, JoinInv, EndInv DEF Writer
  <2>3. CASE Start \/ Select \/ StopWalk \/ Cancel \/ Kill \/ CacheChanges \/ Reset
    BY <2>3, StartInv, SelectInv, EndInv, KillInv, ResetInv
  <2>4. ASSUME NEW p \in Files, Look(p) \/ OtherWrites(p) \/ OtherRemoves(p)
        PROVE  IndexInv'
    BY <2>4, LookInv, OtherInv
  <2>5. ASSUME NEW p \in Files, Quarantine(p) \/ Undo(p) \/ Purge(p) PROVE IndexInv'
    BY <2>5, MovedInv
  <2>6. CASE UNCHANGED vars
    BY <2>6, StutterInv
  <2> QED  BY <2>1, <2>2, <2>3, <2>4, <2>5, <2>6 DEF Next
<1> QED  BY <1>1, <1>2, PTL DEF Spec

\* For any archive and any interleaving of readers, writer and other programs, a
\* file that counts as indexed was indexed as it is, and is shown, after any cancel,
\* halt or kill.
THEOREM StaysIndexed == Spec => []CurrentIsIndexed
<1>1. IndexInv => CurrentIsIndexed
  BY DEF IndexInv, Numbered, RowsHonest, RowIsHonest, CurrentIsIndexed, IsCurrent, Overtaken, Row
<1> QED  BY <1>1, IndexInvariance, PTL

\* A refused cache ends the recording of the run, however many items wait.
THEOREM HaltedRecordsNothing == Spec => HaltedRecordsNothingMore
<1>1. IndexInv /\ [Next]_vars => [halted /\ run = "work" => open' \in {open, db}]_vars
  <2> SUFFICES ASSUME IndexInv, Next, halted, run = "work" PROVE open' \in {open, db}
    BY DEF vars
  <2>1. hand = None
    BY DEF IndexInv, ItemsHonest
  <2>2. ASSUME NEW r \in Readers, Reader(r) PROVE open' = open
    BY <2>2 DEF Reader, Take, Acquire, Read, Store, Send, writer
  <2>3. CASE Writer
    BY <2>1, <2>3 DEF Writer, Receive, Record, Commit, Abort, Join, End, writer
  <2>4. CASE Start \/ Select \/ StopWalk \/ Cancel \/ Kill \/ CacheChanges \/ Reset
    BY <2>4 DEF Start, Select, StopWalk, Cancel, Kill, CacheChanges, Reset, writer
  <2>5. ASSUME NEW p \in Files, Look(p) \/ OtherWrites(p) \/ OtherRemoves(p)
        PROVE  open' = open
    BY <2>5 DEF Look, OtherWrites, OtherRemoves, writer
  <2>6. ASSUME NEW p \in Files, Quarantine(p) \/ Undo(p) \/ Purge(p) PROVE FALSE
    BY <2>6 DEF Quarantine, Undo, Purge, ToState
  <2> QED  BY <2>2, <2>3, <2>4, <2>5, <2>6 DEF Next
<1> QED  BY <1>1, IndexInvariance, PTL DEF Spec, HaltedRecordsNothingMore

------------------------------------------------------------------------------
(* A run is marked finished only when everything it saw is recorded.         *)

\* An item is not lost between the hands it passes through.
LEMMA ReaderKeeps ==
    ASSUME ItemsHonest, NEW r \in Readers, NEW x, x # None,
           reader' = [reader EXCEPT ![r] = x], UNCHANGED <<channel, hand>>
    PROVE  /\ \A i \in InHand : i \in InHand' \/ i = reader[r]
           /\ x \in InHand'
<1>1. reader'[r] = x /\ \A s \in Readers \ {r} : reader'[s] = reader[s]
  BY DEF ItemsHonest
<1> QED  BY <1>1 DEF InHand

LEMMA SentStays ==
    ASSUME ItemsHonest, NEW r \in Readers, reader[r] # None,
           channel' = Append(channel, reader[r]),
           reader' = [reader EXCEPT ![r] = None], UNCHANGED hand
    PROVE  \A i \in InHand : i \in InHand'
<1>1. /\ Len(channel') = Len(channel) + 1 /\ Len(channel) \in Nat
      /\ \A k \in 1 .. Len(channel) : channel'[k] = channel[k]
      /\ channel'[Len(channel) + 1] = reader[r]
  BY DEF ItemsHonest
<1>2. \A s \in Readers \ {r} : reader'[s] = reader[s]
  BY DEF ItemsHonest
<1>3. ASSUME NEW i \in InHand PROVE i \in InHand'
  <2>1. CASE i = hand
    BY <1>3, <2>1 DEF InHand
  <2>2. CASE \E s \in Readers : i = reader[s]
    <3>1. CASE i = reader[r]
      <4>1. i = channel'[Len(channel) + 1] /\ Len(channel) + 1 \in 1 .. Len(channel')
        BY <1>1, <3>1
      <4> QED  BY <1>3, <4>1 DEF InHand
    <3>2. CASE i # reader[r]
      BY <1>2, <1>3, <2>2, <3>2 DEF InHand
    <3> QED  BY <3>1, <3>2
  <2>3. CASE \E k \in 1 .. Len(channel) : i = channel[k]
    <3>1. \E k \in 1 .. Len(channel') : i = channel'[k]
      BY <1>1, <2>3
    <3> QED  BY <1>3, <3>1 DEF InHand
  <2> QED  BY <1>3, <2>1, <2>2, <2>3 DEF InHand
<1> QED  BY <1>3

LEMMA ReceivedStays ==
    ASSUME ItemsHonest, channel # <<>>, hand = None, channel' = Tail(channel),
           hand' = Head(channel), UNCHANGED reader
    PROVE  \A i \in InHand : i \in InHand'
<1>1. /\ Len(channel) \in Nat \ {0} /\ Head(channel) = channel[1]
      /\ Len(channel') = Len(channel) - 1
      /\ \A k \in 1 .. Len(channel') : channel'[k] = channel[k + 1]
  BY DEF ItemsHonest
<1>2. ASSUME NEW k \in 1 .. Len(channel), channel[k] # None PROVE channel[k] \in InHand'
  <2>1. CASE k = 1
    BY <1>1, <1>2, <2>1 DEF InHand
  <2>2. CASE k # 1
    <3>1. k - 1 \in 1 .. Len(channel') /\ channel'[k - 1] = channel[k]
      BY <1>1, <2>2
    <3> QED  BY <1>2, <3>1 DEF InHand
  <2> QED  BY <2>1, <2>2
<1> QED  BY <1>2 DEF InHand

\* Whoever holds an item, it is one of those the walk saw.
LEMMA StaysSeenOnce ==
    ASSUME SeenOnce, UNCHANGED <<hits, looked>>,
           \A i \in InHand' : \E j \in InHand : i.path = j.path /\ i.stamp = j.stamp
    PROVE  SeenOnce'
BY DEF SeenOnce, Carries

\* A step that leaves the items, the rows and the course of the run alone.
LEMMA QuietFinish ==
    ASSUME FinishInv,
           UNCHANGED <<open, db, run, hits, looked, todo, reader, channel, hand, halted,
                       failed, cancelled>>,
           \A r \in Readers : step'[r] \in {"store", "send"} => step'[r] = step[r]
    PROVE  FinishInv'
<1>1. InHand' = InHand
  BY SameInHand
<1>2. SeenOnce'
  BY <1>1, StaysSeenOnce DEF FinishInv
<1>3. SentIsRead'
  BY DEF FinishInv, SentIsRead, IsRead
<1>4. \A h \in hits : /\ OnItsWay(h)' = OnItsWay(h)
                      /\ Recorded(open, h)' = Recorded(open, h)
                      /\ Recorded(db, h)' = Recorded(db, h)
  BY <1>1 DEF OnItsWay, Carries, Recorded, IsCurrent
<1>5. SeenIsRecorded'
  BY <1>4 DEF FinishInv, SeenIsRecorded
<1> QED  BY <1>2, <1>3, <1>5 DEF FinishInv

\* A run that is over, or given up, has only its rows to answer for.
LEMMA OverFinish ==
    ASSUME FinishInv, run' \in {"idle", "abort"}, open' = db',
           UNCHANGED <<hits, looked>>,
           \A i \in InHand' : \E j \in InHand : i.path = j.path /\ i.stamp = j.stamp,
           SentIsRead'
    PROVE  FinishInv'
BY StaysSeenOnce DEF FinishInv, SeenIsRecorded

LEMMA InitFinishInv == Init => FinishInv
<1> SUFFICES ASSUME Init PROVE FinishInv
  OBVIOUS
<1>1. InHand = {}
  BY NothingInHand DEF Init
<1> QED  BY <1>1 DEF Init, FinishInv, SeenOnce, SentIsRead, SeenIsRecorded

LEMMA WalkFinish ==
    ASSUME IndexInv, FinishInv, Start \/ StopWalk \/ \E p \in Files : Look(p)
    PROVE  FinishInv'
<1> USE DEF writer, pool, walk
<1>0. InHand = {} /\ InHand' = InHand
  <2>1. InHand' = InHand
    BY SameInHand DEF Start, StopWalk, Look
  <2> QED  BY <2>1 DEF Start, StopWalk, Look, IndexInv, ItemsHonest
<1>1. SentIsRead'
  BY DEF Start, StopWalk, Look, FinishInv, SentIsRead, IsRead
<1>2. SeenOnce'
  <2>1. CASE Start \/ StopWalk
    BY <1>0, <2>1 DEF Start, StopWalk, FinishInv, SeenOnce
  <2>2. ASSUME NEW p \in Files, Look(p) PROVE SeenOnce'
    <3>1. /\ p \notin looked /\ looked' = looked \cup {p}
          /\ hits' = hits \/ hits' = hits \cup {[path |-> p, stamp |-> disk[p]]}
      BY <2>2 DEF Look
    <3> QED  BY <1>0, <3>1 DEF FinishInv, SeenOnce
  <2> QED  BY <2>1, <2>2
<1>3. SeenIsRecorded'
  BY DEF Start, StopWalk, Look, FinishInv, SeenIsRecorded
<1> QED  BY <1>1, <1>2, <1>3 DEF FinishInv

LEMMA SelectFinish ==
    ASSUME IndexInv, FinishInv, Select
    PROVE  FinishInv'
<1> USE DEF Select, writer, walk
<1>1. InHand' = InHand
  BY SameInHand
<1>2. SeenOnce'
  BY <1>1, StaysSeenOnce DEF FinishInv
<1>3. SentIsRead'
  BY DEF FinishInv, SentIsRead, IsRead
<1>4. ASSUME NEW h \in hits PROVE OnItsWay(h)' \/ Recorded(open, h)'
  <2>1. CASE IsCurrent(db[h.path], h.stamp)
    <3>1. open' = db
      BY DEF FinishInv, SeenIsRecorded
    <3> QED  BY <2>1, <3>1 DEF Recorded, IsCurrent
  <2>2. CASE ~IsCurrent(db[h.path], h.stamp)
    BY <2>2 DEF OnItsWay
  <2> QED  BY <2>1, <2>2
<1>5. SeenIsRecorded'
  BY <1>4 DEF FinishInv, SeenIsRecorded
<1> QED  BY <1>2, <1>3, <1>5 DEF FinishInv

\* A step of a reader or the writer that loses nothing: every hit on its way
\* stays so.
LEMMA WorkFinish ==
    ASSUME FinishInv, UNCHANGED <<open, db, run, hits, looked, halted, failed, cancelled>>,
           run # "end",
           \A i \in InHand' : \E h \in hits : Carries(i, h),
           SentIsRead',
           run = "work" /\ ~halted /\ ~cancelled => \A h \in hits : OnItsWay(h) => OnItsWay(h)'
    PROVE  FinishInv'
<1>1. SeenOnce'
  BY DEF FinishInv, SeenOnce, Carries
<1>2. \A h \in hits : Recorded(open, h)' = Recorded(open, h)
  BY DEF Recorded, IsCurrent
<1>3. SeenIsRecorded'
  BY <1>2 DEF FinishInv, SeenIsRecorded
<1> QED  BY <1>1, <1>3 DEF FinishInv

LEMMA TakeFinish ==
    ASSUME IndexInv, FinishInv, NEW r \in Readers, Take(r)
    PROVE  FinishInv'
<1> USE DEF writer, walk
<1> DEFINE x(h) == [path |-> h.path, stamp |-> h.stamp, read |-> 0, reason |-> FALSE,
                    thumb |-> "none"]
<1>1. PICK h \in todo :
         /\ todo' = todo \ {h}
         /\ IF cancelled \/ halted
            THEN UNCHANGED <<reader, step>>
            ELSE /\ step' = [step EXCEPT ![r] = "wait"]
                 /\ reader' = [reader EXCEPT ![r] = x(h)]
  BY DEF Take
<1>2. /\ UNCHANGED <<open, db, run, hits, looked, halted, failed, cancelled, channel, hand>>
      /\ run # "end" /\ step[r] = "free" /\ h \in hits
  BY DEF Take, Reading, IndexInv, HitsInPlace
<1>3. CASE cancelled \/ halted
  <2>1. InHand' = InHand
    BY <1>1, <1>2, <1>3, SameInHand
  <2>2. SentIsRead'
    BY <1>1, <1>2, <1>3 DEF FinishInv, SentIsRead, IsRead
  <2> QED  BY <1>2, <1>3, <2>1, <2>2, WorkFinish DEF FinishInv, SeenOnce
<1>4. CASE ~(cancelled \/ halted)
  <2>1. PICK y : y = x(h)
    OBVIOUS
  <2>2. y # None /\ Carries(y, h)
    <3>1. y \in Item
      BY <1>2, <2>1 DEF Take, Reading, IndexInv, HitsInPlace, Item, Hit, Contents
    <3> QED  BY <2>1, <3>1 DEF Carries
  <2>3. reader' = [reader EXCEPT ![r] = y] /\ reader \in [Readers -> Item \cup {None}]
    BY <1>1, <1>4, <2>1 DEF IndexInv, ItemsHonest
  <2>4. /\ \A i \in InHand' : i \in InHand \/ i = y
        /\ \A i \in InHand : i \in InHand' \/ i = reader[r]
        /\ y \in InHand'
    BY <1>2, <2>2, <2>3, ReaderHolds, ReaderKeeps DEF IndexInv
  <2>5. reader[r] = None /\ \A i \in InHand : i # None
    BY <1>2 DEF IndexInv, ItemsHonest, InHand
  <2>6. SentIsRead'
    BY <1>1, <1>2, <1>4, <2>3 DEF FinishInv, SentIsRead, IsRead, IndexInv, ItemsHonest
  <2>7. \A i \in InHand' : \E g \in hits : Carries(i, g)
    BY <1>2, <2>2, <2>4 DEF FinishInv, SeenOnce
  <2>8. \A g \in hits : OnItsWay(g) => OnItsWay(g)'
    BY <1>1, <2>2, <2>4, <2>5 DEF OnItsWay, Carries
  <2> QED  BY <1>2, <2>6, <2>7, <2>8, WorkFinish
<1> QED  BY <1>3, <1>4

\* A reader changes its item: same file, same stamp.
LEMMA ItemFinish ==
    ASSUME IndexInv, FinishInv, NEW r \in Readers, step[r] # "free", NEW x \in Item,
           x.path = reader[r].path, x.stamp = reader[r].stamp,
           reader' = [reader EXCEPT ![r] = x], SentIsRead',
           UNCHANGED <<open, db, run, hits, looked, halted, failed, cancelled, todo,
                       channel, hand>>
    PROVE  FinishInv'
<1>1. reader[r] \in InHand /\ run # "end" /\ x # None
  BY AtWork, NoneAssumption
<1>2. /\ \A i \in InHand' : i \in InHand \/ i = x
      /\ \A i \in InHand : i \in InHand' \/ i = reader[r]
      /\ x \in InHand'
  <2>1. reader \in [Readers -> Item \cup {None}] /\ ItemsHonest
    BY DEF IndexInv, ItemsHonest
  <2> QED  BY <1>1, <2>1, ReaderHolds, ReaderKeeps
<1>3. \A i \in InHand' : \E h \in hits : Carries(i, h)
  BY <1>1, <1>2 DEF FinishInv, SeenOnce, Carries
<1>4. \A h \in hits : OnItsWay(h) => OnItsWay(h)'
  BY <1>2 DEF OnItsWay, Carries
<1> QED  BY <1>1, <1>3, <1>4, WorkFinish

LEMMA ReadFinish ==
    ASSUME IndexInv, FinishInv, NEW r \in Readers, Read(r)
    PROVE  FinishInv'
<1> USE DEF writer, walk
<1> DEFINE content == disk[reader[r].path]
           seen == [reader[r] EXCEPT !.read = content]
           lost == [reader[r] EXCEPT !.reason = TRUE]
<1>0. reader[r] \in Item
  BY AtWork DEF Read
<1>1. content \in 0 .. MaxWrites
  BY <1>0 DEF IndexInv, Numbered, Item
<1>2. seen \in Item /\ lost \in Item
  BY <1>0, <1>1 DEF Item
<1>3. PICK x \in {seen, lost} :
         /\ reader' = [reader EXCEPT ![r] = x]
         /\ \/ step' = [step EXCEPT ![r] = "store"] /\ x = seen /\ content # 0
            \/ step' = [step EXCEPT ![r] = "send"] /\ x = lost
  BY DEF Read
<1>4. /\ x \in Item /\ x.path = reader[r].path /\ x.stamp = reader[r].stamp
      /\ step'[r] = "store" => x.read # 0
      /\ step'[r] = "send" => IsRead(x)
  <2>1. step \in [Readers -> {"free", "wait", "read", "store", "send"}]
    BY DEF IndexInv, ItemsHonest
  <2> QED  BY <1>0, <1>2, <1>3, <2>1 DEF IsRead, Item
<1> HIDE DEF seen, lost, content
<1>5. SentIsRead'
  <2>1. \A s \in Readers \ {r} : step'[s] = step[s] /\ reader'[s] = reader[s]
    BY <1>3 DEF IndexInv, ItemsHonest
  <2>2. reader'[r] = x
    BY <1>3 DEF IndexInv, ItemsHonest
  <2>3. UNCHANGED <<channel, hand>>
    BY DEF Read
  <2> QED  BY <1>4, <2>1, <2>2, <2>3 DEF FinishInv, SentIsRead, IsRead
<1> QED  BY <1>3, <1>4, <1>5, ItemFinish DEF Read

LEMMA StoreFinish ==
    ASSUME IndexInv, FinishInv, NEW r \in Readers, Store(r)
    PROVE  FinishInv'
<1> USE DEF writer, walk
<1> DEFINE done(t) == [reader[r] EXCEPT !.thumb = t]
<1>0. reader[r] \in Item /\ reader[r].read # 0
  BY AtWork DEF Store, FinishInv, SentIsRead
<1>1. PICK t \in {"stored", "refused", "failed"} : reader' = [reader EXCEPT ![r] = done(t)]
  BY DEF Store
<1>2. PICK x \in Item : x = done(t)
  BY <1>0 DEF Item
<1>3. x.path = reader[r].path /\ x.stamp = reader[r].stamp /\ IsRead(x)
  BY <1>0, <1>2 DEF IsRead, Item
<1>4. reader' = [reader EXCEPT ![r] = x]
  BY <1>1, <1>2
<1> HIDE DEF done
<1>5. SentIsRead'
  <2>1. \A s \in Readers \ {r} : step'[s] = step[s] /\ reader'[s] = reader[s]
    BY <1>4 DEF Store, IndexInv, ItemsHonest
  <2>2. reader'[r] = x /\ step'[r] = "send"
    BY <1>4 DEF Store, IndexInv, ItemsHonest
  <2>3. UNCHANGED <<channel, hand>>
    BY DEF Store
  <2> QED  BY <1>3, <2>1, <2>2, <2>3 DEF FinishInv, SentIsRead, IsRead
<1> QED  BY <1>3, <1>4, <1>5, ItemFinish DEF Store

LEMMA SendFinish ==
    ASSUME IndexInv, FinishInv, NEW r \in Readers, Send(r)
    PROVE  FinishInv'
<1> USE DEF Send, writer, walk
<1>0. reader[r] \in Item /\ reader[r] # None /\ run # "end" /\ ItemsHonest
  BY AtWork, NoneAssumption DEF IndexInv
<1>1. \A i \in InHand' : i \in InHand
  BY <1>0, SentIsInHand
<1>2. run = "work" => \A i \in InHand : i \in InHand'
  BY <1>0, SentStays
<1>3. SentIsRead'
  <2>1. \A s \in Readers : step'[s] \in {"store", "send"}
                              => step'[s] = step[s] /\ reader'[s] = reader[s]
    BY DEF IndexInv, ItemsHonest
  <2>2. \A k \in 1 .. Len(channel') : IsRead(channel'[k])
    <3>1. IsRead(reader[r])
      BY DEF FinishInv, SentIsRead
    <3>2. CASE channel' = channel
      BY <3>2 DEF FinishInv, SentIsRead
    <3>3. CASE channel' = Append(channel, reader[r])
      <4>1. /\ Len(channel') = Len(channel) + 1 /\ Len(channel) \in Nat
            /\ \A k \in 1 .. Len(channel) : channel'[k] = channel[k]
            /\ channel'[Len(channel) + 1] = reader[r]
        BY <1>0, <3>3 DEF ItemsHonest
      <4> QED  BY <3>1, <4>1 DEF FinishInv, SentIsRead
    <3> QED  BY <3>2, <3>3
  <2> QED  BY <2>1, <2>2 DEF FinishInv, SentIsRead, IsRead
<1>4. \A i \in InHand' : \E h \in hits : Carries(i, h)
  BY <1>1 DEF FinishInv, SeenOnce
<1>5. run = "work" => \A h \in hits : OnItsWay(h) => OnItsWay(h)'
  BY <1>2 DEF OnItsWay, Carries
<1> QED  BY <1>0, <1>3, <1>4, <1>5, WorkFinish

LEMMA ReceiveFinish ==
    ASSUME IndexInv, FinishInv, Receive
    PROVE  FinishInv'
<1> USE DEF Receive, walk
<1>0. ItemsHonest /\ channel # <<>>
  BY DEF IndexInv, Sent
<1>1. \A i \in InHand' : i \in InHand
  BY <1>0, ReceivedIsInHand
<1>2. ~halted /\ ~cancelled => \A i \in InHand : i \in InHand'
  BY <1>0, ReceivedStays DEF Drops
<1>3. SentIsRead'
  <2>1. /\ Len(channel) \in Nat \ {0} /\ Head(channel) = channel[1]
        /\ Len(channel') = Len(channel) - 1
        /\ \A k \in 1 .. Len(channel') : channel'[k] = channel[k + 1]
    BY <1>0 DEF ItemsHonest
  <2>2. \A k \in 1 .. Len(channel') : IsRead(channel'[k])
    BY <2>1 DEF FinishInv, SentIsRead
  <2>3. hand' # None => IsRead(hand')
    BY <2>1 DEF FinishInv, SentIsRead
  <2> QED  BY <2>2, <2>3 DEF FinishInv, SentIsRead, IsRead
<1>4. \A i \in InHand' : \E h \in hits : Carries(i, h)
  BY <1>1 DEF FinishInv, SeenOnce
<1>5. ~halted /\ ~cancelled => \A h \in hits : OnItsWay(h) => OnItsWay(h)'
  BY <1>2 DEF OnItsWay, Carries
<1> QED  BY <1>3, <1>4, <1>5, WorkFinish

LEMMA AbortFinish ==
    ASSUME IndexInv, FinishInv, Abort,
           UNCHANGED <<archive, walk, db, todo, reader, step>>
    PROVE  FinishInv'
<1> USE DEF Abort, walk
<1>1. \A i \in InHand' : i \in InHand
  BY DEF InHand
<1>2. SentIsRead'
  BY DEF FinishInv, SentIsRead, IsRead
<1>3. \A i \in InHand' : \E j \in InHand : i.path = j.path /\ i.stamp = j.stamp
  BY <1>1
<1> QED  BY <1>2, <1>3, OverFinish

LEMMA RecordFinish ==
    ASSUME IndexInv, FinishInv, Record
    PROVE  FinishInv'
<1> USE DEF Record, walk
<1>0. hand \in Item /\ hand \in InHand
  BY DEF IndexInv, ItemsHonest, InHand
<1>1. CASE hand' = None /\ UNCHANGED <<run, channel, open, failed>> /\ halted'
  <2>1. \A i \in InHand' : i \in InHand
    BY <1>1 DEF InHand
  <2>2. SeenOnce'
    BY <2>1, StaysSeenOnce DEF FinishInv
  <2>3. SentIsRead'
    BY <1>1 DEF FinishInv, SentIsRead, IsRead
  <2>4. SeenIsRecorded'
    BY <1>1 DEF SeenIsRecorded
  <2> QED  BY <2>2, <2>3, <2>4 DEF FinishInv
<1>2. CASE /\ hand' = None /\ UNCHANGED <<run, channel, halted>> /\ hand.thumb # "refused"
           /\ open' = [open EXCEPT ![hand.path] = RowOf(hand)]
           /\ failed' = IF hand.thumb = "failed" THEN failed \cup {hand.path} ELSE failed
  <2>1. \A i \in InHand' : i \in InHand
    BY <1>2 DEF InHand
  <2>2. \A i \in InHand : i \in InHand' \/ i = hand
    BY <1>2 DEF InHand
  <2>3. SeenOnce'
    BY <2>1, StaysSeenOnce DEF FinishInv
  <2>4. SentIsRead'
    BY <1>2 DEF FinishInv, SentIsRead, IsRead
  <2>5. RowOf(hand) \in Row
    BY <1>0 DEF RowOf, StampOf, Row, Item, IndexInv, RowsHonest, States
  <2>6. hand.path \in Files /\ open'[hand.path] = RowOf(hand) /\ RowOf(hand) # None
    BY <1>0, <1>2, <2>5, NoneAssumption DEF Item, IndexInv, RowsHonest
  <2>7. IsCurrent(RowOf(hand), hand.stamp) \/ hand.path \in failed'
    <3>1. IsRead(hand)
      BY DEF FinishInv, SentIsRead
    <3>2. CASE hand.thumb = "failed"
      BY <1>2, <3>2
    <3>3. CASE hand.thumb # "failed"
      BY <1>0, <1>2, <2>6, <3>1, <3>3 DEF IsRead, IsCurrent, RowOf, StampOf, Item
    <3> QED  BY <3>2, <3>3
  <2>8. ASSUME NEW h \in hits, h.path = hand.path PROVE Recorded(open, h)'
    <3>1. h.stamp = hand.stamp
      BY <1>0, <2>8 DEF FinishInv, SeenOnce, Carries
    <3>2. RowOf(hand).stamp = hand.stamp
      BY DEF RowOf, StampOf
    <3> QED  BY <2>6, <2>7, <2>8, <3>1, <3>2 DEF Recorded
  <2>9. ASSUME NEW h \in hits, h.path # hand.path, h.path \in Files, Recorded(open, h)
        PROVE  Recorded(open, h)'
    <3>1. open'[h.path] = open[h.path] /\ failed \subseteq failed'
      BY <1>2, <2>9 DEF IndexInv, RowsHonest
    <3> QED  BY <2>9, <3>1 DEF Recorded, IsCurrent
  <2>10. ASSUME NEW h \in hits, OnItsWay(h), h.path # hand.path PROVE OnItsWay(h)'
    BY <2>2, <2>10 DEF OnItsWay, Carries
  <2>11. \A h \in hits : h.path \in Files
    BY DEF IndexInv, HitsInPlace, Hit
  <2>12. SeenIsRecorded'
    BY <1>2, <2>8, <2>9, <2>10, <2>11 DEF FinishInv, SeenIsRecorded
  <2> QED  BY <2>3, <2>4, <2>12 DEF FinishInv
<1>3. CASE Abort
  BY <1>3, AbortFinish
<1> QED  BY <1>1, <1>2, <1>3

LEMMA CommitFinish ==
    ASSUME IndexInv, FinishInv, Commit
    PROVE  FinishInv'
<1> USE DEF Commit, walk
<1>1. CASE /\ db' = open /\ UNCHANGED <<open, channel, hand>>
           /\ run' = run \/ (AllRead /\ channel = <<>> /\ run' = "end")
  <2>1. InHand' = InHand
    BY <1>1, SameInHand
  <2>2. SeenOnce'
    BY <2>1, StaysSeenOnce DEF FinishInv
  <2>3. SentIsRead'
    BY <1>1 DEF FinishInv, SentIsRead, IsRead
  <2>4. ASSUME NEW h \in hits
        PROVE  /\ OnItsWay(h)' = OnItsWay(h)
               /\ Recorded(open, h)' = Recorded(open, h)
               /\ Recorded(db, h)' = Recorded(open, h)
    <3>1. OnItsWay(h)' = OnItsWay(h)
      BY <2>1 DEF OnItsWay, Carries
    <3>2. Recorded(open, h)' = Recorded(open, h) /\ Recorded(db, h)' = Recorded(open, h)
      BY <1>1 DEF Recorded, IsCurrent
    <3> QED  BY <3>1, <3>2
  <2>5. CASE run' = run
    <3>1. SeenIsRecorded'
      BY <1>1, <2>4, <2>5 DEF FinishInv, SeenIsRecorded
    <3> QED  BY <2>2, <2>3, <3>1 DEF FinishInv
  <2>6. CASE AllRead /\ channel = <<>> /\ run' = "end"
    <3>1. \A r \in Readers : reader[r] = None
      BY <2>6 DEF AllRead, IndexInv, ItemsHonest
    <3>2. \A h \in hits : ~OnItsWay(h)
      BY <2>6, <3>1, NothingInHand DEF AllRead, OnItsWay
    <3>3. SeenIsRecorded'
      BY <1>1, <2>4, <2>6, <3>2 DEF FinishInv, SeenIsRecorded
    <3> QED  BY <2>2, <2>3, <3>3 DEF FinishInv
  <2> QED  BY <1>1, <2>5, <2>6
<1>2. CASE Abort /\ UNCHANGED db
  BY <1>2, AbortFinish
<1> QED  BY <1>1, <1>2

LEMMA CourseFinish ==
    ASSUME IndexInv, FinishInv, Join \/ End \/ Cancel
    PROVE  FinishInv'
<1> USE DEF Join, End, Cancel, writer, pool, walk
<1>1. InHand' = InHand
  BY SameInHand
<1>2. SeenOnce'
  BY <1>1, StaysSeenOnce DEF FinishInv
<1>3. SentIsRead'
  BY DEF FinishInv, SentIsRead, IsRead
<1>4. SeenIsRecorded'
  BY DEF FinishInv, SeenIsRecorded
<1> QED  BY <1>2, <1>3, <1>4 DEF FinishInv

LEMMA KillFinish ==
    ASSUME IndexInv, FinishInv, Kill
    PROVE  FinishInv'
<1> USE DEF Kill, walk
<1>1. InHand' = {}
  BY DEF InHand
<1>2. SentIsRead'
  BY DEF SentIsRead
<1> QED  BY <1>1, <1>2, OverFinish

LEMMA BetweenRunsFinish ==
    ASSUME IndexInv, FinishInv,
           Reset \/ \E p \in Files : Quarantine(p) \/ Undo(p) \/ Purge(p)
    PROVE  FinishInv'
<1>1. /\ run' = "idle" /\ open' = db' /\ UNCHANGED <<walk, pool, hand>>
  BY DEF Reset, Quarantine, Undo, Purge, ToState
<1>2. InHand' = InHand
  BY <1>1, SameInHand DEF pool
<1>3. SentIsRead'
  BY <1>1 DEF pool, FinishInv, SentIsRead, IsRead
<1> QED  BY <1>1, <1>2, <1>3, OverFinish DEF walk

LEMMA AloneFinish ==
    ASSUME IndexInv, FinishInv,
           \/ CacheChanges \/ UNCHANGED vars
           \/ \E r \in Readers : Acquire(r)
           \/ \E p \in Files : OtherWrites(p) \/ OtherRemoves(p)
    PROVE  FinishInv'
<1> USE DEF writer, walk, pool
<1>1. UNCHANGED <<open, db, run, hits, looked, todo, reader, channel, hand, halted,
                  failed, cancelled>>
  BY DEF CacheChanges, vars, Acquire, OtherWrites, OtherRemoves
<1>2. \A r \in Readers : step'[r] \in {"store", "send"} => step'[r] = step[r]
  <2>1. step \in [Readers -> {"free", "wait", "read", "store", "send"}]
    BY DEF IndexInv, ItemsHonest
  <2> QED  BY <2>1 DEF CacheChanges, vars, Acquire, OtherWrites, OtherRemoves
<1> QED  BY <1>1, <1>2, QuietFinish

LEMMA NextFinishInv == IndexInv /\ FinishInv /\ [Next]_vars => FinishInv'
<1> SUFFICES ASSUME IndexInv, FinishInv, [Next]_vars PROVE FinishInv'
  OBVIOUS
<1>1. ASSUME NEW r \in Readers, Reader(r) PROVE FinishInv'
  BY <1>1, TakeFinish, AloneFinish, ReadFinish, StoreFinish, SendFinish DEF Reader
<1>2. CASE Writer
  BY <1>2, ReceiveFinish, RecordFinish, CommitFinish, CourseFinish DEF Writer
<1>3. CASE Start \/ Select \/ StopWalk \/ Cancel \/ Kill \/ CacheChanges \/ Reset
  BY <1>3, WalkFinish, SelectFinish, CourseFinish, KillFinish, AloneFinish, BetweenRunsFinish
<1>4. ASSUME NEW p \in Files, Look(p) \/ OtherWrites(p) \/ OtherRemoves(p)
      PROVE  FinishInv'
  BY <1>4, WalkFinish, AloneFinish
<1>5. ASSUME NEW p \in Files, Quarantine(p) \/ Undo(p) \/ Purge(p) PROVE FinishInv'
  BY <1>5, BetweenRunsFinish
<1>6. CASE UNCHANGED vars
  BY <1>6, AloneFinish
<1> QED  BY <1>1, <1>2, <1>3, <1>4, <1>5, <1>6 DEF Next

\* Cut short at whatever item, by a cancel, a refused cache, an error or a kill, a
\* run is not taken for a whole one: what its walk saw is all recorded when it is
\* marked finished.
THEOREM FinishedRecordsAll == Spec => FinishedMeansRecorded
<1>1. Init => FinishInv
  BY InitFinishInv
<1>2. IndexInv /\ FinishInv /\ [Next]_vars => FinishInv'
  BY NextFinishInv
<1>3. IndexInv /\ FinishInv /\ [Next]_vars =>
        [(~finished /\ finished') =>
           \A h \in hits : /\ db'[h.path] # None /\ db'[h.path].stamp = h.stamp
                           /\ IsCurrent(db'[h.path], h.stamp) \/ h.path \in failed]_vars
  <2> SUFFICES ASSUME IndexInv, FinishInv, Next, ~finished, finished', NEW h \in hits
               PROVE  Recorded(db, h) /\ db' = db
    BY DEF Recorded, vars
  <2>1. Select \/ End
    <3>1. ASSUME NEW r \in Readers, Reader(r) PROVE FALSE
      BY <3>1 DEF Reader, Take, Acquire, Read, Store, Send
    <3>2. ASSUME NEW p \in Files, Look(p) \/ OtherWrites(p) \/ OtherRemoves(p)
          PROVE  FALSE
      BY <3>2 DEF Look, OtherWrites, OtherRemoves
    <3>3. ASSUME NEW p \in Files, Quarantine(p) \/ Undo(p) \/ Purge(p) PROVE FALSE
      BY <3>3 DEF Quarantine, Undo, Purge, ToState
    <3>4. ~(Start \/ StopWalk \/ Cancel \/ Kill \/ CacheChanges \/ Reset)
      BY DEF Start, StopWalk, Cancel, Kill, CacheChanges, Reset
    <3>5. Writer => End
      BY DEF Writer, Receive, Record, Commit, Join
    <3> QED  BY <3>1, <3>2, <3>3, <3>4, <3>5 DEF Next
  <2>2. CASE Select
    <3>1. IsCurrent(db[h.path], h.stamp) /\ db' = db
      BY <2>2 DEF Select
    <3> QED  BY <3>1 DEF Recorded, IsCurrent
  <2>3. CASE End
    BY <2>3 DEF End, Finishes, FinishInv, SeenIsRecorded
  <2> QED  BY <2>1, <2>2, <2>3
<1> QED  BY <1>1, <1>2, <1>3, IndexInvariance, PTL DEF Spec, FinishedMeansRecorded

------------------------------------------------------------------------------
(***************************************************************************)
(* The thumbnails (Thumbnails), for every archive, every number of viewers *)
(* and processes: a view is never older than the stamp it was asked for    *)
(* with, a name once borne stays whole, and making thumbnails again leaves *)
(* none missing without a reason.                                          *)
(***************************************************************************)
USE ThumbnailsAssumption

JobStages == {"idle", "next", "stored", "unstored", "told"} \cup Putting
ViewerStages == {"idle", "read", "handed"} \cup Putting
Grows == \A v : Settled(v) => Settled(v)'

(* ------------------------ names and what bears them -------------------- *)
LEMMA KeysDiffer ==
    /\ \A v \in Version : Thumb(v) \in Key
    /\ \A f \in Asked, s \in Version : View(f, s) \in Key
    /\ \A v, f, s : Thumb(v) # View(f, s)
    /\ \A f, g, s, r : View(f, s) = View(g, r) => f = g /\ s = r
    /\ \A v, w : Thumb(v) = Thumb(w) => v = w
<1>1. \A v, f, s : Thumb(v)[1] = "thumb" /\ View(f, s)[1] = "view"
  BY DEF Thumb, View
<1>2. \A v, f, s : Thumb(v)[2] = v /\ View(f, s)[2] = f /\ View(f, s)[3] = s
  BY DEF Thumb, View
<1> QED
  BY <1>1, <1>2 DEF Key

LEMMA FilesDiffer ==
    /\ Empty # Short /\ Empty # Foreign /\ Short # Foreign
    /\ Empty.is # "whole" /\ Short.is # "whole" /\ Foreign.is # "whole"
    /\ Empty.of = NoPicture /\ Short.of = NoPicture /\ Foreign.of = NoPicture
    /\ \A v : /\ Picture(v) \notin {Empty, Short, Foreign}
              /\ Picture(v).is = "whole" /\ Picture(v).of = v
    /\ \A c \in Borne : c.is = "whole" => c.of \in Version /\ c = Picture(c.of)
    /\ \A c \in Borne : c.is # "whole" => c \in {Empty, Short, Foreign}
<1>1. /\ Empty.is = "absent" /\ Short.is = "short" /\ Foreign.is = "foreign"
      /\ \A v : Picture(v).is = "whole" /\ Picture(v).of = v
      /\ Empty.of = NoPicture /\ Short.of = NoPicture /\ Foreign.of = NoPicture
  BY DEF Empty, Short, Foreign, Picture
<1> QED
  BY <1>1 DEF Borne

LEMMA VersionsAreNumbers ==
    /\ Version \subseteq Nat \ {0} /\ NoPicture \notin Version
           /\ \A f \in Photo : 1..MaxVersion[f] \subseteq Version
BY DEF ThumbnailsAssumption, Version, NoPicture

(* --------------------------- one kind of step -------------------------- *)
LEMMA FilesStay ==
    ASSUME FileInv, UNCHANGED <<photos, rows, unseen>>
    PROVE  FileInv'
BY DEF FileInv

\* A name of the cache gets another content.
LEMMA CacheStep ==
    ASSUME CacheInv, NEW k \in Key, NEW c \in Borne, thumbs' = [thumbs EXCEPT ![k] = c],
           UNCHANGED exclusive, hurt \subseteq hurt', exclusive => direct' = {},
           c = Short => ~exclusive, c = Foreign => k \in hurt',
           \A f \in Asked, s \in Version : k = View(f, s) /\ c.is = "whole" => s <= c.of
    PROVE  CacheInv'
<1>1. thumbs' \in [Key -> Borne]
  BY DEF CacheInv
<1>2. \A j \in Key : thumbs'[j] = IF j = k THEN c ELSE thumbs[j]
  BY DEF CacheInv
<1>3. ASSUME NEW f \in Asked, NEW s \in Version, Whole(View(f, s))'
      PROVE  s <= thumbs'[View(f, s)].of
  <2>1. View(f, s) \in Key
    BY KeysDiffer
  <2> QED
    BY <1>2, <1>3, <2>1 DEF CacheInv, Whole
<1>4. \A j \in Key : /\ thumbs'[j] = Short => ~exclusive'
                     /\ thumbs'[j] = Foreign => j \in hurt'
  BY <1>2 DEF CacheInv
<1> QED
  BY <1>3, <1>4 DEF CacheInv

LEMMA CacheStays ==
    ASSUME CacheInv, UNCHANGED <<thumbs, exclusive>>, hurt \subseteq hurt',
           exclusive => direct' = {}
    PROVE  CacheInv' /\ Grows
BY DEF CacheInv, Whole, Grows, Settled

\* A name that had no file, or a short one, has a reason still, or a file.
LEMMA CacheGrows ==
    ASSUME CacheInv, NEW k \in Key, NEW c \in Borne, thumbs' = [thumbs EXCEPT ![k] = c],
           UNCHANGED exclusive, hurt \subseteq hurt',
           thumbs[k] = Empty \/ (thumbs[k] = Short /\ c.is = "whole")
    PROVE  Grows
<1> SUFFICES ASSUME NEW v, Settled(v)
             PROVE  Settled(v)'
  BY DEF Grows
<1>1. v \in Version /\ Thumb(v) \in Key
  BY KeysDiffer DEF Settled
<1>2. thumbs'[Thumb(v)] = IF Thumb(v) = k THEN c ELSE thumbs[Thumb(v)]
  BY <1>1 DEF CacheInv
<1>3. CASE Thumb(v) # k
  BY <1>1, <1>2, <1>3 DEF Settled, Whole
<1>4. CASE Thumb(v) = k
  <2>1. CASE thumbs[k] = Empty
    <3>1. Thumb(v) \in hurt
      BY <1>4, <2>1, FilesDiffer DEF Settled, Whole
    <3> QED
      BY <1>1, <3>1 DEF Settled
  <2>2. CASE c.is = "whole"
    BY <1>1, <1>2, <1>4, <2>2 DEF Settled, Whole
  <2> QED
    BY <2>1, <2>2
<1> QED
  BY <1>3, <1>4

\* One thread takes a step.
LEMMA ThreadStep ==
    ASSUME ThreadInv, NEW t \in Thread,
           pc' = [u \in Thread |-> pc'[u]], at' = [u \in Thread |-> at'[u]],
           \A u \in Thread \ {t} : pc'[u] = pc[u] /\ at'[u] = at[u],
           UNCHANGED <<photos, unseen, exclusive>>,
           t = Job => /\ pc'[t] \in JobStages
                      /\ pc'[t] \in Putting \cup {"stored", "unstored"} => JobAt',
           t # Job => /\ pc'[t] \in ViewerStages
                      /\ pc'[t] # "idle" => ViewerAt(t)',
           pc'[t] \in {"create", "fill"} => ~exclusive,
           pc'[t] = "fill" => thumbs'[at'[t].key] = Short,
           \A u \in Thread \ {t} : pc[u] = "fill" =>
              thumbs'[at[u].key] = Short /\ (pc'[t] = "fill" => at[u].key # at'[t].key)
    PROVE  ThreadInv'
<1>1. Job \in Thread /\ Viewer \subseteq Thread
  BY DEF Thread
<1>2. pc'[Job] \in JobStages /\ (pc'[Job] \in Putting \cup {"stored", "unstored"} => JobAt')
  BY <1>1 DEF ThreadInv, JobStages, JobAt
<1>3. ASSUME NEW u \in Viewer
      PROVE  pc'[u] \in ViewerStages /\ (pc'[u] # "idle" => ViewerAt(u)')
  <2>1. CASE u = t /\ t # Job
    BY <1>1, <2>1
  <2>2. CASE t = Job /\ u = t
    BY <2>2 DEF ThumbnailsAssumption
  <2>3. CASE u # t
    BY <1>1, <2>3 DEF ThreadInv, ViewerAt, ViewerStages
  <2> QED
    BY <2>1, <2>2, <2>3
<1>4. \A u \in Thread : /\ pc'[u] \in {"create", "fill"} => ~exclusive'
                        /\ pc'[u] = "fill" => thumbs'[at'[u].key] = Short
  BY DEF ThreadInv
<1>5. \A u, w \in Thread :
        pc'[u] = "fill" /\ pc'[w] = "fill" /\ at'[u].key = at'[w].key => u = w
  BY DEF ThreadInv
<1> QED
  BY <1>2, <1>3, <1>4, <1>5 DEF ThreadInv, JobStages, ViewerStages

\* The job sees a step of another thread only in the cache.
LEMMA JobStays ==
    ASSUME JobInv, Grows, UNCHANGED <<rows, job>>, pc'[Job] = pc[Job], at'[Job] = at[Job]
    PROVE  JobInv'
BY DEF JobInv, Pending, Grows

LEMMA JobPuts ==
    ASSUME JobInv, ThreadInv, Grows, UNCHANGED <<rows, job, at>>, NEW s,
           pc[Job] \in Putting, s \in Putting \cup {"stored", "unstored"}, pc'[Job] = s,
           s = "stored" => Settled(at[Job].version)'
    PROVE  JobInv'
<1>1. \A f : Pending(f) => Pending(f)'
  BY DEF Pending
<1>2. pc'[Job] # "idle" /\ (pc'[Job] = "stored" => Settled(at[Job].version)')
  BY DEF Putting
<1> QED
  BY <1>1, <1>2 DEF JobInv, Grows

\* One thread goes on with its put.
LEMMA PutStep ==
    ASSUME ThumbnailsInv, NEW t \in Thread, NEW s, pc[t] \in Putting,
           s \in Putting \cup {After(t, TRUE), After(t, FALSE)}, pc' = [pc EXCEPT ![t] = s],
           UNCHANGED <<photos, rows, exclusive, at, job, unseen>>, CacheInv', Grows,
           t = Job /\ s = "stored" => Settled(at[t].version)',
           s \in {"create", "fill"} => ~exclusive,
           s = "fill" => thumbs'[at[t].key] = Short,
           \A u \in Thread \ {t} : pc[u] = "fill" =>
              thumbs'[at[u].key] = Short /\ (s = "fill" => at[u].key # at[t].key)
    PROVE  ThumbnailsInv'
<1>1. FileInv'
  BY FilesStay DEF ThumbnailsInv
<1>2. pc[t] # "idle"
  BY DEF Putting
<1>3. t # Job => t \in Viewer
  BY DEF Thread
<1>4. /\ pc' = [u \in Thread |-> pc'[u]] /\ at' = [u \in Thread |-> at'[u]]
      /\ \A u \in Thread \ {t} : pc'[u] = pc[u] /\ at'[u] = at[u]
      /\ pc'[t] = s /\ at'[t] = at[t]
  BY DEF ThumbnailsInv, ThreadInv
<1>5. t = Job => s \in Putting \cup {"stored", "unstored"} /\ JobAt'
  BY DEF After, ThumbnailsInv, ThreadInv, JobAt
<1>6. t # Job => s \in Putting \cup {"handed"}
  BY DEF After
<1>7. t # Job => ViewerAt(t)'
  BY <1>2, <1>3, <1>6 DEF ThumbnailsInv, ThreadInv, ViewerAt
<1>8. ThreadInv'
  <2>1. t = Job => /\ pc'[t] \in JobStages
                   /\ pc'[t] \in Putting \cup {"stored", "unstored"} => JobAt'
    BY <1>4, <1>5 DEF JobStages
  <2>2. t # Job => /\ pc'[t] \in ViewerStages
                   /\ pc'[t] # "idle" => ViewerAt(t)'
    BY <1>4, <1>6, <1>7 DEF ViewerStages
  <2>3. ThreadInv /\ UNCHANGED <<photos, unseen, exclusive>>
    BY DEF ThumbnailsInv
  <2>4. /\ pc'[t] \in {"create", "fill"} => ~exclusive
        /\ pc'[t] = "fill" => thumbs'[at'[t].key] = Short
        /\ \A u \in Thread \ {t} : pc[u] = "fill" =>
              thumbs'[at[u].key] = Short /\ (pc'[t] = "fill" => at[u].key # at'[t].key)
    BY <1>4
  <2> QED
    BY ONLY ThumbnailsAssumption, <2>1, <2>2, <2>3, <2>4, <1>4, ThreadStep, t \in Thread
<1>9. JobInv'
  <2>1. CASE t = Job
    <3>1. pc'[Job] = s
      BY <2>1 DEF ThumbnailsInv, ThreadInv
    <3> QED
      BY <2>1, <3>1, <1>5, JobPuts DEF ThumbnailsInv
  <2>2. CASE t # Job
    <3>1. pc'[Job] = pc[Job]
      BY <2>2 DEF ThumbnailsInv, ThreadInv, Thread
    <3> QED
      BY <3>1, JobStays DEF ThumbnailsInv
  <2> QED
    BY <2>1, <2>2
<1> QED
  BY <1>1, <1>8, <1>9 DEF ThumbnailsInv

\* What a putting thread holds.
LEMMA PutHolds ==
    ASSUME ThumbnailsInv, NEW t \in Thread, pc[t] \in Putting
    PROVE  /\ at[t].key \in Key
           /\ Picture(at[t].version) \in Borne
           /\ t = Job => at[t].version \in Version /\ at[t].key = Thumb(at[t].version)
           /\ \A f \in Asked, s \in Version : at[t].key = View(f, s) => s <= at[t].version
<1>1. CASE t = Job
  <2>1. JobAt
    BY <1>1 DEF ThumbnailsInv, ThreadInv
  <2>2. at[t].key \in Key /\ at[t].version \in Version /\ at[t].key = Thumb(at[t].version)
    BY <1>1, <2>1 DEF JobAt, Holding
  <2> QED
    BY <2>2, KeysDiffer DEF Borne
<1>2. CASE t # Job
  <2>1. t \in Viewer /\ pc[t] # "idle"
    BY <1>2 DEF Thread, Putting
  <2>2. ViewerAt(t)
    BY <2>1 DEF ThumbnailsInv, ThreadInv
  <2>3. at[t].key \in Key /\ at[t].version \in Version \cup {NoPicture} /\ at[t].asked \in Version
    BY <2>2 DEF ViewerAt, Holding
  <2>4. at[t].version >= at[t].asked
    BY <2>2 DEF ViewerAt
  <2>5. at[t].version \in Version
    <3>1. at[t].asked \in Nat \ {0}
      BY <2>3, VersionsAreNumbers
    <3>2. ~(0 >= at[t].asked)
      BY <3>1
    <3>3. at[t].version # NoPicture
      BY <2>4, <3>2 DEF NoPicture
    <3> QED
      BY <2>3, <3>3
  <2>6. PICK r \in Version : at[t].key = View(at[t].photo, r) /\ r <= at[t].asked
    BY <2>2 DEF ViewerAt
  <2>7. ASSUME NEW f \in Asked, NEW s \in Version, at[t].key = View(f, s)
        PROVE  s <= at[t].version
    <3>1. s = r
      BY <2>6, <2>7 DEF View
    <3>2. s \in Nat /\ at[t].asked \in Nat /\ at[t].version \in Nat
      BY <2>3, <2>5, VersionsAreNumbers
    <3> QED
      BY <2>4, <2>6, <3>1, <3>2
  <2> QED
    BY <1>2, <2>3, <2>5, <2>7 DEF Borne
<1> QED
  BY <1>1, <1>2

\* What bears a thumbnail's name keeps the job from making it, for a reason.
LEMMA StoredIsSettled ==
    ASSUME CacheInv', UNCHANGED exclusive, NEW v \in Version, thumbs'[Thumb(v)] # Empty
    PROVE  Settled(v)'
<1>1. Thumb(v) \in Key
  BY KeysDiffer
<1>2. thumbs'[Thumb(v)] \in Borne
  BY <1>1 DEF CacheInv
<1> QED
  BY <1>1, <1>2, FilesDiffer DEF Settled, CacheInv, Whole

(* ------------------------------- the puts ------------------------------ *)
LEMMA WriteKeeps ==
    ASSUME ThumbnailsInv, NEW t \in Thread, write(t)
    PROVE  ThumbnailsInv'
<1> DEFINE k == at[t].key
           s == IF FreeName(k) THEN (IF ProcOf[t] \in direct THEN "create" ELSE "publish")
                ELSE After(t, thumbs[k] # Foreign)
<1>1. pc[t] \in Putting
  BY DEF write, Putting
<1>2. pc' = [pc EXCEPT ![t] = s]
  BY DEF write, Go
<1>3. UNCHANGED <<photos, rows, thumbs, exclusive, direct, at, job, unseen, hurt>>
  BY DEF write, Undisturbed
<1>4. CacheInv' /\ Grows
  BY <1>3, CacheStays DEF ThumbnailsInv, CacheInv
<1>5. s \in {"create", "publish", After(t, TRUE), After(t, FALSE)}
  <2>1. CASE FreeName(k)
    BY <2>1
  <2>2. CASE ~FreeName(k) /\ thumbs[k] = Foreign
    <3>1. (thumbs[k] # Foreign) = FALSE
      BY <2>2
    <3> QED
      BY <2>2, <3>1
  <2>3. CASE ~FreeName(k) /\ thumbs[k] # Foreign
    <3>1. (thumbs[k] # Foreign) = TRUE
      BY <2>3
    <3> QED
      BY <2>3, <3>1
  <2> QED
    BY <2>1, <2>2, <2>3
<1>6. s = "create" => ~exclusive
  BY DEF ThumbnailsInv, CacheInv, After
<1>7. s # "fill"
  BY DEF After
<1>8. t = Job /\ s = "stored" => Settled(at[t].version)'
  <2> SUFFICES ASSUME t = Job, s = "stored" PROVE Settled(at[t].version)'
    OBVIOUS
  <2>1. ~FreeName(k)
    OBVIOUS
  <2> QED
    BY <2>1, <1>1, <1>3, <1>4, PutHolds, StoredIsSettled DEF FreeName
<1>9. \A u \in Thread \ {t} : pc[u] = "fill" =>
         thumbs'[at[u].key] = Short /\ (s = "fill" => at[u].key # at[t].key)
  BY <1>3, <1>7 DEF ThumbnailsInv, ThreadInv
<1>10. s \in Putting \cup {After(t, TRUE), After(t, FALSE)}
  BY <1>5 DEF Putting
<1> HIDE DEF s
<1> QED
  BY <1>1, <1>2, <1>3, <1>4, <1>6, <1>7, <1>8, <1>9, <1>10, PutStep

LEMMA PublishKeeps ==
    ASSUME ThumbnailsInv, NEW t \in Thread, publish(t)
    PROVE  ThumbnailsInv'
<1> DEFINE k == at[t].key
<1>1. pc[t] \in Putting
  BY DEF publish, Putting
<1>2. UNCHANGED <<photos, rows, exclusive, at, job, unseen, hurt>>
  BY DEF publish, Undisturbed
<1>3. CASE exclusive
  <2>1. pc' = [pc EXCEPT ![t] = After(t, TRUE)] /\ UNCHANGED direct
    BY <1>3 DEF publish, Go
  <2>2. CacheInv' /\ Grows /\ thumbs'[k] # Empty
    <3>1. CASE FreeName(k)
      <4>1. thumbs' = [thumbs EXCEPT ![k] = Picture(at[t].version)] /\ thumbs[k] = Empty
        BY <1>3, <3>1 DEF publish, FreeName
      <4>2. CacheInv'
        <5> DEFINE c == Picture(at[t].version)
        <5>1. c \in Borne /\ k \in Key /\ c.of = at[t].version /\ c # Short /\ c # Foreign
          BY <1>1, PutHolds, FilesDiffer
        <5>2. \A f \in Asked, s \in Version : k = View(f, s) => s <= c.of
          BY <1>1, <5>1, PutHolds
        <5>3. thumbs' = [thumbs EXCEPT ![k] = c] /\ thumbs[k] = Empty
          BY <4>1
        <5>4. CacheInv
          BY DEF ThumbnailsInv
        <5>5. UNCHANGED exclusive /\ hurt \subseteq hurt' /\ (exclusive => direct' = {})
          BY <1>2, <2>1, <5>4 DEF CacheInv
        <5>6. (c = Short => ~exclusive) /\ (c = Foreign => k \in hurt')
          BY <5>1
        <5>7. \A f \in Asked, s \in Version : k = View(f, s) /\ c.is = "whole" => s <= c.of
          BY <5>2
        <5> HIDE DEF c, k
        <5> QED
          BY <5>1, <5>3, <5>4, <5>5, <5>6, <5>7, CacheStep
      <4>3. Grows
        BY <1>1, <1>2, <4>1, PutHolds, CacheGrows DEF ThumbnailsInv
      <4> QED
        BY <1>1, <4>1, <4>2, <4>3, PutHolds, FilesDiffer DEF ThumbnailsInv, CacheInv
    <3>2. CASE ~FreeName(k)
      <4>1. UNCHANGED thumbs
        BY <1>3, <3>2 DEF publish
      <4> QED
        BY <1>2, <2>1, <3>2, <4>1, CacheStays DEF ThumbnailsInv, CacheInv, FreeName
    <3> QED
      BY <3>1, <3>2
  <2>3. t = Job => Settled(at[t].version)'
    BY <1>1, <1>2, <2>2, PutHolds, StoredIsSettled
  <2>4. \A u \in Thread : pc[u] # "fill"
    BY <1>3 DEF ThumbnailsInv, ThreadInv
  <2>5. After(t, TRUE) \notin {"create", "fill"}
    BY DEF After
  <2> QED
    BY <1>1, <1>2, <2>1, <2>2, <2>3, <2>4, <2>5, PutStep
<1>4. CASE ~exclusive
  <2>1. pc' = [pc EXCEPT ![t] = "create"] /\ UNCHANGED thumbs
    BY <1>4 DEF publish, Go
  <2>2. CacheInv' /\ Grows
    BY <1>2, <1>4, <2>1, CacheStays DEF ThumbnailsInv
  <2> QED
    BY <1>1, <1>2, <1>4, <2>1, <2>2, PutStep DEF Putting, ThumbnailsInv, ThreadInv
<1> QED
  BY <1>3, <1>4

LEMMA CreateKeeps ==
    ASSUME ThumbnailsInv, NEW t \in Thread, create_new(t)
    PROVE  ThumbnailsInv'
<1> DEFINE k == at[t].key
<1>1. pc[t] \in Putting /\ pc[t] = "create"
  BY DEF create_new, Putting
<1>2. UNCHANGED <<photos, rows, exclusive, direct, at, job, unseen, hurt>>
  BY DEF create_new, Undisturbed
<1>3. ~exclusive
  BY <1>1 DEF ThumbnailsInv, ThreadInv
<1>4. CASE thumbs[k] = Empty
  <2>1. pc' = [pc EXCEPT ![t] = "fill"] /\ thumbs' = [thumbs EXCEPT ![k] = Short]
    BY <1>4 DEF create_new, Go
  <2>2. Short \in Borne /\ k \in Key
    BY <1>1, PutHolds DEF Borne
  <2>3. CacheInv'
    <3>1. CacheInv /\ (exclusive => direct' = {})
      BY <1>2 DEF ThumbnailsInv, CacheInv
    <3>2. Short # Foreign /\ Short.is # "whole"
      BY FilesDiffer DEF Short
    <3> HIDE DEF k
    <3> QED
      BY <1>2, <1>3, <2>1, <2>2, <3>1, <3>2, CacheStep
  <2>4. Grows
    BY <1>2, <1>4, <2>1, <2>2, CacheGrows DEF ThumbnailsInv
  <2>5. thumbs'[k] = Short
    BY <2>1, <2>2 DEF ThumbnailsInv, CacheInv
  <2>6. \A u \in Thread \ {t} : pc[u] = "fill" => thumbs'[at[u].key] = Short /\ at[u].key # k
    <3> SUFFICES ASSUME NEW u \in Thread \ {t}, pc[u] = "fill"
                 PROVE  thumbs'[at[u].key] = Short /\ at[u].key # k
      OBVIOUS
    <3>1. thumbs[at[u].key] = Short
      BY DEF ThumbnailsInv, ThreadInv
    <3>2. at[u].key \in Key
      BY PutHolds DEF Putting
    <3> QED
      BY <1>4, <2>1, <3>1, <3>2, FilesDiffer DEF ThumbnailsInv, CacheInv
  <2> QED
    BY <1>1, <1>2, <1>3, <2>1, <2>3, <2>4, <2>5, <2>6, PutStep DEF Putting
<1>5. CASE thumbs[k] # Empty
  <2>1. pc' = [pc EXCEPT ![t] = After(t, TRUE)] /\ UNCHANGED thumbs
    BY <1>5 DEF create_new, Go
  <2>2. CacheInv' /\ Grows
    BY <1>2, <2>1, CacheStays DEF ThumbnailsInv, CacheInv
  <2>3. t = Job => Settled(at[t].version)'
    BY <1>1, <1>2, <1>5, <2>1, <2>2, PutHolds, StoredIsSettled
  <2>4. After(t, TRUE) \notin {"create", "fill"}
    BY DEF After
  <2> QED
    BY <1>1, <1>2, <2>1, <2>2, <2>3, <2>4, PutStep DEF ThumbnailsInv, ThreadInv
<1> QED
  BY <1>4, <1>5

LEMMA FillKeeps ==
    ASSUME ThumbnailsInv, NEW t \in Thread, write_all(t)
    PROVE  ThumbnailsInv'
<1> DEFINE k == at[t].key
           c == Picture(at[t].version)
<1>1. pc[t] \in Putting /\ pc[t] = "fill"
  BY DEF write_all, Putting
<1>2. UNCHANGED <<photos, rows, exclusive, direct, at, job, unseen, hurt>>
  BY DEF write_all, Undisturbed
<1>3. /\ thumbs' = [thumbs EXCEPT ![k] = c] /\ thumbs[k] = Short
      /\ pc' = [pc EXCEPT ![t] = After(t, TRUE)]
  BY <1>1 DEF write_all, Go, ThumbnailsInv, ThreadInv
<1>4. c \in Borne /\ k \in Key /\ c.is = "whole" /\ c.of = at[t].version
      /\ c # Short /\ c # Foreign /\ c # Empty
  BY <1>1, PutHolds, FilesDiffer
<1>5. \A f \in Asked, s \in Version : k = View(f, s) => s <= c.of
  BY <1>1, <1>4, PutHolds
<1> HIDE DEF c
<1>6. CacheInv'
  <2>1. CacheInv /\ (exclusive => direct' = {})
    BY <1>2 DEF ThumbnailsInv, CacheInv
  <2> HIDE DEF k
  <2> QED
    BY <1>2, <1>3, <1>4, <1>5, <2>1, CacheStep
<1>7. Grows
  BY <1>2, <1>3, <1>4, CacheGrows DEF ThumbnailsInv
<1>8. thumbs'[k] # Empty
  BY <1>3, <1>4 DEF ThumbnailsInv, CacheInv
<1>9. t = Job => Settled(at[t].version)'
  BY <1>1, <1>2, <1>6, <1>8, PutHolds, StoredIsSettled
<1>10. \A u \in Thread \ {t} : pc[u] = "fill" => thumbs'[at[u].key] = Short
  <2> SUFFICES ASSUME NEW u \in Thread \ {t}, pc[u] = "fill"
               PROVE  thumbs'[at[u].key] = Short
    OBVIOUS
  <2>1. thumbs[at[u].key] = Short /\ at[u].key # k
    BY <1>1 DEF ThumbnailsInv, ThreadInv
  <2>2. at[u].key \in Key
    BY PutHolds DEF Putting
  <2> QED
    BY <1>3, <2>1, <2>2 DEF ThumbnailsInv, CacheInv
<1>11. After(t, TRUE) \notin {"create", "fill"}
  BY DEF After
<1> QED
  BY <1>1, <1>2, <1>3, <1>6, <1>7, <1>9, <1>10, <1>11, PutStep

LEMMA CannotKeeps ==
    ASSUME ThumbnailsInv, NEW t \in Thread, cannot(t)
    PROVE  ThumbnailsInv'
<1>1. pc[t] \in Putting /\ pc' = [pc EXCEPT ![t] = After(t, FALSE)]
  BY DEF cannot, Putting, Go
<1>2. UNCHANGED <<photos, rows, thumbs, exclusive, direct, at, job, unseen>> /\ hurt \subseteq hurt'
  BY DEF cannot
<1>3. CacheInv' /\ Grows
  BY <1>2, CacheStays DEF ThumbnailsInv, CacheInv
<1>4. After(t, FALSE) \notin {"create", "fill", "stored"}
  BY DEF After
<1> QED
  BY <1>1, <1>2, <1>3, <1>4, PutStep DEF ThumbnailsInv, ThreadInv

(* ------------------------------- the views ----------------------------- *)
\* A viewer takes a step outside the cache.
LEMMA ViewStep ==
    ASSUME ThumbnailsInv, NEW t \in Viewer,
           pc' = [u \in Thread |-> pc'[u]], at' = [u \in Thread |-> at'[u]],
           \A u \in Thread \ {t} : pc'[u] = pc[u] /\ at'[u] = at[u],
           pc'[t] \in {"idle", "read", "handed", "write"}, pc'[t] # "idle" => ViewerAt(t)',
           UNCHANGED <<photos, rows, thumbs, exclusive, direct, job, hurt, unseen>>
    PROVE  ThumbnailsInv'
<1>1. FileInv'
  BY FilesStay DEF ThumbnailsInv
<1>2. CacheInv' /\ Grows
  BY CacheStays DEF ThumbnailsInv, CacheInv
<1>3. t \in Thread /\ t # Job /\ Job \in Thread
  BY DEF Thread, ThumbnailsAssumption
<1>4. JobInv'
  BY <1>2, <1>3, JobStays DEF ThumbnailsInv
<1>5. ThreadInv'
  <2>1. t # Job => pc'[t] \in ViewerStages /\ (pc'[t] # "idle" => ViewerAt(t)')
    BY DEF ViewerStages, Putting
  <2>2. ThreadInv /\ UNCHANGED <<photos, unseen, exclusive>>
    BY DEF ThumbnailsInv
  <2>3. /\ pc'[t] \in {"create", "fill"} => ~exclusive
        /\ pc'[t] = "fill" => thumbs'[at'[t].key] = Short
        /\ \A u \in Thread \ {t} : pc[u] = "fill" =>
              thumbs'[at[u].key] = Short /\ (pc'[t] = "fill" => at[u].key # at'[t].key)
    BY <2>2 DEF ThreadInv
  <2> QED
    BY ONLY ThumbnailsAssumption, <1>3, <2>1, <2>2, <2>3, ThreadStep,
            pc' = [u \in Thread |-> pc'[u]], at' = [u \in Thread |-> at'[u]],
            \A u \in Thread \ {t} : pc'[u] = pc[u] /\ at'[u] = at[u]
<1> QED
  BY <1>1, <1>2, <1>4, <1>5 DEF ThumbnailsInv

LEMMA PreviewKeeps ==
    ASSUME ThumbnailsInv, NEW t \in Viewer, NEW f \in Asked,
           full_preview(t, f)
    PROVE  ThumbnailsInv' /\ (NeverOlder => NeverOlder')
<1> DEFINE k == view_key(f)
           s == photos[f].stamp
           v == photos[f].version
           hit == thumbs[k] \notin {Empty, Foreign}
           h == [photo |-> f, version |-> IF hit THEN thumbs[k].of ELSE NoPicture, key |-> k, asked |-> v]
           to == IF hit THEN "handed" ELSE "read"
<1>1. f \in Photo /\ t \in Thread
  BY DEF ThumbnailsAssumption, Thread
<1>2. s \in Version /\ v \in Version /\ s <= v /\ (f \in unseen \/ s = v)
  BY <1>1, VersionsAreNumbers DEF ThumbnailsInv, FileInv, ThumbnailsAssumption
<1>3. k = View(f, s) /\ k \in Key
  BY <1>2, KeysDiffer DEF view_key
<1>4. thumbs[k] \in Borne
  BY <1>3 DEF ThumbnailsInv, CacheInv
<1>5. /\ pc' = [pc EXCEPT ![t] = to] /\ at' = [at EXCEPT ![t] = h]
      /\ UNCHANGED <<photos, rows, thumbs, exclusive, direct, job, hurt, unseen>>
  BY DEF full_preview, Holds, Go, Undisturbed
<1>6. thumbs[k].of \in Version \cup {NoPicture}
  BY <1>4, FilesDiffer
<1>7. h \in Holding
  BY <1>1, <1>2, <1>3, <1>6 DEF Holding
<1>8. h.photo = f /\ h.key = k /\ h.asked = v /\ h.version = IF hit THEN thumbs[k].of ELSE NoPicture
  OBVIOUS
<1> HIDE DEF h, k
<1>9. pc'[t] = to /\ at'[t] = h
  BY <1>1, <1>5 DEF ThumbnailsInv, ThreadInv
<1>10. ViewerAt(t)'
  <2>1. h.key = View(h.photo, s) /\ s <= h.asked /\ (h.photo \in unseen \/ s = h.asked)
    BY <1>2, <1>3, <1>8
  <2>2. h.asked <= photos[h.photo].version
    <3>1. v \in Nat
      BY <1>2, VersionsAreNumbers
    <3> HIDE DEF v
    <3>2. v <= v
      BY <3>1
    <3> QED
      BY <1>8, <3>2 DEF v
  <2>3. to \notin Putting
    BY DEF Putting
  <2> QED
    BY <1>2, <1>5, <1>7, <1>8, <1>9, <2>1, <2>2, <2>3 DEF ViewerAt
<1>11. /\ pc' = [u \in Thread |-> pc'[u]] /\ at' = [u \in Thread |-> at'[u]]
       /\ \A u \in Thread \ {t} : pc'[u] = pc[u] /\ at'[u] = at[u]
  BY <1>5 DEF ThumbnailsInv, ThreadInv
<1>12. ThumbnailsInv'
  BY <1>5, <1>9, <1>10, <1>11, ViewStep
<1>13. hit => f \in unseen \/ h.version >= h.asked \/ (h.version = NoPicture /\ ~exclusive)
  <2>1. CASE Whole(k)
    <3>1. s <= thumbs[k].of
      BY <1>2, <1>3, <2>1 DEF ThumbnailsInv, CacheInv
    <3> QED
      BY <1>2, <1>6, <1>8, <3>1, VersionsAreNumbers DEF NoPicture
  <2>2. CASE ~Whole(k)
    BY <1>3, <1>4, <1>8, <2>2, FilesDiffer DEF Whole, ThumbnailsInv, CacheInv
  <2> QED
    BY <2>1, <2>2
<1>14. NeverOlder => NeverOlder'
  <2> SUFFICES ASSUME NeverOlder, NEW u \in Viewer, pc'[u] = "handed", at'[u].photo \notin unseen'
               PROVE  at'[u].version >= at'[u].asked \/ (at'[u].version = NoPicture /\ ~exclusive')
    BY DEF NeverOlder
  <2>1. u \in Thread
    BY DEF Thread
  <2>2. CASE u # t
    BY <1>5, <1>11, <2>1, <2>2 DEF NeverOlder
  <2>3. CASE u = t
    BY <1>5, <1>8, <1>9, <1>13, <2>3
  <2> QED
    BY <2>2, <2>3
<1> QED
  BY <1>12, <1>14

LEMMA RenderKeeps ==
    ASSUME ThumbnailsInv, NEW t \in Viewer, NEW keeps \in BOOLEAN,
           render(t, keeps)
    PROVE  ThumbnailsInv' /\ (NeverOlder => NeverOlder')
<1> DEFINE h == at[t]
           v == photos[h.photo].version
           to == IF keeps THEN "write" ELSE "handed"
<1>1. t \in Thread /\ pc[t] = "read"
  BY DEF Thread, render
<1>2. ViewerAt(t)
  BY <1>1 DEF ThumbnailsInv, ThreadInv
<1>3. h \in Holding /\ h.photo \in Asked /\ h.photo \in Photo
  BY <1>2 DEF ViewerAt, ThumbnailsAssumption
<1>4. v \in Version /\ h.asked \in Version /\ v >= h.asked
  <2>1. v \in Version
    BY <1>3, VersionsAreNumbers DEF ThumbnailsInv, FileInv, ThumbnailsAssumption
  <2>2. h.asked \in Version
    BY <1>3 DEF Holding
  <2> QED
    BY <1>2, <2>1, <2>2, VersionsAreNumbers DEF ViewerAt
<1>5. /\ pc' = [pc EXCEPT ![t] = to] /\ at' = [at EXCEPT ![t] = [h EXCEPT !.version = v]]
      /\ UNCHANGED <<photos, rows, thumbs, exclusive, direct, job, hurt, unseen>>
  BY DEF render, Holds, Go, Undisturbed
<1>6. /\ pc' = [u \in Thread |-> pc'[u]] /\ at' = [u \in Thread |-> at'[u]]
      /\ \A u \in Thread \ {t} : pc'[u] = pc[u] /\ at'[u] = at[u]
      /\ pc'[t] = to /\ at'[t] = [h EXCEPT !.version = v]
  BY <1>1, <1>5 DEF ThumbnailsInv, ThreadInv
<1>7. /\ at'[t] \in Holding /\ at'[t].photo = h.photo /\ at'[t].key = h.key
      /\ at'[t].asked = h.asked /\ at'[t].version = v
  BY <1>3, <1>4, <1>6 DEF Holding
<1>8. ViewerAt(t)'
  BY <1>2, <1>3, <1>4, <1>5, <1>7 DEF ViewerAt
<1>9. ThumbnailsInv'
  BY <1>5, <1>6, <1>8, ViewStep
<1>10. NeverOlder => NeverOlder'
  <2> SUFFICES ASSUME NeverOlder, NEW u \in Viewer, pc'[u] = "handed", at'[u].photo \notin unseen'
               PROVE  at'[u].version >= at'[u].asked \/ (at'[u].version = NoPicture /\ ~exclusive')
    BY DEF NeverOlder
  <2>1. u \in Thread
    BY DEF Thread
  <2>2. CASE u # t
    BY <1>5, <1>6, <2>1, <2>2 DEF NeverOlder
  <2>3. CASE u = t
    BY <1>4, <1>7, <2>3
  <2> QED
    BY <2>2, <2>3
<1> QED
  BY <1>9, <1>10

LEMMA RespondKeeps ==
    ASSUME ThumbnailsInv, NEW t \in Viewer, respond(t)
    PROVE  ThumbnailsInv' /\ (NeverOlder => NeverOlder')
<1>1. t \in Thread
  BY DEF Thread
<1>2. /\ pc' = [pc EXCEPT ![t] = "idle"] /\ at' = [at EXCEPT ![t] = <<>>]
      /\ UNCHANGED <<photos, rows, thumbs, exclusive, direct, job, hurt, unseen>>
  BY DEF respond, Lets, Holds, Go, Undisturbed
<1>3. /\ pc' = [u \in Thread |-> pc'[u]] /\ at' = [u \in Thread |-> at'[u]]
      /\ \A u \in Thread \ {t} : pc'[u] = pc[u] /\ at'[u] = at[u]
      /\ pc'[t] = "idle"
  BY <1>1, <1>2 DEF ThumbnailsInv, ThreadInv
<1>4. ThumbnailsInv'
  BY <1>2, <1>3, ViewStep
<1>5. NeverOlder => NeverOlder'
  BY <1>2, <1>3 DEF NeverOlder, Thread
<1> QED
  BY <1>4, <1>5

\* A thread that ends its put hands out what it made.
LEMMA PutHands ==
    ASSUME ThumbnailsInv, NeverOlder, NEW t \in Thread, pc[t] \in Putting,
           \A u \in Thread \ {t} : pc'[u] = pc[u], UNCHANGED <<at, exclusive, unseen>>
    PROVE  NeverOlder'
<1> SUFFICES ASSUME NEW u \in Viewer, pc'[u] = "handed", at'[u].photo \notin unseen'
             PROVE  at'[u].version >= at'[u].asked \/ (at'[u].version = NoPicture /\ ~exclusive')
  BY DEF NeverOlder
<1>1. u \in Thread
  BY DEF Thread
<1>2. CASE u # t
  BY <1>1, <1>2 DEF NeverOlder
<1>3. CASE u = t
  <2>1. pc[u] \in Putting /\ pc[u] # "idle"
    BY <1>3 DEF Putting
  <2>2. ViewerAt(u)
    BY <2>1 DEF ThumbnailsInv, ThreadInv
  <2> QED
    BY <2>1, <2>2 DEF ViewerAt
<1> QED
  BY <1>2, <1>3

LEMMA PutsHandOut ==
    ASSUME ThumbnailsInv, NeverOlder, NEW t \in Thread,
           write(t) \/ publish(t) \/ create_new(t) \/ write_all(t) \/ cannot(t)
    PROVE  NeverOlder'
<1>1. pc[t] \in Putting /\ UNCHANGED <<at, exclusive, unseen>>
  BY DEF write, publish, create_new, write_all, cannot, Putting, Undisturbed
<1>2. \E s : pc' = [pc EXCEPT ![t] = s]
  <2>1. CASE write(t)
    BY <2>1 DEF write, Go
  <2>2. CASE publish(t)
    BY <2>2 DEF publish, Go
  <2>3. CASE create_new(t)
    BY <2>3 DEF create_new, Go
  <2>4. CASE write_all(t) \/ cannot(t)
    BY <2>4 DEF write_all, cannot, Go
  <2> QED
    BY <2>1, <2>2, <2>3, <2>4
<1>3. \A u \in Thread \ {t} : pc'[u] = pc[u]
  BY <1>2 DEF ThumbnailsInv, ThreadInv
<1> QED
  BY <1>1, <1>3, PutHands

\* What the viewers hold stands while no viewer, no file and no volume changes.
LEMMA ViewsStay ==
    ASSUME NeverOlder, \A u \in Viewer : pc'[u] = pc[u] /\ at'[u] = at[u],
           UNCHANGED exclusive, unseen \subseteq unseen'
    PROVE  NeverOlder'
BY DEF NeverOlder

(* ------------------------------- the jobs ------------------------------ *)
\* The job takes a step outside the cache.
LEMMA JobStep ==
    ASSUME ThumbnailsInv,
           pc' = [u \in Thread |-> pc'[u]], at' = [u \in Thread |-> at'[u]],
           \A u \in Viewer : pc'[u] = pc[u] /\ at'[u] = at[u],
           pc'[Job] \in {"idle", "next", "told", "write"}, pc'[Job] = "write" => JobAt',
           UNCHANGED <<photos, thumbs, exclusive, direct, hurt, unseen>>,
           rows' \in [Photo -> [stamp : Nat, thumb : Version \cup {NoPicture}]], JobInv'
    PROVE  ThumbnailsInv' /\ (NeverOlder => NeverOlder')
<1>1. FileInv'
  BY DEF ThumbnailsInv, FileInv
<1>2. CacheInv'
  BY CacheStays DEF ThumbnailsInv, CacheInv
<1>3. /\ Job \in Thread /\ \A u \in Thread \ {Job} : u \in Viewer
  BY DEF Thread
<1>4. ThreadInv'
  <2>1. Job = Job => /\ pc'[Job] \in JobStages
                     /\ pc'[Job] \in Putting \cup {"stored", "unstored"} => JobAt'
    BY DEF JobStages, Putting
  <2>2. ThreadInv /\ UNCHANGED <<photos, unseen, exclusive>>
    BY DEF ThumbnailsInv
  <2>3. /\ pc'[Job] \in {"create", "fill"} => ~exclusive
        /\ pc'[Job] = "fill" => thumbs'[at'[Job].key] = Short
        /\ \A u \in Thread \ {Job} : pc[u] = "fill" =>
              thumbs'[at[u].key] = Short /\ (pc'[Job] = "fill" => at[u].key # at'[Job].key)
    BY <2>2 DEF ThreadInv
  <2> QED
    BY ONLY ThumbnailsAssumption, <1>3, <2>1, <2>2, <2>3, ThreadStep,
            pc' = [u \in Thread |-> pc'[u]], at' = [u \in Thread |-> at'[u]],
            \A u \in Viewer : pc'[u] = pc[u] /\ at'[u] = at[u]
<1> QED
  BY <1>1, <1>2, <1>4, ViewsStay DEF ThumbnailsInv

LEMMA SettledStays ==
    ASSUME UNCHANGED <<thumbs, hurt, exclusive>>, NEW v
    PROVE  Settled(v)' <=> Settled(v)
BY DEF Settled, Whole

LEMMA JobIsRecord ==
    /\ NoJob = [kind |-> "none", todo |-> {}, checked |-> {}, made |-> <<>>]
    /\ DOMAIN <<>> = {}
    /\ <<>> \in [{} -> Version]
BY DEF NoJob

LEMMA StartKeeps ==
    ASSUME ThumbnailsInv, NEW kind \in {"index", "rebuild", "all"}, StartJob(kind)
    PROVE  ThumbnailsInv' /\ (NeverOlder => NeverOlder')
<1>1. /\ pc' = [pc EXCEPT ![Job] = "next"]
      /\ UNCHANGED <<photos, rows, thumbs, exclusive, direct, at, hurt, unseen>>
      /\ job' = [kind |-> kind, todo |-> IF kind = "index" THEN Outdated ELSE RowsRead,
                 checked |-> {}, made |-> <<>>]
  BY DEF StartJob, Go, Undisturbed, Begun
<1>2. /\ pc' = [u \in Thread |-> pc'[u]] /\ at' = [u \in Thread |-> at'[u]]
      /\ \A u \in Viewer : pc'[u] = pc[u] /\ at'[u] = at[u]
      /\ pc'[Job] = "next"
  BY <1>1 DEF ThumbnailsInv, ThreadInv, Thread, ThumbnailsAssumption
<1>3. JobInv'
  <2>1. job'.todo \subseteq Photo /\ job'.checked = {} /\ job'.made = <<>>
    BY <1>1 DEF Outdated, RowsRead
  <2>2. \E D \in SUBSET Photo : job'.made \in [D -> Version]
    BY <2>1, JobIsRecord
  <2>3. job' = [kind |-> job'.kind, todo |-> job'.todo, checked |-> job'.checked, made |-> job'.made]
    BY <1>1
  <2> QED
    BY <1>2, <2>1, <2>2, <2>3, JobIsRecord DEF JobInv
<1> QED
  BY <1>1, <1>2, <1>3, JobStep DEF ThumbnailsInv, FileInv

LEMMA SkipKeeps ==
    ASSUME ThumbnailsInv, NEW f \in Photo, Skip(f)
    PROVE  ThumbnailsInv' /\ (NeverOlder => NeverOlder')
<1>1. /\ pc[Job] = "next" /\ f \in job.todo /\ job.kind = "rebuild" /\ is_good(f)
      /\ UNCHANGED <<photos, rows, thumbs, exclusive, direct, pc, at, hurt, unseen>>
      /\ job' = [job EXCEPT !.todo = @ \ {f}, !.checked = @ \cup {f}]
  BY DEF Skip, Undisturbed, Checked
<1>2. job = [kind |-> job.kind, todo |-> job.todo, checked |-> job.checked, made |-> job.made]
  BY DEF ThumbnailsInv, JobInv
<1>3. job' = [kind |-> job.kind, todo |-> job.todo \ {f}, checked |-> job.checked \cup {f},
              made |-> job.made]
  BY <1>1, <1>2
<1>4. /\ job'.kind = job.kind /\ job'.todo = job.todo \ {f} /\ job'.made = job.made
      /\ job'.checked = job.checked \cup {f}
  BY <1>3
<1>5. Settled(rows[f].thumb)
  BY <1>1 DEF is_good, Settled, ThumbnailsInv, FileInv
<1>6. \A g : Settled(g) => Settled(g)'
  BY <1>1, SettledStays
<1>7. f \in DOMAIN job.made => Settled(job.made[f])
  BY DEF ThumbnailsInv, JobInv
<1>8. JobInv'
  <2>1. ASSUME NEW g \in job'.checked, job'.kind \in {"rebuild", "all"}
        PROVE  \/ Pending(g)'
               \/ g \in DOMAIN job'.made /\ Settled(job.made[g])'
               \/ g \notin DOMAIN job'.made /\ Settled(rows[g].thumb)'
    <3>1. CASE g = f
      BY <1>1, <1>4, <1>5, <1>6, <1>7, <3>1
    <3>2. CASE g # f
      BY <1>1, <1>4, <1>6, <2>1, <3>2 DEF ThumbnailsInv, JobInv, Pending
    <3> QED
      BY <3>1, <3>2
  <2>2. \A g \in DOMAIN job'.made : Settled(job.made[g])'
    BY <1>4, <1>6 DEF ThumbnailsInv, JobInv
  <2>3. job' = [kind |-> job'.kind, todo |-> job'.todo, checked |-> job'.checked, made |-> job'.made]
    BY <1>3, <1>4
  <2>4. job'.todo \subseteq Photo /\ job'.checked \subseteq Photo \ job'.todo
    BY <1>4 DEF ThumbnailsInv, JobInv
  <2>5. pc'[Job] = "next"
    BY <1>1
  <2> QED
    BY <1>4, <2>1, <2>2, <2>3, <2>4, <2>5 DEF ThumbnailsInv, JobInv
<1>9. /\ pc' = [u \in Thread |-> pc'[u]] /\ at' = [u \in Thread |-> at'[u]]
      /\ \A u \in Viewer : pc'[u] = pc[u] /\ at'[u] = at[u]
  BY <1>1 DEF ThumbnailsInv, ThreadInv
<1> QED
  BY <1>1, <1>8, <1>9, JobStep DEF ThumbnailsInv, FileInv

LEMMA ProbeKeeps ==
    ASSUME ThumbnailsInv, NEW f \in Photo, probe_parts(f)
    PROVE  ThumbnailsInv' /\ (NeverOlder => NeverOlder')
<1> DEFINE h == ReadingOf(f)
<1>1. /\ pc[Job] = "next" /\ f \in job.todo
      /\ UNCHANGED <<photos, rows, thumbs, exclusive, direct, hurt, unseen>>
      /\ job' = [job EXCEPT !.todo = @ \ {f}, !.checked = @ \cup {f}]
      /\ pc' = [pc EXCEPT ![Job] = "write"] /\ at' = [at EXCEPT ![Job] = h]
  BY DEF probe_parts, Undisturbed, Checked, Holds, Go
<1>2. job = [kind |-> job.kind, todo |-> job.todo, checked |-> job.checked, made |-> job.made]
  BY DEF ThumbnailsInv, JobInv
<1>3. job' = [kind |-> job.kind, todo |-> job.todo \ {f}, checked |-> job.checked \cup {f},
              made |-> job.made]
  BY <1>1, <1>2
<1>4. /\ job'.kind = job.kind /\ job'.todo = job.todo \ {f} /\ job'.made = job.made
      /\ job'.checked = job.checked \cup {f}
  BY <1>3
<1>5. \A g : Settled(g) => Settled(g)'
  BY <1>1, SettledStays
<1>6. /\ pc' = [u \in Thread |-> pc'[u]] /\ at' = [u \in Thread |-> at'[u]]
      /\ \A u \in Viewer : pc'[u] = pc[u] /\ at'[u] = at[u]
      /\ pc'[Job] = "write" /\ at'[Job] = h
  BY <1>1 DEF ThumbnailsInv, ThreadInv, Thread, ThumbnailsAssumption
<1>7. /\ h \in Holding /\ h.photo = f /\ h.version \in Version /\ h.key = Thumb(h.version)
  <2>1. photos[f].version \in Version /\ photos[f].stamp \in Version
    BY VersionsAreNumbers DEF ThumbnailsInv, FileInv, ThumbnailsAssumption
  <2>2. Thumb(photos[f].version) \in Key
    BY <2>1, KeysDiffer
  <2>3. h = [photo |-> f, version |-> photos[f].version, key |-> Thumb(photos[f].version),
             asked |-> photos[f].stamp]
    BY DEF ReadingOf
  <2> HIDE DEF h
  <2> QED
    BY <2>1, <2>2, <2>3 DEF Holding
<1> HIDE DEF h
<1>8. JobAt'
  BY <1>6, <1>7 DEF JobAt
<1>9. JobInv'
  <2>1. ASSUME NEW g \in job'.checked, job'.kind \in {"rebuild", "all"}
        PROVE  \/ Pending(g)'
               \/ g \in DOMAIN job'.made /\ Settled(job.made[g])'
               \/ g \notin DOMAIN job'.made /\ Settled(rows[g].thumb)'
    <3>1. CASE g = f
      BY <1>6, <1>7, <3>1 DEF Pending, Putting
    <3>2. CASE g # f
      <4>1. g \in job.checked /\ ~Pending(g)
        BY <1>1, <1>4, <2>1, <3>2 DEF Pending, Putting
      <4> QED
        BY <1>1, <1>4, <1>5, <2>1, <4>1 DEF ThumbnailsInv, JobInv
    <3> QED
      BY <3>1, <3>2
  <2>2. \A g \in DOMAIN job'.made : Settled(job.made[g])'
    BY <1>4, <1>5 DEF ThumbnailsInv, JobInv
  <2>3. job' = [kind |-> job'.kind, todo |-> job'.todo, checked |-> job'.checked, made |-> job'.made]
    BY <1>3, <1>4
  <2>4. job'.todo \subseteq Photo /\ job'.checked \subseteq Photo \ job'.todo
    BY <1>4 DEF ThumbnailsInv, JobInv
  <2> QED
    BY <1>4, <1>6, <2>1, <2>2, <2>3, <2>4 DEF ThumbnailsInv, JobInv
<1> QED
  BY <1>1, <1>6, <1>8, <1>9, JobStep DEF ThumbnailsInv, FileInv

LEMMA RefuseKeeps ==
    ASSUME ThumbnailsInv, NEW f \in Photo, Refuse(f)
    PROVE  ThumbnailsInv' /\ (NeverOlder => NeverOlder')
<1>1. /\ pc[Job] = "next"
      /\ UNCHANGED <<photos, rows, thumbs, exclusive, direct, pc, at, hurt, unseen>>
      /\ job' = [job EXCEPT !.todo = @ \ {f}]
  BY DEF Refuse
<1>2. job = [kind |-> job.kind, todo |-> job.todo, checked |-> job.checked, made |-> job.made]
  BY DEF ThumbnailsInv, JobInv
<1>3. job' = [kind |-> job.kind, todo |-> job.todo \ {f}, checked |-> job.checked, made |-> job.made]
  BY <1>1, <1>2
<1>4. \A g : Settled(g) => Settled(g)'
  BY <1>1, SettledStays
<1>5. JobInv'
  BY <1>1, <1>3, <1>4 DEF ThumbnailsInv, JobInv, Pending
<1>6. /\ pc' = [u \in Thread |-> pc'[u]] /\ at' = [u \in Thread |-> at'[u]]
      /\ \A u \in Viewer : pc'[u] = pc[u] /\ at'[u] = at[u]
  BY <1>1 DEF ThumbnailsInv, ThreadInv
<1> QED
  BY <1>1, <1>5, <1>6, JobStep DEF ThumbnailsInv, FileInv

LEMMA MadeKeeps ==
    ASSUME ThumbnailsInv, NEW well \in BOOLEAN, Made(well)
    PROVE  ThumbnailsInv' /\ (NeverOlder => NeverOlder')
<1> DEFINE f == at[Job].photo
           v == at[Job].version
<1>1. /\ pc[Job] = IF well THEN "stored" ELSE "unstored"
      /\ UNCHANGED <<photos, thumbs, exclusive, direct, hurt, unseen>>
      /\ pc' = [pc EXCEPT ![Job] = "next"] /\ at' = [at EXCEPT ![Job] = <<>>]
  BY DEF Made, Undisturbed, Lets, Holds, Go
<1>2. /\ pc' = [u \in Thread |-> pc'[u]] /\ at' = [u \in Thread |-> at'[u]]
      /\ \A u \in Viewer : pc'[u] = pc[u] /\ at'[u] = at[u]
      /\ pc'[Job] = "next"
  BY <1>1 DEF ThumbnailsInv, ThreadInv, Thread, ThumbnailsAssumption
<1>3. f \in Photo /\ v \in Version /\ at[Job].asked \in Nat
  <2>1. JobAt
    BY <1>1 DEF ThumbnailsInv, ThreadInv
  <2> QED
    BY <2>1, VersionsAreNumbers DEF JobAt, Holding
<1>4. well => Settled(v)
  BY <1>1 DEF ThumbnailsInv, JobInv
<1>5. \A g : Settled(g) => Settled(g)'
  BY <1>1, SettledStays
<1>6. job = [kind |-> job.kind, todo |-> job.todo, checked |-> job.checked, made |-> job.made]
  BY DEF ThumbnailsInv, JobInv
<1>7. \A g : Pending(g) => g = f
  BY DEF Pending
<1>8. CASE job.kind = "index"
  <2>1. /\ UNCHANGED job
        /\ rows' = [rows EXCEPT ![f] = [stamp |-> at[Job].asked, thumb |-> IF well THEN v ELSE NoPicture]]
    BY <1>8 DEF Made
  <2>2. rows' \in [Photo -> [stamp : Nat, thumb : Version \cup {NoPicture}]]
    BY <1>3, <2>1 DEF ThumbnailsInv, FileInv
  <2>3. JobInv'
    BY <1>2, <1>5, <1>8, <2>1 DEF ThumbnailsInv, JobInv
  <2> QED
    BY <1>1, <1>2, <2>2, <2>3, JobStep
<1>9. CASE job.kind # "index" /\ well
  <2> DEFINE m == [g \in DOMAIN job.made \cup {f} |-> IF g = f THEN v ELSE job.made[g]]
  <2>1. UNCHANGED rows /\ job' = [job EXCEPT !.made = m]
    BY <1>9 DEF Made
  <2>2. PICK D \in SUBSET Photo : job.made \in [D -> Version]
    BY DEF ThumbnailsInv, JobInv
  <2>3. m \in [D \cup {f} -> Version] /\ DOMAIN job.made = D /\ D \cup {f} \in SUBSET Photo
    BY <1>3, <2>2
  <2>4. \A g \in D \cup {f} : m[g] = IF g = f THEN v ELSE job.made[g]
    BY <2>3
  <2> HIDE DEF m
  <2>5. job' = [kind |-> job.kind, todo |-> job.todo, checked |-> job.checked, made |-> m]
    BY <1>6, <2>1
  <2>6. /\ job'.kind = job.kind /\ job'.todo = job.todo /\ job'.made = m
        /\ job'.checked = job.checked /\ DOMAIN job'.made = D \cup {f}
    BY <2>3, <2>5
  <2>7. \A g \in DOMAIN job'.made : Settled(job.made[g])'
    <3> SUFFICES ASSUME NEW g \in D \cup {f} PROVE Settled(job.made[g])'
      BY <2>6
    <3>1. Settled(m[g])
      BY <1>4, <1>9, <2>3, <2>4 DEF ThumbnailsInv, JobInv
    <3> QED
      BY <1>5, <2>6, <3>1
  <2>8. ASSUME NEW g \in job'.checked, job'.kind \in {"rebuild", "all"}
        PROVE  \/ g \in DOMAIN job'.made /\ Settled(job.made[g])'
               \/ g \notin DOMAIN job'.made /\ Settled(rows[g].thumb)'
    <3>1. CASE g = f
      BY <2>6, <2>7, <3>1
    <3>2. CASE g # f
      <4>1. \/ g \in D /\ Settled(job.made[g])
            \/ g \notin D /\ Settled(rows[g].thumb)
        BY <1>7, <2>3, <2>6, <2>8, <3>2 DEF ThumbnailsInv, JobInv
      <4> QED
        BY <1>5, <2>1, <2>6, <2>7, <3>2, <4>1
    <3> QED
      BY <3>1, <3>2
  <2>9. job' = [kind |-> job'.kind, todo |-> job'.todo, checked |-> job'.checked, made |-> job'.made]
    BY <2>5, <2>6
  <2>10. \E E \in SUBSET Photo : job'.made \in [E -> Version]
    BY <2>3, <2>6
  <2>11. job'.todo \subseteq Photo /\ job'.checked \subseteq Photo \ job'.todo
    BY <2>6 DEF ThumbnailsInv, JobInv
  <2>12. JobInv'
    BY <1>2, <1>9, <2>6, <2>7, <2>8, <2>9, <2>10, <2>11 DEF JobInv
  <2> QED
    BY <1>1, <1>2, <2>1, <2>12, JobStep DEF ThumbnailsInv, FileInv
<1>10. CASE job.kind # "index" /\ ~well
  <2>1. UNCHANGED rows /\ job' = [job EXCEPT !.checked = @ \ {f}]
    BY <1>10 DEF Made
  <2>2. job' = [kind |-> job.kind, todo |-> job.todo, checked |-> job.checked \ {f}, made |-> job.made]
    BY <1>6, <2>1
  <2>3. JobInv'
    BY <1>2, <1>5, <1>7, <1>10, <2>1, <2>2 DEF ThumbnailsInv, JobInv
  <2> QED
    BY <1>1, <1>2, <2>1, <2>3, JobStep DEF ThumbnailsInv, FileInv
<1> QED
  BY <1>8, <1>9, <1>10

LEMMA CommitKeeps ==
    ASSUME ThumbnailsInv, NEW stopped \in BOOLEAN, CommitMade(stopped)
    PROVE  ThumbnailsInv' /\ (NeverOlder => NeverOlder')
<1>1. /\ UNCHANGED <<photos, thumbs, exclusive, direct, at, hurt, unseen>>
      /\ pc' = [pc EXCEPT ![Job] = "told"]
      /\ job' = [job EXCEPT !.kind = "told", !.todo = {}]
      /\ rows' = [f \in Photo |-> IF f \in DOMAIN job.made
                                  THEN [rows[f] EXCEPT !.thumb = job.made[f]] ELSE rows[f]]
  BY DEF CommitMade, Undisturbed, Go
<1>2. /\ pc' = [u \in Thread |-> pc'[u]] /\ at' = [u \in Thread |-> at'[u]]
      /\ \A u \in Viewer : pc'[u] = pc[u] /\ at'[u] = at[u]
      /\ pc'[Job] = "told"
  BY <1>1 DEF ThumbnailsInv, ThreadInv, Thread, ThumbnailsAssumption
<1>3. job = [kind |-> job.kind, todo |-> job.todo, checked |-> job.checked, made |-> job.made]
  BY DEF ThumbnailsInv, JobInv
<1>4. job' = [kind |-> "told", todo |-> {}, checked |-> job.checked, made |-> job.made]
  BY <1>1, <1>3
<1>5. \A g : Settled(g) => Settled(g)'
  BY <1>1, SettledStays
<1>6. JobInv'
  BY <1>2, <1>4, <1>5 DEF ThumbnailsInv, JobInv
<1>7. rows' \in [Photo -> [stamp : Nat, thumb : Version \cup {NoPicture}]]
  <2>1. PICK D \in SUBSET Photo : job.made \in [D -> Version]
    BY DEF ThumbnailsInv, JobInv
  <2>2. \A f \in Photo : rows[f] \in [stamp : Nat, thumb : Version \cup {NoPicture}]
    BY DEF ThumbnailsInv, FileInv
  <2>3. \A f \in Photo : f \in DOMAIN job.made => job.made[f] \in Version
    BY <2>1
  <2>4. \A f \in Photo : f \in DOMAIN job.made =>
           [rows[f] EXCEPT !.thumb = job.made[f]] \in [stamp : Nat, thumb : Version \cup {NoPicture}]
    BY <2>2, <2>3
  <2> QED
    BY <1>1, <2>2, <2>4
<1> QED
  BY <1>1, <1>2, <1>6, <1>7, JobStep

LEMMA EndedKeeps ==
    ASSUME ThumbnailsInv, Ended
    PROVE  ThumbnailsInv' /\ (NeverOlder => NeverOlder')
<1>1. /\ UNCHANGED <<photos, rows, thumbs, exclusive, direct, at, hurt, unseen>>
      /\ pc' = [pc EXCEPT ![Job] = "idle"] /\ job' = NoJob
  BY DEF Ended, Undisturbed, Go
<1>2. /\ pc' = [u \in Thread |-> pc'[u]] /\ at' = [u \in Thread |-> at'[u]]
      /\ \A u \in Viewer : pc'[u] = pc[u] /\ at'[u] = at[u]
      /\ pc'[Job] = "idle"
  BY <1>1 DEF ThumbnailsInv, ThreadInv, Thread, ThumbnailsAssumption
<1>3. JobInv'
  BY <1>1, <1>2, JobIsRecord DEF JobInv
<1> QED
  BY <1>1, <1>2, <1>3, JobStep DEF ThumbnailsInv, FileInv

(* --------------------------- the world around -------------------------- *)
LEMMA RewriteKeeps ==
    ASSUME ThumbnailsInv, NEW f \in Photo, NEW seen \in BOOLEAN, Rewrite(f, seen)
    PROVE  ThumbnailsInv' /\ (NeverOlder => NeverOlder')
<1> DEFINE v == photos[f].version + 1
<1>1. /\ photos[f].version < MaxVersion[f]
      /\ photos' = [photos EXCEPT ![f] = [version |-> v, stamp |-> IF seen THEN v ELSE photos[f].stamp]]
      /\ unseen' = IF seen THEN unseen ELSE unseen \cup {f}
      /\ UNCHANGED <<rows, thumbs, exclusive, direct, pc, at, job, hurt>>
  BY DEF Rewrite
<1>2. /\ photos[f].version \in Nat /\ photos[f].stamp \in Nat /\ MaxVersion[f] \in Nat
      /\ 1 <= photos[f].stamp /\ photos[f].stamp <= photos[f].version
  BY DEF ThumbnailsInv, FileInv, ThumbnailsAssumption
<1>3. FileInv'
  <2>1. photos' \in [Photo -> [version : Nat, stamp : Nat]]
    BY <1>1, <1>2 DEF ThumbnailsInv, FileInv
  <2>2. ASSUME NEW g \in Photo
        PROVE  /\ 1 <= photos'[g].stamp /\ photos'[g].stamp <= photos'[g].version
               /\ photos'[g].version <= MaxVersion[g]
               /\ g \in unseen' \/ photos'[g].stamp = photos'[g].version
    <3>1. CASE g = f
      <4>1. photos'[g] = [version |-> v, stamp |-> IF seen THEN v ELSE photos[f].stamp]
        BY <1>1, <3>1 DEF ThumbnailsInv, FileInv
      <4> QED
        BY <1>1, <1>2, <3>1, <4>1
    <3>2. CASE g # f
      BY <1>1, <3>2 DEF ThumbnailsInv, FileInv
    <3> QED
      BY <3>1, <3>2
  <2> QED
    BY <1>1, <2>1, <2>2 DEF ThumbnailsInv, FileInv
<1>4. CacheInv' /\ Grows
  BY <1>1, CacheStays DEF ThumbnailsInv, CacheInv
<1>5. JobInv'
  BY <1>1, <1>4, JobStays DEF ThumbnailsInv
<1>6. ASSUME NEW t \in Viewer, ViewerAt(t)
      PROVE  ViewerAt(t)'
  <2> DEFINE g == at[t].photo
  <2>1. g \in Photo /\ at[t].asked \in Nat
    BY <1>6, VersionsAreNumbers DEF ViewerAt, Holding
  <2>2. photos[g].version <= photos'[g].version /\ photos[g].version \in Nat /\ photos'[g].version \in Nat
    BY <1>1, <1>2, <2>1 DEF ThumbnailsInv, FileInv
  <2>3. at[t].asked <= photos'[g].version
    BY <1>6, <2>1, <2>2 DEF ViewerAt
  <2>4. unseen \subseteq unseen'
    BY <1>1
  <2> QED
    BY <1>1, <1>6, <2>3, <2>4 DEF ViewerAt
<1>7. ThreadInv'
  BY <1>1, <1>6 DEF ThumbnailsInv, ThreadInv, JobAt
<1> QED
  BY <1>1, <1>3, <1>4, <1>5, <1>7, ViewsStay DEF ThumbnailsInv

LEMMA KillKeeps ==
    ASSUME ThumbnailsInv, NEW p \in Proc, KillProcess(p)
    PROVE  ThumbnailsInv' /\ (NeverOlder => NeverOlder')
<1> DEFINE mine == {t \in Thread : ProcOf[t] = p}
<1>1. /\ pc' = [t \in Thread |-> IF t \in mine THEN "idle" ELSE pc[t]]
      /\ at' = [t \in Thread |-> IF t \in mine THEN <<>> ELSE at[t]]
      /\ job' = IF Job \in mine THEN NoJob ELSE job
      /\ direct' = direct \ {p} /\ hurt \subseteq hurt'
      /\ UNCHANGED <<photos, rows, thumbs, exclusive, unseen>>
  BY DEF KillProcess
<1> HIDE DEF mine
<1>2. Job \in Thread /\ Viewer \subseteq Thread
  BY DEF Thread
<1>3. FileInv'
  BY <1>1, FilesStay DEF ThumbnailsInv
<1>4. CacheInv' /\ Grows
  BY <1>1, CacheStays DEF ThumbnailsInv, CacheInv
<1>5. JobInv'
  <2>1. CASE Job \in mine
    BY <1>1, <1>2, <2>1, JobIsRecord DEF JobInv
  <2>2. CASE Job \notin mine
    BY <1>1, <1>2, <1>4, <2>2, JobStays DEF ThumbnailsInv
  <2> QED
    BY <2>1, <2>2
<1>6. ThreadInv'
  <2>1. pc' = [t \in Thread |-> pc'[t]] /\ at' = [t \in Thread |-> at'[t]]
    BY <1>1
  <2>2. \A t \in Thread : \/ pc'[t] = "idle"
                          \/ t \notin mine /\ pc'[t] = pc[t] /\ at'[t] = at[t]
    BY <1>1
  <2>3. \A t \in Viewer : pc'[t] \in {"idle", "read", "handed"} \cup Putting
    BY <1>2, <2>2 DEF ThumbnailsInv, ThreadInv
  <2>4. \A t \in Viewer : pc'[t] # "idle" => ViewerAt(t)'
    BY <1>1, <1>2, <2>2 DEF ThumbnailsInv, ThreadInv, ViewerAt
  <2>5. /\ pc'[Job] \in {"idle", "next", "stored", "unstored", "told"} \cup Putting
        /\ pc'[Job] \in Putting \cup {"stored", "unstored"} => JobAt'
    BY <1>1, <1>2, <2>2 DEF ThumbnailsInv, ThreadInv, JobAt, Putting
  <2>6. \A t \in Thread : /\ pc'[t] \in {"create", "fill"} => ~exclusive'
                          /\ pc'[t] = "fill" => thumbs'[at'[t].key] = Short
    BY <1>1, <2>2 DEF ThumbnailsInv, ThreadInv
  <2>7. \A t, u \in Thread :
          pc'[t] = "fill" /\ pc'[u] = "fill" /\ at'[t].key = at'[u].key => t = u
    BY <2>2 DEF ThumbnailsInv, ThreadInv
  <2> QED
    BY <2>1, <2>3, <2>4, <2>5, <2>6, <2>7 DEF ThreadInv
<1>7. NeverOlder => NeverOlder'
  BY <1>1, <1>2 DEF NeverOlder
<1> QED
  BY <1>3, <1>4, <1>5, <1>6, <1>7 DEF ThumbnailsInv

LEMMA ThrowKeeps ==
    ASSUME ThumbnailsInv, Throw
    PROVE  ThumbnailsInv' /\ (NeverOlder => NeverOlder')
<1>1. /\ \A t \in Thread : pc[t] = "idle"
      /\ thumbs' = [k \in Key |-> Empty] /\ hurt' = {}
      /\ UNCHANGED <<photos, rows, exclusive, direct, pc, at, job, unseen>>
  BY DEF Throw
<1>2. Job \in Thread /\ Viewer \subseteq Thread
  BY DEF Thread
<1>3. FileInv'
  BY <1>1, FilesStay DEF ThumbnailsInv
<1>4. CacheInv'
  <2>1. Empty \in Borne
    BY DEF Borne
  <2>2. \A f \in Asked, s \in Version : ~Whole(View(f, s))'
    BY <1>1, KeysDiffer, FilesDiffer DEF Whole
  <2> QED
    BY <1>1, <2>1, <2>2, FilesDiffer DEF ThumbnailsInv, CacheInv
<1>5. ThreadInv'
  BY <1>1, <1>2 DEF ThumbnailsInv, ThreadInv, Putting
<1>6. JobInv'
  <2>1. job' = NoJob /\ pc'[Job] = "idle"
    BY <1>1, <1>2 DEF ThumbnailsInv, JobInv
  <2> QED
    BY <2>1, JobIsRecord DEF JobInv
<1> QED
  BY <1>1, <1>3, <1>4, <1>5, <1>6, ViewsStay DEF ThumbnailsInv

LEMMA OthersKeep ==
    ASSUME ThumbnailsInv, NEW k \in Key, OtherHands(k)
    PROVE  ThumbnailsInv' /\ (NeverOlder => NeverOlder')
<1>1. /\ thumbs[k] = Empty /\ thumbs' = [thumbs EXCEPT ![k] = Foreign] /\ hurt' = hurt \cup {k}
      /\ UNCHANGED <<photos, rows, exclusive, direct, pc, at, job, unseen>>
  BY DEF OtherHands
<1>2. FileInv'
  BY <1>1, FilesStay DEF ThumbnailsInv
<1>3. Foreign \in Borne
  BY DEF Borne
<1>4. CacheInv'
  <2>1. CacheInv /\ (exclusive => direct' = {}) /\ hurt \subseteq hurt' /\ k \in hurt'
    BY <1>1 DEF ThumbnailsInv, CacheInv
  <2>2. Foreign # Short /\ Foreign.is # "whole"
    BY FilesDiffer DEF Foreign
  <2> QED
    BY <1>1, <1>3, <2>1, <2>2, CacheStep
<1>5. Grows
  BY <1>1, <1>3, CacheGrows DEF ThumbnailsInv
<1>6. ThreadInv'
  <2>1. ASSUME NEW t \in Thread, pc[t] = "fill"
        PROVE  thumbs'[at[t].key] = Short
    <3>1. at[t].key \in Key /\ thumbs[at[t].key] = Short
      BY <2>1, PutHolds DEF Putting, ThumbnailsInv, ThreadInv
    <3> QED
      BY <1>1, <3>1, FilesDiffer DEF ThumbnailsInv, CacheInv
  <2> QED
    BY <1>1, <2>1 DEF ThumbnailsInv, ThreadInv, ViewerAt, JobAt
<1>7. JobInv'
  BY <1>1, <1>5, JobStays DEF ThumbnailsInv
<1> QED
  BY <1>1, <1>2, <1>4, <1>6, <1>7, ViewsStay DEF ThumbnailsInv

(* ------------------------------ the theorems --------------------------- *)
LEMMA ThumbnailsInitially ==
    ASSUME ThumbsInit
    PROVE  ThumbnailsInv /\ NeverOlder
<1>1. Job \in Thread /\ Viewer \subseteq Thread
  BY DEF Thread
<1>2. FileInv
  <2>1. \A f \in Photo : MaxVersion[f] \in Nat \ {0}
    BY DEF ThumbnailsAssumption
  <2> QED
    BY <2>1 DEF ThumbsInit, FileInv, NoPicture
<1>3. CacheInv
  BY KeysDiffer, FilesDiffer DEF ThumbsInit, CacheInv, Borne, Whole
<1>4. ThreadInv
  BY <1>1 DEF ThumbsInit, ThreadInv, Putting
<1>5. JobInv
  BY <1>1, JobIsRecord DEF ThumbsInit, JobInv
<1>6. NeverOlder
  BY <1>1 DEF ThumbsInit, NeverOlder
<1> QED
  BY <1>2, <1>3, <1>4, <1>5, <1>6 DEF ThumbnailsInv

LEMMA ThumbnailsKeep ==
    ASSUME ThumbnailsInv, NeverOlder, [ThumbsNext]_thumbsVars
    PROVE  ThumbnailsInv' /\ NeverOlder'
<1>1. ASSUME NEW t \in Thread, write(t) \/ publish(t) \/ create_new(t) \/ write_all(t) \/ cannot(t)
      PROVE  ThumbnailsInv' /\ NeverOlder'
  BY <1>1, PutsHandOut, WriteKeeps, PublishKeeps, CreateKeeps, FillKeeps, CannotKeeps
<1>2. ASSUME NEW t \in Viewer,
             \/ \E f \in Asked : full_preview(t, f)
             \/ \E keeps \in BOOLEAN : render(t, keeps)
             \/ respond(t)
      PROVE  ThumbnailsInv' /\ NeverOlder'
  BY <1>2, PreviewKeeps, RenderKeeps, RespondKeeps
<1>3. CASE \/ \E kind \in {"index", "rebuild", "all"} : StartJob(kind)
           \/ \E f \in Photo : Skip(f) \/ probe_parts(f) \/ Refuse(f)
           \/ \E well \in BOOLEAN : Made(well) \/ CommitMade(well)
           \/ Ended
  BY <1>3, StartKeeps, SkipKeeps, ProbeKeeps, RefuseKeeps, MadeKeeps, CommitKeeps, EndedKeeps
<1>4. CASE \/ \E f \in Photo, seen \in BOOLEAN : Rewrite(f, seen)
           \/ \E p \in Proc : KillProcess(p)
           \/ Throw
           \/ \E k \in Key : OtherHands(k)
  BY <1>4, RewriteKeeps, KillKeeps, ThrowKeeps, OthersKeep
<1>5. CASE UNCHANGED thumbsVars
  <2>1. FileInv'
    BY <1>5, FilesStay DEF thumbsVars, ThumbnailsInv
  <2>2. CacheInv' /\ Grows
    BY <1>5, CacheStays DEF thumbsVars, ThumbnailsInv, CacheInv
  <2>3. JobInv'
    BY <1>5, <2>2, JobStays DEF thumbsVars, ThumbnailsInv
  <2>4. ThreadInv'
    BY <1>5 DEF thumbsVars, ThumbnailsInv, ThreadInv, ViewerAt, JobAt
  <2> QED
    BY <1>5, <2>1, <2>2, <2>3, <2>4, ViewsStay DEF thumbsVars, ThumbnailsInv
<1> QED
  BY <1>1, <1>2, <1>3, <1>4, <1>5 DEF ThumbsNext

\* What is in the cache, what each thread holds and what the job has done agree
\* at every moment.
THEOREM ThumbnailsInvariance == ThumbsSpec => []ThumbnailsInv
<1>1. ThumbsInit => ThumbnailsInv /\ NeverOlder
  BY ThumbnailsInitially
<1>2. (ThumbnailsInv /\ NeverOlder) /\ [ThumbsNext]_thumbsVars => (ThumbnailsInv /\ NeverOlder)'
  BY ThumbnailsKeep
<1> QED
  BY <1>1, <1>2, PTL DEF ThumbsSpec

\* No view is handed out that is older than its file was when it was asked for.
THEOREM ViewsAreNeverOlder == ThumbsSpec => []NeverOlder
<1>1. ThumbsInit => ThumbnailsInv /\ NeverOlder
  BY ThumbnailsInitially
<1>2. (ThumbnailsInv /\ NeverOlder) /\ [ThumbsNext]_thumbsVars => (ThumbnailsInv /\ NeverOlder)'
  BY ThumbnailsKeep
<1> QED
  BY <1>1, <1>2, PTL DEF ThumbsSpec

(* -------------------- what a step may do to a name --------------------- *)
AppearsWhole(k) ==
    \/ thumbs[k] = Empty /\ (exclusive => thumbs'[k] # Short)
    \/ thumbs[k] = Short /\ ~exclusive

LEMMA PutAppearsWhole ==
    ASSUME ThumbnailsInv, NEW t \in Thread,
           write(t) \/ publish(t) \/ create_new(t) \/ write_all(t) \/ cannot(t),
           NEW k \in Key, thumbs'[k] # thumbs[k]
    PROVE  AppearsWhole(k)
<1>1. CASE write(t) \/ cannot(t)
  BY <1>1 DEF write, cannot
<1>2. CASE publish(t)
  <2>1. /\ FreeName(at[t].key) /\ exclusive
        /\ thumbs' = [thumbs EXCEPT ![at[t].key] = Picture(at[t].version)]
    BY <1>2 DEF publish
  <2>2. k = at[t].key /\ thumbs'[k] = Picture(at[t].version)
    BY <2>1 DEF ThumbnailsInv, CacheInv
  <2> QED
    BY <2>1, <2>2, FilesDiffer DEF AppearsWhole, FreeName
<1>3. CASE create_new(t)
  <2>1. pc[t] = "create" /\ thumbs[at[t].key] = Empty /\ thumbs' = [thumbs EXCEPT ![at[t].key] = Short]
    BY <1>3 DEF create_new
  <2>2. k = at[t].key /\ ~exclusive
    BY <2>1 DEF ThumbnailsInv, CacheInv, ThreadInv
  <2> QED
    BY <2>1, <2>2 DEF AppearsWhole
<1>4. CASE write_all(t)
  <2>1. pc[t] = "fill" /\ thumbs' = [thumbs EXCEPT ![at[t].key] = Picture(at[t].version)]
    BY <1>4 DEF write_all
  <2>2. k = at[t].key /\ thumbs[k] = Short /\ ~exclusive
    BY <2>1 DEF ThumbnailsInv, CacheInv, ThreadInv
  <2> QED
    BY <2>2 DEF AppearsWhole
<1> QED
  BY <1>1, <1>2, <1>3, <1>4

\* Where the volume renames without replacing a name gets a whole file at once
\* and keeps it; elsewhere a file is only ever completed; and a stranger's
\* object is never touched.
THEOREM NamesAppearWhole == ThumbsSpec => AppearsWholeAndStays
<1> DEFINE A == \A k \in Key : thumbs'[k] # thumbs[k] /\ (\E j \in Key : thumbs'[j] # Empty) =>
                    \/ thumbs[k] = Empty /\ (exclusive => thumbs'[k] # Short)
                    \/ thumbs[k] = Short /\ ~exclusive
<1>1. ThumbnailsInv /\ [ThumbsNext]_thumbsVars => A
  <2> SUFFICES ASSUME ThumbnailsInv, [ThumbsNext]_thumbsVars, NEW k \in Key, thumbs'[k] # thumbs[k],
                      \E j \in Key : thumbs'[j] # Empty
               PROVE  AppearsWhole(k)
    BY DEF AppearsWhole
  <2>1. CASE \E t \in Thread : write(t) \/ publish(t) \/ create_new(t) \/ write_all(t) \/ cannot(t)
    BY <2>1, PutAppearsWhole
  <2>2. CASE \E t \in Viewer : \/ \E f \in Asked : full_preview(t, f)
                               \/ \E keeps \in BOOLEAN : render(t, keeps)
                               \/ respond(t)
    BY <2>2 DEF full_preview, render, respond
  <2>3. CASE \/ \E kind \in {"index", "rebuild", "all"} : StartJob(kind)
             \/ \E f \in Photo : Skip(f) \/ probe_parts(f) \/ Refuse(f)
             \/ \E well \in BOOLEAN : Made(well) \/ CommitMade(well)
             \/ Ended
    BY <2>3 DEF StartJob, Skip, probe_parts, Refuse, Made, CommitMade, Ended
  <2>4. CASE (\E f \in Photo, seen \in BOOLEAN : Rewrite(f, seen)) \/ (\E p \in Proc : KillProcess(p))
    BY <2>4 DEF Rewrite, KillProcess
  <2>5. CASE Throw
    BY <2>5 DEF Throw
  <2>6. CASE \E j \in Key : OtherHands(j)
    BY <2>6, FilesDiffer DEF OtherHands, ThumbnailsInv, CacheInv, AppearsWhole
  <2>7. CASE UNCHANGED thumbsVars
    BY <2>7 DEF thumbsVars
  <2> QED
    BY <2>1, <2>2, <2>3, <2>4, <2>5, <2>6, <2>7 DEF ThumbsNext
<1>2. ThumbsSpec => []ThumbnailsInv
  BY ThumbnailsInvariance
<1> QED
  BY <1>1, <1>2, PTL DEF ThumbsSpec, AppearsWholeAndStays

\* Every row the making again of thumbnails looked at and did not refuse names
\* a whole thumbnail in the end, whatever became of the cache and of the files
\* since it was indexed, but for a name whose file was cut short before.
THEOREM RebuildAlwaysMends == ThumbsSpec => RebuildMends
<1> DEFINE A == job.kind \in {"rebuild", "all"} /\ job'.kind = "told" =>
                  \A f \in job.checked :
                    \/ rows'[f].thumb # NoPicture /\ Whole(Thumb(rows'[f].thumb))
                    \/ rows'[f].thumb # NoPicture /\ Thumb(rows'[f].thumb) \in hurt
                    \/ rows'[f].thumb # NoPicture /\ thumbs[Thumb(rows'[f].thumb)] = Short /\ ~exclusive
<1>1. ThumbnailsInv /\ [ThumbsNext]_thumbsVars => A
  <2> SUFFICES ASSUME ThumbnailsInv, [ThumbsNext]_thumbsVars, job.kind \in {"rebuild", "all"}, job'.kind = "told",
                      NEW f \in job.checked
               PROVE  Settled(rows'[f].thumb)
    BY VersionsAreNumbers DEF Settled
  <2>1. f \in Photo
    BY DEF ThumbnailsInv, JobInv
  <2>2. CASE \E stopped \in BOOLEAN : CommitMade(stopped)
    <3>1. /\ pc[Job] = "next"
          /\ rows' = [g \in Photo |-> IF g \in DOMAIN job.made
                                      THEN [rows[g] EXCEPT !.thumb = job.made[g]] ELSE rows[g]]
      BY <2>2 DEF CommitMade
    <3>2. ~Pending(f)
      BY <3>1 DEF Pending, Putting
    <3>3. \/ f \in DOMAIN job.made /\ Settled(job.made[f])
          \/ f \notin DOMAIN job.made /\ Settled(rows[f].thumb)
      BY <3>2 DEF ThumbnailsInv, JobInv
    <3>4. rows[f] \in [stamp : Nat, thumb : Version \cup {NoPicture}]
      BY <2>1 DEF ThumbnailsInv, FileInv
    <3>5. rows'[f].thumb = IF f \in DOMAIN job.made THEN job.made[f] ELSE rows[f].thumb
      BY <2>1, <3>1, <3>4
    <3> QED
      BY <3>3, <3>5
  <2>3. CASE ~\E stopped \in BOOLEAN : CommitMade(stopped)
    <3>1. job = [kind |-> job.kind, todo |-> job.todo, checked |-> job.checked, made |-> job.made]
      BY DEF ThumbnailsInv, JobInv
    <3>2. CASE \E t \in Thread : write(t) \/ publish(t) \/ create_new(t) \/ write_all(t) \/ cannot(t)
      BY <3>2 DEF write, publish, create_new, write_all, cannot
    <3>3. CASE \E t \in Viewer : \/ \E g \in Asked : full_preview(t, g)
                                 \/ \E keeps \in BOOLEAN : render(t, keeps)
                                 \/ respond(t)
      BY <3>3 DEF full_preview, render, respond
    <3>4. CASE \E kind \in {"index", "rebuild", "all"} : StartJob(kind)
      BY <3>4 DEF StartJob, Begun
    <3>5. CASE \E g \in Photo : Skip(g) \/ probe_parts(g) \/ Refuse(g)
      BY <3>1, <3>5 DEF Skip, probe_parts, Refuse, Checked
    <3>6. CASE \E well \in BOOLEAN : Made(well)
      BY <3>1, <3>6 DEF Made
    <3>7. CASE Ended \/ \E p \in Proc : KillProcess(p)
      BY <3>7, JobIsRecord DEF Ended, KillProcess
    <3>8. CASE \/ \E g \in Photo, seen \in BOOLEAN : Rewrite(g, seen)
               \/ Throw \/ \E k \in Key : OtherHands(k)
      BY <3>8 DEF Rewrite, Throw, OtherHands
    <3>9. CASE UNCHANGED thumbsVars
      BY <3>9 DEF thumbsVars
    <3> QED
      BY <2>3, <3>2, <3>3, <3>4, <3>5, <3>6, <3>7, <3>8, <3>9 DEF ThumbsNext
  <2> QED
    BY <2>2, <2>3
<1>2. ThumbsSpec => []ThumbnailsInv
  BY ThumbnailsInvariance
<1> QED
  BY <1>1, <1>2, PTL DEF ThumbsSpec, RebuildMends

------------------------------------------------------------------------------
(***************************************************************************)
(* What the tool makes of what was indexed (Resemblance), for every        *)
(* archive, every likeness of its pictures and every moment a job is cut   *)
(* short: the groups are whole, a copy has its twin, the bursts are the    *)
(* chains of presses, and what a person said stands.                       *)
(***************************************************************************)

(* ---------------------- the greatest of finitely many ------------------ *)
\* A finite set has an element with nothing above it, found by going from the
\* elements above one to a smaller set of them.
LEMMA TopExists ==
    ASSUME NEW S, IsFiniteSet(S), S # {}, NEW L, \A p \in S : <<p, p>> \notin L,
           \A p, q, r \in S : <<p, q>> \in L /\ <<q, r>> \in L => <<p, r>> \in L
    PROVE  \E m \in S : \A q \in S : <<m, q>> \notin L
<1> DEFINE Above(m) == {q \in S : <<m, q>> \in L}
           T == {Above(m) : m \in S}
<1>1. T \subseteq FiniteSubsetsOf(S)
  <2>1. FiniteSubsetsOf(S) = SUBSET S
    BY FS_FiniteSubsetsOfFinite
  <2>2. ASSUME NEW x \in T
        PROVE  x \subseteq S
    <3>1. PICK m \in S : x = Above(m)
      OBVIOUS
    <3> QED
      BY <3>1
  <2> HIDE DEF T
  <2> QED
    BY <2>1, <2>2
<1>2. T # {}
  <2>1. PICK s : s \in S
    OBVIOUS
  <2>2. Above(s) \in T
    BY <2>1
  <2> QED
    BY <2>2
<1>3. IsWellFoundedOn(StrictSubsetOrdering(S), FiniteSubsetsOf(S))
  BY FS_StrictSubsetOrderingWellFounded
<1> HIDE DEF T
<1>4. PICK x \in T : \A y \in T : ~(<<y, x>> \in StrictSubsetOrdering(S))
  BY <1>1, <1>2, <1>3, WFMin
<1>5. PICK m \in S : x = Above(m)
  BY DEF T
<1>6. ASSUME NEW q \in S, <<m, q>> \in L
      PROVE  FALSE
  <2>1. q \in Above(m) /\ q \notin Above(q) /\ Above(q) \subseteq Above(m)
    BY <1>6
  <2>2. <<Above(q), Above(m)>> \in StrictSubsetOrdering(S)
    BY <2>1 DEF StrictSubsetOrdering
  <2>3. Above(q) \in T
    BY DEF T
  <2> QED
    BY <2>2, <2>3, <1>4, <1>5
<1> QED
  BY <1>6

LEMMA MostIs ==
    ASSUME NEW S, S \subseteq Int, IsFiniteSet(S), S # {}
    PROVE  Most(S) \in S /\ \A m \in S : m <= Most(S)
<1> DEFINE L == {z \in S \X S : z[1] < z[2]}
<1>1. \A p, q \in S : <<p, q>> \in L <=> p < q
  OBVIOUS
<1>2. \A p \in S : <<p, p>> \notin L
  BY <1>1
<1>3. \A p, q, r \in S : <<p, q>> \in L /\ <<q, r>> \in L => <<p, r>> \in L
  BY <1>1
<1> HIDE DEF L
<1>4. PICK n \in S : \A q \in S : <<n, q>> \notin L
  BY <1>2, <1>3, TopExists
<1>5. ASSUME NEW m \in S
      PROVE  m <= n
  <2>1. m \in Int /\ n \in Int /\ ~(n < m)
    BY <1>1, <1>4
  <2> QED
    BY <2>1
<1> QED
  BY <1>5 DEF Most

LEMMA FewestIs ==
    ASSUME NEW S, S \subseteq Int, IsFiniteSet(S), S # {}
    PROVE  Fewest(S) \in S /\ \A m \in S : Fewest(S) <= m
<1> DEFINE L == {z \in S \X S : z[2] < z[1]}
<1>1. \A p, q \in S : <<p, q>> \in L <=> q < p
  OBVIOUS
<1>2. \A p \in S : <<p, p>> \notin L
  BY <1>1
<1>3. \A p, q, r \in S : <<p, q>> \in L /\ <<q, r>> \in L => <<p, r>> \in L
  BY <1>1
<1> HIDE DEF L
<1>4. PICK n \in S : \A q \in S : <<n, q>> \notin L
  BY <1>2, <1>3, TopExists
<1>5. ASSUME NEW m \in S
      PROVE  n <= m
  <2>1. m \in Int /\ n \in Int /\ ~(m < n)
    BY <1>1, <1>4
  <2> QED
    BY <2>1
<1> QED
  BY <1>5 DEF Fewest

LEMMA LeadingIs ==
    ASSUME NEW S, S \subseteq Int, IsFiniteSet(S), S # {}, NEW figure,
           \A f \in S : figure[f] \in Int
    PROVE  /\ Leading(S, figure) \in S
           /\ \A g \in S : LET f == Leading(S, figure)
                           IN figure[g] < figure[f] \/ (figure[g] = figure[f] /\ f <= g)
<1> DEFINE L == {z \in S \X S : figure[z[1]] < figure[z[2]]
                                 \/ (figure[z[1]] = figure[z[2]] /\ z[2] < z[1])}
<1>1. \A p, q \in S : <<p, q>> \in L <=> figure[p] < figure[q] \/ (figure[p] = figure[q] /\ q < p)
  <2> SUFFICES ASSUME NEW p \in S, NEW q \in S
               PROVE  <<p, q>> \in L <=> figure[p] < figure[q] \/ (figure[p] = figure[q] /\ q < p)
    OBVIOUS
  <2>1. <<p, q>> \in S \X S /\ <<p, q>>[1] = p /\ <<p, q>>[2] = q
    OBVIOUS
  <2> QED
    BY <2>1
<1>2. \A p \in S : <<p, p>> \notin L
  BY <1>1
<1>3. \A p, q, r \in S : <<p, q>> \in L /\ <<q, r>> \in L => <<p, r>> \in L
  BY <1>1
<1> HIDE DEF L
<1>4. PICK n \in S : \A q \in S : <<n, q>> \notin L
  BY <1>2, <1>3, TopExists
<1>5. ASSUME NEW g \in S
      PROVE  figure[g] < figure[n] \/ (figure[g] = figure[n] /\ n <= g)
  <2>1. /\ g \in Int /\ n \in Int /\ figure[g] \in Int /\ figure[n] \in Int
        /\ ~(figure[n] < figure[g]) /\ ~(figure[n] = figure[g] /\ g < n)
    BY <1>1, <1>4
  <2> QED
    BY <2>1
<1> QED
  BY <1>5 DEF Leading

(* ------------------------------- the rows ------------------------------ *)
LEMMA RowFields ==
    ASSUME NEW r \in IndexRow
    PROVE  /\ r.camera \in Nat /\ r.taken \in Nat /\ r.pixels \in Nat /\ r.dense \in Nat
           /\ r.phash \in Nat /\ r.sharp \in Nat /\ r.clip \in Nat /\ r.detail \in Nat
           /\ r.bytes \in Nat \ {0} /\ r.raw \in BOOLEAN /\ r.dated \in DateSource
           /\ r.chroma \in STRING /\ r.tint.chroma \in Tone /\ r.thumb \in BOOLEAN
BY DEF IndexRow

LEMMA RowsAre ==
    ASSUME NEW R, AreRows(R)
    PROVE  /\ DOMAIN R \subseteq File /\ DOMAIN R \subseteq Nat \ {0} /\ IsFiniteSet(DOMAIN R)
           /\ \A f \in DOMAIN R : R[f] \in IndexRow
<1>1. IsFiniteSet(DOMAIN R)
  BY FilesAssumption, FS_Subset DEF AreRows
<1> QED
  BY <1>1, FilesAssumption DEF AreRows

(* ------------------------------ the groups ----------------------------- *)
LEMMA JoinsBothWays ==
    ASSUME NEW R, AreRows(R), NEW F, NEW a \in DOMAIN R, NEW b \in DOMAIN R, Joins(R, F, a, b)
    PROVE  Joins(R, F, b, a)
<1>1. R[a].phash \in Nat /\ R[b].phash \in Nat
  BY RowsAre, RowFields
<1>2. Near(R[a].phash, R[b].phash, PhashMax) => Near(R[b].phash, R[a].phash, PhashMax)
  BY <1>1 DEF Near, Abs, PhashMax
<1>3. SameShutter(R[a], R[b]) => SameShutter(R[b], R[a])
  BY <1>2 DEF SameShutter
<1>4. {a, b} = {b, a}
  OBVIOUS
<1> QED
  BY <1>3, <1>4 DEF Joins

\* A group is the least set that has the file and all that joins it.
LEMMA GroupIsClosed ==
    ASSUME NEW R, NEW F, NEW f \in DOMAIN R
    PROVE  /\ GroupOf(R, F, f) \subseteq DOMAIN R /\ f \in GroupOf(R, F, f)
           /\ \A a \in GroupOf(R, F, f), b \in DOMAIN R : Joins(R, F, a, b) => b \in GroupOf(R, F, f)
BY DEF GroupOf

LEMMA GroupIsLeast ==
    ASSUME NEW R, NEW F, NEW f \in DOMAIN R, NEW S \in SUBSET DOMAIN R, f \in S,
           \A a \in S, b \in DOMAIN R : Joins(R, F, a, b) => b \in S
    PROVE  GroupOf(R, F, f) \subseteq S
BY DEF GroupOf

LEMMA GroupsAgree ==
    ASSUME NEW R, AreRows(R), NEW F, NEW f \in DOMAIN R, NEW g \in GroupOf(R, F, f)
    PROVE  GroupOf(R, F, g) = GroupOf(R, F, f)
<1> DEFINE A == GroupOf(R, F, f)
           B == GroupOf(R, F, g)
<1>1. /\ A \subseteq DOMAIN R /\ f \in A
      /\ \A a \in A, b \in DOMAIN R : Joins(R, F, a, b) => b \in A
  BY GroupIsClosed
<1>2. g \in DOMAIN R
  BY <1>1
<1>3. /\ B \subseteq DOMAIN R /\ g \in B
      /\ \A a \in B, b \in DOMAIN R : Joins(R, F, a, b) => b \in B
  BY <1>2, GroupIsClosed
<1> HIDE DEF A, B
<1>4. B \subseteq A
  <2>1. A \in SUBSET DOMAIN R /\ g \in A
    BY <1>1 DEF A
  <2> QED
    BY <2>1, <1>1, <1>2, GroupIsLeast DEF B
<1>5. f \in B
  <2> SUFFICES ASSUME f \notin B
               PROVE  FALSE
    OBVIOUS
  <2> DEFINE S == A \ B
  <2>1. ASSUME NEW a \in S, NEW b \in DOMAIN R, Joins(R, F, a, b)
        PROVE  b \in S
    <3>1. b \in A /\ a \in DOMAIN R
      BY <2>1, <1>1
    <3>2. Joins(R, F, b, a)
      BY <3>1, <2>1, JoinsBothWays
    <3>3. b \notin B
      BY <3>1, <3>2, <2>1, <1>3
    <3> QED
      BY <3>1, <3>3
  <2>2. S \in SUBSET DOMAIN R /\ f \in S
    BY <1>1
  <2> HIDE DEF S
  <2>3. A \subseteq S
    BY <2>1, <2>2, GroupIsLeast DEF A
  <2> QED
    BY <2>3, <1>4, <1>3 DEF S
<1>6. A \subseteq B
  <2>1. B \in SUBSET DOMAIN R
    BY <1>3
  <2> QED
    BY <2>1, <1>3, <1>5, GroupIsLeast DEF A
<1> QED
  BY <1>4, <1>6 DEF A, B

\* Nothing is in a group that no chain of links leads to.
LEMMA GroupsAreChains ==
    ASSUME NEW R, AreRows(R), NEW F, NEW f \in DOMAIN R,
           NEW S \in SUBSET GroupOf(R, F, f), S # {}, S # GroupOf(R, F, f)
    PROVE  \E a \in S, b \in GroupOf(R, F, f) \ S : Joins(R, F, a, b) \/ Joins(R, F, b, a)
<1> DEFINE A == GroupOf(R, F, f)
<1>1. /\ A \subseteq DOMAIN R
      /\ \A a \in A, b \in DOMAIN R : Joins(R, F, a, b) => b \in A
  BY GroupIsClosed
<1>2. PICK c : c \in S
  OBVIOUS
<1>3. GroupOf(R, F, c) = A /\ c \in DOMAIN R
  BY <1>1, <1>2, GroupsAgree
<1> HIDE DEF A
<1>4. CASE \A a \in S, b \in DOMAIN R : Joins(R, F, a, b) => b \in S
  <2>1. S \in SUBSET DOMAIN R
    BY <1>1 DEF A
  <2>2. GroupOf(R, F, c) \subseteq S
    BY <2>1, <1>2, <1>3, <1>4, GroupIsLeast
  <2> QED
    BY <2>2, <1>3 DEF A
<1>5. CASE \E a \in S, b \in DOMAIN R : Joins(R, F, a, b) /\ b \notin S
  BY <1>1, <1>5 DEF A
<1> QED
  BY <1>4, <1>5

LEMMA WholeGroups ==
    ASSUME AreRows(measured.groups), groups = Families(measured.groups, Found(measured.groups), kept)
    PROVE  GroupsAreWhole
<1> DEFINE R == measured.groups
           F == Found(R)
<1>1. AreRows(R)
  OBVIOUS
<1>3. DOMAIN groups = DOMAIN R /\ \A f \in DOMAIN R : groups[f].of = GroupOf(R, F, f)
  BY DEF Families
<1> HIDE DEF F
<1>4. ASSUME NEW f \in DOMAIN R
      PROVE  /\ f \in groups[f].of /\ \A g \in groups[f].of : groups[g].of = groups[f].of
             /\ \A g \in DOMAIN R : Joins(R, F, f, g) => g \in groups[f].of
  <2>1. groups[f].of = GroupOf(R, F, f)
    BY <1>3
  <2>2. f \in GroupOf(R, F, f) /\ GroupOf(R, F, f) \subseteq DOMAIN R
    BY GroupIsClosed
  <2>3. \A g \in DOMAIN R : Joins(R, F, f, g) => g \in GroupOf(R, F, f)
    BY <2>2, GroupIsClosed
  <2>4. \A g \in GroupOf(R, F, f) : GroupOf(R, F, g) = GroupOf(R, F, f)
    BY <1>1, GroupsAgree
  <2> QED
    BY <1>3, <2>1, <2>2, <2>3, <2>4
<1>5. ASSUME NEW f \in DOMAIN R, NEW S \in SUBSET groups[f].of, S # {}, S # groups[f].of
      PROVE  \E a \in S, b \in groups[f].of \ S : Joins(R, F, a, b) \/ Joins(R, F, b, a)
  <2>1. groups[f].of = GroupOf(R, F, f)
    BY <1>3
  <2> QED
    BY <1>1, <1>5, <2>1, GroupsAreChains
<1> QED
  BY ONLY <1>3, <1>4, <1>5 DEF GroupsAreWhole, F, Found

(* ------------------- what each file is, and the keeper ----------------- *)
LEMMA ImageIsFinite ==
    ASSUME NEW S, IsFiniteSet(S), NEW h, h = [x \in S |-> h[x]]
    PROVE  IsFiniteSet({h[x] : x \in S})
<1> DEFINE T == {h[x] : x \in S}
<1>1. h \in Surjection(S, T)
  BY DEF Surjection
<1> QED
  BY <1>1, FS_Surjection

LEMMA MostOfNumbers ==
    ASSUME NEW S, IsFiniteSet(S), NEW h \in [S -> Nat]
    PROVE  Most({h[x] : x \in S} \cup {1}) \in Nat \ {0}
<1> DEFINE T == {h[x] : x \in S} \cup {1}
<1>1. IsFiniteSet(T)
  <2>1. h = [x \in S |-> h[x]]
    OBVIOUS
  <2>2. IsFiniteSet({h[x] : x \in S})
    BY ONLY <2>1, ImageIsFinite, IsFiniteSet(S)
  <2> QED
    BY <2>2, FS_AddElement
<1>2. T \subseteq Int /\ T \subseteq Nat /\ 1 \in T /\ T # {}
  OBVIOUS
<1> HIDE DEF T
<1>3. Most(T) \in T /\ 1 <= Most(T)
  BY <1>1, <1>2, MostIs
<1>4. Most(T) \in Nat \ {0}
  <2>1. Most(T) \in Nat
    BY <1>2, <1>3
  <2> QED
    BY <2>1, <1>3
<1> QED
  BY <1>4 DEF T

LEMMA PixelsAre ==
    ASSUME NEW R, AreRows(R), NEW G \in SUBSET DOMAIN R
    PROVE  IsFiniteSet(G) /\ Most({R[m].pixels : m \in G} \cup {1}) \in Nat \ {0}
<1> DEFINE h == [m \in G |-> R[m].pixels]
<1>1. IsFiniteSet(G)
  BY RowsAre, FS_Subset
<1>2. h \in [G -> Nat]
  BY RowsAre, RowFields
<1>3. {h[m] : m \in G} = {R[m].pixels : m \in G}
  OBVIOUS
<1> HIDE DEF h
<1>4. Most({h[m] : m \in G} \cup {1}) \in Nat \ {0}
  BY <1>1, <1>2, MostOfNumbers
<1> QED
  BY ONLY <1>1, <1>3, <1>4

LEMMA RatingIsNumber == \A f : Rating(f) \in Int
<1> SUFFICES ASSUME NEW f
             PROVE  Rating(f) \in Int
  OBVIOUS
<1> DEFINE C == Curated(f)
           h == [c \in C |-> c.stars]
<1>1. C \subseteq Catalogue /\ IsFiniteSet(C)
  <2>1. C \subseteq Catalogue
    BY DEF Curated
  <2> QED
    BY <2>1, RowsAssumption, FS_Subset
<1> HIDE DEF C
<1>2. {h[c] : c \in C} = {c.stars : c \in C} /\ \A c \in C : h[c] \in Nat
  BY <1>1, RowsAssumption
<1>3. IsFiniteSet({h[c] : c \in C}) /\ {h[c] : c \in C} \subseteq Nat
  <2>1. h = [c \in C |-> h[c]]
    OBVIOUS
  <2> HIDE DEF h
  <2> QED
    BY <1>1, <1>2, <2>1, ImageIsFinite
<1> HIDE DEF h
<1>4. ASSUME C # {}
      PROVE  Most({c.stars : c \in C}) \in Nat
  <2> DEFINE T == {c.stars : c \in C}
  <2>1. T # {} /\ T \subseteq Nat /\ T \subseteq Int /\ IsFiniteSet(T)
    <3>1. PICK c : c \in C
      BY <1>4
    <3>2. c.stars \in T
      BY <3>1
    <3>3. T = {h[x] : x \in C}
      BY <1>2
    <3> HIDE DEF T
    <3>4. T \subseteq Nat /\ IsFiniteSet(T)
      BY <1>3, <3>3
    <3> QED
      BY <3>2, <3>4
  <2> HIDE DEF T
  <2>2. Most(T) \in T
    BY <2>1, MostIs
  <2> QED
    BY <2>1, <2>2 DEF T
<1> QED
  BY <1>4 DEF Rating, C

LEMMA ScoreIsNumber ==
    ASSUME NEW R, AreRows(R), NEW f \in DOMAIN R, NEW most \in Nat \ {0}
    PROVE  Score(R, f, most) \in Int
<1>1. R[f].pixels \in Nat /\ R[f].dense \in Nat
  BY RowsAre, RowFields
<1>2. (40 * R[f].pixels) \div most \in Int
  <2>1. 40 * R[f].pixels \in Int
    BY <1>1
  <2> QED
    BY <2>1
<1>3. Format(R[f]) \in Int /\ Marks(R[f]) \in Int
  BY DEF Format, Marks
<1> QED
  BY <1>1, <1>2, <1>3, RatingIsNumber DEF Score

\* A copy stands beside the real one among its twins; the file a group was told
\* to keep is none.
LEMMA TwinOfCopy ==
    ASSUME NEW R, AreRows(R), NEW G \in SUBSET DOMAIN R, NEW d \in G \cup {0}, NEW m \in G
    PROVE  LET most == Most({R[q].pixels : q \in G} \cup {1})
               role == Roles(R, G, d)
           IN /\ role[m] = "copy" => \E t \in G \ {m} :
                    /\ role[t] # "copy" /\ Identity(R[t]) = Identity(R[m])
                    /\ d = 0 => Score(R, m, most) <= Score(R, t, most)
              /\ d # 0 => role[d] # "copy"
<1> DEFINE most == Most({R[q].pixels : q \in G} \cup {1})
           score == [q \in G |-> Score(R, q, most)]
           twins(q) == {p \in G : Identity(R[p]) = Identity(R[q])}
           real(q) == Real(d, twins(q), Leading(twins(q), score))
           copy == {q \in G : real(q) # q}
           able == {q \in G \ copy : R[q].origin = 0
                    /\ (R[q].raw \/ (R[q].camera # 0 /\ ~R[q].edited /\ R[q].parent = 0))}
           rank(q) == 100 * (IF R[q].raw THEN 1 ELSE 0) + R[q].pixels
           original == {q \in able : \A p \in able : rank(p) < rank(q) \/ (rank(p) = rank(q) /\ p <= q)}
           named(q) == \E o \in original : R[o].stem = R[q].stem
           large(q) == 10 * R[q].pixels >= 6 * most
           role == Roles(R, G, d)
<1>1. role = [q \in G |->
          CASE q \in copy     -> "copy"
            [] q \in original -> "original"
            [] OTHER -> IF R[q].origin # 0 THEN "converted"
                        ELSE IF R[q].edited \/ R[q].parent # 0 THEN "export"
                        ELSE IF named(q) /\ R[q].camera # 0 /\ large(q) THEN "camera-jpg"
                        ELSE IF ~large(q) THEN "resize"
                        ELSE IF R[q].raw THEN "original"
                        ELSE IF R[q].camera # 0 THEN "camera-jpg" ELSE "unknown"]
  BY DEF Roles
<1>2. most \in Nat \ {0} /\ IsFiniteSet(G) /\ G \subseteq Nat \ {0}
  BY PixelsAre, RowsAre
<1>3. original \cap copy = {}
  OBVIOUS
<1> HIDE DEF most, named, large, original, able, role
<1>4. \A q \in G : score[q] \in Int /\ score[q] = Score(R, q, most)
  BY <1>2, ScoreIsNumber
<1> HIDE DEF score
<1>5. ASSUME NEW q \in G
      PROVE  /\ real(q) \in twins(q) /\ real(real(q)) = real(q)
             /\ d = 0 => score[q] <= score[real(q)]
  <2> DEFINE S == twins(q)
  <2>1. S \subseteq G /\ q \in S /\ S \subseteq Int /\ IsFiniteSet(S)
    BY <1>2, FS_Subset
  <2>2. \A f \in S : score[f] \in Int
    BY <1>4, <2>1
  <2> HIDE DEF S
  <2>3. /\ Leading(S, score) \in S
        /\ score[q] < score[Leading(S, score)] \/ score[q] = score[Leading(S, score)]
    BY <2>1, <2>2, LeadingIs
  <2>4. real(q) \in S
    BY <2>3 DEF Real, S
  <2>5. twins(real(q)) = S
    BY <2>4 DEF S
  <2>6. real(real(q)) = real(q)
    BY <2>5 DEF S
  <2>7. ASSUME d = 0
        PROVE  score[q] <= score[real(q)]
    <3>1. 0 \notin S
      BY <1>2, <2>1
    <3>2. real(q) = Leading(S, score)
      BY <2>7, <3>1 DEF Real, S
    <3>3. score[q] \in Int /\ score[Leading(S, score)] \in Int
      BY <2>1, <2>2, <2>3
    <3> QED
      BY <2>3, <3>2, <3>3
  <2> QED
    BY <2>4, <2>6, <2>7 DEF S
<1>6. \A q \in G : role[q] = "copy" <=> q \in copy
  BY <1>1, <1>3
<1> HIDE DEF copy
<1>7. ASSUME role[m] = "copy"
      PROVE  \E t \in G \ {m} :
                    /\ role[t] # "copy" /\ Identity(R[t]) = Identity(R[m])
                    /\ d = 0 => Score(R, m, most) <= Score(R, t, most)
  <2>1. real(m) # m /\ real(m) \in G
    BY <1>5, <1>6, <1>7 DEF copy
  <2>2. role[real(m)] # "copy"
    BY <1>5, <1>6, <2>1 DEF copy
  <2>3. Identity(R[real(m)]) = Identity(R[m])
    BY <1>5
  <2>4. d = 0 => Score(R, m, most) <= Score(R, real(m), most)
    BY <1>4, <1>5, <2>1
  <2> HIDE DEF real
  <2> QED
    BY <2>1, <2>2, <2>3, <2>4
<1>8. ASSUME d # 0
      PROVE  role[d] # "copy"
  <2>1. d \in G /\ real(d) = d
    BY <1>8 DEF Real
  <2> QED
    BY <1>6, <2>1 DEF copy
<1> QED
  BY <1>7, <1>8 DEF most, role

LEMMA KeeperIsNoCopy ==
    ASSUME NEW R, AreRows(R), NEW G \in SUBSET DOMAIN R, G # {}, NEW d \in G \cup {0}
    PROVE  Keeper(R, G, d) \in G /\ Roles(R, G, d)[Keeper(R, G, d)] # "copy"
<1> DEFINE most == Most({R[m].pixels : m \in G} \cup {1})
           roles == Roles(R, G, d)
           claim == [m \in G |-> Score(R, m, most) + Bonus(roles[m])]
           k == Keeper(R, G, d)
<1>1. k = IF d # 0 THEN d ELSE Leading(G, claim)
  BY Zenon DEF Keeper
<1>2. most \in Nat \ {0} /\ IsFiniteSet(G) /\ G \subseteq Int
  <2>1. most \in Nat \ {0} /\ IsFiniteSet(G)
    BY PixelsAre
  <2>2. G \subseteq Int
    BY RowsAre
  <2> QED
    BY <2>1, <2>2
<1>3. \A q \in G : Score(R, q, most) \in Int
  BY <1>2, ScoreIsNumber
<1>4. \A q \in G : /\ roles[q] = "copy" => \E t \in G \ {q} :
                            /\ roles[t] # "copy" /\ Identity(R[t]) = Identity(R[q])
                            /\ d = 0 => Score(R, q, most) <= Score(R, t, most)
                   /\ d # 0 => roles[d] # "copy"
  BY TwinOfCopy
<1>5. \A r : /\ Bonus(r) \in Int /\ (r = "copy" => Bonus(r) = -40)
             /\ (r # "copy" => Bonus(r) >= -10)
  BY DEF Bonus
<1> HIDE DEF most, roles, k
<1>6. \A q \in G : claim[q] \in Int
  BY <1>3, <1>5
<1>7. CASE d # 0
  BY <1>1, <1>4, <1>7 DEF roles, k
<1>8. CASE d = 0
  <2>1. \A q \in G : claim[q] = Score(R, q, most) + Bonus(roles[q])
    OBVIOUS
  <2> HIDE DEF claim
  <2>2. /\ k \in G
        /\ \A q \in G : claim[q] < claim[k] \/ claim[q] = claim[k]
    BY <1>1, <1>2, <1>6, <1>8, LeadingIs
  <2>3. ASSUME roles[k] = "copy"
        PROVE  FALSE
    <3>1. PICK t \in G : roles[t] # "copy" /\ Score(R, k, most) <= Score(R, t, most)
      BY <1>4, <1>8, <2>2, <2>3
    <3> DEFINE s == Score(R, k, most)
               u == Score(R, t, most)
               b == Bonus(roles[t])
    <3>2. s \in Int /\ u \in Int /\ b \in Int /\ b >= -10 /\ s <= u
      BY <1>3, <1>5, <2>2, <3>1
    <3>3. claim[k] = s + (-40) /\ claim[t] = u + b
      BY <1>5, <2>1, <2>2, <2>3
    <3>4. claim[t] < claim[k] \/ claim[t] = claim[k]
      BY <2>2
    <3> HIDE DEF s, u, b
    <3> QED
      BY <3>2, <3>3, <3>4
  <2> QED
    BY <2>2, <2>3 DEF roles, k
<1> QED
  BY <1>7, <1>8

LEMMA DecidedIs ==
    ASSUME NEW byHand \in Seq(File), NEW G
    PROVE  /\ Decided(byHand, G) \in G \cup {0}
           /\ ToSet(byHand) \cap G # {} =>
                 Decided(byHand, G) \in ToSet(byHand) \cap G /\ Decided(byHand, G) # 0
<1> DEFINE mine == {i \in DOMAIN byHand : byHand[i] \in G}
<1>1. DOMAIN byHand = 1 .. Len(byHand) /\ Len(byHand) \in Nat /\ \A i \in DOMAIN byHand : byHand[i] \in File
  OBVIOUS
<1>2. mine \subseteq Int /\ IsFiniteSet(mine)
  <2>1. IsFiniteSet(1 .. Len(byHand))
    BY <1>1, FS_Interval
  <2>2. mine \subseteq 1 .. Len(byHand)
    BY <1>1
  <2>3. mine \subseteq Int
    BY <1>1
  <2> HIDE DEF mine
  <2> QED
    BY <2>1, <2>2, <2>3, FS_Subset
<1>3. Decided(byHand, G) = IF mine = {} THEN 0 ELSE byHand[Fewest(mine)]
  BY DEF Decided
<1>4. ASSUME mine # {}
      PROVE  Fewest(mine) \in mine
  <2> HIDE DEF mine
  <2> QED
    BY <1>2, <1>4, FewestIs
<1>5. mine = {} => ToSet(byHand) \cap G = {}
  BY DEF ToSet
<1>6. mine # {} => /\ byHand[Fewest(mine)] \in ToSet(byHand) \cap G
                   /\ byHand[Fewest(mine)] # 0
  <2>1. ASSUME mine # {}
        PROVE  Fewest(mine) \in DOMAIN byHand /\ byHand[Fewest(mine)] \in G
    BY <1>4, <2>1
  <2>2. \A i \in DOMAIN byHand : byHand[i] \in ToSet(byHand) /\ byHand[i] # 0
    BY <1>1, FilesAssumption DEF ToSet
  <2> HIDE DEF mine
  <2> QED
    BY <2>1, <2>2
<1> HIDE DEF mine
<1> QED
  BY <1>3, <1>5, <1>6

LEMMA TrueCopies ==
    ASSUME AreRows(measured.groups), groups = Families(measured.groups, Found(measured.groups), kept),
           kept \in Seq(File)
    PROVE  CopiesAreTwins
<1> DEFINE R == measured.groups
           F == Found(R)
           of(f) == GroupOf(R, F, f)
           said(f) == Decided(kept, of(f))
<1>1. AreRows(R)
  OBVIOUS
<1>2. /\ DOMAIN groups = DOMAIN R
      /\ \A f \in DOMAIN R : /\ groups[f].of = of(f)
                             /\ groups[f].role = Roles(R, of(f), said(f))[f]
                             /\ groups[f].keeper = Keeper(R, of(f), said(f))
  BY DEF Families
<1> HIDE DEF R, F
<1>3. \A f \in DOMAIN R : /\ of(f) \in SUBSET DOMAIN R /\ f \in of(f) /\ of(f) # {}
                          /\ \A g \in of(f) : of(g) = of(f)
  BY <1>1, GroupIsClosed, GroupsAgree
<1>4. \A f : /\ said(f) \in of(f) \cup {0}
             /\ ToSet(kept) \cap of(f) # {} => said(f) \in ToSet(kept) \cap of(f) /\ said(f) # 0
  BY DecidedIs
<1> HIDE DEF of, said
<1>5. \A f \in DOMAIN R : \A g \in of(f) : /\ g \in DOMAIN R /\ of(g) = of(f) /\ said(g) = said(f)
  BY <1>3 DEF said
<1>6. ASSUME NEW f \in DOMAIN R, groups[f].role = "copy"
      PROVE  \E t \in of(f) \ {f} :
               /\ groups[t].role # "copy" /\ R[t].frame = R[f].frame
               /\ R[f].raw \/ R[t].raw => R[t].bytes = R[f].bytes
  <2> DEFINE role == Roles(R, of(f), said(f))
  <2>1. role[f] = "copy"
    BY <1>2, <1>6
  <2>2. PICK t \in of(f) \ {f} : role[t] # "copy" /\ Identity(R[t]) = Identity(R[f])
    <3>1. of(f) \in SUBSET DOMAIN R /\ f \in of(f) /\ said(f) \in of(f) \cup {0}
      BY <1>3, <1>4
    <3> DEFINE most == Most({R[q].pixels : q \in of(f)} \cup {1})
    <3>2. role[f] = "copy" => \E t \in of(f) \ {f} :
             /\ role[t] # "copy" /\ Identity(R[t]) = Identity(R[f])
             /\ said(f) = 0 => Score(R, f, most) <= Score(R, t, most)
      BY ONLY <1>1, <3>1, TwinOfCopy
    <3> HIDE DEF role, most
    <3> QED
      BY <2>1, <3>2
  <2>3. t \in DOMAIN R /\ groups[t].role = role[t]
    BY <1>2, <1>5
  <2>4. R[t].bytes # 0 /\ R[f].bytes # 0
    BY <1>1, <2>3, RowsAre, RowFields
  <2>5. /\ R[t].frame = R[f].frame
        /\ R[f].raw \/ R[t].raw => R[t].bytes = R[f].bytes
    BY <2>2, <2>4 DEF Identity
  <2> QED
    BY <2>2, <2>3, <2>5
<1>7. ASSUME NEW f \in DOMAIN R
      PROVE  /\ groups[groups[f].keeper].role # "copy"
             /\ ToSet(kept) \cap of(f) # {} => groups[f].keeper \in ToSet(kept)
  <2> DEFINE k == Keeper(R, of(f), said(f))
  <2>1. k \in of(f) /\ Roles(R, of(f), said(f))[k] # "copy"
    BY <1>1, <1>3, <1>4, KeeperIsNoCopy
  <2>2. groups[f].keeper = k /\ groups[k].role = Roles(R, of(f), said(f))[k]
    BY <1>2, <1>5, <2>1
  <2>3. said(f) # 0 => k = said(f)
    BY DEF Keeper
  <2> QED
    BY <1>4, <2>1, <2>2, <2>3
<1> QED
  BY ONLY <1>2, <1>6, <1>7 DEF CopiesAreTwins, R

(* -------------------------------- bursts ------------------------------- *)
LEMMA EarlierOrders ==
    ASSUME NEW R, AreRows(R)
    PROVE  /\ Shots(R) \subseteq DOMAIN R /\ IsFiniteSet(Shots(R))
           /\ \A f \in Shots(R) : ~Earlier(R, f, f)
           /\ \A f, g \in Shots(R) : f # g => Earlier(R, f, g) \/ Earlier(R, g, f)
           /\ \A f, g \in Shots(R) : Earlier(R, f, g) => ~Earlier(R, g, f)
           /\ \A f, g, h \in Shots(R) : Earlier(R, f, g) /\ Earlier(R, g, h) => Earlier(R, f, h)
<1>1. Shots(R) \subseteq DOMAIN R /\ IsFiniteSet(Shots(R))
  BY RowsAre, FS_Subset DEF Shots
<1>2. \A f \in Shots(R) : f \in Nat /\ R[f].camera \in Nat /\ R[f].taken \in Nat
  BY <1>1, RowsAre, RowFields
<1> QED
  BY <1>1, <1>2 DEF Earlier

LEMMA FirstOfShots ==
    ASSUME NEW R, AreRows(R), NEW T \in SUBSET Shots(R), T # {}
    PROVE  \E m \in T : \A q \in T : q = m \/ Earlier(R, m, q)
<1> DEFINE L == {z \in T \X T : Earlier(R, z[2], z[1])}
<1>1. \A p, q \in T : <<p, q>> \in L <=> Earlier(R, q, p)
  <2> SUFFICES ASSUME NEW p \in T, NEW q \in T
               PROVE  <<p, q>> \in L <=> Earlier(R, q, p)
    OBVIOUS
  <2>1. <<p, q>> \in T \X T /\ <<p, q>>[1] = p /\ <<p, q>>[2] = q
    OBVIOUS
  <2> QED
    BY <2>1
<1> HIDE DEF L
<1>2. IsFiniteSet(T) /\ \A p \in T : p \in Shots(R)
  BY EarlierOrders, FS_Subset
<1>3. \A p \in T : <<p, p>> \notin L
  BY <1>1, <1>2, EarlierOrders
<1>4. \A p, q, r \in T : <<p, q>> \in L /\ <<q, r>> \in L => <<p, r>> \in L
  BY <1>1, <1>2, EarlierOrders
<1>5. PICK m \in T : \A q \in T : <<m, q>> \notin L
  BY <1>2, <1>3, <1>4, TopExists
<1>6. ASSUME NEW q \in T
      PROVE  q = m \/ Earlier(R, m, q)
  BY <1>1, <1>2, <1>5, EarlierOrders
<1> QED
  BY <1>6

LEMMA LastOfShots ==
    ASSUME NEW R, AreRows(R), NEW T \in SUBSET Shots(R), T # {}
    PROVE  \E m \in T : \A q \in T : q = m \/ Earlier(R, q, m)
<1> DEFINE L == {z \in T \X T : Earlier(R, z[1], z[2])}
<1>1. \A p, q \in T : <<p, q>> \in L <=> Earlier(R, p, q)
  <2> SUFFICES ASSUME NEW p \in T, NEW q \in T
               PROVE  <<p, q>> \in L <=> Earlier(R, p, q)
    OBVIOUS
  <2>1. <<p, q>> \in T \X T /\ <<p, q>>[1] = p /\ <<p, q>>[2] = q
    OBVIOUS
  <2> QED
    BY <2>1
<1> HIDE DEF L
<1>2. IsFiniteSet(T) /\ \A p \in T : p \in Shots(R)
  BY EarlierOrders, FS_Subset
<1>3. \A p \in T : <<p, p>> \notin L
  BY <1>1, <1>2, EarlierOrders
<1>4. \A p, q, r \in T : <<p, q>> \in L /\ <<q, r>> \in L => <<p, r>> \in L
  BY <1>1, <1>2, EarlierOrders
<1>5. PICK m \in T : \A q \in T : <<m, q>> \notin L
  BY <1>2, <1>3, <1>4, TopExists
<1>6. ASSUME NEW q \in T
      PROVE  q = m \/ Earlier(R, q, m)
  BY <1>1, <1>2, <1>5, EarlierOrders
<1> QED
  BY <1>6

\* Every frame is in the run of the last beginning that is not after it.
LEMMA RunOfFrame ==
    ASSUME NEW R, AreRows(R), NEW f \in Shots(R)
    PROVE  \E b \in Begins(R) : f \in RunOf(R, b)
<1> DEFINE T == {c \in Begins(R) : c = f \/ Earlier(R, c, f)}
<1>1. Begins(R) \subseteq Shots(R)
  BY DEF Begins
<1>2. T # {}
  <2>1. PICK e \in Shots(R) : \A q \in Shots(R) : q = e \/ Earlier(R, e, q)
    BY FirstOfShots
  <2>2. e \in Begins(R)
    BY <2>1, EarlierOrders DEF Begins, Follows
  <2>3. e = f \/ Earlier(R, e, f)
    BY <2>1
  <2> QED
    BY <2>2, <2>3
<1>3. T \in SUBSET Shots(R)
  BY <1>1
<1>4. PICK b \in T : \A q \in T : q = b \/ Earlier(R, q, b)
  <2> HIDE DEF T
  <2> QED
    BY <1>2, <1>3, LastOfShots
<1>5. ASSUME NEW c \in Begins(R), Earlier(R, b, c)
      PROVE  Earlier(R, f, c)
  <2>1. c \in Shots(R) /\ b \in Shots(R)
    BY <1>1
  <2>2. c \notin T
    BY <1>4, <1>5, <2>1, EarlierOrders
  <2> QED
    BY <2>1, <2>2, EarlierOrders
<1> QED
  BY <1>5 DEF RunOf

LEMMA RunGoesOn ==
    ASSUME NEW R, AreRows(R), NEW f \in Shots(R), NEW g \in Shots(R),
           Follows(R, f, g), Continues(R[f], R[g]), NEW b \in Begins(R), f \in RunOf(R, b)
    PROVE  g \in RunOf(R, b)
<1>1. b \in Shots(R) /\ \A c \in Begins(R) : c \in Shots(R)
  BY DEF Begins
<1>2. Earlier(R, b, g)
  BY <1>1, EarlierOrders DEF RunOf, Follows
<1>3. ASSUME NEW c \in Begins(R), Earlier(R, b, c)
      PROVE  Earlier(R, g, c)
  <2>1. Earlier(R, f, c)
    BY <1>3 DEF RunOf
  <2>2. c # g
    BY DEF Begins
  <2>3. ~Earlier(R, c, g)
    BY <1>1, <2>1 DEF Follows
  <2> QED
    BY <1>1, <2>2, <2>3, EarlierOrders
<1> QED
  BY <1>2, <1>3 DEF RunOf

LEMMA RunsApart ==
    ASSUME NEW R, AreRows(R), NEW b \in Begins(R), NEW c \in Begins(R),
           NEW x \in RunOf(R, b), x \in RunOf(R, c)
    PROVE  b = c
<1>1. b \in Shots(R) /\ c \in Shots(R) /\ x \in Shots(R)
  BY DEF Begins, RunOf
<1>2. ~Earlier(R, b, c)
  BY <1>1, EarlierOrders DEF RunOf
<1>3. ~Earlier(R, c, b)
  BY <1>1, EarlierOrders DEF RunOf
<1> QED
  BY <1>1, <1>2, <1>3, EarlierOrders

\* Between two frames of a run the next one is in it, and goes on from the first.
LEMMA RunIsChain ==
    ASSUME NEW R, AreRows(R), NEW b \in Begins(R), NEW f \in RunOf(R, b), NEW h \in RunOf(R, b),
           Earlier(R, f, h)
    PROVE  \E g \in RunOf(R, b) : Follows(R, f, g) /\ Continues(R[f], R[g])
<1> DEFINE T == {x \in Shots(R) : Earlier(R, f, x)}
<1>1. b \in Shots(R) /\ f \in Shots(R) /\ h \in Shots(R) /\ h \in T
  BY DEF Begins, RunOf
<1>2. PICK g \in T : \A q \in T : q = g \/ Earlier(R, g, q)
  <2>1. T \in SUBSET Shots(R) /\ T # {}
    BY <1>1
  <2> HIDE DEF T
  <2> QED
    BY <2>1, FirstOfShots
<1>3. g \in Shots(R) /\ Earlier(R, f, g) /\ (h = g \/ Earlier(R, g, h))
  BY <1>1, <1>2
<1>4. Follows(R, f, g)
  BY <1>2, <1>3, EarlierOrders DEF Follows
<1> HIDE DEF T
<1>5. g \in RunOf(R, b)
  <2>1. Earlier(R, b, g)
    BY <1>1, <1>3, EarlierOrders DEF RunOf
  <2>2. ASSUME NEW c \in Begins(R), Earlier(R, b, c)
        PROVE  Earlier(R, g, c)
    <3>1. c \in Shots(R) /\ Earlier(R, h, c)
      BY <2>2 DEF RunOf, Begins
    <3> QED
      BY <1>1, <1>3, <3>1, EarlierOrders
  <2> QED
    BY <1>3, <2>1, <2>2 DEF RunOf
<1>6. ASSUME NEW e \in Shots(R), Follows(R, e, g)
      PROVE  e = f
  BY <1>1, <1>3, <1>4, <1>6, EarlierOrders DEF Follows
<1>7. g \notin Begins(R)
  <2>1. Earlier(R, b, g)
    BY <1>1, <1>3, EarlierOrders DEF RunOf
  <2> QED
    BY <1>3, <1>5, <2>1, EarlierOrders DEF RunOf
<1>8. Continues(R[f], R[g])
  BY <1>3, <1>6, <1>7 DEF Begins
<1> QED
  BY <1>4, <1>5, <1>8

LEMMA RunGoesBack ==
    ASSUME NEW R, AreRows(R), NEW b \in Begins(R), NEW f \in RunOf(R, b), NEW h \in RunOf(R, b),
           Earlier(R, h, f)
    PROVE  \E g \in RunOf(R, b) : Follows(R, g, f) /\ Continues(R[g], R[f])
<1> DEFINE T == {x \in Shots(R) : Earlier(R, x, f)}
<1>1. b \in Shots(R) /\ f \in Shots(R) /\ h \in Shots(R) /\ h \in T
  BY DEF Begins, RunOf
<1>2. PICK g \in T : \A q \in T : q = g \/ Earlier(R, q, g)
  <2>1. T \in SUBSET Shots(R) /\ T # {}
    BY <1>1
  <2> HIDE DEF T
  <2> QED
    BY <2>1, LastOfShots
<1>3. g \in Shots(R) /\ Earlier(R, g, f) /\ (h = g \/ Earlier(R, h, g))
  BY <1>1, <1>2
<1>4. Follows(R, g, f)
  BY <1>2, <1>3, EarlierOrders DEF Follows
<1> HIDE DEF T
<1>5. g \in RunOf(R, b)
  <2>1. g = b \/ Earlier(R, b, g)
    BY <1>1, <1>3, EarlierOrders DEF RunOf
  <2>2. ASSUME NEW c \in Begins(R), Earlier(R, b, c)
        PROVE  Earlier(R, g, c)
    <3>1. c \in Shots(R) /\ Earlier(R, f, c)
      BY <2>2 DEF RunOf, Begins
    <3> QED
      BY <1>1, <1>3, <3>1, EarlierOrders
  <2> QED
    BY <1>3, <2>1, <2>2 DEF RunOf
<1>6. PICK x \in RunOf(R, b) : Follows(R, g, x) /\ Continues(R[g], R[x])
  BY <1>3, <1>5, RunIsChain
<1>7. x = f
  <2>1. x \in Shots(R)
    BY DEF RunOf
  <2> QED
    BY <1>1, <1>3, <1>4, <1>6, <2>1, EarlierOrders DEF Follows
<1> QED
  BY <1>4, <1>5, <1>6, <1>7

LEMMA RunsAre ==
    ASSUME NEW R, AreRows(R)
    PROVE  /\ \A S \in Runs(R) : /\ S \subseteq Shots(R) /\ IsFiniteSet(S) /\ S # {}
                                 /\ \E b \in Begins(R) : S = RunOf(R, b)
                                 /\ \A f \in S : \E h \in S : h # f
           /\ \A S, T \in Runs(R) : S = T \/ S \cap T = {}
           /\ \A b \in Begins(R) : \A f, g \in RunOf(R, b) : f # g => RunOf(R, b) \in Runs(R)
<1>1. ASSUME NEW S \in Runs(R)
      PROVE  \E b \in Begins(R) : S = RunOf(R, b) /\ Cardinality(S) >= 2
  <2>1. PICK b \in Begins(R) : S \in Closed(R, b)
    BY DEF Runs
  <2> QED
    BY <2>1 DEF Closed, Flush
<1>2. ASSUME NEW S \in Runs(R)
      PROVE  /\ S \subseteq Shots(R) /\ IsFiniteSet(S) /\ S # {}
             /\ \E b \in Begins(R) : S = RunOf(R, b)
             /\ \A f \in S : \E h \in S : h # f
  <2>1. PICK b \in Begins(R) : S = RunOf(R, b) /\ Cardinality(S) >= 2
    BY <1>1
  <2>2. S \subseteq Shots(R)
    BY <2>1 DEF RunOf
  <2>3. IsFiniteSet(S)
    BY <2>2, EarlierOrders, FS_Subset
  <2>4. S # {}
    BY <2>1, FS_EmptySet
  <2>5. ASSUME NEW f \in S, ~\E h \in S : h # f
        PROVE  FALSE
    <3>1. S = {f}
      BY <2>5
    <3>2. Cardinality(S) = 1
      BY <3>1, FS_Singleton
    <3> QED
      BY <2>1, <3>2
  <2> QED
    BY <2>1, <2>2, <2>3, <2>4, <2>5
<1>3. ASSUME NEW S \in Runs(R), NEW T \in Runs(R), S \cap T # {}
      PROVE  S = T
  <2>1. PICK b \in Begins(R) : S = RunOf(R, b)
    BY <1>2
  <2>2. PICK c \in Begins(R) : T = RunOf(R, c)
    BY <1>2
  <2>3. PICK x \in RunOf(R, b) : x \in RunOf(R, c)
    BY <1>3, <2>1, <2>2
  <2> QED
    BY <2>1, <2>2, <2>3, RunsApart
<1>4. ASSUME NEW b \in Begins(R), NEW f \in RunOf(R, b), NEW g \in RunOf(R, b), f # g
      PROVE  RunOf(R, b) \in Runs(R)
  <2> DEFINE S == RunOf(R, b)
  <2>1. IsFiniteSet(S) /\ {f, g} \in SUBSET S
    <3>1. S \subseteq Shots(R)
      BY DEF RunOf
    <3>2. IsFiniteSet(S)
      BY <3>1, EarlierOrders, FS_Subset
    <3> QED
      BY <3>2
  <2>2. Cardinality({f, g}) = 2
    <3>1. IsFiniteSet({f}) /\ Cardinality({f}) = 1
      BY FS_Singleton
    <3>2. {f} \cup {g} = {f, g} /\ g \notin {f}
      BY <1>4
    <3>3. Cardinality({f} \cup {g}) = 1 + 1
      BY <3>1, <3>2, FS_AddElement
    <3> QED
      BY <3>2, <3>3
  <2> HIDE DEF S
  <2>3. Cardinality(S) \in Nat /\ Cardinality({f, g}) <= Cardinality(S)
    BY <2>1, FS_Subset, FS_CardinalityType
  <2>4. Cardinality(S) >= 2
    BY <2>2, <2>3
  <2>5. S \in Closed(R, b)
    BY <2>4 DEF Closed, Flush, S
  <2> QED
    BY <2>5 DEF Runs, S
<1> QED
  BY <1>2, <1>3, <1>4

LEMMA BurstsOfRuns ==
    ASSUME AreRows(measured.bursts), AreBursts(bursts, measured.bursts, best)
    PROVE  BurstsAreMoments
<1> DEFINE R == measured.bursts
           after(f, g) == /\ Earlier(R, f, g) /\ Continues(R[f], R[g])
                          /\ ~\E h \in Shots(R) : Earlier(R, f, h) /\ Earlier(R, h, g)
<1>1. AreRows(R) /\ AreBursts(bursts, R, best)
  OBVIOUS
<1> HIDE DEF R
<1>2. ASSUME NEW f \in Shots(R), NEW g \in Shots(R), after(f, g)
      PROVE  \E b \in bursts : {f, g} \subseteq b.members
  <2>1. Follows(R, f, g) /\ Continues(R[f], R[g])
    BY <1>2 DEF Follows
  <2>2. PICK b \in Begins(R) : f \in RunOf(R, b)
    BY <1>1, RunOfFrame
  <2>3. g \in RunOf(R, b) /\ f # g
    BY <1>1, <1>2, <2>1, <2>2, RunGoesOn, EarlierOrders
  <2>4. RunOf(R, b) \in Runs(R)
    BY <1>1, <2>2, <2>3, RunsAre
  <2>5. PICK s \in bursts : s.members = RunOf(R, b)
    BY <1>1, <2>4 DEF AreBursts
  <2> QED
    BY <2>2, <2>3, <2>5
<1>3. \A b, c \in bursts : b = c \/ b.members \cap c.members = {}
  BY <1>1, RunsAre DEF AreBursts
<1>4. ASSUME NEW s \in bursts, NEW f \in s.members
      PROVE  /\ f \in Shots(R) /\ \E g \in s.members : after(f, g) \/ after(g, f)
             /\ \A h \in s.members : f = h \/ (Earlier(R, f, h) => \E g \in s.members : after(f, g))
  <2>1. s.members \in Runs(R)
    BY <1>1 DEF AreBursts
  <2>2. PICK b \in Begins(R) : s.members = RunOf(R, b)
    BY <1>1, <2>1, RunsAre
  <2>3. \A h \in s.members : h \in Shots(R)
    BY <1>1, <2>1, RunsAre
  <2>4. ASSUME NEW h \in s.members, Earlier(R, f, h)
        PROVE  \E g \in s.members : after(f, g)
    <3>1. PICK g \in RunOf(R, b) : Follows(R, f, g) /\ Continues(R[f], R[g])
      BY <1>1, <2>2, <2>4, RunIsChain
    <3> QED
      BY <2>2, <3>1 DEF Follows
  <2>5. ASSUME NEW h \in s.members, Earlier(R, h, f)
        PROVE  \E g \in s.members : after(g, f)
    <3>1. PICK g \in RunOf(R, b) : Follows(R, g, f) /\ Continues(R[g], R[f])
      BY <1>1, <2>2, <2>5, RunGoesBack
    <3> QED
      BY <2>2, <3>1 DEF Follows
  <2>6. PICK h \in s.members : h # f
    BY <1>1, <2>1, RunsAre
  <2>7. Earlier(R, f, h) \/ Earlier(R, h, f)
    BY <1>1, <2>3, <2>6, EarlierOrders
  <2> HIDE DEF after
  <2>8. \E g \in s.members : after(f, g) \/ after(g, f)
    BY <2>4, <2>5, <2>6, <2>7
  <2> QED
    BY <2>3, <2>4, <2>8
<1> QED
  BY ONLY <1>2, <1>3, <1>4 DEF BurstsAreMoments, R

LEMMA MeritIsNumber ==
    ASSUME NEW R, AreRows(R), NEW S \in SUBSET DOMAIN R, NEW f \in S
    PROVE  Merit(R, S)[f] \in Int
<1> DEFINE share(n, ns) == (100 * n) \div Most(ns \cup {1})
           sharp == [g \in S |-> R[g].sharp]
           detail == [g \in S |-> R[g].detail]
<1>1. /\ IsFiniteSet(S) /\ f \in DOMAIN R
      /\ \A g \in S : R[g].sharp \in Nat /\ R[g].detail \in Nat /\ R[g].clip \in Nat
  BY RowsAre, RowFields, FS_Subset
<1>2. /\ sharp \in [S -> Nat] /\ {sharp[g] : g \in S} = {R[g].sharp : g \in S}
      /\ detail \in [S -> Nat] /\ {detail[g] : g \in S} = {R[g].detail : g \in S}
  BY <1>1
<1> HIDE DEF sharp, detail
<1>3. Most({R[g].sharp : g \in S} \cup {1}) \in Nat \ {0}
  <2>1. Most({sharp[g] : g \in S} \cup {1}) \in Nat \ {0}
    BY <1>1, <1>2, MostOfNumbers
  <2> QED
    BY <1>2, <2>1
<1>4. Most({R[g].detail : g \in S} \cup {1}) \in Nat \ {0}
  <2>1. Most({detail[g] : g \in S} \cup {1}) \in Nat \ {0}
    BY <1>1, <1>2, MostOfNumbers
  <2> QED
    BY <1>2, <2>1
<1>5. \A n \in Nat, m \in Nat \ {0} : (100 * n) \div m \in Int
  OBVIOUS
<1>6. share(R[f].sharp, {R[g].sharp : g \in S}) \in Int
  BY <1>1, <1>3, <1>5
<1>7. share(R[f].detail, {R[g].detail : g \in S}) \in Int
  BY <1>1, <1>4, <1>5
<1>8. Fewest({R[f].clip, 25}) \in Int
  <2> DEFINE T == {R[f].clip, 25}
  <2>1. T \subseteq Int /\ T # {}
    BY <1>1
  <2>2. IsFiniteSet(T)
    <3>1. IsFiniteSet({R[f].clip}) /\ {R[f].clip} \cup {25} = T
      BY FS_Singleton
    <3> HIDE DEF T
    <3> QED
      BY <3>1, FS_AddElement
  <2> HIDE DEF T
  <2>3. Fewest(T) \in Int
    BY <2>1, <2>2, FewestIs
  <2> QED
    BY <2>3 DEF T
<1>9. Merit(R, S)[f] = 60 * share(R[f].sharp, {R[g].sharp : g \in S})
                    - (IF 2 * R[f].clip > 1 THEN 80 * Fewest({R[f].clip, 25}) ELSE 0)
                    + 20 * share(R[f].detail, {R[g].detail : g \in S})
  BY DEF Merit
<1> HIDE DEF share
<1> QED
  BY <1>6, <1>7, <1>8, <1>9

\* The bursts a job works out are the runs, the best frame of each chosen by
\* byHand where a byHand chose one of its frames.
LEMMA SeriesAreBursts ==
    ASSUME NEW R, AreRows(R), NEW byHand
    PROVE  AreBursts(Series(R, byHand), R, byHand)
<1> DEFINE burst(S) == [members |-> S, kind |-> Looks(R, S), best |-> BestOf(R, S, byHand),
                        protected |-> Protected(Looks(R, S))]
<1>1. Series(R, byHand) = {burst(S) : S \in Runs(R)}
  BY DEF Series
<1>2. ASSUME NEW S \in Runs(R), S \cap byHand # {}
      PROVE  BestOf(R, S, byHand) \in S \cap byHand
  <2> DEFINE T == S \cap byHand
             merit == Merit(R, S)
  <2>1. S \subseteq DOMAIN R /\ IsFiniteSet(S)
    BY RunsAre, EarlierOrders
  <2>2. \A f \in T : merit[f] \in Int
    BY <2>1, MeritIsNumber
  <2>3. T \subseteq Int /\ IsFiniteSet(T) /\ T # {}
    <3>1. T \subseteq S /\ T # {} /\ T \subseteq Int
      BY <1>2, <2>1, RowsAre
    <3> HIDE DEF T
    <3>2. IsFiniteSet(T)
      BY <2>1, <3>1, FS_Subset
    <3> QED
      BY <3>1, <3>2
  <2>4. BestOf(R, S, byHand) = Leading(T, merit)
    BY <1>2 DEF BestOf
  <2>5. T = S \cap byHand
    OBVIOUS
  <2> HIDE DEF T, merit
  <2>6. Leading(T, merit) \in T
    BY <2>2, <2>3, LeadingIs
  <2> QED
    BY <2>4, <2>5, <2>6
<1>3. \A S \in Runs(R) : /\ burst(S).members = S /\ burst(S).best = BestOf(R, S, byHand)
                         /\ burst(S) = [members |-> burst(S).members, kind |-> burst(S).kind,
                                        best |-> burst(S).best, protected |-> burst(S).protected]
  OBVIOUS
<1> HIDE DEF burst
<1>4. \A b \in Series(R, byHand) : b.members \in Runs(R) /\ b = burst(b.members)
  BY <1>1, <1>3
<1>5. \A S \in Runs(R) : burst(S) \in Series(R, byHand) /\ burst(S).members = S
  BY <1>1, <1>3
<1>6. ASSUME NEW b \in Series(R, byHand)
      PROVE  /\ b = [members |-> b.members, kind |-> b.kind, best |-> b.best, protected |-> b.protected]
             /\ b.members \in Runs(R) /\ (b.members \cap byHand # {} => b.best \in b.members \cap byHand)
  <2>1. b.members \in Runs(R) /\ b = burst(b.members)
    BY <1>4
  <2>2. b.best = BestOf(R, b.members, byHand)
    BY <1>3, <2>1
  <2>3. b = [members |-> b.members, kind |-> b.kind, best |-> b.best, protected |-> b.protected]
    BY <1>3, <2>1
  <2> QED
    BY <1>2, <2>1, <2>2, <2>3
<1>7. \A b, c \in Series(R, byHand) : b.members = c.members => b = c
  BY <1>4
<1> QED
  BY ONLY <1>5, <1>6, <1>7 DEF AreBursts

\* What a person said of the bursts is put on top of the runs as they are.
LEMMA CurationKeepsRuns ==
    ASSUME NEW R, AreRows(R), NEW B, NEW byHand, AreBursts(B, R, byHand)
    PROVE  AreBursts({[b EXCEPT !.best = IF b.members \cap byHand = {} THEN @
                                         ELSE Fewest(b.members \cap byHand)] : b \in B}, R, byHand)
<1> DEFINE told(b) == [b EXCEPT !.best = IF b.members \cap byHand = {} THEN @
                                         ELSE Fewest(b.members \cap byHand)]
           T == {told(b) : b \in B}
<1>1. \A b \in B :
         /\ b = [members |-> b.members, kind |-> b.kind, best |-> b.best, protected |-> b.protected]
         /\ b.members \in Runs(R) /\ (b.members \cap byHand # {} => b.best \in b.members \cap byHand)
  BY DEF AreBursts
<1>2. \A b, c \in B : b.members = c.members => b = c
  BY DEF AreBursts
<1>3. \A S \in Runs(R) : \E b \in B : b.members = S
  BY DEF AreBursts
<1>4. ASSUME NEW b \in B
      PROVE  /\ told(b) = [members |-> b.members, kind |-> b.kind, protected |-> b.protected,
                           best |-> IF b.members \cap byHand = {} THEN b.best
                                    ELSE Fewest(b.members \cap byHand)]
  <2> DEFINE m == b.members
             k == b.kind
             e == b.best
             p == b.protected
  <2>1. b = [members |-> m, kind |-> k, best |-> e, protected |-> p]
    BY <1>1
  <2> HIDE DEF m, k, e, p
  <2>2. [[members |-> m, kind |-> k, best |-> e, protected |-> p] EXCEPT
           !.best = IF b.members \cap byHand = {} THEN @ ELSE Fewest(b.members \cap byHand)]
        = [members |-> m, kind |-> k, protected |-> p,
           best |-> IF b.members \cap byHand = {} THEN e ELSE Fewest(b.members \cap byHand)]
    OBVIOUS
  <2> QED
    BY <2>1, <2>2 DEF m, k, e, p
<1>5. ASSUME NEW b \in B, b.members \cap byHand # {}
      PROVE  Fewest(b.members \cap byHand) \in b.members \cap byHand
  <2> DEFINE U == b.members \cap byHand
  <2>1. b.members \in Runs(R)
    BY <1>1
  <2>2. b.members \subseteq DOMAIN R /\ IsFiniteSet(b.members)
    BY <2>1, RunsAre, EarlierOrders
  <2>3. U \subseteq Int /\ U \subseteq b.members /\ U # {}
    BY <1>5, <2>2, RowsAre
  <2> HIDE DEF U
  <2>4. IsFiniteSet(U)
    BY <2>2, <2>3, FS_Subset
  <2>5. Fewest(U) \in U
    BY <2>3, <2>4, FewestIs
  <2> QED
    BY <2>5 DEF U
<1>6. ASSUME NEW b \in B
      PROVE  /\ told(b).members = b.members
             /\ told(b) = [members |-> told(b).members, kind |-> told(b).kind,
                           best |-> told(b).best, protected |-> told(b).protected]
             /\ told(b).members \cap byHand # {} => told(b).best \in told(b).members \cap byHand
  <2>1. /\ told(b).members = b.members
        /\ told(b).best = IF b.members \cap byHand = {} THEN b.best ELSE Fewest(b.members \cap byHand)
    BY <1>4
  <2>2. told(b) = [members |-> told(b).members, kind |-> told(b).kind,
                   best |-> told(b).best, protected |-> told(b).protected]
    BY <1>4
  <2> HIDE DEF told
  <2> QED
    BY <1>5, <2>1, <2>2
<1> HIDE DEF told
<1>7. ASSUME NEW t \in T
      PROVE  /\ t = [members |-> t.members, kind |-> t.kind, best |-> t.best, protected |-> t.protected]
             /\ t.members \in Runs(R) /\ (t.members \cap byHand # {} => t.best \in t.members \cap byHand)
  BY <1>1, <1>6
<1>8. \A s, t \in T : s.members = t.members => s = t
  BY <1>2, <1>6
<1>9. \A S \in Runs(R) : \E t \in T : t.members = S
  BY <1>3, <1>6
<1> HIDE DEF T
<1>10. AreBursts(T, R, byHand)
  BY ONLY <1>7, <1>8, <1>9 DEF AreBursts
<1> QED
  BY <1>10 DEF T, told

\* A press names a frame of one burst: it is the best of that one, and no other
\* burst has it.
LEMMA PressKeepsRuns ==
    ASSUME NEW R, AreRows(R), NEW B, NEW byHand, AreBursts(B, R, byHand), NEW b \in B, NEW f \in b.members
    PROVE  AreBursts((B \ {b}) \cup {[b EXCEPT !.best = f]}, R, (byHand \ b.members) \cup {f})
<1> DEFINE n == [b EXCEPT !.best = f]
           T == (B \ {b}) \cup {n}
           H == (byHand \ b.members) \cup {f}
<1>1. \A c \in B :
         /\ c = [members |-> c.members, kind |-> c.kind, best |-> c.best, protected |-> c.protected]
         /\ c.members \in Runs(R) /\ (c.members \cap byHand # {} => c.best \in c.members \cap byHand)
  BY DEF AreBursts
<1>2. \A c, d \in B : c.members = d.members => c = d
  BY DEF AreBursts
<1>3. \A S \in Runs(R) : \E c \in B : c.members = S
  BY DEF AreBursts
<1>4. n = [members |-> b.members, kind |-> b.kind, best |-> f, protected |-> b.protected]
  <2> DEFINE m == b.members
             k == b.kind
             e == b.best
             p == b.protected
  <2>1. b = [members |-> m, kind |-> k, best |-> e, protected |-> p]
    BY <1>1
  <2> HIDE DEF m, k, e, p
  <2>2. [[members |-> m, kind |-> k, best |-> e, protected |-> p] EXCEPT !.best = f]
        = [members |-> m, kind |-> k, best |-> f, protected |-> p]
    OBVIOUS
  <2> QED
    BY <2>1, <2>2 DEF m, k, e, p
<1>5. n.members = b.members /\ n.best = f
      /\ n = [members |-> n.members, kind |-> n.kind, best |-> n.best, protected |-> n.protected]
  BY <1>4
<1> HIDE DEF n
<1>6. ASSUME NEW c \in B \ {b}
      PROVE  /\ c.members \cap b.members = {}
             /\ c.members \cap H # {} => c.best \in c.members \cap H
  <2>1. c.members \in Runs(R) /\ b.members \in Runs(R) /\ c.members # b.members
    BY <1>1, <1>2
  <2>2. c.members \cap b.members = {}
    BY <2>1, RunsAre
  <2>3. ASSUME c.members \cap H # {}
        PROVE  c.best \in c.members \cap H
    <3>1. c.members \cap byHand # {}
      BY <2>2, <2>3
    <3>2. c.best \in c.members \cap byHand
      BY <1>1, <3>1
    <3> QED
      BY <2>2, <3>2
  <2> QED
    BY <2>2, <2>3
<1>7. n.members \cap H # {} => n.best \in n.members \cap H
  BY <1>5
<1>8. ASSUME NEW t \in T
      PROVE  /\ t = [members |-> t.members, kind |-> t.kind, best |-> t.best, protected |-> t.protected]
             /\ t.members \in Runs(R) /\ (t.members \cap H # {} => t.best \in t.members \cap H)
  <2>1. CASE t = n
    BY <1>1, <1>5, <1>7, <2>1
  <2>2. CASE t # n
    BY <1>1, <1>6, <2>2
  <2> QED
    BY <2>1, <2>2
<1>9. \A s, t \in T : s.members = t.members => s = t
  BY <1>2, <1>5
<1>10. \A S \in Runs(R) : \E t \in T : t.members = S
  BY <1>3, <1>5
<1> HIDE DEF T, H
<1>11. AreBursts(T, R, H)
  BY ONLY <1>8, <1>9, <1>10 DEF AreBursts
<1> QED
  BY <1>11 DEF T, H, n

(* ------------------------------ the invariant -------------------------- *)
LEMMA FilledRow ==
    ASSUME NEW r \in IndexRow
    PROVE  /\ Filled(r) \in IndexRow /\ Measured(Filled(r))
           /\ Filled(r).dated = r.dated /\ Filled(r).taken = r.taken
<1>1. /\ r.chroma \in STRING /\ r.tonal \in STRING
      /\ r.tint.chroma \in Tone /\ r.tint.tonal \in Tone
  BY DEF IndexRow
<1>2. [r EXCEPT !.chroma = r.tint.chroma, !.tonal = r.tint.tonal] \in IndexRow
  BY <1>1 DEF IndexRow, Tone
<1>3. /\ [r EXCEPT !.chroma = r.tint.chroma, !.tonal = r.tint.tonal].chroma = r.tint.chroma
      /\ [r EXCEPT !.chroma = r.tint.chroma, !.tonal = r.tint.tonal].dated = r.dated
      /\ [r EXCEPT !.chroma = r.tint.chroma, !.tonal = r.tint.tonal].taken = r.taken
      /\ [r EXCEPT !.chroma = r.tint.chroma, !.tonal = r.tint.tonal].thumb = r.thumb
  BY DEF IndexRow
<1> QED
  BY <1>1, <1>2, <1>3 DEF Filled, Measured, Tone

LEMMA DatedRow ==
    ASSUME NEW r \in IndexRow, NEW t \in Nat
    PROVE  LET d == [r EXCEPT !.taken = t, !.dated = "manual"]
           IN d \in IndexRow /\ d.taken = t /\ d.dated = "manual"
<1> DEFINE d == [r EXCEPT !.taken = t, !.dated = "manual"]
<1>1. d \in IndexRow
  BY DEF IndexRow, DateSource
<1>2. d.taken = t
  BY DEF IndexRow
<1>3. d.dated = "manual"
  BY DEF IndexRow
<1> QED
  BY <1>1, <1>2, <1>3

LEMMA UpsertedRow ==
    ASSUME NEW old \in IndexRow, NEW new \in IndexRow
    PROVE  /\ UpsertMeta(old, new) \in IndexRow
           /\ old.dated = "manual" => /\ UpsertMeta(old, new).dated = "manual"
                                      /\ UpsertMeta(old, new).taken = old.taken
<1>1. old.taken \in Nat
  BY RowFields
<1> QED
  BY <1>1, DatedRow DEF UpsertMeta

LEMMA RowsOfIndex ==
    ASSUME HandInv
    PROVE  AreRows(Rows) /\ DOMAIN Rows = present /\ \A f \in present : Rows[f] = index[f]
BY DEF HandInv, Rows, AreRows

LEMMA NothingIsRows == /\ AreRows(Nothing) /\ DOMAIN Nothing = {}
                       /\ \A F, h : Nothing = Families(Nothing, F, h)
                       /\ \A h : AreBursts({}, Nothing, h)
<1>1. AreRows(Nothing) /\ DOMAIN Nothing = {}
  BY DEF AreRows, Nothing
<1>2. \A F, h : Nothing = Families(Nothing, F, h)
  BY <1>1 DEF Families, Nothing
<1>3. Runs(Nothing) = {}
  BY <1>1 DEF Runs, Begins, Shots
<1> QED
  BY <1>1, <1>2, <1>3 DEF AreBursts

LEMMA ResemblanceStarts ==
    ASSUME ResemblanceInit
    PROVE  ResemblanceInv
<1>1. index \in [File -> IndexRow] /\ kept \in Seq(File)
  BY RowsAssumption DEF ResemblanceInit
<1>2. HandInv
  <2>1. present \subseteq File /\ kinds \in [File -> [kind : Category, manual : BOOLEAN]]
    <3> DEFINE none == [kind |-> "none", manual |-> FALSE]
    <3>1. none \in [kind : Category, manual : BOOLEAN]
      <4>1. "none" \in Category /\ FALSE \in BOOLEAN
        BY DEF Category
      <4> QED
        BY <4>1
    <3>2. kinds = [f \in File |-> none] /\ present = File
      BY DEF ResemblanceInit
    <3> HIDE DEF none
    <3> QED
      BY <3>1, <3>2
  <2>2. \A f \in File : index[f].taken \in Nat
    BY <1>1, RowFields
  <2>3. \A f \in File : /\ chosen[f].date = IF index[f].dated = "manual" THEN index[f].taken ELSE 0
                        /\ chosen[f].kind = "none"
    BY DEF ResemblanceInit
  <2>4. chosen \in [File -> [date : Nat, kind : Category]]
    <3> DEFINE first(f) == [date |-> IF index[f].dated = "manual" THEN index[f].taken ELSE 0,
                            kind |-> "none"]
    <3>1. \A f \in File : first(f) \in [date : Nat, kind : Category]
      <4>1. "none" \in Category
        BY DEF Category
      <4> QED
        BY <2>2, <4>1
    <3>2. chosen = [f \in File |-> first(f)]
      BY DEF ResemblanceInit
    <3> HIDE DEF first
    <3> QED
      BY <3>1, <3>2
  <2> QED
    BY <1>1, <2>1, <2>3, <2>4 DEF HandInv
<1>3. StoredInv
  <2>1. /\ measured = [groups |-> Nothing, bursts |-> Nothing, kinds |-> Nothing]
        /\ groups = Nothing /\ bursts = {}
    BY DEF ResemblanceInit
  <2> QED
    BY <2>1, NothingIsRows DEF StoredInv
<1>4. BuildInv
  BY DEF ResemblanceInit, BuildInv, Idle, At
<1> QED
  BY <1>2, <1>3, <1>4 DEF ResemblanceInv

\* A step that leaves what is stored, what a byHand said, or both.
LEMMA StoredStays ==
    ASSUME StoredInv, UNCHANGED <<groups, bursts, measured, kept, best>>
    PROVE  StoredInv'
BY DEF StoredInv

LEMMA HandStays ==
    ASSUME HandInv, present' \subseteq present, UNCHANGED <<index, kinds, kept, chosen>>
    PROVE  HandInv'
BY DEF HandInv

LEMMA BuildIsQuiet ==
    ASSUME build'.at \in {"idle", "begin", "restore", "fill"}, build'.at = "idle" => build' = Idle
    PROVE  BuildInv'
BY DEF BuildInv, At, Idle

LEMMA StageDoneIsQuiet ==
    ASSUME StageDone
    PROVE  BuildInv'
<1>1. build' = IF Len(build.todo) = 1 THEN Idle ELSE [todo |-> Tail(build.todo), at |-> "begin"]
  BY DEF StageDone, GoesTo
<1>2. build'.at \in {"idle", "begin"} /\ (build'.at = "idle" => build' = Idle)
  BY <1>1 DEF Idle
<1> QED
  BY <1>2, BuildIsQuiet

\* A step that goes further in a stage without storing anything.
LEMMA FurtherKeeps ==
    ASSUME ResemblanceInv, NEW stage, NEW them, NEW made, Further(stage, them, made)
    PROVE  HandInv' /\ StoredInv'
<1>1. UNCHANGED <<groups, bursts, kinds, measured, kept, best, chosen, index, present>>
  BY DEF Further, GoesTo, Hands, Stored
<1> QED
  BY <1>1, StoredStays, HandStays DEF ResemblanceInv

LEMMA FurtherIs ==
    ASSUME NEW stage, NEW them, NEW made, Further(stage, them, made)
    PROVE  /\ build' = [todo |-> build.todo, at |-> stage, rows |-> them, made |-> made]
           /\ asked' = asked /\ UNCHANGED <<index, present, kept, best>>
BY DEF Further, GoesTo, Hands

\* The passes: what one hands on is whole, or the job was told to stop and the
\* check that follows takes it down.
LEMMA PassesKeep ==
    ASSUME ResemblanceInv, ReadFamilies \/ Candidates \/ Verify \/ Verification \/ WriteFamilies
    PROVE  ResemblanceInv'
<1>1. CASE ReadFamilies
  <2>1. CASE present = {}
    <3>1. StageDone /\ Stored /\ UNCHANGED index
      BY <1>1, <2>1 DEF ReadFamilies
    <3>2. UNCHANGED <<groups, bursts, kinds, measured, kept, best, chosen, index, present>>
      BY <3>1 DEF StageDone, GoesTo, Hands, Stored
    <3> QED
      BY <3>1, <3>2, StageDoneIsQuiet, StoredStays, HandStays DEF ResemblanceInv
  <2>2. CASE present # {}
    <3>1. Further("sweep", Rows, {})
      BY <1>1, <2>2 DEF ReadFamilies
    <3>2. build'.at = "sweep" /\ build'.rows = Rows
      BY <3>1, FurtherIs
    <3>3. AreRows(Rows)
      BY RowsOfIndex DEF ResemblanceInv
    <3>4. BuildInv'
      BY <3>2, <3>3 DEF BuildInv, At
    <3> QED
      BY <3>1, <3>4, FurtherKeeps DEF ResemblanceInv
  <2> QED
    BY <2>1, <2>2
<1>2. CASE Candidates
  <2>1. build.at = "sweep" /\ AreRows(build.rows)
    BY <1>2 DEF Candidates, At, ResemblanceInv, BuildInv
  <2>2. PICK S \in IF asked THEN SUBSET DOMAIN build.rows ELSE {DOMAIN build.rows} :
          Further("leads", build.rows, UNION {LeadsOf(build.rows, a) : a \in S})
    BY <1>2 DEF Candidates
  <2>3. /\ build'.at = "leads" /\ build'.rows = build.rows /\ asked' = asked
        /\ build'.made = UNION {LeadsOf(build.rows, a) : a \in S}
    BY <2>2, FurtherIs
  <2>4. ~asked => build'.made = Leads(build.rows)
    BY <2>3 DEF Leads
  <2>5. BuildInv'
    BY <2>1, <2>3, <2>4 DEF BuildInv, At
  <2> QED
    BY <2>2, <2>5, FurtherKeeps DEF ResemblanceInv
<1>3. CASE Verify
  <2>1. /\ AreRows(build.rows) /\ build.made = Leads(build.rows)
        /\ Further("verify", build.rows, build.made)
    BY <1>3 DEF Verify, At, Passed, ResemblanceInv, BuildInv
  <2>2. build'.at = "verify" /\ build'.rows = build.rows /\ build'.made = build.made
    BY <2>1, FurtherIs
  <2>3. BuildInv'
    BY <2>1, <2>2 DEF BuildInv, At
  <2> QED
    BY <2>1, <2>3, FurtherKeeps DEF ResemblanceInv
<1>4. CASE Verification
  <2>1. build.at = "verify" /\ AreRows(build.rows) /\ build.made = Leads(build.rows)
    BY <1>4 DEF Verification, At, ResemblanceInv, BuildInv
  <2>2. PICK S \in IF asked THEN SUBSET build.made ELSE {build.made} :
          Further("found", build.rows, {l \in S : Verified(build.rows, l)})
    BY <1>4 DEF Verification
  <2>3. /\ build'.at = "found" /\ build'.rows = build.rows /\ asked' = asked
        /\ build'.made = {l \in S : Verified(build.rows, l)}
    BY <2>2, FurtherIs
  <2>4. ~asked => build'.made = Found(build.rows)
    BY <2>1, <2>3 DEF Found
  <2>5. BuildInv'
    BY <2>1, <2>3, <2>4 DEF BuildInv, At
  <2> QED
    BY <2>2, <2>5, FurtherKeeps DEF ResemblanceInv
<1>5. CASE WriteFamilies
  <2>1. /\ At("families", "found") /\ AreRows(build.rows) /\ build.made = Found(build.rows)
        /\ Further("commit", build.rows, Families(build.rows, build.made, kept))
    BY <1>5 DEF WriteFamilies, At, Passed, ResemblanceInv, BuildInv
  <2>2. /\ build'.at = "commit" /\ build'.rows = build.rows /\ build'.todo = build.todo
        /\ build'.made = Families(build.rows, Found(build.rows), kept) /\ kept' = kept
    BY <2>1, FurtherIs
  <2>3. Head(build.todo) = "families"
    BY <2>1 DEF At
  <2>4. BuildInv'
    BY <2>1, <2>2, <2>3 DEF BuildInv, At
  <2> QED
    BY <2>1, <2>4, FurtherKeeps DEF ResemblanceInv
<1> QED
  BY <1>1, <1>2, <1>3, <1>4, <1>5

LEMMA WritingKeeps ==
    ASSUME ResemblanceInv, WriteSeries \/ Measure \/ WriteCategories
    PROVE  ResemblanceInv'
<1>1. AreRows(Rows)
  BY RowsOfIndex DEF ResemblanceInv
<1>2. CASE WriteSeries
  <2>1. At("series", "begin") /\ Further("commit", Rows, Series(Rows, best))
    BY <1>2 DEF WriteSeries
  <2>2. /\ build'.at = "commit" /\ build'.rows = Rows /\ build'.todo = build.todo
        /\ build'.made = Series(Rows, best) /\ best' = best
    BY <2>1, FurtherIs
  <2>3. Head(build.todo) = "series"
    BY <2>1 DEF At
  <2>4. BuildInv'
    BY <1>1, <2>2, <2>3 DEF BuildInv, At
  <2> QED
    BY <2>1, <2>4, FurtherKeeps DEF ResemblanceInv
<1>3. CASE Measure
  <2>1. Further("fill", Rows, {})
    BY <1>3 DEF Measure
  <2>2. build'.at = "fill"
    BY <2>1, FurtherIs
  <2>3. BuildInv'
    BY <2>2, BuildIsQuiet
  <2> QED
    BY <2>1, <2>3, FurtherKeeps DEF ResemblanceInv
<1>4. CASE WriteCategories
  <2>1. At("categories", "filled") /\ Further("commit", Rows, {})
    BY <1>4 DEF WriteCategories, ReadAgain
  <2>2. build'.at = "commit" /\ build'.rows = Rows /\ build'.todo = build.todo
    BY <2>1, FurtherIs
  <2>3. Head(build.todo) = "categories" /\ build.at = "filled"
    BY <2>1 DEF At
  <2>4. \A f \in DOMAIN Rows : Measured(Rows[f])
    BY <2>3, RowsOfIndex DEF ResemblanceInv, BuildInv
  <2>5. BuildInv'
    BY <1>1, <2>2, <2>3, <2>4 DEF BuildInv, At
  <2> QED
    BY <2>1, <2>5, FurtherKeeps DEF ResemblanceInv
<1> QED
  BY <1>2, <1>3, <1>4

LEMMA CommitsKeep ==
    ASSUME ResemblanceInv, CommitFamilies \/ CommitSeries \/ restore_curation
    PROVE  ResemblanceInv'
<1>1. CASE CommitFamilies
  <2>1. /\ build.at = "commit" /\ AreRows(build.rows)
        /\ build.made = Families(build.rows, Found(build.rows), kept)
    BY <1>1 DEF CommitFamilies, At, ResemblanceInv, BuildInv
  <2>2. /\ groups' = build.made /\ measured' = [measured EXCEPT !.groups = build.rows]
        /\ build'.at = "restore"
        /\ UNCHANGED <<index, present, bursts, kinds, kept, best, chosen>>
    BY <1>1 DEF CommitFamilies, InsertFamilies, GoesTo, Hands
  <2>3. /\ measured = [groups |-> measured.groups, bursts |-> measured.bursts,
                       kinds |-> measured.kinds]
        /\ AreRows(measured.bursts) /\ AreBursts(bursts, measured.bursts, best)
        /\ \A f \in DOMAIN measured.kinds : Measured(measured.kinds[f])
    BY DEF ResemblanceInv, StoredInv
  <2>4. /\ measured' = [groups |-> build.rows, bursts |-> measured.bursts, kinds |-> measured.kinds]
    BY <2>2, <2>3
  <2>5. StoredInv'
    BY <2>1, <2>2, <2>3, <2>4 DEF StoredInv
  <2>6. BuildInv'
    BY <2>2, BuildIsQuiet
  <2> QED
    BY <2>2, <2>5, <2>6, HandStays DEF ResemblanceInv
<1>2. CASE CommitSeries
  <2>1. /\ build.at = "commit" /\ AreRows(build.rows) /\ build.made = Series(build.rows, best)
    BY <1>2 DEF CommitSeries, At, ResemblanceInv, BuildInv
  <2>2. /\ bursts' = build.made /\ measured' = [measured EXCEPT !.bursts = build.rows]
        /\ build'.at = "restore"
        /\ UNCHANGED <<index, present, groups, kinds, kept, best, chosen>>
    BY <1>2 DEF CommitSeries, InsertSeries, GoesTo, Hands
  <2>3. /\ measured = [groups |-> measured.groups, bursts |-> measured.bursts,
                       kinds |-> measured.kinds]
        /\ AreRows(measured.groups)
        /\ groups = Families(measured.groups, Found(measured.groups), kept)
        /\ \A f \in DOMAIN measured.kinds : Measured(measured.kinds[f])
    BY DEF ResemblanceInv, StoredInv
  <2>4. /\ measured' = [groups |-> measured.groups, bursts |-> build.rows, kinds |-> measured.kinds]
    BY <2>2, <2>3
  <2>5. AreBursts(bursts', build.rows, best)
    BY <2>1, <2>2, SeriesAreBursts
  <2>6. StoredInv'
    BY <2>1, <2>2, <2>3, <2>4, <2>5 DEF StoredInv
  <2>7. BuildInv'
    BY <2>2, BuildIsQuiet
  <2> QED
    BY <2>2, <2>6, <2>7, HandStays DEF ResemblanceInv
<1>3. CASE restore_curation
  <2> DEFINE told == {[b EXCEPT !.best = IF b.members \cap best = {} THEN @
                                         ELSE Fewest(b.members \cap best)] : b \in bursts}
  <2>1. StageDone /\ bursts' = told /\ UNCHANGED <<index, groups, kinds, measured>>
    BY <1>3 DEF restore_curation
  <2>2. UNCHANGED <<present, kept, best, chosen>>
    BY <2>1 DEF StageDone, GoesTo, Hands
  <2>3. AreBursts(told, measured.bursts, best)
    BY CurationKeepsRuns DEF ResemblanceInv, StoredInv
  <2> HIDE DEF told
  <2>4. StoredInv'
    BY <2>1, <2>2, <2>3 DEF ResemblanceInv, StoredInv
  <2>5. BuildInv'
    BY <2>1, StageDoneIsQuiet
  <2> QED
    BY <2>1, <2>2, <2>4, <2>5, HandStays DEF ResemblanceInv
<1> QED
  BY <1>1, <1>2, <1>3

LEMMA FiguresKeep ==
    ASSUME ResemblanceInv, Fill
    PROVE  ResemblanceInv'
<1>1. /\ index' = [f \in File |-> IF f \in present THEN Filled(index[f]) ELSE index[f]]
      /\ build' = [todo |-> build.todo, at |-> "filled", rows |-> build.rows]
      /\ UNCHANGED <<present, groups, bursts, kinds, measured, kept, best, chosen>>
  BY DEF Fill, GoesTo, Hands, Stored
<1>2. HandInv
  BY DEF ResemblanceInv
<1>3. \A f \in File : /\ index'[f] \in IndexRow /\ (f \in present => Measured(index'[f]))
                      /\ index'[f].dated = index[f].dated /\ index'[f].taken = index[f].taken
  BY <1>1, <1>2, FilledRow DEF HandInv
<1>4. HandInv'
  <2>1. index' \in [File -> IndexRow]
    BY <1>1, <1>3
  <2> QED
    BY <1>1, <1>2, <1>3, <2>1 DEF HandInv
<1>5. BuildInv'
  <2>1. \A f \in present' : Measured(index'[f])
    BY <1>1, <1>2, <1>3 DEF HandInv
  <2>2. build'.at = "filled"
    BY <1>1
  <2> QED
    BY <2>1, <2>2 DEF BuildInv, At
<1> QED
  BY <1>1, <1>4, <1>5, StoredStays DEF ResemblanceInv

LEMMA CategoriesKeep ==
    ASSUME ResemblanceInv, CommitCategories
    PROVE  ResemblanceInv'
<1>1. /\ At("categories", "commit") /\ StageDone
      /\ kinds' = [f \in File |-> IF f \in DOMAIN build.rows THEN SetCategory(f, Kind(build.rows[f]))
                                  ELSE kinds[f]]
      /\ measured' = [measured EXCEPT !.kinds = [f \in DOMAIN @ \cup DOMAIN build.rows |->
                                        IF f \in DOMAIN build.rows THEN build.rows[f] ELSE @[f]]]
      /\ UNCHANGED <<index, groups, bursts, present, kept, best, chosen>>
  BY DEF CommitCategories, StageDone, GoesTo, Hands
<1>2. HandInv /\ StoredInv /\ \A f \in DOMAIN build.rows : Measured(build.rows[f])
  BY <1>1 DEF ResemblanceInv, BuildInv
<1>3. HandInv'
  <2>1. ASSUME NEW f \in File
        PROVE  /\ kinds'[f] \in [kind : Category, manual : BOOLEAN]
               /\ kinds[f].manual => kinds'[f] = kinds[f]
    <3> DEFINE k == Kind(build.rows[f])
    <3>1. k \in Category
      BY DEF Kind, Category
    <3>2. FALSE \in BOOLEAN
      OBVIOUS
    <3> HIDE DEF k
    <3>3. [kind |-> k, manual |-> FALSE] \in [kind : Category, manual : BOOLEAN]
      BY <3>1, <3>2
    <3>4. kinds[f] \in [kind : Category, manual : BOOLEAN]
      BY <1>2 DEF HandInv
    <3>5. kinds'[f] = IF f \in DOMAIN build.rows THEN SetCategory(f, k) ELSE kinds[f]
      BY <1>1 DEF k
    <3>6. SetCategory(f, k) = IF kinds[f].manual THEN kinds[f] ELSE [kind |-> k, manual |-> FALSE]
      BY DEF SetCategory
    <3> QED
      BY <3>3, <3>4, <3>5, <3>6
  <2>2. kinds' \in [File -> [kind : Category, manual : BOOLEAN]]
    BY <1>1, <2>1
  <2>3. /\ index' \in [File -> IndexRow] /\ present' \subseteq File /\ kept' \in Seq(File)
        /\ chosen' \in [File -> [date : Nat, kind : Category]]
        /\ \A f \in File : chosen'[f].date # 0 =>
              index'[f].dated = "manual" /\ index'[f].taken = chosen'[f].date
    BY <1>1, <1>2 DEF HandInv
  <2>4. \A f \in File : chosen[f].kind # "none" => kinds[f].manual /\ kinds[f].kind = chosen[f].kind
    BY <1>2 DEF HandInv
  <2>5. \A f \in File : chosen'[f].kind # "none" => kinds'[f].manual /\ kinds'[f].kind = chosen'[f].kind
    BY <1>1, <2>1, <2>4
  <2> QED
    BY <2>2, <2>3, <2>5 DEF HandInv
<1>4. StoredInv'
  <2> DEFINE M == measured.kinds
             N == [f \in DOMAIN M \cup DOMAIN build.rows |->
                      IF f \in DOMAIN build.rows THEN build.rows[f] ELSE M[f]]
  <2>1. measured = [groups |-> measured.groups, bursts |-> measured.bursts, kinds |-> M]
    BY <1>2 DEF StoredInv
  <2>2. measured' = [groups |-> measured.groups, bursts |-> measured.bursts, kinds |-> N]
    BY <1>1, <2>1
  <2>3. \A f \in DOMAIN M : Measured(M[f])
    BY <1>2 DEF StoredInv
  <2>4. \A f \in DOMAIN N : Measured(N[f])
    BY <1>2, <2>3
  <2> HIDE DEF M, N
  <2>5. \A f \in DOMAIN measured'.kinds : Measured(measured'.kinds[f])
    BY <2>2, <2>4
  <2>6. measured'.groups = measured.groups /\ measured'.bursts = measured.bursts
        /\ measured' = [groups |-> measured'.groups, bursts |-> measured'.bursts,
                        kinds |-> measured'.kinds]
    BY <2>2
  <2> QED
    BY <1>1, <1>2, <2>5, <2>6 DEF StoredInv
<1> QED
  BY <1>1, <1>3, <1>4, StageDoneIsQuiet DEF ResemblanceInv

\* Starting, stopping, cancelling and killing a job touch nothing stored.
LEMMA JobsKeep ==
    ASSUME ResemblanceInv,
           \/ \E stages \in Stages : StartBuild(stages)
           \/ Stop \/ CancelBuild \/ KillBuild
    PROVE  ResemblanceInv'
<1>1. UNCHANGED <<groups, bursts, kinds, measured, kept, best, chosen, index, present>>
  BY DEF StartBuild, Stop, CancelBuild, KillBuild, SameFiles, Stored, Hands
<1>2. CASE \E stages \in Stages : StartBuild(stages)
  <2>1. build'.at = "begin"
    BY <1>2 DEF StartBuild
  <2> QED
    BY <1>1, <2>1, BuildIsQuiet, StoredStays, HandStays DEF ResemblanceInv
<1>3. CASE Stop \/ KillBuild
  <2>1. build' = Idle /\ build'.at = "idle"
    BY <1>3 DEF Stop, KillBuild, Idle
  <2> QED
    BY <1>1, <2>1, BuildIsQuiet, StoredStays, HandStays DEF ResemblanceInv
<1>4. CASE CancelBuild
  <2>1. asked' = TRUE /\ build' = build
    BY <1>4 DEF CancelBuild
  <2>2. BuildInv'
    BY <1>1, <2>1 DEF ResemblanceInv, BuildInv, At
  <2> QED
    BY <1>1, <2>2, StoredStays, HandStays DEF ResemblanceInv
<1> QED
  BY <1>2, <1>3, <1>4

\* A byHand presses only while no job runs.
LEMMA PressIsQuiet ==
    ASSUME Pressed
    PROVE  BuildInv' /\ UNCHANGED kept
<1>1. build = Idle /\ build' = build
  BY DEF Pressed
<1>2. build'.at = "idle" /\ build' = Idle
  BY <1>1 DEF Idle
<1> QED
  BY <1>2, BuildIsQuiet DEF Pressed

LEMMA PressesKeep ==
    ASSUME ResemblanceInv, NEW f \in Touched,
           \/ \E b \in bursts : best_(b, f)
           \/ category(f, "document") \/ \E t \in Dates : date(f, t)
           \/ \E r \in Readings[f] : Reindex(f, r)
           \/ Leave(f)
    PROVE  ResemblanceInv'
<1>1. Pressed /\ BuildInv' /\ kept' = kept /\ f \in File /\ HandInv /\ StoredInv
  <2>1. Pressed
    BY DEF best_, category, date, Reindex, Leave
  <2> QED
    BY <2>1, PressIsQuiet, FilesAssumption DEF ResemblanceInv
<1>2. CASE \E b \in bursts : best_(b, f)
  <2>1. PICK b \in bursts : best_(b, f)
    BY <1>2
  <2>2. /\ f \in b.members /\ bursts' = (bursts \ {b}) \cup {[b EXCEPT !.best = f]}
        /\ best' = (best \ b.members) \cup {f}
        /\ UNCHANGED <<groups, kinds, measured, chosen, index, present>>
    BY <2>1 DEF best_, SameFiles
  <2>3. AreRows(measured.bursts) /\ AreBursts(bursts, measured.bursts, best)
    BY <1>1 DEF StoredInv
  <2>4. AreBursts(bursts', measured.bursts, best')
    BY <2>2, <2>3, PressKeepsRuns
  <2>5. StoredInv'
    BY <1>1, <2>2, <2>4 DEF StoredInv
  <2> QED
    BY <1>1, <2>2, <2>5, HandStays DEF ResemblanceInv
<1>3. CASE category(f, "document")
  <2> DEFINE by == [kind |-> "document", manual |-> TRUE]
  <2>1. /\ kinds' = [kinds EXCEPT ![f] = by] /\ chosen' = [chosen EXCEPT ![f].kind = "document"]
        /\ UNCHANGED <<groups, bursts, measured, best, index, present>>
    BY <1>3 DEF category, SetCategoryManual, SameFiles
  <2>2. /\ kinds \in [File -> [kind : Category, manual : BOOLEAN]]
        /\ chosen \in [File -> [date : Nat, kind : Category]]
    BY <1>1 DEF HandInv
  <2>3. "document" \in Category /\ TRUE \in BOOLEAN
    BY DEF Category
  <2>4. by \in [kind : Category, manual : BOOLEAN] /\ by.manual = TRUE /\ by.kind = "document"
    BY <2>3
  <2> HIDE DEF by
  <2>5. /\ kinds' \in [File -> [kind : Category, manual : BOOLEAN]]
        /\ kinds'[f] = by /\ \A g \in File \ {f} : kinds'[g] = kinds[g]
    BY <1>1, <2>1, <2>2, <2>4
  <2>6. /\ chosen' \in [File -> [date : Nat, kind : Category]]
        /\ chosen'[f].kind = "document" /\ \A g \in File \ {f} : chosen'[g] = chosen[g]
        /\ chosen'[f].date = chosen[f].date
    BY <1>1, <2>1, <2>2, <2>3
  <2>7. \A g \in File :
           /\ chosen'[g].date # 0 => index'[g].dated = "manual" /\ index'[g].taken = chosen'[g].date
           /\ chosen'[g].kind # "none" => kinds'[g].manual /\ kinds'[g].kind = chosen'[g].kind
    BY <1>1, <2>1, <2>4, <2>5, <2>6 DEF HandInv
  <2>8. HandInv'
    BY <1>1, <2>1, <2>5, <2>6, <2>7 DEF HandInv
  <2> QED
    BY <1>1, <2>1, <2>8, StoredStays DEF ResemblanceInv
<1>4. CASE \E t \in Dates : date(f, t)
  <2>1. PICK t \in Dates : date(f, t)
    BY <1>4
  <2> DEFINE d == [index[f] EXCEPT !.taken = t, !.dated = "manual"]
  <2>2. /\ index' = [index EXCEPT ![f].taken = t, ![f].dated = "manual"]
        /\ chosen' = [chosen EXCEPT ![f].date = t]
        /\ UNCHANGED <<groups, bursts, kinds, measured, best, present>>
    BY <2>1 DEF date, Stored
  <2>3. index \in [File -> IndexRow] /\ chosen \in [File -> [date : Nat, kind : Category]] /\ t \in Nat
    BY <1>1, RowsAssumption DEF HandInv
  <2>4. d \in IndexRow /\ d.taken = t /\ d.dated = "manual"
    <3>1. index[f] \in IndexRow
      BY <1>1, <2>3
    <3> QED
      BY <2>3, <3>1, DatedRow
  <2>5. index' = [index EXCEPT ![f] = d]
    BY <1>1, <2>2, <2>3
  <2> HIDE DEF d
  <2>6. /\ index' \in [File -> IndexRow] /\ index'[f] = d
        /\ \A g \in File \ {f} : index'[g] = index[g]
    BY <1>1, <2>3, <2>4, <2>5
  <2>7. /\ chosen' \in [File -> [date : Nat, kind : Category]]
        /\ chosen'[f].date = t /\ \A g \in File \ {f} : chosen'[g] = chosen[g]
        /\ chosen'[f].kind = chosen[f].kind
    BY <1>1, <2>2, <2>3
  <2>8. \A g \in File :
           /\ chosen'[g].date # 0 => index'[g].dated = "manual" /\ index'[g].taken = chosen'[g].date
           /\ chosen'[g].kind # "none" => kinds'[g].manual /\ kinds'[g].kind = chosen'[g].kind
    BY <1>1, <2>2, <2>4, <2>6, <2>7 DEF HandInv
  <2>9. HandInv'
    BY <1>1, <2>2, <2>6, <2>7, <2>8 DEF HandInv
  <2> QED
    BY <1>1, <2>2, <2>9, StoredStays DEF ResemblanceInv
<1>5. CASE \E r \in Readings[f] : Reindex(f, r)
  <2>1. PICK r \in Readings[f] : Reindex(f, r)
    BY <1>5
  <2> DEFINE u == UpsertMeta(index[f], r)
  <2>2. /\ index' = [index EXCEPT ![f] = u]
        /\ UNCHANGED <<groups, bursts, kinds, measured, best, present, chosen>>
    BY <2>1 DEF Reindex, Stored
  <2>3. index \in [File -> IndexRow] /\ r \in IndexRow
    BY <1>1, RowsAssumption DEF HandInv
  <2>4. /\ u \in IndexRow
        /\ index[f].dated = "manual" => u.dated = "manual" /\ u.taken = index[f].taken
    <3>1. index[f] \in IndexRow
      BY <1>1, <2>3
    <3> QED
      BY <2>3, <3>1, UpsertedRow
  <2> HIDE DEF u
  <2>5. /\ index' \in [File -> IndexRow] /\ index'[f] = u
        /\ \A g \in File \ {f} : index'[g] = index[g]
    BY <1>1, <2>2, <2>3, <2>4
  <2>6. HandInv'
    BY <1>1, <2>2, <2>4, <2>5 DEF HandInv
  <2> QED
    BY <1>1, <2>2, <2>6, StoredStays DEF ResemblanceInv
<1>6. CASE Leave(f)
  <2>1. present' \subseteq present /\ UNCHANGED <<groups, bursts, kinds, measured, best, chosen, index>>
    BY <1>6 DEF Leave, Stored
  <2> QED
    BY <1>1, <2>1, StoredStays, HandStays DEF ResemblanceInv
<1> QED
  BY <1>2, <1>3, <1>4, <1>5, <1>6

LEMMA ResemblanceKeeps ==
    ASSUME ResemblanceInv, [ResemblanceNext]_resemblanceVars
    PROVE  ResemblanceInv'
<1>1. CASE UNCHANGED resemblanceVars
  <2>1. UNCHANGED <<groups, bursts, kinds, measured, kept, best, chosen, index, present, build, asked>>
    BY <1>1 DEF resemblanceVars
  <2>2. BuildInv'
    BY <2>1 DEF ResemblanceInv, BuildInv, At
  <2> QED
    BY <2>1, <2>2, StoredStays, HandStays DEF ResemblanceInv
<1>2. CASE ResemblanceNext
  <2>1. \/ \E stages \in Stages : StartBuild(stages)
        \/ ReadFamilies \/ Candidates \/ Verify \/ Verification \/ WriteFamilies \/ CommitFamilies
        \/ WriteSeries \/ CommitSeries \/ restore_curation
        \/ Measure \/ Fill \/ WriteCategories \/ CommitCategories \/ Stop
        \/ \E f \in Touched : \/ \E b \in bursts : best_(b, f)
                              \/ category(f, "document") \/ \E t \in Dates : date(f, t)
                              \/ \E r \in Readings[f] : Reindex(f, r)
                              \/ Leave(f)
        \/ CancelBuild \/ KillBuild
    BY <1>2 DEF ResemblanceNext
  <2> QED
    BY <2>1, PassesKeep, WritingKeeps, CommitsKeep, FiguresKeep, CategoriesKeep, JobsKeep, PressesKeep
<1> QED
  BY <1>1, <1>2

(* ------------------------------- theorems ------------------------------ *)
\* What is stored was made of all the rows it says, by whole passes, and what a
\* person said is where the next job looks: in every reachable state.
THEOREM ResemblanceInvariance == ResemblanceSpec => []ResemblanceInv
<1>1. ResemblanceInit => ResemblanceInv
  BY ResemblanceStarts
<1>2. ResemblanceInv /\ [ResemblanceNext]_resemblanceVars => ResemblanceInv'
  BY ResemblanceKeeps
<1> QED
  BY <1>1, <1>2, PTL DEF ResemblanceSpec

\* What is written as one photograph is whole, whatever the archive, the
\* likeness of its pictures, and the moments a job is cancelled or killed
\* (pc-family lib.rs build_controlled, perceptual.rs).
THEOREM WholeGroupsAlways == ResemblanceSpec => []GroupsAreWhole
<1>1. ResemblanceInv => GroupsAreWhole
  BY WholeGroups DEF ResemblanceInv, StoredInv
<1> QED
  BY <1>1, ResemblanceInvariance, PTL

\* A copy always stands beside the file it copies, and the file a group keeps
\* is none (roles.rs assign, lib.rs build_controlled).
THEOREM CopiesHaveTwins == ResemblanceSpec => []CopiesAreTwins
<1>1. ResemblanceInv => CopiesAreTwins
  BY TrueCopies DEF ResemblanceInv, HandInv, StoredInv
<1> QED
  BY <1>1, ResemblanceInvariance, PTL

\* The bursts are exactly the chains of presses, through every job and press
\* (series.rs detect).
THEOREM BurstsAreRuns == ResemblanceSpec => []BurstsAreMoments
<1>1. ResemblanceInv => BurstsAreMoments
  BY BurstsOfRuns DEF ResemblanceInv, StoredInv
<1> QED
  BY <1>1, ResemblanceInvariance, PTL

\* What a person said of a file, of a burst and of a picture's kind stands
\* through every job (pc-db files.rs upsert_meta and set_category, series.rs
\* build_controlled, service.rs restore_curation).
THEOREM TheHandStands == ResemblanceSpec => []HandStands
<1>1. ASSUME ResemblanceInv
      PROVE  HandStands
  <2>1. \A f \in File : /\ chosen[f].date # 0 => index[f].taken = chosen[f].date
                        /\ chosen[f].kind # "none" => kinds[f].kind = chosen[f].kind
    BY <1>1 DEF ResemblanceInv, HandInv
  <2>2. \A b \in bursts : b.members \cap best # {} => b.best \in best
    BY <1>1 DEF ResemblanceInv, StoredInv, AreBursts
  <2>3. KindsAreMeasured
    BY <1>1 DEF ResemblanceInv, StoredInv, Measured, KindsAreMeasured
  <2> QED
    BY <2>1, <2>2, <2>3 DEF HandStands
<1> QED
  BY <1>1, ResemblanceInvariance, PTL
=============================================================================

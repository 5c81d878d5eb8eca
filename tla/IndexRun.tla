------------------------------ MODULE IndexRun ------------------------------
(***************************************************************************)
(* The index of an archive (crates/pc-work/src/index.rs, pc-walk,          *)
(* crates/pc-db/src/files.rs): a run walks the archive, has readers decode *)
(* in parallel what is not current, and records it through a bounded       *)
(* channel in one transaction after another.  It may be cancelled, refused *)
(* by the thumbnail cache or killed, while other programs rewrite the      *)
(* files; between runs files go to quarantine, come back or are deleted.   *)
(*                                                                         *)
(* The content of a file is the number of the write that made it, and its  *)
(* size, time and inode (its stamp) are that number too: a write changes   *)
(* them.  0 is no file.                                                    *)
(***************************************************************************)
EXTENDS Naturals, Sequences, FiniteSets

CONSTANTS
    Files,       \* paths in the archive
    Readers,     \* threads of the pool
    None,        \* nothing: a value of its own
    Capacity,    \* items the channel holds
    PerDisk,     \* reads at once on the archive's disk
    Odd,         \* writes that make no image
    MaxWrites,   \* bound on writes of other programs
    MaxFaults    \* bound on refused calls, kills and replaced caches

ASSUME NumbersAssumption ==
    /\ Capacity \in Nat \ {0} /\ PerDisk \in Nat \ {0}
    /\ MaxWrites \in Nat /\ MaxFaults \in Nat

Contents == 1 .. MaxWrites
ASSUME OddAssumption == Odd \subseteq Contents

States == {"present", "quarantined", "purged"}

\* A row of `files`: the stamp seen by the walk, what was read, whether it has
\* a thumbnail, whether it has a reason for having none, and its state.
Row  == [stamp : Contents, read : 0 .. MaxWrites, thumb : BOOLEAN, reason : BOOLEAN,
         state : States]
Hit  == [path : Files, stamp : Contents]
Item == [path : Files, stamp : Contents, read : 0 .. MaxWrites, reason : BOOLEAN,
         thumb : {"none", "stored", "failed", "refused"}]

ASSUME NoneAssumption == None \notin Row /\ None \notin Item

VARIABLES
    disk,       \* the content under each path, 0 when there is none
    writes,     \* writes of other programs so far (bounded by MaxWrites)
    aside,      \* the content the tool took from a path to quarantine, or 0
    db,         \* the committed rows
    open,       \* the rows as the open transaction has them
    stored,     \* contents whose thumbnail is in the cache
    cache,      \* is the bound cache still the proven folder?
    run,        \* where the run is
    redo,       \* is everything read again?
    looked,     \* paths the walk passed
    hits,       \* what the walk saw
    todo,       \* hits no reader has taken
    reader,     \* what each reader has in hand
    step,       \* where each reader is
    channel,    \* items on their way to the writer
    hand,       \* the item the writer is recording, or None
    halted,     \* did the cache refuse a thumbnail?
    cancelled,  \* was the job asked to stop?
    failed,     \* files told to be without a thumbnail
    finished,   \* is the latest run marked finished?
    faults      \* refused calls, kills, replaced caches (bounded by MaxFaults)

archive == <<disk, writes, aside>>
walk    == <<redo, looked, hits>>
pool    == <<todo, reader, step, channel>>
writer  == <<open, hand, halted, failed>>
vars    == <<archive, db, stored, cache, run, walk, pool, writer, cancelled, finished, faults>>

------------------------------------------------------------------------------

Fault == faults < MaxFaults /\ faults' = faults + 1
Works == UNCHANGED faults

\* file_is_current: the same stamp, and a thumbnail and evidence, or a reason.
CurrentByStamp(row, stamp) == row # None /\ row.stamp = stamp   \* mutant
IsCurrent(row, stamp) ==
    /\ row # None /\ row.stamp = stamp
    /\ row.reason \/ (row.thumb /\ row.read # 0)

Init ==
    /\ disk = [p \in Files |-> 0] /\ writes = 0 /\ aside = [p \in Files |-> 0]
    /\ db = [p \in Files |-> None] /\ open = db
    /\ stored = {} /\ cache = "proven"
    /\ run = "idle" /\ redo = FALSE /\ looked = {} /\ hits = {}
    /\ todo = {} /\ reader = [r \in Readers |-> None]
    /\ step = [r \in Readers |-> "free"]
    /\ channel = <<>> /\ hand = None
    /\ halted = FALSE /\ cancelled = FALSE /\ failed = {} /\ finished = FALSE
    /\ faults = 0

------------------------------------------------------------------------------
(* The walk, and what it leaves to do.                                       *)

Start ==
    /\ run = "idle" /\ run' = "walk" /\ redo' \in BOOLEAN
    /\ looked' = {} /\ hits' = {} /\ failed' = {}
    /\ halted' = FALSE /\ cancelled' = FALSE /\ finished' = FALSE
    /\ Works
    /\ UNCHANGED <<archive, db, stored, cache, pool, open, hand>>

\* walk_dir: an entry that cannot be looked at is passed over.
Look(p) ==
    /\ run = "walk" /\ p \notin looked /\ ~cancelled
    /\ looked' = looked \cup {p}
    /\ \/ Works /\ disk[p] # 0 /\ hits' = hits \cup {[path |-> p, stamp |-> disk[p]]}
       \/ Works /\ disk[p] = 0 /\ UNCHANGED hits
       \/ Fault /\ UNCHANGED hits
    /\ UNCHANGED <<archive, db, stored, cache, run, redo, pool, writer, cancelled, finished>>

Select ==
    /\ run = "walk" /\ looked = Files
    /\ todo' = {h \in hits : redo \/ ~IsCurrent(db[h.path], h.stamp)}
    /\ IF todo' # {}
       THEN ~cancelled /\ Works /\ run' = "work" /\ UNCHANGED finished
       ELSE /\ run' = "idle"
            /\ \/ Works /\ finished' = TRUE
               \/ Fault /\ UNCHANGED finished
    /\ UNCHANGED <<archive, db, stored, cache, walk, reader, step, channel, writer, cancelled>>

\* Cancelled, a root that cannot be reached, or the index refuses a question.
StopWalk ==
    /\ run = "walk"
    /\ (cancelled /\ Works) \/ Fault
    /\ run' = "idle"
    /\ UNCHANGED <<archive, db, stored, cache, walk, pool, writer, cancelled, finished>>

------------------------------------------------------------------------------
(* The readers.  They go on when the writer has given up: what they send then *)
(* is lost.                                                                   *)

Reading == run \in {"work", "abort"}

\* A cancelled or halted run passes its files over.
Take(r) ==
    /\ Reading /\ step[r] = "free" /\ Works
    /\ \E h \in todo :
          /\ todo' = todo \ {h}
          /\ IF cancelled \/ halted
             THEN UNCHANGED <<reader, step>>
             ELSE /\ step' = [step EXCEPT ![r] = "wait"]
                  /\ reader' = [reader EXCEPT ![r] = [path |-> h.path, stamp |-> h.stamp,
                                       read |-> 0, reason |-> FALSE, thumb |-> "none"]]
    /\ UNCHANGED <<archive, db, stored, cache, run, walk, channel, writer, cancelled, finished>>

\* Semaphore::acquire of the file's disk.
OnDisk == {r \in Readers : step[r] = "read"}
Acquire(r) ==
    /\ step[r] = "wait" /\ Cardinality(OnDisk) < PerDisk /\ Works
    /\ step' = [step EXCEPT ![r] = "read"]
    /\ UNCHANGED <<archive, db, stored, cache, run, walk, todo, reader, channel, writer,
                   cancelled, finished>>

\* read_for_probe and the decoding.  A file that is gone, cannot be read or is
\* no image gets a reason.
Read(r) ==
    /\ step[r] = "read"
    /\ LET content == disk[reader[r].path] IN
       \/ /\ content \notin Odd \cup {0} /\ Works
          /\ reader' = [reader EXCEPT ![r].read = content]
          /\ step' = [step EXCEPT ![r] = "store"]
       \/ /\ (content \in Odd \cup {0} /\ Works) \/ Fault
          /\ reader' = [reader EXCEPT ![r].reason = TRUE]
          /\ step' = [step EXCEPT ![r] = "send"]
    /\ UNCHANGED <<archive, db, stored, cache, run, walk, todo, channel, writer, cancelled,
                   finished>>

\* ThumbStore::put: a bound cache that is not the proven folder refuses.
Store(r) ==
    /\ step[r] = "store"
    /\ \/ /\ cache = "proven" /\ Works
          /\ stored' = stored \cup {reader[r].read}
          /\ reader' = [reader EXCEPT ![r].thumb = "stored"]
       \/ /\ cache = "replaced" /\ Works
          /\ reader' = [reader EXCEPT ![r].thumb = "refused"]
          /\ UNCHANGED stored
       \/ /\ Fault
          /\ reader' = [reader EXCEPT ![r].thumb = "failed"]
          /\ UNCHANGED stored
    /\ step' = [step EXCEPT ![r] = "send"]
    /\ UNCHANGED <<archive, db, cache, run, walk, todo, channel, writer, cancelled, finished>>

\* The channel holds back whoever is ahead of the writer.
Room == Len(channel) < Capacity
Send(r) ==
    /\ step[r] = "send" /\ Works
    /\ IF run = "work" THEN Room /\ channel' = Append(channel, reader[r])
                       ELSE UNCHANGED channel
    /\ step' = [step EXCEPT ![r] = "free"]
    /\ reader' = [reader EXCEPT ![r] = None]
    /\ UNCHANGED <<archive, db, stored, cache, run, walk, todo, writer, cancelled, finished>>

Reader(r) == Take(r) \/ Acquire(r) \/ Read(r) \/ Store(r) \/ Send(r)
AllRead   == todo = {} /\ \A r \in Readers : step[r] = "free"

------------------------------------------------------------------------------
(* The writer.                                                               *)

\* An error leaves the transaction open and is rolled back with its connection.
Abort ==
    /\ run' = "abort"
    /\ open' = db /\ channel' = <<>> /\ hand' = None

\* What a cancelled or halted run still receives is dropped.
UntilHalted == channel # <<>> /\ ~halted   \* mutant
Sent == channel # <<>>
Drops == cancelled \/ halted
Receive ==
    /\ run = "work" /\ hand = None /\ Sent /\ Works
    /\ channel' = Tail(channel)
    /\ hand' = IF Drops THEN None ELSE Head(channel)
    /\ UNCHANGED <<archive, db, stored, cache, run, walk, todo, reader, step, open, halted,
                   failed, cancelled, finished>>

\* upsert_file: a row that is there keeps its state.
StampOf(item) == item.stamp
RowOf(item) ==
    [stamp |-> StampOf(item), read |-> item.read, reason |-> item.reason,
     thumb |-> item.thumb = "stored",
     state |-> IF open[item.path] = None THEN "present" ELSE open[item.path].state]
Record ==
    /\ run = "work" /\ hand # None
    /\ \/ /\ ~cancelled /\ hand.thumb = "refused" /\ Works
          /\ halted' = TRUE /\ hand' = None
          /\ UNCHANGED <<open, failed, run, channel>>
       \/ /\ ~cancelled /\ hand.thumb # "refused" /\ Works
          /\ open' = [open EXCEPT ![hand.path] = RowOf(hand)]
          /\ failed' = IF hand.thumb = "failed" THEN failed \cup {hand.path} ELSE failed
          /\ hand' = None
          /\ UNCHANGED <<halted, run, channel>>
       \/ /\ (cancelled /\ Works) \/ Fault
          /\ Abort /\ UNCHANGED <<halted, failed>>
    /\ UNCHANGED <<archive, db, stored, cache, walk, todo, reader, step, cancelled, finished>>

\* Between two items, when it is time; and the last one.
Commit ==
    /\ run = "work" /\ hand = None
    /\ \/ /\ Works /\ db' = open
          /\ \/ ~(AllRead /\ channel = <<>>) /\ open # db /\ UNCHANGED run
             \/ AllRead /\ channel = <<>> /\ run' = "end"
          /\ UNCHANGED <<open, channel, hand>>
       \/ Fault /\ Abort /\ UNCHANGED db
    /\ UNCHANGED <<archive, stored, cache, walk, todo, reader, step, halted, failed,
                   cancelled, finished>>

\* The scope of the threads ends when the readers have.
Join ==
    /\ run = "abort" /\ AllRead /\ Works
    /\ run' = "idle"
    /\ UNCHANGED <<archive, db, stored, cache, walk, pool, writer, cancelled, finished>>

FinishesUnasked == ~halted   \* mutant
Finishes == ~halted /\ ~cancelled
End ==
    /\ run = "end" /\ run' = "idle"
    /\ \/ Works /\ finished' = Finishes
       \/ Fault /\ UNCHANGED finished
    /\ UNCHANGED <<archive, db, stored, cache, walk, pool, writer, cancelled>>

Writer == Receive \/ Record \/ Commit \/ Join \/ End

------------------------------------------------------------------------------
(* What else happens.                                                        *)

Cancel ==
    /\ run # "idle" /\ ~cancelled /\ Works
    /\ cancelled' = TRUE
    /\ UNCHANGED <<archive, db, stored, cache, run, walk, pool, writer, finished>>

Kill ==
    /\ run # "idle" /\ Fault
    /\ run' = "idle" /\ todo' = {} /\ channel' = <<>> /\ hand' = None
    /\ reader' = [r \in Readers |-> None] /\ step' = [r \in Readers |-> "free"]
    /\ open' = db
    /\ UNCHANGED <<archive, db, stored, cache, walk, halted, failed, cancelled, finished>>

\* Another program writes a file, or takes one away.
OtherWrites(p) ==
    /\ writes < MaxWrites /\ Works
    /\ writes' = writes + 1
    /\ disk' = [disk EXCEPT ![p] = writes']
    /\ UNCHANGED <<aside, db, stored, cache, run, walk, pool, writer, cancelled, finished>>

OtherRemoves(p) ==
    /\ disk[p] # 0 /\ Works
    /\ disk' = [disk EXCEPT ![p] = 0]
    /\ UNCHANGED <<writes, aside, db, stored, cache, run, walk, pool, writer, cancelled, finished>>

\* The cache folder is replaced, or confirmed again.
CacheChanges ==
    /\ \/ cache = "proven" /\ Fault /\ cache' = "replaced"
       \/ cache = "replaced" /\ Works /\ cache' = "proven"
    /\ UNCHANGED <<archive, db, stored, run, walk, pool, writer, cancelled, finished>>

\* The tool's other operations on a file and its row, none during a run: one
\* writer (WriterGate).  UnitMove and EntryPurge have their steps.
WithState(row, state) == IF row = None THEN None ELSE [row EXCEPT !.state = state]
ToState(p, state) ==
    /\ run = "idle" /\ Works
    /\ db' = [db EXCEPT ![p] = WithState(@, state)] /\ open' = db'
    /\ UNCHANGED <<writes, stored, cache, run, walk, pool, hand, halted, failed, cancelled,
                   finished>>

Quarantine(p) ==
    /\ db[p] # None /\ db[p].state = "present" /\ db[p].stamp = disk[p] /\ aside[p] = 0
    /\ aside' = [aside EXCEPT ![p] = disk[p]] /\ disk' = [disk EXCEPT ![p] = 0]
    /\ ToState(p, "quarantined")

Undo(p) ==
    /\ aside[p] # 0 /\ disk[p] = 0
    /\ disk' = [disk EXCEPT ![p] = aside[p]] /\ aside' = [aside EXCEPT ![p] = 0]
    /\ ToState(p, "present")

Purge(p) ==
    /\ aside[p] # 0
    /\ aside' = [aside EXCEPT ![p] = 0]
    /\ UNCHANGED disk
    /\ ToState(p, "purged")

\* Db::reset_index: the rows go, what is in quarantine stays.
Reset ==
    /\ run = "idle" /\ Works
    /\ db' = [p \in Files |-> None] /\ open' = db'
    /\ UNCHANGED <<archive, stored, cache, run, walk, pool, hand, halted, failed, cancelled,
                   finished>>

Next ==
    \/ Start \/ Select \/ StopWalk \/ Writer \/ Cancel \/ Kill \/ CacheChanges \/ Reset
    \/ \E r \in Readers : Reader(r)
    \/ \E p \in Files : \/ Look(p) \/ OtherWrites(p) \/ OtherRemoves(p)
                        \/ Quarantine(p) \/ Undo(p) \/ Purge(p)

Spec == Init /\ [][Next]_vars

\* The walk, the pool's threads and the writer run on; nobody has to cancel.
FairSpec ==
    /\ Spec
    /\ WF_vars(Select \/ StopWalk \/ \E p \in Files : Look(p)) /\ WF_vars(Writer)
    /\ \A r \in Readers : WF_vars(Reader(r))

------------------------------------------------------------------------------
(* What must hold.                                                           *)

\* A file that counts as indexed was indexed as it is, however it was written between
\* the walk, the read and the record (index.rs process): later stages judge copies by
\* what was read.  And it has its thumbnail in the cache or a reason: no cancel, halt or
\* kill leaves a grey square that every later run passes over (file_is_current).
CurrentIsIndexed ==
    \A p \in Files :
        (disk[p] # 0 /\ IsCurrent(db[p], disk[p]) /\ ~db[p].reason)
            => db[p].read = disk[p] /\ db[p].read \in stored

\* A run is marked finished only when every file its walk saw is recorded as it
\* was seen, and counts as indexed or was told to be without a thumbnail: a run
\* cut short, at whatever item, is not taken for a whole one (run_controlled).
FinishedMeansRecorded ==
    [][(~finished /\ finished') =>
          \A h \in hits : /\ db'[h.path] # None /\ db'[h.path].stamp = h.stamp
                          /\ IsCurrent(db'[h.path], h.stamp) \/ h.path \in failed]_vars

\* Once a bound cache refused a thumbnail, nothing more is recorded by the run,
\* what the readers had decoded and sent before they noticed included.
HaltedRecordsNothingMore == [][halted /\ run = "work" => open' \in {open, db}]_vars

\* A started run ends, whatever is in the channel when it is cancelled, halted
\* or refused by the database.
RunEnds == run # "idle" ~> run = "idle"

------------------------------------------------------------------------------
(* The invariant the proofs rest on.  What was read and is not what the walk *)
(* saw was written later, and what the walk saw never comes back: it is      *)
(* neither under its path any more nor aside in quarantine.                  *)

InHand == ({hand} \cup {reader[r] : r \in Readers} \cup {channel[i] : i \in 1 .. Len(channel)})
              \ {None}

Overtaken(p, stamp) == disk[p] # stamp /\ aside[p] # stamp

Numbered ==
    /\ disk \in [Files -> 0 .. writes] /\ aside \in [Files -> 0 .. writes]
    /\ writes \in 0 .. MaxWrites
    /\ \A p \in Files : disk[p] # 0 => disk[p] # aside[p]

\* During a run nothing goes to quarantine or comes back.
HitsInPlace ==
    /\ todo \subseteq hits
    /\ run # "idle" => \A h \in hits : h \in Hit /\ h.stamp \in 1 .. writes /\ aside[h.path] # h.stamp
    /\ run \in {"idle", "walk", "end"} => todo = {}

ItemIsHonest(i) ==
    /\ i.stamp \in 1 .. writes /\ aside[i.path] # i.stamp
    /\ i.read \notin {0, i.stamp} => Overtaken(i.path, i.stamp)
    /\ i.thumb = "stored" => i.read \in stored

ItemsHonest ==
    /\ reader \in [Readers -> Item \cup {None}] /\ channel \in Seq(Item)
    /\ hand \in Item \cup {None}
    /\ step \in [Readers -> {"free", "wait", "read", "store", "send"}]
    /\ \A r \in Readers : /\ step[r] = "free" <=> reader[r] = None
                          /\ step[r] \in {"wait", "read", "store"} => reader[r].thumb = "none"
    /\ run \in {"idle", "walk", "end"} => InHand = {}
    /\ run = "abort" => channel = <<>> /\ hand = None
    /\ \A i \in InHand : ItemIsHonest(i)
    /\ halted /\ run = "work" => hand = None

RowIsHonest(p, row) ==
    /\ row.stamp \in 1 .. writes
    /\ row.read \notin {0, row.stamp} => Overtaken(p, row.stamp)
    /\ row.thumb => row.read \in stored

RowsHonest ==
    /\ db \in [Files -> Row \cup {None}] /\ open \in [Files -> Row \cup {None}]
    /\ \A p \in Files : /\ db[p] # None => RowIsHonest(p, db[p])
                        /\ open[p] # None => RowIsHonest(p, open[p])

IndexInv == Numbered /\ HitsInPlace /\ ItemsHonest /\ RowsHonest
------------------------------------------------------------------------------
(* The invariant FinishedMeansRecorded rests on, beside the one above: what  *)
(* the walk saw is still on its way or recorded, item by item.               *)

Recorded(rows, h) ==
    /\ rows[h.path] # None /\ rows[h.path].stamp = h.stamp
    /\ IsCurrent(rows[h.path], h.stamp) \/ h.path \in failed

Carries(i, h) == i.path = h.path /\ i.stamp = h.stamp
OnItsWay(h)   == h \in todo \/ \E i \in InHand : Carries(i, h)

\* The walk sees a path once, and only what it saw is ever in hand.
SeenOnce ==
    /\ \A h \in hits : h.path \in looked
    /\ \A g, h \in hits : g.path = h.path => g.stamp = h.stamp
    /\ \A i \in InHand : \E h \in hits : Carries(i, h)

\* What a reader sends has a reason, or content and an answer of the cache.
IsRead(i) == i.reason \/ (i.read # 0 /\ i.thumb # "none")
SentIsRead ==
    /\ \A r \in Readers : /\ step[r] = "store" => reader[r].read # 0
                          /\ step[r] = "send" => IsRead(reader[r])
    /\ \A i \in 1 .. Len(channel) : IsRead(channel[i])
    /\ hand # None => IsRead(hand)

SeenIsRecorded ==
    /\ run # "work" => open = db
    /\ run = "work" /\ ~halted /\ ~cancelled => \A h \in hits : OnItsWay(h) \/ Recorded(open, h)
    /\ run = "end" /\ ~halted /\ ~cancelled => \A h \in hits : Recorded(db, h)

FinishInv == SeenOnce /\ SentIsRead /\ SeenIsRecorded
==============================================================================

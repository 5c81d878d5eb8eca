# photo-cleanup in TLA+

photo-cleanup finds copies of photographs in an archive, moves the redundant
ones into a quarantine, and later brings them back or deletes them.  Its promise
is that nothing is lost: every move is one unit (a photograph and the files
beside it), it is written to a journal before it happens, and it can be walked
back.  This directory models the code that keeps that promise, and the code
whose answers it rests on: what is one photograph, what is indexed, where the
archive's own data is.  TLC checks it on small instances, and TLAPS proves most of
its safety for every instance.

Paths below are relative to `src/crates/`.

## 1. The system

| part | state it keeps | operations | how it meets the others |
|---|---|---|---|
| unit move (`pc-apply` unit.rs, bound.rs, files.rs) | where each object is, held folders and files | quarantine a unit, put back what was refused | writes the journal and `files.state`; other programs work in the same folders |
| recovery (`pc-apply` recovery.rs, located.rs) | a row's `located` overlay | classify, undo, reconcile, abandon | reads the row and the disk, moves units back |
| purge (`pc-apply` purge.rs) | proofs held open during one entry | prove, open the row, unlink, close, index | the same row and objects as undo and reconcile |
| reorganisation (`pc-apply` organize.rs, `pc-organize`) | journal rows of one run, the path of each index row | plan dates, events and names; run; sweep service files; undo a run or an entry | a sequence of unit moves |
| quarantine layout, orphans (`pc-core` quarantine_layout.rs, lib.rs; `pc-apply` lib.rs; `pc-work` scan.rs) | the note that says which mount a disk label stood for; `quarantine_found` | admit, extend the note, walk, adopt, abandon | every program that uses the folder |
| writer lock (`pc-core` lock.rs) | one lock file per database | take, read the holder | every writing process |
| jobs (`pc-api` jobs.rs, `pc-core` work.rs) | active job, worker handle, `jobs` rows, cancel flag | start, run, cancel, end | mutation gate, writer lock, database |
| server (`pc-api` server.rs, state.rs, service.rs) | `closing`, sessions | open, edit, shut down | jobs, writer lock |
| index (`pc-work` index.rs, scan.rs, permit.rs; `pc-walk`; `pc-db` files.rs) | `files`, `meta`, `runs` | walk, read, record in batches, resume | thumbnail store, journal's `files.state` |
| thumbnail store, rebuilt thumbnails, views (`pc-core` thumbstore.rs, `pc-work` thumbs.rs, `pc-api` routes.rs) | files published by rename, `meta.thumb` | put, get, make again, render | index, pages of every process |
| similarity, bursts, kinds (`pc-family` links, perceptual, roles, quality, series, categories) | `families`, `series`, `file_categories` | build, build again after an index run | reads `meta`, keeps what a person said |
| groups, originals, plans, review (`pc-family`, `pc-db` marks.rs, review.rs; `pc-api` service.rs, review.rs) | keepers, rejects, splits, folder marks, review choices and their history | decide, undo, plan, approve | the plan is carried out as unit moves |
| index database (`pc-db`) | all of the above | open, migrate, rows and transactions | every part |
| move of the data (`pc-desktop` relocate.rs) | a staging folder, reservations, what must be told | copy, prove, publish, switch, settle | bootstrap, writer lock, thumbnail store |
| data folder (`pc-desktop` resolve.rs, binding.rs, namespace.rs; `pc-core` storage.rs) | open folders, recorded identities | admit a path, create, bind, open | database, other accounts |
| desktop shell (`pc-desktop` shell, instance.rs, window.rs, bootstrap.rs) | instance lock, bootstrap, server, change and quit | launch, change the folder, replace, quit | server, move of the data |
| decoding and hashing (`pc-image`, `pc-hash`) | none | pixels to numbers | index |
| Lightroom (`pc-lightroom`) | none | read catalogues | plans, similarity |
| web pages, command line (`pc-api` routes.rs, web; `pc-cli`) | none | requests to the operations above | all |

What is hard here is not the algorithms but the steps between them.  Another
program renames or rewrites a file between the tool's look at it and its rename;
the process is killed between a rename and the row that records it; a rename of
the third member fails after two have moved; the index and the journal are two
writes; a purge stops with half a unit deleted; a job frees its lock before it
says how it ended; a shutdown overtakes a start; an index is cancelled with
decoded photographs waiting; a decision of a person meets a group that was built
anew; the copied archive is published while somebody puts a file under its name;
a path admitted a second ago leads to another folder.  Each such place is listed,
with its line and the properties about it, under `hazards` in PROJECT.json.

What makes each part correct, in a sentence: a unit in quarantine always has a
row that explains it; a closed row says the truth; the index follows the row; a
deletion is never taken for a quarantine; one writer at a time writes; a job
that ended has let go of everything; a stopped server left nothing running; what
counts as indexed was read as it is; no group is emptied and no rule outranks a
person; a reorganisation is walked back to the last file; an orphan comes home
or stays; the archive the app opens never changes by being moved; and only the
folder that was proven is opened.

## 2. The modules

| module | models | with |
|---|---|---|
| `UnitMove` | one unit from quarantine to undo, rename by rename | refusals, kills, other programs in the folders |
| `EntryPromise` | what a journal row promises, without how units move | `UnitMove` implements it |
| `EntryPurge` | deletion of a quarantined unit; extends `UnitMove` | undo, reconcile, other programs between its steps |
| `QuarantineProofs` | theorems about `UnitMove` and `EntryPurge` | |
| `WriterGate` | the lock between processes, jobs, edits and shutdown in a server | kills, refused writes, a command line |
| `WriterGateProofs` | theorems about `WriterGate` and `Reorganize` | |
| `IndexRun` | runs of the index over an archive: walk, readers, channel, writer | cancel, refused cache, kills, other programs writing the files |
| `IndexRunProofs` | theorems about `IndexRun`, `Thumbnails` and `Resemblance` | |
| `Thumbnails` | the cache and its three writers | two processes, kills, full disks, strangers' objects, volumes without an exclusive rename |
| `Resemblance` | what is one photograph, a burst, a kind, and the jobs that write it down | cancels and kills anywhere, a press or a new reading between |
| `Groups` | decisions about groups, the plan made of them and its run | rebuilds, undo of decisions, other programs' writes, kills |
| `GroupsProofs` | theorems about `Groups` | |
| `Reorganize` | dates, events, names; the run, its sweep and its undo | kills, refusals, other moves in between |
| `GatheredQuarantine` | the note of a gathered quarantine, and the files no journal claims | two programs, remounts, torn notes, lost databases |
| `GatheredQuarantineProofs` | theorems about `GatheredQuarantine` | |
| `DataMove` | the move of the app's data, call by call | other programs in the target, failing calls, kills |
| `ArchiveChoice` | what a move promises | `DataMove` implements it |
| `DataMoveProofs` | theorems about `DataMove` | |
| `DesktopShell` | the life of the window, its server and the choice of the folder | two processes, signals, drives that come and go, kills |
| `DesktopShellProofs` | theorems about `DesktopShell` | |
| `DataFolder` | how a path is admitted, made, compared, opened; migrations | other accounts, the user's other programs, a second program, kills |
| `DataFolderProofs` | theorems about `DataFolder` | |
| `MC...` | the instance of the module of that name that is checked | |

How they fit together: `Reorganize`, `Groups` and `GatheredQuarantine` take a unit
move as one step that happens or does not, which is what `EntryPromise` says of
`UnitMove`; they and `Thumbnails`, `Resemblance` run one job at a time because of
`WriterGate`; `DesktopShell` takes the move of the data as one step that happened
or did not, which is what `ArchiveChoice` says of `DataMove`; and `Groups` takes
as a constant what `Resemblance` works out.

### UnitMove

An object is a value: member `m` of the unit is the number `m` (0 is the
photograph), and what other programs own are `Strangers`.  A place is a name in
the archive's folder (`Src(m)`), a name in the quarantine (`Dst(m)`), or `Away`.
`changed` are members whose content no longer fits the recorded proof; `path`
and `into` say whether the recorded paths of the two folders still lead to them.

`Begin` is `quarantine_file` up to the journal row; `Undo` and `Reconcile` are
`recovery.rs` up to its call of `move_unit`, with `classify` as `IsMoved` and
`IsHome`.  All three enter the same `move_unit`: `Bind` opens every member by its
proof, then for each member in order `Check` (the last look), `RenameMember`,
`Verify` (is what arrived the member?) and, if not, `Return`; a refusal leads to
`GiveBack` and `PutBack`, newest first; if all arrived, `Ask` is the question
right before the record.  `Record` and `Index` write the row and the state in the
order of each way, `Close` is `close_forward` with its `located` events.

`Fault` stands for every refusal by the system or the journal for a reason the
model does not have (permissions, a full disk, a keeper that no longer matches).
`Crash` is a kill at any step.  Other programs move, swap and rewrite objects and
move folders away, between any two steps.

Abstractions: the two quarantine folders of a path that was moved away and
replaced share the names under it; the moment between opening a folder and
holding it is one step; the evidence of a file is its identity and whether its
content changed; rows written by earlier versions are left out.

### EntryPurge

`Prove` looks at every member; `BeginPurge` opens the row again; for each member,
the photograph last, `Compare`, `Unlink` and `Count`; then `ClosePurge` and
`IndexPurged`.  All other operations of the tool on the unit are those of
`UnitMove`, taken when no purge is under way (the writer lock).  Other programs
may also delete an object or save their own over it.  Hard links are left out: an
object that lost a link is gone.  Events of a refused purge, which change no
status, are left out, and so are the entries a purge keeps (roots, bundles,
Lightroom folders) and files without a row.

### WriterGate

A server opens (`OpenAsk`, `OpenMark`: the jobs left running are interrupted if
the lock could be had), and then admits one thing at a time through its mutation
gate: a job's start, in the order of `jobs.rs` (`TakeForJob`, `InsertJob`,
`SpawnWorker`, `RecordWorker`), or an edit.  A worker's thread begins, passes its
file boundaries, and ends in the order of the code: how it ended, the active slot,
the lock, its last word in the database.  A shutdown closes, passes the gate,
asks the job, awaits the worker and stops.  Processes are killed at any step;
the system frees their lock.  A job's progress figures are left out.  The checked
instance calls the server that starts the second job by one name, which loses
nothing since servers are alike.

### IndexRun

The content of a file is the number of the write that made it, and the stamp
(size, mtime, inode) by which the index knows it is that number too.  So the
module assumes that a write changes the stamp; a file rewritten in place at the
same size within the second of its mtime, or put back by another program with the
inode and time it had, is outside it.  The tool's own undo does bring an old stamp
back, and is in it.

`Start`, `Look` and `Select` are the walk and the choice of what is not current;
each reader takes a file, waits for its disk's permit, reads and decodes, stores
the thumbnail and sends (`Take` to `Send`, which is `process` between its points
of contact with others); the writer receives, records into the open transaction
and commits when it is time (`Receive`, `Record`, `Commit`), and `End` marks the
run finished.  The three ways a run is cut short are the code's: a cancel drops
what is received, or ends the writer between its two looks at the flag; a refused
thumbnail halts (`halted`); an error of the database gives the channel up while
the readers go on (`Abort`, `Join`).  A kill loses the open transaction and keeps
the stored thumbnails.  `db` is what is committed, `open` what the transaction
sees.  Between runs the rows go through the states of `quarantine_file`, `undo`
and purge, each one step here (`UnitMove`, `EntryPurge` have their steps), and
`reset_index`.  One disk is modelled: permits of two disks never meet.

### Thumbnails

A picture is the number of the file's version it was made from.  A thumbnail's
key is its picture (thumbnails are named by content), a view's key is the file
and the stamp it had; `thumbs` says what bears each name: nothing, a whole picture,
a file cut short, or a stranger's object.  A thread goes through `thumbstore.rs`
call by call: write a temporary, publish it by a rename that replaces nothing, or,
on a volume that has none, create the name and fill it.  The job is an index run
over one file at a time or the making again of thumbnails; viewers are threads of
two processes.  "Good" is a whole picture: that a thumbnail must not be flat is
left out; the job has one reader; the binding of the store to a folder is
`DataFolder`'s.  The cache is thrown away only between jobs.  A stranger's object is
one that is not a plain file: a stranger's plain file under a key is taken for the
thumbnail by the code itself (thumbstore.rs:288).

### Resemblance

The hashes are places on a line, so that a distance is a difference; structural
similarity is a table (`Ssim`).  Everything made of them is worked out as the
code does: the links by documents, names and moments, the leads between likely
pairs with their limit per file, what verifies a lead, the groups, the role of
each file and the one a group keeps, bursts, kinds.  Where the code walks sorted
frames and closes a burst at the first that does not go on, a burst here is the set
of frames from one that begins a run to the one before the next (`Begins`, `RunOf`).
`build` is the job: it goes through its stages (`At`, `Further`, `StageDone`), and is
cancelled or killed at each of them; the rows it was made of are kept in `measured`,
which the properties work from.
Between jobs a person gives a date, a kind or a best frame, or an index run reads
a file anew.  The number of a file stands for the code's order by path depth,
length and name; every row has a content hash; decisions about groups are fixed
at the start, so the hand's splits (`may_join`, lib.rs:97–157) are no part of `Joins`
(`Groups` has their steps).  `thumb` means a thumbnail that can be read, in a store that is
there: one that is missing or does not decode leaves a file without its colours
(categories.rs:606).

### Groups

A group is the set of its members.  `fam` says of each file its group, its role
and the file the group keeps.  Steps of a hand (keep, reject, split, mark a
folder, decide on a page, undo a decision) do what their handlers do, the trailing
`settle` and `restore_curation` included.  `Rebuild` makes the groups anew from what
the index says.  A run's plan is made and screened in `Start`, then each candidate
is compared with its keeper and moved (`Compare`, `Move`), while another program
may write a file.  Score, size and pixels are one figure, `Worth`; folders are
flat; one page is open at a time; Lightroom's files are a constant.  A press of a hand
has a second of its own: in the code `marked_at` is in seconds, and of two presses of
one second the file id decides.

A candidate goes through three steps, `Compare`, `Ask` and `Move`.  `Compare` reads both
files; `Ask` is the last question to the keeper and to the file that leaves
(bound.rs:853–883); the rename comes after it, with a seam between (bound.rs:889), and
then only the file that arrived is asked again (`Unchanged`, bound.rs:1259–1289).  A
write of the keeper in that instant is not noticed: `CopyIsHeld` excepts it (`late`),
and nothing else.

### Reorganize

The dates are worked out of what a file, its folder's name and its time say; the
events are the runs of dates without a gap.  The names are given out one after
another, in the order of the code (`First`, `Assigned`, `Names`): each shot's folder
and stem is a `Key`, whoever stays keeps its name (`Reserved`), the others try
their own and then numbered ones (`Tries`).  A run moves its entries in any order
(the code's order is one of them), sweeps service files out of the folders it
emptied, and follows with the index.  An undo goes through the rows of a run newest
first; one entry may also be undone alone, a killed one reconciled.  `work` is what
the writer does, `told` what an error named, `calm` a run since whose beginning
nothing but it and its undo happened, `began` what was there then.  A place is a
folder, a stem and an extension; a stem is a name and the numbers added to it.  A
unit is whole or not at all here.  The refusal of a run until copies are dealt with,
AppleDouble files and the volumes are left out; equal dates tie by number.

`SidecarFollows` speaks of what lies beside what when a step is taken, as the code
does, which knows a companion by its folder and stem: after a kill and an undo two
photographs that were never one shot may share a stem, and a sidecar then goes
with either.

### GatheredQuarantine

A path is a place on the volume and the mount point it was written with; the last
name of a mount point is the label the quarantine files its units under.  The
`note` is an object with a text: none, ours, bare (an older version's), torn, or
foreign.  `admit` reads it before the journal and the move; `publish`, `create`,
`extend` and `written` are the calls of `quarantine_layout.rs`, so that two
programs meet between them.  Orphans are what a walk finds and no row claims:
`adopt_orphan` writes a row and carries them home by the note, `abandon_orphan`
takes the row back.  Programs are killed, remount the volume elsewhere, lose their database;
other hands take the note or put their own.  The move of a file is one step, and
`undo` covers reconciling too.

### DataMove and ArchiveChoice

Entries are objects and places: what is done by name meets the object that is at
the name then, what is done through an open folder meets that folder wherever it
was renamed to (`ByPath`, `Target`).  A run is `relocate.rs` call by call: claim
the companions' names, make the staging folder, open it and prove it is the one
made, copy the database, prove the copy, copy the thumbnails, look again, publish
the thumbnails, then the database.  Each publication is two
steps, the rename and the look after it (`publish_thumbs`, `keep`; `publish_db`,
`move_child`): the second may fail when the first took effect, and what it would have
registered then is not (`slipped`).  A run that fails settles what it registered
(`look`, `remove_dir`, `set_aside`, `put_back`), and an empty folder of another program
(`hollow`) may come to the name between `look` and `remove_dir`; one that succeeds
settles its empty staging folder, proves everything once more and writes the bootstrap.  `Attempt` is a call
that may fail in any world and must in a bad one.  Other programs put, take and swap
entries, SQLite removes empty companions, the target is renamed; another process
records something in the source whenever the lock is free.  One name stands for
the three companions.  `ArchiveChoice` is the promise: what the app opens holds
everything recorded, before and after.

### DesktopShell

Two window processes at a time.  Each claims the instance lock, opens the folder the
bootstrap names (or makes the first one), serves it and says it came up.  A change
of the folder and a quit are two tasks of a process that meet at one lock
(`held`), with the dialog about a running job and the signals that promote or
cancel a quit between them.  Folders hold a database or not and come and go with
their drive.

### DataFolder

The path has three levels.  Of each folder the system says whose it is, who may
write it, and what its volume can tell (`fact`); `at` says which object stands
under a name.  The app admits the path from the top, makes what is missing, takes
back what it made and could not use (`Look`, then `Rmdir`), compares the database, then the
cache, with the recorded objects (`Compare`, `CompareCache`), opens them with a look before
and after, and asks again before each write (`CheckFiles`, `CheckCache`; journal file, lock,
thumbnail).  Other accounts rename and put wherever the facts let them: a folder
with something in it, an empty one (`bare`), a link, nothing, or what they took from that
name before (`away`), and they open and close what is theirs; the user's own programs may do
so anywhere, and `chmod` what is the user's.  The checked start states tell
two stories: a path that others disturb, with a database of the newest schema; and
an old schema in undisturbed folders, migrated by two programs that are killed
between any two statements.  Migrations are of three kinds: new tables, new columns
(which cannot be added twice), and decisions mended (migration 014).  A folder is
compared by object alone (the refusal by a volume's id is left out), one name stands for
the files SQLite puts beside the database, and a link put on the path counts as a refusal.
That a version which cannot be read counts as 0 (schema.rs:478) is left out too: such a
program stops at its first CREATE TABLE.

## 3. What is checked

| run | shows |
|---|---|
| `unit_move` | nothing the tool put in quarantine is without an open or finished row; `done` and `undone` say the truth, a run goes on only when the refused unit is whole, a killed move is accounted for (`RecordIsTrue`); the index is explained by a finished row; the unit implements its row's promise; a row whose members are accounted for does not stay unfinished |
| `entry_purge` | only the proven goes, all or none; once something was deleted the row is not `done` and the rest is never carried back, and `purged` means gone (`PurgeIsTold`) |
| `writer_gate` | one writer across processes, with the lock; who reads that a job ended finds both gates open, and an interrupted job is over (`StateIsTrue`); nothing starts past a shutdown's gate and a stopped server is settled (`ShutdownIsClean`); a cancelled job stops and a shutdown ends |
| `index_run` | what counts as indexed was read as it is now, and is shown or has a reason; a run marked finished recorded all it saw; a run ends from every cancel, halt and refused write |
| `thumbnails` | no view is older than the file was when asked; a name gets a whole picture at once and keeps it; making thumbnails again mends every row it looked at |
| `resemblance` | what a link or a verified lead joins is one group and nothing else is, and no pass cut short is written down; a copy is a twin of one that is none; bursts are the chains of moments; what a person said stands through every job, and no kind comes of figures that could be newer |
| `groups` | no run empties a group; a copy leaves only while its picture stays at home, unless the kept file was written between its last question and the rename; a group decided by hand keeps what was decided and a folder's rule stays within its bounds; what a reviewed plan takes was approved on a page as it is, and an undone decision never comes back |
| `reorganise` | no two files get one name; a sidecar stays beside its photograph; the index follows; an undisturbed run is undone to the last file |
| `gathered_quarantine` | an orphan comes home by what the note recorded, or stays; the note keeps what was recorded and nobody else's is written |
| `data_move` | a folder with the database has the whole copy, and the one exception (a rename that worked and whose look failed) is never named by a bootstrap; what a failed run leaves is named, but for what a half-failed step never registered; a stranger's entry is put back or named, but for an empty folder put at a name right before its rmdir; the archive the app opens never changes by being moved |
| `desktop_shell` | one server at a time, on the folder the bootstrap names, the way back never lost, no job without its server; an empty database is made only where nothing was ever chosen; a signal ends the process and a change of the folder ends |
| `data_folder` | only the recorded database and cache are written; what is removed is what was made, unless since the admission a program of the user acted and another empty folder came to the name in the instant before rmdir; nobody else can redirect an admitted path; a migration is whole or not there, whoever is killed and however many migrate |

`CHECK_DEADLOCK` is on for `writer_gate` and `index_run`.  It is off where the
system may rightly have nothing left to do: a unit, a group or an archive all of
whose bounds are used up.

### Bounds

`MaxOther`, `MaxMeddles`, `MaxOwn`, `MaxOthers` count steps of other programs,
`MaxFaults` and `MaxStops` refusals, kills and cancels, `MaxEdits` presses of a
person; they are the only counters besides the numbers of runs and rows.

- `unit_move`: three companionship slots (`Last = 2`) let a refusal fall on a
  first, a middle and a last member, and the put-back go through more than one.
  Three steps of others suffice for a swap (two renames) and one more in the same
  operation; two faults for a refused move whose put-back is refused or killed, or
  a kill in the operation that recovers from a kill.  One stranger is enough for
  one name; two would meet only each other.
- `entry_purge`: a photograph and one companion, with the same counters: its steps
  on the members are alike but for which comes last, and its proofs are for any
  number.
- `writer_gate`: two servers and a command line, two jobs (a second job is what
  overtakes a first one's last word), one file boundary (before it and after it)
  and one kill or refused write.
- `index_run`: two files and two readers around a channel of one item and one
  permit, so that a reader waits for each while the writer gives up.  Two writes
  let a file change between walk and read, between read and record, or between
  runs (the second makes no image); two refusals let a run that was halted be
  killed, or one that lost its writes be repeated and refused again.
- `thumbnails`: two versions of one file and one of another, so that two files
  have one picture and one file two; a viewer in the job's process and one outside;
  one fault, which is what makes a retry meet what an earlier attempt left.
- `resemblance`: archives of four rows in which each link, role and kind
  has an instance and a near miss, one press or new reading and one cut per
  behaviour: the jobs share nothing but the rows and what they wrote.
- `groups`: three files, two of them with one preview, two decisions and a fault:
  a decision and its undo, or one in a group and one that cuts it.
- `reorganise`: a shot of two files with a sidecar, one file in their way, a
  service file; two runs, so that one is undone after the other, and one upset.  A
  plan is carried out over a journal of up to three entries, two after the upset:
  enough for a second plan that moves again what the first one moved.
- `gathered_quarantine`: three mount points of two labels (the same label twice is
  the hard case), two programs, two rows in one journal and one in the other.
- `data_move`: two runs (what the first left is in the second's way), one record in
  the source, three acts of others (a swap and one more), two failing calls or
  kills.
- `desktop_shell`: two folders, two processes, two failing calls or kills and two
  moves of a drive (away and back).
- `data_folder`: three levels (a folder, the one above, and the one above that,
  whose sticky bit may guard it), two acts of others and one of the user's own: two
  own swaps between two looks put the first object back and no look can tell, which
  `lib.rs` says itself.

### Fairness

`unit_move`: `WF(Tool)`: a call that was started returns, since the code has no
wait in it; `WF(Reconcile)`: somebody asks for a reconciliation again and again,
as the journal page and `status` keep naming an unfinished row.  Nothing is
assumed of other programs, and not that they stop: their number is bounded.
`entry_purge`: the same and `WF(Purge)`.  `writer_gate`: weak fairness for what is
inside a gate, for a shutdown and for worker threads; nobody has to start or
cancel anything and the command line may hold the lock for ever.  `index_run`: weak
fairness for the walk, the writer and each thread of the pool, which have nothing
to wait for but the channel and the permit; nobody has to start or cancel.
`desktop_shell`: weak fairness for each task of a process (starting, changing,
quitting, reading a signal), and strong fairness for taking the lock both tasks
share, since tokio's mutex is first come, first served; no dialog has to be
answered and no job has to end.  The other runs check safety only.

### Where the code and its documents disagree

Met while modelling; the models do what the code does.

- DESIGN.md:1046–1049 says a finished row gains `located` only from an undo that
  could neither finish nor put the unit back whole; recovery.rs:647 records it for
  every object touched, also when all went back.
- DESIGN.md:1193–1196 and purge.rs say the instant before the unlink is detected
  afterwards; a file saved *over* the photograph in that instant (purge.rs:970) is
  deleted and the row closed as purged, since the held file lost its link either
  way.  `OnlyTheProvenGoes` excepts that instant (`touched`).
- recovery.rs:843 refuses to reconcile a row of a purge, but a purge keeps the
  row's own op, so the refusal never applies.
- jobs.rs:344–345 says a shutdown finds every job ever started; at jobs.rs:346 the
  second job's handle replaces the first one's while that is still to say its last
  word.  `ShutdownIsClean` speaks of a server's newest job for that reason.
- state.rs:64 says that with the lock had, whatever is marked running stopped
  without saying so; in the window between the lock and the last word the job is
  about to say so.
- files.rs:162 (`pc-db`) says a row is `present` while the file is in the archive;
  a new file under the path of a quarantined one is indexed into its row, which
  keeps its state, and stays out of every view.
- files.rs:143 counts a file as done with a reason why it never will have a
  thumbnail; one read that failed in passing is such a reason too.
- thumbs.rs:9–11 says an unreadable thumbnail is made again; a file cut short under
  its name is never written again, since a name that is taken is left alone
  (thumbstore.rs:284, 337).
- quarantine_layout.rs:3 and lib.rs:596 (`pc-core`) say that without a note the way
  home is not guessed; lib.rs:603 guesses one then.  `ComesHomeOrStays` excepts a
  note that was torn or taken away.
- service.rs:986–988 and the warning of the preview say that a photograph moves and
  its sidecar stays when the sidecar's new name is taken; organize.rs:195 refuses
  the photograph too, as `Reorganize`'s units do.
- relocate.rs:964–966 says a target with `photo-cleanup.db` in it is always a complete
  one.  anchored::move_child looks at the name after its rename and may fail there
  (relocate.rs:2688–2693): the abort then takes the published thumbnails back, and the
  database, which is registered nowhere, stays under its name without them.
  `DbMeansWhole` excepts exactly that database and says that no bootstrap ever names it.
- resolve.rs:591–616 opens an existing database again with `Db::open`, which may
  create one, against its comment ("an error rather than a new empty archive").
- originals.rs:74 says a group whose kept file a person chose is never touched at all;
  taking a folder mark back puts its best member in the keeper's place
  (marks.rs:299).  `HandStands` excepts a folder's decision taken back.
- recovery.rs:774 says that asking again finishes an undo whose index refused the
  path; as long as another row holds that path it never does.
- quality.rs says no heuristic outranks its +25, but −15, −10 and −8 together do.

What the models show beside these, and no document denies:

- reconciling the undo of a reorganised entry never touches the index; undoing the
  entries of a shared sidecar out of order parts it from one half; a second
  reorganisation moves again a file that was dated by its mtime; "IMG." and "IMG"
  are two stems;
- after the best frame is changed, rejecting the rest leaves the whole burst
  rejected (service.rs:1640); with two best frames in a joined burst series.rs takes
  the higher rank and `restore_curation` the lower id; families built of an empty
  index leave the old groups; builds of the command line do not restore what a
  person curated; the DNG rule of links.rs is never reached when the DNG keeps its
  raw's stem;
- what a step made or published, and whose next call failed before it was registered, is
  neither set aside nor named: published thumbnails of which no second handle can be
  made (relocate.rs:984–987), a companion or a staging folder likewise; and an empty
  folder another program puts at a name between the look and the rmdir is removed in the
  run's place, whose own stays where it was carried, as relocate.rs:1761–1769 says;
- the kept file of a copy may be rewritten between the last question about it and the
  rename of the copy (bound.rs:883, 889, 906), and is not asked again; a data folder made by mkdir that
  cannot be opened is neither removed nor told, and one swapped in between mkdir and
  open is taken for the own (namespace.rs:190);
- a launch beside another's migration fails and must be tried again; an older
  program opens a newer schema without complaint.

## 4. What is proved

`tlapm` checks every theorem for any number of members, strangers, servers, jobs,
readers, runs, interferences and faults, from the assumptions on the constants
named in the modules (`LastAssumption`, `BoundsAssumption`, `StrangersAssumption`,
`NoneAssumption`, `NumbersAssumption`, `OddAssumption`, `ThumbnailsAssumption`,
`FilesAssumption`, `RowsAssumption`, `WorldAssumption`, `RequestAssumption` and the
like).  Every strengthening named below is a definition
at the end of its model's module and was checked by TLC on that model's run before
it was proved; the configurations check the properties that follow from them.  Those
of the reorganisation (`TypeInv`, `SettledInv`, `CalmInv`, `UnitInv`) stand in its
proof module instead: they quantify over functions on infinite sets, out of TLC's reach.

- `QuarantineProofs`, the unit move: `TypeCorrect`, and `Invariance` of `IndInv`.  `HeldIsOnRecord`
  is not inductive: whether a row may be closed as `failed` depends on what the
  operation believes about what it moved.  `IndInv` adds who may be held at each
  step: forward, a held member has arrived and was not put back, or is the one
  being renamed, or the operation knows it keeps something (`HeldForward`); back,
  only members of the operation are held and none that arrived (`HeldBack`); the
  bookkeeping of `move_unit` (`Steps`), the row and index of each step
  (`RowOfOperation`), and one object under a name (`OneUnderAName`).  One lemma per
  action.  `HeldStaysOnRecord` and `IndexStaysExplained` follow, and
  `Implementation`: every step of `UnitMove` is a step of `EntryPromise` or leaves
  its variables alone, where `held` is what the tool put under a quarantine name.
  `RecordStaysTrue` rests on `IndInv` and three facts more (`RecordInv`): a member
  nobody else ever moved is under one of its own two names (`WhereItBelongs`), a member
  is known to be in place from the question right before the record to the record
  (`AskedBeforeRecord`), and what the tool renamed on its way forward is on its way or
  home again (`ToolTrail`).
- `QuarantineProofs`, the purge: `PurgeInvariance` of `PurgeInv`, where the row's status at
  each step of a purge (`RowOfPurge`) and what it has proven (`Progress`) explain
  `PurgeStaysTold`.  The steps of `UnitMove` enter by three lemmas: none of them
  deletes, none runs during a purge, and none brings back what is gone.
  `OnlyProvenGoes` is an action property and needs the look before: `LookInv` says
  that what bears the name since the last comparison is what was compared, unless
  somebody has been there.
- `WriterGateProofs`: `GateInvariance` of `GateInv`.  `OneWriter` needs who holds the
  lock by what each process and thread is doing (`LockIsTold`), and that a job in
  the middle of its start has a row and no thread (`JobIsPlaced`); `StateIsTrue`
  what a row says by where its thread is (`RowIsTold`); `ShutdownIsClean` where a
  shutdown is (`ShutIsTold`) and that only a server's latest thread can be anywhere
  before its last word (`WorkerIsTold`).
- `IndexRunProofs`: `IndexInvariance` of `IndexInv`.  What makes `CurrentIsIndexed`
  true is that a reading which is not what the walk saw was written later, and that
  what the walk saw can then never be under its path again (`Overtaken`: not there,
  and not aside in quarantine, from where it could return).  This holds for every
  item in a reader's hand, in the channel and with the writer (`ItemsHonest`) and
  for every row, committed or not (`RowsHonest`), since during a run nothing goes to
  quarantine (`HitsInPlace`).  `StaysIndexed` and `HaltedRecordsNothing` follow.
  `FinishedRecordsAll` follows a file instead of a reading (`FinishInv`): nothing is
  seen twice (`SeenOnce`), what a reader sends has a reason or content and the cache's
  answer (`SentIsRead`), and while the run is neither halted nor cancelled every file
  seen is on its way to the writer or recorded as it was seen (`SeenIsRecorded`).
- `IndexRunProofs`, the thumbnails: `ThumbnailsInvariance` of `ThumbnailsInv`.
  A view is no older than its request because its key is made of the stamp that was
  read first and what comes under a key is of that stamp or later; this has to hold
  for what each viewer holds (`ViewerAt`) and for every name (`CacheInv`):
  `ViewsAreNeverOlder`.  `NamesAppearWhole` needs that at most one thread completes a
  file and finds it still short (`ThreadInv`), `RebuildAlwaysMends` what the job has
  settled of each row it has been through (`JobInv`).
- `IndexRunProofs`, what is alike: `ResemblanceInvariance` of `ResemblanceInv`.  What a
  pass hands on is whole or the job was told to stop (`BuildInv`), so what is stored
  was made of all the rows and leads it says (`StoredInv`); what a person said is
  written where every job looks (`HandInv`).  The rest is about what the operators
  compute, for any archive.  A group is the least set closed under the links, which
  says at once that groups are whole and that no group falls apart
  (`WholeGroupsAlways`).  Among files of one content the one the figures prefer is no
  copy, and a copy's role costs more than any other gives, so the keeper is none
  (`CopiesHaveTwins`).  Frames are strictly ordered by camera, moment and number;
  every frame is in the run of the last beginning before it, runs are equal or
  apart, and the next frame in a run goes on from the one before
  (`BurstsAreRuns`).  A burst's best frame is one of its own that was chosen, if any
  was: without "one of its own" a press on another burst could take the choice away,
  and `TheHandStands` would not be inductive.
- `DataMoveProofs`: `MoveInvariance` of `MoveInv`: a run holds the source's lock to
  its end, and what it proved stays all there is (`CopyIsAll`); until the database
  is published it is under no name, the thumbnails are there before it or carried
  away by somebody, and a run that succeeds settles its staging folder alone
  (`ThumbsAreOut`); a database whose rename was not answered belongs to a run that
  fails (`SlipsFail`), so that none is ever named.  The steps enter by one idea, `Spares`: a step that puts no
  database under its name and leaves or loses the thumbnails.  `DbStaysWhole`
  follows, and `ArchiveKept`: every step of `DataMove` is a step of `ArchiveChoice` or a
  stutter.  `LeavesNothingUntold` needs `ToldInv`: before a run fails every entry
  is gone, registered, in a registered staging folder, or the one just made (`Covered`,
  `Fresh`); while it is settled, every entry is gone, told, let slip by the step that
  failed, or still to be looked at (`Pending`).
- `DesktopShellProofs`: `ShellInvariance` of `ShellInv`: the instance lock is held
  from its claim to the last drain (`LockIsLife`), a process has a server only where
  nothing is being changed (`ServesInLife`), a change and a quit hold the process's
  lock in turn (`TasksExclude`), and what the bootstrap names is told by how far the
  lock's owner has come (`ChoiceIsTold`).  `ChoiceStaysServed` follows; `OnlyFirstStays`
  is the step of `prepare`, where no choice means that nothing ever came up.
- `GatheredQuarantineProofs`: `GatheredInvariance` of `GatheredInv`: a writer of the
  note holds what it read and only adds to it, and is alone unless a write of it was
  ever cut short (`WriterInv`); no row, list or operation leads to a place under a label
  where the file has not been, or the place is one the code invented (`WayInv`); and
  the note is written before the move (`KeptInv`).  `OrphansComeHome` follows;
  `NoteStays` is an action property, from `WriterInv` and the compare before `publish`.
- `GroupsProofs`: `GroupsInvariance` of `GroupsInv`.  A build takes the least set closed
  under the links, which makes the groups a partition (`Whole`) without a word about
  chains of links.  The choices of a page are, file by file, a chain: each came of an
  entry of the history that stands, took the place of an older one that stands, and of
  no choice twice (`ChoiceInv`), so undoing an entry brings back one that was approved
  (`ApprovalsWereSeen`).  What a run may still take leaves a file of every group
  (`Spared`), and what it compared is two files at home with one picture (`HeldPair`):
  `GroupsAreNeverEmptied` and `CopiesAreHeld` are action properties from these.  Between
  `Ask` and the rename the pair still is what was asked (`KeeperStands`), or the keeper was
  written since (`late`).
  `DecisionsAlwaysStand` needs `DecisionsInvariance` of `DecisionInv`: all files of a
  group keep the same file, a file split off is alone, and no folder's decision
  outlives its mark, so that a new mark frees no group and every decision it adds is
  for the picture the group kept.  The decisions are taken in their order without a
  recursion: `Without` and `KeptAfter` draw on the positions that stay, in increasing
  order (`OrderIs`, by well-founded induction on sets), so the latest of those that
  nothing touched stays the latest (`LatestStays`).  A press gives each group it
  settles a decision of its own (`PerGroup`); bursts and folder rules pick nothing
  where a hand has decided.
- `DataFolderProofs`: `SchemaStaysWhole` from `SchemaInv` (one program at a time is in a
  transaction, its draft is the migration after the newest row; the others may be
  behind, never ahead), by the cardinality of an interval.  `PathStaysPut` from
  `PathInv`: what was checked stays as it was checked, since others can change only
  what no check lets pass (`LevelsChecked`), and an open folder is where it was found
  unless another account may take it from there, now as then (`LinksHold`).
  `OnlyTheProvenWritten` has the hypothesis of its text, `MaxOwn <= 1`; the number of
  other accounts' acts and of kills is any.  The hypothesis is needed: with `MaxOwn = 2`
  TLC finds a program that puts another database under the name while SQLite opens it
  and puts the recorded one back before the name is compared.  Its invariants follow the one act of the
  user's programs: before it, what is held is what was recorded and what was checked
  leads there; a wrong database can be held only with the act spent, and then a name
  above it is lost for good, which the next round of checks finds before anything is
  written (`UseInv`); a folder being made is removed while its name holds it, and since the look another
  can have come there only after an act of the user's programs: that act itself, or
  another account it let take the folder from the one above (`MakeInv`).

- `WriterGateProofs`, the reorganisation, from `ObjectAssumption`, `DatesAssumption`
  and `PlacesAssumption` (finitely many objects, each at a place of its own at
  first, and other programs that put things into the archive's folders).
  `PlansAreFair`: the names are a function by recursion, so it is shown first that
  a step can be repeated any number of times (`Iterates`) and that every round
  keeps the names apart (`NamesAre`).  A free name is among the first tries because
  there are more of them than names given out and files (`OneIsFree`): the bound in
  `Tries` never binds.  That every photograph of the plan has a name after as many
  rounds as there are rows is a count of those still nameless.
  `TheIndexFollows`: `IndexFollows` is about a writer at rest; `SettledInv` says in
  which order place, row and index follow each other at every step of a run and of a
  way back, as long as nothing is told.
  `WayBack` is the induction along the journal that the property hides: there are a
  place and an index for every point of the journal (`Chain`), each entry of the
  calm run leads from one to the next, every other entry leaves them alone, and what
  is there now is the last of them or the one the present step makes of it (`Now`).
  An undone newest entry shortens the chain, and its beginning is `began`.
  `SidecarsFollow` needs only what the entry just written says (`Whole`): its unit
  was made of what lies beside the photograph, and until the rename only another
  program could change that.

Only model-checked:

- everything under fairness (`SettleableSettles`, `AskedStops`, `RunEnds`,
  `AskedEnds`): liveness and `ENABLED` are beyond the prover.

## 5. What is not modelled

- Decoding, hashing and figures of pictures (numbers on pixels); wording, pages and
  parsing of arguments; SQLite itself; Windows system calls and geometry of
  windows; tables of extensions; reading Lightroom's catalogues.
- legacy.rs (rows of earlier versions), mount_bound.rs, outcome.rs, derived.rs: answers
  or words other parts are given.
- What `IndexRun` finds beside photographs, several disks, and a file rewritten
  within the second and size of its stamp.
- Hazards known and not covered by a property: a purge's retention is counted from a
  time read before the deletion (service.rs:769); a file id found by path after a
  reset may be another file's (files.rs:342); a stamp may not tell two contents apart
  (files.rs:140); a panic under the gate poisons its mutex (jobs.rs:213); a row's
  `located` overlay outlives the move of a folder it recorded (recovery.rs:328).

Worth doing next: the composition of `IndexRun` with `Thumbnails`' two writers.

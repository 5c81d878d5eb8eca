----------------------------- MODULE Reorganize -----------------------------
(***************************************************************************)
(* The reorganisation of the archive by date: the dates, the events and    *)
(* the names of a plan (pc-organize), the run that carries it out, the     *)
(* service files it sweeps out of the folders it emptied, and the way back *)
(* of a whole run or of one entry (pc-apply organize.rs, recovery.rs).     *)
(*                                                                         *)
(* A photograph and its companions move whole or not at all here: what can *)
(* happen between their renames is UnitMove's.  Only photographs have      *)
(* dates and rows in the index; a row belongs to its path (the column is   *)
(* UNIQUE), and remembers which object it was read from.                   *)
(***************************************************************************)
EXTENDS Integers, Sequences, FiniteSetsExt

CONSTANTS
    Photo, Side, Litter,  \* the objects: photographs, sidecars, service files
    Ext,                  \* the extensions
    Start,                \* where each object is at first
    Taken,                \* the moment the camera wrote into each photograph, 0: none
    Written,              \* its mtime
    FolderMonth,          \* of each folder there is at first: the month its own name gives, 0: none
    Roots,                \* folders some run walked from the top
    DayLength, MonthLength,
    Strays,               \* what another program may move, and where to
    Gaps,                 \* the silences a person may ask events to be split by
    MaxRuns,              \* bound: runs, reorganisations or others
    MaxEntries,           \* bound: the journal a plan is still carried out over, by the faults so far
    MaxUpsets             \* bound: other programs, kills, refusals of the journal

Object == Photo \cup Side \cup Litter
Folder(d) == <<"folder", d, 0>>
\* the folders of the archive: some it had, those of events and those of months
ArchiveDir == ({"folder"} \X (DOMAIN FolderMonth) \X {0}) \cup ({"event", "month"} \X Nat \X Nat)
Held(dir) == <<"held", dir, 0>>   \* the quarantine beside a folder
Kept(dir) == <<"kept", dir, 0>>   \* the quarantine in a folder
Path(dirs) == [dir : dirs, stem : Seq(Nat), ext : Ext]

ASSUME ObjectAssumption ==
    /\ Object \in SUBSET Nat /\ IsFiniteSet(Object)
    /\ Photo \cap Side = {} /\ Photo \cap Litter = {} /\ Side \cap Litter = {}
ASSUME DatesAssumption ==
    /\ Taken \in [Photo -> Nat] /\ Written \in [Photo -> Nat \ {0}]
    /\ FolderMonth \in [DOMAIN FolderMonth -> Nat]
    /\ Gaps \subseteq Nat /\ DayLength \in Nat \ {0} /\ MonthLength \in Nat \ {0}
ASSUME PlacesAssumption ==
    /\ Start \in [Object -> Path(ArchiveDir)]
    /\ \A a, b \in Object : Start[a] = Start[b] => a = b
    /\ Strays \subseteq Object \X Path(ArchiveDir)

VARIABLES
    place,    \* where each object is: [dir, stem, ext]; a stem is a name and the numbers added to it
    index,    \* files: of each path that has a row, what was read there and its state
    journal,  \* a sequence of [run, head, unit, dst, status]
    runs,     \* how many runs there are
    work,     \* what the writer is doing
    told,     \* entries an error named, or a kill left between two of their steps
    calm,     \* a run since whose beginning nothing but it and its undo happened
    began,    \* place and index when that run began
    meddled,  \* another program moved something
    upsets

reorganizeVars == <<place, index, journal, runs, work, told, calm, began, meddled, upsets>>

Occupied(path) == \E o \in Object : place[o] = path
Archived == {p \in Photo : place[p].dir[1] \notin {"held", "kept"}}

(* -------------------------- dates, events, names ----------------------- *)
Day(t) == t \div DayLength
\* what a folder's own name says; the names of the new tree read back too
DateOfFolder(dir) ==
    CASE dir[1] = "event" -> [ts |-> dir[2] * DayLength + dir[3], precise |-> TRUE]
      [] dir[1] = "month" -> [ts |-> dir[2] * MonthLength, precise |-> FALSE]
      [] dir[1] = "folder" /\ FolderMonth[dir[2]] # 0
                          -> [ts |-> FolderMonth[dir[2]] * MonthLength, precise |-> FALSE]
      [] OTHER            -> [ts |-> 0, precise |-> FALSE]
\* the ladder: the camera, then the folder, then the file system
Date(path) ==
    LET who == index[path].who IN
    CASE Taken[who] # 0                 -> [ts |-> Taken[who], precise |-> TRUE]
      [] Taken[who] = 0 /\ DateOfFolder(path.dir).ts # 0 -> DateOfFolder(path.dir)
      [] OTHER                          -> [ts |-> Written[who], precise |-> TRUE]

\* events: a silence longer than the gap begins a new one; the first of a day
\* has the day's plain name, the others add their time
Begins(T, gap) == {t \in T : \A u \in T : u < t => t - u > gap}
EventOf(T, gap, t) ==
    LET start == Max({s \in Begins(T, gap) : s <= t})
        first == ~\E s \in Begins(T, gap) : s < start /\ Day(s) = Day(start)
    IN <<"event", Day(start), IF first THEN 0 ELSE start % DayLength>>
Present == {path \in DOMAIN index : index[path].state = "present"}
Aim(gap) ==
    LET days == {path \in Present : Date(path).precise}
        T == {Date(path).ts : path \in days}
    IN [path \in Present |->
          IF path \in days THEN EventOf(T, gap, Date(path).ts)
          ELSE <<"month", Date(path).ts \div MonthLength, 0>>]

\* names: whoever stays or comes first keeps its own, the two halves of one shot keep one
\* mutant: the folder a name comes from is not looked at
KeyOfName(path, dir) == <<dir, dir, path.stem>>
Key(path, dir) == <<dir, path.dir, path.stem>>
Candidate(stem, n) == IF n = 1 THEN stem ELSE Append(stem, n)
Put(path, dir, stem) == [dir |-> dir, stem |-> stem, ext |-> path.ext]
\* the bound: more tries than there are names given out and files
Tries(path, dir, names) ==
    {n \in 1..(Cardinality(DOMAIN names) + Cardinality(Object) + 1) :
        /\ \A key \in DOMAIN names : key[1] = dir => names[key] # Candidate(path.stem, n)
        /\ ~Occupied(Put(path, dir, Candidate(path.stem, n)))}
Sooner(a, b) ==
    \/ Date(a).precise /\ ~Date(b).precise
    \/ Date(a).precise = Date(b).precise /\ Date(a).ts < Date(b).ts
    \/ Date(a).precise = Date(b).precise /\ Date(a).ts = Date(b).ts /\ index[a].who < index[b].who
First(paths) == CHOOSE a \in paths : \A b \in paths : ~Sooner(b, a)
Reserved(aim) == [key \in {Key(path, path.dir) : path \in {p \in Present : aim[p] = p.dir}} |-> key[3]]
Assigned(names, aim) ==
    LET nameless == {path \in Present : Key(path, aim[path]) \notin DOMAIN names}
        path == First(nameless)
    IN IF nameless = {} THEN names
       ELSE [key \in DOMAIN names \cup {Key(path, aim[path])} |->
               IF key \in DOMAIN names THEN names[key]
               ELSE Candidate(path.stem, Min(Tries(path, aim[path], names)))]
Names(aim) ==
    LET after[n \in Nat] == IF n = 0 THEN Reserved(aim) ELSE Assigned(after[n - 1], aim)
    IN after[Cardinality(Present)]
Plan(gap) ==
    LET aim == Aim(gap)
        names == Names(aim)
    IN {[who |-> index[path].who, src |-> path, index |-> TRUE,
         dst |-> Put(path, aim[path], names[Key(path, aim[path])])] :
           path \in {p \in Present : aim[p] # p.dir}}

(* -------------------------------- the unit ----------------------------- *)
Companions(path) == {s \in Side : place[s].dir = path.dir /\ place[s].stem = path.stem}
\* mutant: a sidecar keeps its own name
SameName(s, m) == Put(place[s], m.dst.dir, m.src.stem)
\* a sidecar takes the new stem of its photograph
SidecarName(s, m) == Put(place[s], m.dst.dir, m.dst.stem)
Unit(m) ==
    {[who |-> m.who, src |-> m.src, dst |-> m.dst]}
    \cup (IF m.index THEN {[who |-> s, src |-> place[s], dst |-> SidecarName(s, m)] :
                             s \in Companions(m.src)}
          ELSE {})
Ready(U) == \A u \in U : place[u.who] = u.src /\ ~Occupied(u.dst)
Moved(U) == [o \in Object |-> IF \E u \in U : u.who = o
                              THEN (CHOOSE u \in U : u.who = o).dst ELSE place[o]]
\* the way back takes a member that is home already as it is
CanReturn(U) == \A u \in U : place[u.who] = u.src \/ (place[u.who] = u.dst /\ ~Occupied(u.src))
Returned(U) == [o \in Object |-> IF \E u \in U : u.who = o
                                 THEN (CHOOSE u \in U : u.who = o).src ELSE place[o]]
\* UPDATE files SET path: the column is UNIQUE
Follows(from, to) == to = from \/ to \notin DOMAIN index
Followed(from, to) ==
    [path \in (DOMAIN index \ {from}) \cup {to} |-> IF path = to THEN index[from] ELSE index[path]]

(* ------------------------------- the steps ----------------------------- *)
Idle == [phase |-> "idle"]
Nothing == [place |-> <<>>, index |-> <<>>]
ReorganizeInit ==
    /\ place = Start
    /\ index = [path \in {Start[p] : p \in Photo} |->
                  [who |-> CHOOSE p \in Photo : Start[p] = path, state |-> "present"]]
    /\ journal = <<>> /\ runs = 0 /\ work = Idle /\ told = {}
    /\ calm = 0 /\ began = Nothing /\ meddled = FALSE /\ upsets = 0

Free == work.phase = "idle"
Disturbed == calm' = 0 /\ began' = Nothing
Smoothly == UNCHANGED <<upsets, meddled>>
Upset == upsets < MaxUpsets /\ upsets' = upsets + 1
Same == UNCHANGED <<calm, began, runs>>
Entry(m, run) == [run |-> run, head |-> m.who, unit |-> Unit(m), src |-> m.src, dst |-> m.dst,
                  index |-> m.index, status |-> "pending"]
Closed(jid, status) == [journal EXCEPT ![jid].status = status]

\* the command line files its moves under the latest run, the web under a new
\* one; either carries out the plan it has just made.  The command line sweeps
\* at the end, the web after each photograph, which is a call of its own
organize(run, gap, each) ==
    /\ Free /\ run \in {runs, runs + 1} \cap 1..MaxRuns
    /\ Len(journal) <= MaxEntries[upsets] /\ Plan(gap) # {}
    /\ runs' = run
    /\ work' = [phase |-> "move", run |-> run, left |-> Plan(gap), cur |-> 0, step |-> "next",
                each |-> each, emptied |-> {}]
    /\ IF run = runs
       THEN IF calm = run THEN UNCHANGED <<calm, began>> ELSE Disturbed
       ELSE IF \A path \in DOMAIN index : index[path].state = "present" /\ place[index[path].who] = path
       THEN calm' = run /\ began' = [place |-> place, index |-> index]
       ELSE Disturbed
    /\ Smoothly /\ UNCHANGED <<place, index, journal, told>>

Moving(step) == work.phase = "move" /\ work.step = step
Sweeping == work.emptied # {} /\ (work.each \/ \A m \in work.left : ~m.index)
\* the early looks: the file is gone or changed, a name is taken
Refuse(m) ==
    /\ Moving("next") /\ ~Sweeping /\ ~Ready(Unit(m))
    /\ work' = [work EXCEPT !.left = @ \ {m}]
    /\ Smoothly /\ Same /\ UNCHANGED <<place, index, journal, told>>
BeginMove(m) ==
    /\ Moving("next") /\ ~Sweeping /\ Ready(Unit(m))
    /\ journal' = Append(journal, Entry(m, work.run))
    /\ work' = [work EXCEPT !.left = @ \ {m}, !.cur = Len(journal) + 1, !.step = "rename"]
    /\ Smoothly /\ Same /\ UNCHANGED <<place, index, told>>
move_unit ==
    LET e == journal[work.cur] IN
    /\ Moving("rename")
    /\ IF Ready(e.unit)
       THEN /\ place' = Moved(e.unit)
            /\ work' = [work EXCEPT !.step = "close",
                                    !.emptied = @ \cup (IF e.index THEN {e.src.dir} ELSE {})]
            /\ UNCHANGED journal
       ELSE /\ journal' = Closed(work.cur, "failed")
            /\ work' = [work EXCEPT !.step = "next", !.cur = 0] /\ UNCHANGED place
    /\ Smoothly /\ Same /\ UNCHANGED <<index, told>>
journal_close ==
    /\ Moving("close") /\ journal' = Closed(work.cur, "done")
    /\ work' = [work EXCEPT !.step = IF journal[work.cur].index THEN "follow" ELSE "next"]
    /\ Smoothly /\ Same /\ UNCHANGED <<place, index, told>>
set_file_path ==
    LET e == journal[work.cur] IN
    /\ Moving("follow")
    /\ IF e.src \in DOMAIN index /\ ~Follows(e.src, e.dst)
       THEN /\ work' = Idle /\ told' = told \cup {work.cur} /\ UNCHANGED index
       ELSE /\ work' = [work EXCEPT !.step = "next"] /\ UNCHANGED told
            /\ index' = IF e.src \in DOMAIN index THEN Followed(e.src, e.dst) ELSE index
    /\ Smoothly /\ Same /\ UNCHANGED <<place, journal>>
\* the service files of a folder the run emptied
sweep_litter(dir) ==
    LET inside == {o \in Object : place[o].dir = dir} IN
    /\ Moving("next") /\ Sweeping /\ dir \in work.emptied
    /\ work' = [work EXCEPT !.emptied = @ \ {dir},
                 !.left = @ \cup (IF dir \notin Roots /\ inside \subseteq Litter
                    THEN {[who |-> o, src |-> place[o], index |-> FALSE,
                           dst |-> Put(place[o], Held(dir), place[o].stem)] : o \in inside}
                    ELSE {})]
    /\ Smoothly /\ Same /\ UNCHANGED <<place, index, journal, told>>
FinishRun ==
    /\ Moving("next") /\ work.left = {} /\ work.emptied = {} /\ work' = Idle
    /\ Smoothly /\ Same /\ UNCHANGED <<place, index, journal, told>>

\* the way back: of a run, its finished entries newest first, or of one entry
\* mutant: oldest first
OldestOf(jids) == Min(jids)
NewestOf(jids) == Max(jids)
DoneOf(run) == {j \in DOMAIN journal : journal[j].run = run /\ journal[j].status = "done"}
Undoing(jids, run) == [phase |-> "undo", run |-> run, left |-> jids, step |-> "next", failed |-> FALSE]
undo_run(run) ==
    /\ Free /\ DoneOf(run) # {}
    /\ work' = Undoing(DoneOf(run), run)
    /\ IF calm = run THEN UNCHANGED <<calm, began>> ELSE Disturbed
    /\ Smoothly /\ UNCHANGED <<place, index, journal, runs, told>>
undo(jid) ==
    /\ Free /\ journal[jid].status = "done"
    /\ work' = Undoing({jid}, 0)
    /\ Disturbed
    /\ Smoothly /\ UNCHANGED <<place, index, journal, runs, told>>
Back(step) == work.phase = "undo" /\ work.left # {} /\ work.step = step
NextEntry(failed) == [work EXCEPT !.left = @ \ {NewestOf(@)}, !.step = "next", !.failed = @ \/ failed]
walk_back ==
    LET U == journal[NewestOf(work.left)].unit IN
    /\ Back("next")
    /\ IF CanReturn(U) THEN place' = Returned(U) /\ work' = [work EXCEPT !.step = "index"]
                       ELSE work' = NextEntry(TRUE) /\ UNCHANGED place
    /\ Smoothly /\ Same /\ UNCHANGED <<index, journal, told>>
\* mutant: the index does not follow the way back
StaysThere(e) == index
BackInIndex(e) == IF e.dst \in DOMAIN index THEN Followed(e.dst, e.src) ELSE index
index_back ==
    LET jid == NewestOf(work.left)
        e == journal[jid] IN
    /\ Back("index")
    /\ IF e.index /\ e.dst \in DOMAIN index /\ ~Follows(e.dst, e.src)
       THEN /\ work' = NextEntry(TRUE) /\ told' = told \cup {jid} /\ UNCHANGED index
       ELSE /\ work' = [work EXCEPT !.step = "close"] /\ UNCHANGED told
            /\ index' = IF e.index THEN BackInIndex(e) ELSE index
    /\ Smoothly /\ UNCHANGED <<place, journal, runs, calm, began>>
close_undone ==
    /\ Back("close") /\ journal' = Closed(NewestOf(work.left), "undone") /\ work' = NextEntry(FALSE)
    /\ Smoothly /\ Same /\ UNCHANGED <<place, index, told>>
FinishUndo ==
    /\ work.phase = "undo" /\ work.left = {} /\ work' = Idle
    /\ Smoothly /\ Same /\ UNCHANGED <<place, index, journal, told>>
\* a killed move leaves its entry open: whatever of it arrived goes home
reconcile_undo(jid) ==
    /\ Free /\ journal[jid].status = "pending" /\ CanReturn(journal[jid].unit)
    /\ place' = Returned(journal[jid].unit) /\ journal' = Closed(jid, "undone")
    /\ Smoothly /\ Disturbed /\ UNCHANGED <<runs, index, work, told>>

\* what else happens to the archive: copies go to quarantine and come back,
\* the archive is indexed anew
Other == Free /\ Disturbed /\ UNCHANGED <<work, told>> /\ Smoothly
Quarantine(p) ==
    LET m == [who |-> p, src |-> place[p], index |-> TRUE,
              dst |-> Put(place[p], Kept(place[p].dir), place[p].stem)] IN
    /\ Other /\ runs < MaxRuns /\ runs' = runs + 1
    /\ place[p] \in Present /\ index[place[p]].who = p /\ Ready(Unit(m))
    /\ place' = Moved(Unit(m)) /\ index' = [index EXCEPT ![place[p]].state = "quarantined"]
    /\ UNCHANGED journal
Index ==
    /\ Other
    /\ index' = [path \in DOMAIN index \cup {place[p] : p \in Archived} |->
                   [who |-> IF \E p \in Archived : place[p] = path
                            THEN CHOOSE p \in Archived : place[p] = path ELSE index[path].who,
                    state |-> IF path \in DOMAIN index THEN index[path].state ELSE "present"]]
    /\ index' # index
    /\ UNCHANGED <<place, journal, runs>>

\* other programs, a journal that refuses, and a kill
Others(o, path) ==
    /\ Upset /\ meddled' = TRUE /\ ~Occupied(path) /\ place' = [place EXCEPT ![o] = path]
    /\ Disturbed /\ UNCHANGED <<index, journal, runs, work, told>>
Stops ==
    /\ Upset /\ ~Free /\ work' = Idle
    /\ told' = IF work.phase = "move" /\ work.step # "next" THEN told \cup {work.cur}
               ELSE IF work.phase = "undo" /\ work.step # "next" THEN told \cup {NewestOf(work.left)} ELSE told
    /\ Disturbed /\ UNCHANGED <<place, index, journal, runs, meddled>>

ReorganizeNext ==
    \/ \E gap \in Gaps, run \in 1..MaxRuns, each \in BOOLEAN : organize(run, gap, each)
    \/ work.phase = "move" /\ \E m \in work.left : Refuse(m) \/ BeginMove(m)
    \/ move_unit \/ journal_close \/ set_file_path \/ FinishRun
    \/ work.phase = "move" /\ \E dir \in work.emptied : sweep_litter(dir)
    \/ \E run \in 1..runs : undo_run(run)
    \/ \E jid \in DOMAIN journal : undo(jid) \/ reconcile_undo(jid)
    \/ walk_back \/ index_back \/ close_undone \/ FinishUndo
    \/ \E p \in Photo : Quarantine(p)
    \/ Index \/ Stops
    \/ \E stray \in Strays : Others(stray[1], stray[2])

ReorganizeSpec == ReorganizeInit /\ [][ReorganizeNext]_reorganizeVars

(* ------------------------------ properties ----------------------------- *)
\* A plan never sends two files to one name, nor one to the name of a file
\* that stays, and the two halves of one shot that go to one folder go under
\* one name (plan.rs Namer).
PlanIsFair ==
    Free => \A gap \in Gaps : LET plan == Plan(gap) IN
        /\ \A a \in plan : a.dst \notin Present \ {b.src : b \in plan}
        /\ \A a, b \in plan : a # b =>
            /\ a.dst # b.dst
            /\ a.src.dir = b.src.dir /\ a.src.stem = b.src.stem /\ a.dst.dir = b.dst.dir
                 => a.dst.stem = b.dst.stem

\* A run that nothing interfered with, however many plans were filed under
\* it, is undone to the last file: every photograph, sidecar and service file
\* is where it was, and the index says so (organize.rs undo_run).
BackAsItWas ==
    [][work.phase = "undo" /\ work'.phase = "idle" /\ calm # 0 /\ calm' = calm /\ work.run = calm
         => ~work.failed /\ [place |-> place, index |-> index] = began]_reorganizeVars

\* Carrying a plan out never parts a sidecar from its photographs: whichever
\* half of a shot goes first, into whatever name a collision left it, the
\* sidecar lies beside one of those it lay beside, under its name (organize.rs
\* sidecar_name, user decision (c)).
Beside(s, p) == place[p].dir = place[s].dir /\ place[p].stem = place[s].stem
SidecarFollows ==
    [][work.phase = "move" /\ ~meddled' =>
         \A s \in Side : (\E p \in Photo : Beside(s, p)) =>
             \E p \in Photo : Beside(s, p) /\ Beside(s, p)']_reorganizeVars

\* Unless an error named an entry or a kill cut one short, a photograph in the
\* archive has its row under the path it is at, and no row of the archive
\* speaks of another file (pc-db organize.rs set_file_path, recovery.rs undo).
IndexFollows ==
    Free /\ told = {} /\ ~meddled =>
        /\ \A p \in Archived : place[p] \in Present /\ index[place[p]].who = p
        /\ \A path \in Present : place[index[path].who] = path
=============================================================================

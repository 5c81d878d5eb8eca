----------------------------- MODULE DataFolder -----------------------------
(***************************************************************************)
(* A data folder is opened by path, and the path belongs to a disk that    *)
(* other accounts and the user's other programs use too.  pc-desktop       *)
(* admits a path only when nobody else can change a folder on it           *)
(* (namespace.rs, relocate/volume.rs), compares what is there with the     *)
(* objects recorded when the folder was chosen (binding.rs), and asks      *)
(* again before every write (pc-core storage.rs): around SQLite's open     *)
(* (pc-db lib.rs), before the writer lock, before a thumbnail.  A folder   *)
(* that does not exist yet is made level by level.                         *)
(*                                                                         *)
(* The database, once open, is brought up to the opener's schema           *)
(* (pc-db schema.rs); a second program may do the same at the same time.   *)
(*                                                                         *)
(* An object is a name of this model; `at` says which object stands under  *)
(* a name in a folder, so that moving a folder takes its contents along.   *)
(***************************************************************************)
EXTENDS Naturals, Sequences, FiniteSets

CONSTANTS
    Worlds,      \* what the three folders of the path may be like at the start
    Systems,     \* the platforms: subset of {"macos", "linux", "windows"}
    Knows,       \* per program ("app", "tool") the number of its migrations
    Kinds,       \* what each migration does: "tables", "columns" or "decisions"
    MaxOthers,   \* acts of other accounts
    MaxOwn,      \* acts of the user's other programs
    MaxFaults    \* kills

ASSUME FolderAssumption ==
    /\ Systems \subseteq {"macos", "linux", "windows"}
    /\ Knows \in [{"app", "tool"} -> Nat] /\ {MaxOthers, MaxOwn, MaxFaults} \subseteq Nat
    /\ Kinds \in Seq({"tables", "columns", "decisions"}) /\ \A p \in DOMAIN Knows : Knows[p] <= Len(Kinds)

\* What the system says of a folder: whose it is, whether others may write it and
\* only the owner of what is in it may rename that, its access list, its volume.
Fact == [who : {"me", "root", "other"}, loose : BOOLEAN, sticky : BOOLEAN,
         list : {"none", "harmless", "open"}, vol : {"kept", "unowned", "strange"}]
ASSUME WorldAssumption == Worlds \subseteq Fact \X Fact \X Fact

Path == <<"top", "up", "data">>                    \* the objects proven, top first
\* "bare" is an empty folder of another account, "up2" and "data2" one with contents.
Folders == {"top", "up", "data", "up2", "data2", "bare", "made", "thumbs", "thumbs2"}
\* Files: the proven database; another one that got its inode number; another
\* database; a file of the user; one others may write; one with a second name;
\* one of another account.
Databases == {"db", "reborn", "copy"}
Beneath == {"plain", "shared", "twin", "alien"}
Files == Databases \cup Beneath
Objects == Folders \cup Files
Slots == {<<"top", "up">>, <<"up", "data">>, <<"up2", "data">>, <<"data2", "db">>, <<"data2", "wal">>, <<"made", "db">>}
         \cup ({"data"} \X {"db", "wal", "lock", "thumbs"})
NameAt == <<"", "up", "data">>                     \* the name of each level in the one above
Programs == DOMAIN Knows

VARIABLES
    system,    \* the platform
    at,        \* what stands under a name: an object, "link" or "none"
    fact,      \* what the system says of a folder
    app,       \* the app: what it is after, its stage, the level it walks, the round of checks
    chain,     \* the folders it holds open, top first
    held,      \* the other objects it holds open
    schema,    \* the database: version rows, statements that took effect, and which of
               \* the two files of one group are kept or set aside by hand
    prog,      \* per program the migration it is at: stage, version read, next, draft
    landed,    \* what was written where
    quiet,     \* no program of the user acted since the last checks began
    still,     \* ... since the admission began
    others, own, faults,
    away       \* what other accounts took away, and from which name

vars == <<system, at, fact, app, chain, held, schema, prog, landed, quiet, still, others, own, faults, away>>
world == <<system, at, fact>>
acts == <<others, own, faults, away>>
data == <<schema, prog>>
calm == <<quiet, still>>

Closed == [who |-> "me", loose |-> FALSE, sticky |-> FALSE, list |-> "none", vol |-> "kept"]
Pair == {"one", "two"}
\* A database past 014 has its decisions mended.
MendedAlready == \E v \in schema.rows : Kinds[v] = "decisions"
NoDraft == [rows |-> {}, effects |-> {}, kept |-> {}, aside |-> {}]
Idle == [stage |-> "off", read |-> 0, draft |-> NoDraft]
NoHold == [db |-> "none", thumbs |-> "none", sqlite |-> "none", cache |-> "none"]
App(goal, stage, level, round) == [goal |-> goal, stage |-> stage, level |-> level, round |-> round]

Init ==
    /\ system \in Systems
    /\ \E w \in Worlds : fact = [f \in Folders |->
           CASE f = "top" -> w[1] [] f = "up" -> w[2] [] f = "data" -> w[3]
             [] f \in {"up2", "bare"} -> [Closed EXCEPT !.who = "other"] [] OTHER -> Closed]
    /\ \E goal \in {"use", "make"}, db \in {"db", "reborn"} :
           /\ app = App(goal, "off", 1, 1)
           /\ at = [s \in Slots |->
                  CASE s = <<"top", "up">> -> "up"
                    [] s = <<"up", "data">> -> IF goal = "use" THEN "data" ELSE "none"
                    [] s = <<"up2", "data">> -> "data2"
                    [] s = <<"data", "db">> -> db [] s = <<"data2", "db">> -> "copy"
                    [] s = <<"data", "thumbs">> -> "thumbs"
                    [] OTHER -> "none"]
    /\ chain = <<>> /\ held = NoHold /\ landed = {} /\ quiet = TRUE /\ still = TRUE /\ away = {}
    \* Either the names are disturbed and the schema is the newest, or the schema
    \* is old, the folders are closed and nobody touches the names: the two do not meet.
    /\ \/ /\ schema = [rows |-> 1 .. Len(Kinds), effects |-> 1 .. Len(Kinds), kept |-> {}, aside |-> {}]
          /\ prog = [p \in Programs |-> IF p = "app" THEN Idle ELSE [Idle EXCEPT !.stage = "done"]]
          /\ others = 0 /\ own = 0 /\ faults = MaxFaults
       \/ /\ \E n \in 0 .. Knows["app"] - 1, kept, aside \in SUBSET Pair :
                 schema = [rows |-> 1 .. n, effects |-> 1 .. n, kept |-> kept, aside |-> aside]
          /\ MendedAlready => schema.kept # Pair /\ schema.kept \cap schema.aside = {}
          /\ \A f \in {"top", "up", "data"} : fact[f] = Closed
          /\ prog = [p \in Programs |-> Idle]
          /\ others = MaxOthers /\ own = MaxOwn /\ faults = 0

------------------------------------------------------------------------------
(* What the system decides, and who may change what.                       *)

Who(o) == IF o \in Folders THEN fact[o].who ELSE IF o = "alien" THEN "other" ELSE "me"
\* Another account has the owner's rights over a folder.
Rules(f) == fact[f].who = "other" \/ fact[f].vol = "unowned" \/ fact[f].list = "open"
MayPut(f) == fact[f].loose \/ Rules(f)
MayTake(f, o) == Rules(f) \/ (fact[f].loose /\ (~fact[f].sticky \/ Who(o) = "other"))

Running == app.stage \notin {"off", "refused"}
Placed(o) == o \in Folders /\ \E s \in Slots : at[s] = o
\* What fits under a name, and stands nowhere else.
Fits(s, o) ==
    /\ o # at[s] /\ ~Placed(o)
    /\ o \in {"none", "link"} \cup
         CASE s[2] = "up" -> {"up", "up2"}
           [] s[2] = "data" -> {"data", "data2", "bare", "made"}
           [] s[2] = "thumbs" -> {"thumbs", "thumbs2"}
           [] s[2] = "db" -> Databases
           [] OTHER -> Beneath

\* What other accounts have to put there: things of their own, the user's other
\* database, and what they took from that name.
Theirs == {"none", "link", "alien", "up2", "data2", "bare"}
OthersAct ==
    /\ Running /\ others < MaxOthers /\ others' = others + 1
    /\ \/ /\ \E s \in Slots, o \in Objects \cup {"none", "link"} :
                 /\ o \in Theirs \/ <<s, o>> \in away
                 /\ Fits(s, o) /\ at' = [at EXCEPT ![s] = o]
                 /\ \/ at[s] = "none" /\ MayPut(s[1]) /\ UNCHANGED away
                    \/ at[s] # "none" /\ MayTake(s[1], at[s]) /\ away' = away \cup {<<s, at[s]>>}
          /\ UNCHANGED fact
       \/ /\ \E f \in Folders : Rules(f) /\ fact' = [fact EXCEPT ![f].loose = ~@]
          /\ UNCHANGED <<at, away>>
    /\ UNCHANGED <<system, app, chain, held, data, landed, calm, own, faults>>

\* The user's own programs: a restored backup, a sync tool, Finder, a chmod.
OwnAct ==
    /\ Running /\ own < MaxOwn /\ own' = own + 1 /\ quiet' = FALSE /\ still' = FALSE
    /\ \/ /\ \E s \in Slots, o \in (Objects \ {"made"}) \cup {"none", "link"} :
                 Fits(s, o) /\ at' = [at EXCEPT ![s] = o]
          /\ UNCHANGED fact
       \/ /\ \E f \in Folders : fact[f].who = "me" /\ fact' = [fact EXCEPT ![f].loose = ~@]
          /\ UNCHANGED at
    /\ UNCHANGED <<system, app, chain, held, data, landed, others, faults, away>>

------------------------------------------------------------------------------
(* Where a path leads now.                                                 *)

Below(f, name) == IF <<f, name>> \in Slots THEN at[<<f, name>>] ELSE "none"
\* The folder the path leads to at level k, links not followed.
Leads[k \in 1 .. 3] == IF k = 1 THEN "top" ELSE Below(Leads[k - 1], NameAt[k])
AtPath(name) == Below(Leads[3], name)

------------------------------------------------------------------------------
(* namespace.rs and relocate/volume.rs: may anybody else change a folder?  *)

\* What a volume says of itself, per platform.
MacVolume(f) == [known |-> fact[f].vol # "strange", ignores |-> fact[f].vol = "unowned",
                 acls |-> fact[f].vol # "strange"]
LinuxVolume(f) == [known |-> fact[f].vol = "kept", ignores |-> FALSE, acls |-> TRUE]
WindowsVolume(f) == [known |-> TRUE, ignores |-> FALSE, acls |-> fact[f].vol = "kept"]
probe_file(f) == CASE system = "macos" -> MacVolume(f) [] system = "linux" -> LinuxVolume(f)
                   [] system = "windows" -> WindowsVolume(f)
verdict(v) == v.known /\ ~v.ignores /\ v.acls

\* On macOS an entry that allows a change; on Linux any access list at all.
MacList(f) == fact[f].list # "open"
LinuxList(f) == fact[f].list = "none"
acl_check(f) == IF system = "macos" THEN MacList(f) ELSE LinuxList(f)
supported == system # "windows"

StickyIsEnough(f, last) == ~fact[f].loose \/ fact[f].sticky      \* mutant: also in the last folder
\* Where others may write, a sticky bit is enough above the last folder only.
Writable(f, last) == ~fact[f].loose \/ (fact[f].sticky /\ ~last)
\* Root or this user owns it; its mode, volume and access list let nobody else in.
check(f, last) == fact[f].who # "other" /\ Writable(f, last) /\ verdict(probe_file(f)) /\ acl_check(f)
is_own(f) == fact[f].who = "me"
check_own_folder(f) == check(f, TRUE) /\ is_own(f)

\* A plain file of this user with one name; where its contents matter, closed to others.
check_file_at(f, name) ==
    Below(f, name) \in {"none", "plain"} \cup Databases \cup (IF name = "lock" THEN {"shared"} ELSE {})

------------------------------------------------------------------------------
(* The app opens a folder it has recorded, or makes one.                   *)

To(stage) == [app EXCEPT !.stage = stage]
Refuse == app' = To("refused")
Last == Len(chain)

Launch ==
    /\ app.stage = "off" /\ app' = App(app.goal, IF supported THEN "walk" ELSE "refused", 1, 1)
    /\ chain' = <<>> /\ held' = NoHold /\ quiet' = TRUE /\ still' = TRUE
    /\ UNCHANGED <<world, data, landed, acts>>

Child(k) == IF k = 1 THEN "top" ELSE Below(chain[k - 1], NameAt[k])

\* admit: open every level from the one above, without following a link; what
\* is missing is missing from here down, and only a folder to be made may miss.
Walk ==
    /\ app.stage = "walk" /\ LET k == app.level  o == Child(k)  want == IF app.goal = "use" THEN 3 ELSE 2 IN
           IF o \in Folders
           THEN /\ chain' = Append(chain, o)
                /\ app' = IF k = want THEN [app EXCEPT !.stage = "check", !.level = 1]
                          ELSE [app EXCEPT !.level = k + 1]
           ELSE Refuse /\ UNCHANGED chain
    /\ UNCHANGED <<world, held, data, landed, calm, acts>>

Check ==
    /\ app.stage = "check"
    /\ IF ~check(chain[app.level], app.level = Last) THEN Refuse
       ELSE app' = IF app.level < Last THEN [app EXCEPT !.level = @ + 1]
                   ELSE To(IF app.goal = "use" THEN "compare" ELSE "mkdir")
    /\ UNCHANGED <<world, chain, held, data, landed, calm, acts>>

\* An inode number is given again to another file; a restored copy has another
\* number, and its attributes come along or not.
inode(o) == IF o \in {"db", "reborn"} THEN "recorded" ELSE "other"
read_generation(o) == IF o \in {"db", "copy"} THEN "recorded" ELSE "none"
\* The database in the folder held carries the mark that was put on this very copy.
generation == read_generation(Below("data", "db")) = "recorded"

\* DataGuard::open: the folder and the database are those recorded, then the cache.
Compare ==
    /\ app.stage = "compare"
    /\ IF chain = Path /\ inode(Below("data", "db")) = "recorded" /\ generation
       THEN held' = [held EXCEPT !.db = Below("data", "db")] /\ app' = To("compare_cache")
       ELSE Refuse /\ UNCHANGED held
    /\ UNCHANGED <<world, chain, data, landed, calm, acts>>

CompareCache ==
    /\ app.stage = "compare_cache"
    /\ IF Below("data", "thumbs") = "thumbs"
       THEN /\ held' = [held EXCEPT !.thumbs = "thumbs"]
            /\ app' = [app EXCEPT !.stage = "recheck", !.level = 1] /\ quiet' = TRUE
       ELSE Refuse /\ UNCHANGED <<held, quiet>>
    /\ UNCHANGED <<world, chain, data, landed, still, acts>>

\* Protected::recheck: the path again, level by level, each still the folder proven.
Recheck ==
    /\ app.stage = "recheck"
    /\ LET k == app.level  o == Child(k) IN
           IF o = chain[k] /\ check(o, k = Last)
           THEN app' = IF k < Last THEN [app EXCEPT !.level = k + 1] ELSE To("files")
           ELSE Refuse
    /\ UNCHANGED <<world, chain, held, data, landed, calm, acts>>

\* What comes after each round of checks.
After == <<"check_cache", "sqlite", "journal", "lock">>
\* DataGuard::database: the path and the folder lead to the database held, and what
\* SQLite and the lock open beside it is absent or the user's own plain file.
Confirmed == AtPath("db") = held.db /\ Below("data", "db") = held.db /\ \A n \in {"db", "wal", "lock"} : check_file_at("data", n)
CheckFiles ==
    /\ app.stage = "files"
    /\ IF Confirmed THEN app' = To(After[app.round]) ELSE Refuse
    /\ UNCHANGED <<world, chain, held, data, landed, calm, acts>>

\* The path leads to the proven cache, and nobody else can write it.
thumbnails == AtPath("thumbs") = held.thumbs /\ check_own_folder(held.thumbs)
CheckCache ==
    /\ app.stage = "check_cache" /\ IF thumbnails THEN app' = To("probe") ELSE Refuse
    /\ UNCHANGED <<world, chain, held, data, landed, calm, acts>>

\* Another round of checks.
Again(round) == app' = [app EXCEPT !.stage = "recheck", !.level = 1, !.round = round] /\ quiet' = TRUE

\* probe_writable: this process may add and remove files there; tried without leaving a name.
MayWrite(f) == f \in Folders /\ (fact[f].who = "me" \/ fact[f].loose)
Probe ==
    /\ app.stage = "probe" /\ IF MayWrite(Leads[3]) THEN Again(2) ELSE Refuse /\ UNCHANGED quiet
    /\ UNCHANGED <<world, chain, held, data, landed, still, acts>>

\* SQLite opens the path: nothing is created, no link is followed.
OpenDb ==
    /\ app.stage = "sqlite"
    /\ IF AtPath("db") \in Files THEN held' = [held EXCEPT !.sqlite = AtPath("db")] /\ app' = To("moved")
       ELSE Refuse /\ UNCHANGED held
    /\ UNCHANGED <<world, chain, data, landed, calm, acts>>

\* The binding confirms the path once more, now that SQLite holds a file.
SecondLook == Again(3)
has_moved == AtPath("db") # held.sqlite
HasMoved ==
    /\ app.stage = "moved"
    /\ IF has_moved THEN Refuse /\ UNCHANGED quiet ELSE SecondLook
    /\ UNCHANGED <<world, chain, held, data, landed, still, acts>>

\* A file opened by name beside the database: what is there, or a new one.
Beside(name) == IF AtPath(name) = "none" THEN "plain" ELSE AtPath(name)
Wrote(what, o) == [what |-> what, obj |-> o, quiet |-> quiet]
Appears(name) ==
    at' = IF <<Leads[3], name>> \in Slots /\ AtPath(name) = "none" THEN [at EXCEPT ![<<Leads[3], name>>] = "plain"] ELSE at

\* setup: journal_mode WAL writes the file held and the journal beside its name.
Setup ==
    /\ app.stage = "journal"
    /\ IF Leads[3] \notin Folders THEN Refuse /\ UNCHANGED <<at, landed, prog>>
       ELSE /\ landed' = landed \cup {Wrote("db", held.sqlite), Wrote("wal", Beside("wal"))}
            /\ Appears("wal") /\ app' = To("migrating") /\ prog' = [prog EXCEPT !["app"].stage = "read"]
    /\ UNCHANGED <<system, fact, chain, held, schema, calm, acts>>

\* take_writer: the binding is asked first, then the lock file is written by name.
AskForLock ==
    /\ app.stage = "on" /\ Again(4)
    /\ UNCHANGED <<world, chain, held, data, landed, still, acts>>

WriteLock ==
    /\ app.stage = "lock"
    /\ IF Leads[3] \notin Folders THEN Refuse /\ UNCHANGED <<at, landed>>
       ELSE landed' = landed \cup {Wrote("lock", Beside("lock"))} /\ Appears("lock") /\ app' = To("on")
    /\ UNCHANGED <<system, fact, chain, held, data, calm, acts>>

\* A thumbnail: the cache is opened, the folder opened is compared, and what
\* follows goes through that descriptor.
OpenCache ==
    /\ app.stage = "on" /\ AtPath("thumbs") \in Folders
    /\ held' = [held EXCEPT !.cache = AtPath("thumbs")] /\ app' = To("cache")
    /\ UNCHANGED <<world, chain, data, landed, calm, acts>>

\* ... and it is the one opened.
check_thumbnail_folder == thumbnails /\ held.cache = held.thumbs

Store ==
    /\ app.stage = "cache"
    /\ IF check_thumbnail_folder THEN landed' = landed \cup {Wrote("thumb", held.cache)} ELSE UNCHANGED landed
    /\ app' = To("on")
    /\ UNCHANGED <<world, chain, held, data, calm, acts>>

\* create_missing: the folder is made in the open one above, opened again by name, and checked.
Mkdir ==
    /\ app.stage = "mkdir"
    /\ IF Below(chain[2], "data") = "none" /\ <<chain[2], "data">> \in Slots
       THEN at' = [at EXCEPT ![<<chain[2], "data">>] = "made"] /\ app' = To("open_made")
       ELSE Refuse /\ UNCHANGED at
    /\ UNCHANGED <<system, fact, chain, held, data, landed, calm, acts>>

OpenMade ==
    /\ app.stage = "open_made"
    /\ LET o == Below(chain[2], "data") IN
           IF o \in Folders THEN chain' = Append(chain, o) /\ app' = To("check_made")
           ELSE Refuse /\ UNCHANGED chain
    /\ UNCHANGED <<world, held, data, landed, calm, acts>>

CheckMade ==
    /\ app.stage = "check_made"
    /\ app' = To(IF check(chain[3], TRUE) /\ is_own(chain[3]) THEN "has" ELSE "look")
    /\ UNCHANGED <<world, chain, held, data, landed, calm, acts>>

\* Whoever asked for the folder gives up: it goes again while its name holds it.
GiveUp ==
    /\ app.stage = "has" /\ app' = To("look")
    /\ UNCHANGED <<world, chain, held, data, landed, calm, acts>>

Whatever == TRUE                                                  \* mutant: whatever has the name is removed
HoldsIt == Below(chain[2], "data") = chain[3]
Look ==
    /\ app.stage = "look" /\ quiet' = TRUE
    /\ IF HoldsIt THEN app' = To("rmdir") ELSE Refuse
    /\ UNCHANGED <<world, chain, held, data, landed, still, acts>>

IsEmpty(f) == \A s \in Slots : s[1] = f => at[s] = "none"
\* Nothing was done to the path since the admission, or since the look, and no
\* other account could take the folder opened from the one above.
Untouched == still \/ (quiet /\ ~MayTake(chain[2], chain[3]))
Removed(o) == [what |-> "removed", obj |-> IF o = chain[3] THEN "made" ELSE o, quiet |-> Untouched]
\* Between the look and the removal the name may have come to hold another
\* folder, which goes if it is empty.
Rmdir ==
    /\ app.stage = "rmdir" /\ Refuse
    /\ LET o == Below(chain[2], "data") IN
           IF o \in Folders /\ IsEmpty(o)
           THEN at' = [at EXCEPT ![<<chain[2], "data">>] = "none"] /\ landed' = landed \cup {Removed(o)}
           ELSE UNCHANGED <<at, landed>>
    /\ UNCHANGED <<system, fact, chain, held, data, calm, acts>>

------------------------------------------------------------------------------
(* schema.rs: every program brings the database to the schema it knows.    *)

\* Another program opens the database by its own way.
ToolOpens ==
    /\ prog["tool"].stage = "off" /\ prog' = [prog EXCEPT !["tool"].stage = "read"]
    /\ UNCHANGED <<world, app, chain, held, schema, landed, calm, acts>>

Newest == Cardinality(schema.rows)
\* The newest version is read before any transaction.
ReadVersion(p) ==
    /\ prog[p].stage = "read" /\ prog' = [prog EXCEPT ![p].stage = "begin", ![p].read = Newest]
    /\ UNCHANGED <<world, app, chain, held, schema, landed, calm, acts>>

Busy == \E q \in Programs : prog[q].stage = "in"
Ends(p) == IF p = "app" THEN app' = To("on") ELSE UNCHANGED app
Fails(p) == /\ prog' = [prog EXCEPT ![p] = [Idle EXCEPT !.stage = "failed"]]
            /\ IF p = "app" THEN Refuse ELSE UNCHANGED app
\* CREATE TABLE fails over a table of that name.
Creates(v) == v \notin schema.effects
\* A column is added to a table, or dropped from one, that is there and has not changed yet.
Alters(v) == v \notin schema.effects /\ (1 .. v - 1) \subseteq schema.effects
Statements(v) == IF Kinds[v] = "tables" THEN Creates(v) ELSE Alters(v)
\* 014: which of two choices came last is not known, so neither stays; what is
\* still kept by hand is not set aside.
OneChoice(v) == IF Kinds[v] = "decisions" /\ schema.kept = Pair THEN {} ELSE schema.kept
Mended(v) ==
    [rows |-> {v}, effects |-> {v}, kept |-> OneChoice(v),
     aside |-> IF Kinds[v] = "decisions" THEN schema.aside \ OneChoice(v) ELSE schema.aside]

InTransaction(p, v) == [prog[p] EXCEPT !.stage = "in", !.draft = Mended(v)]
NoBegin(v) == [schema EXCEPT !.effects = @ \cup {v}]               \* mutant: statements outside the transaction
\* What is in the file while the transaction is open.
Begun(v) == schema

\* The next version the program has and the reading did not name: BEGIN and its
\* statements; SQLite lets one writer in at a time, the other waits.
Begin(p) ==
    /\ prog[p].stage = "begin"
    /\ LET v == prog[p].read + 1 IN
           \/ /\ v > Knows[p] /\ prog' = [prog EXCEPT ![p].stage = "done"] /\ Ends(p) /\ UNCHANGED schema
           \/ /\ v <= Knows[p] /\ ~Busy /\ Statements(v)
              /\ prog' = [prog EXCEPT ![p] = InTransaction(p, v)] /\ schema' = Begun(v) /\ UNCHANGED app
           \/ /\ v <= Knows[p] /\ ~Busy /\ ~Statements(v) /\ Fails(p) /\ UNCHANGED schema
    /\ UNCHANGED <<world, chain, held, landed, calm, acts>>

\* The version's row and COMMIT.
Commit(p) ==
    /\ prog[p].stage = "in"
    /\ LET draft == prog[p].draft IN
           schema' = [rows |-> schema.rows \cup draft.rows, effects |-> schema.effects \cup draft.effects,
                      kept |-> draft.kept, aside |-> draft.aside]
    /\ prog' = [prog EXCEPT ![p] = [stage |-> "begin", read |-> @.read + 1, draft |-> NoDraft]]
    /\ UNCHANGED <<world, app, chain, held, landed, calm, acts>>

------------------------------------------------------------------------------
\* A kill drops what is held and the transaction; the user starts the program again.
Kill(p) ==
    /\ faults < MaxFaults /\ faults' = faults + 1
    /\ prog' = [prog EXCEPT ![p] = Idle]
    /\ IF p = "app" THEN Running /\ app' = App("use", "off", 1, 1) ELSE prog[p].stage # "off" /\ UNCHANGED app
    /\ UNCHANGED <<world, chain, held, schema, landed, calm, others, own, away>>

AppStep == Launch \/ Walk \/ Check \/ Compare \/ CompareCache \/ Recheck \/ CheckFiles
           \/ CheckCache \/ Probe \/ OpenDb \/ HasMoved \/ Setup \/ AskForLock \/ WriteLock \/ OpenCache
           \/ Store \/ Mkdir \/ OpenMade \/ CheckMade \/ GiveUp \/ Look \/ Rmdir
Migrates(p) == ReadVersion(p) \/ Begin(p) \/ Commit(p)
Next == AppStep \/ ToolOpens \/ OthersAct \/ OwnAct \/ \E p \in Programs : Migrates(p) \/ Kill(p)
Spec == Init /\ [][Next]_vars

------------------------------------------------------------------------------
(* What is claimed.                                                        *)

\* Whatever other accounts do, and one act of the user's programs, and whenever,
\* the app writes no database but the one it recorded and no cache but its own;
\* and when no program of the user acts within a round of checks, what it opens
\* by name beside the database is the user's own plain file.  A folder it removes
\* is the one it opened after making it, unless since the admission a program of
\* the user acted, and either acted after the look or let other accounts take
\* that folder from the one above: then an empty folder put there in the instant
\* between look and rmdir goes in its place, as resolve.rs:410-416 says of every
\* such removal (lib.rs, storage.rs, binding.rs, remove_created).
OnlyTheProven == \A w \in landed :
    /\ w.what = "db" => w.obj = "db"
    /\ w.what = "thumb" => w.obj = "thumbs"
    /\ w.quiet /\ w.what = "wal" => w.obj = "plain"
    /\ w.quiet /\ w.what = "lock" => w.obj \in {"plain", "shared"}
    /\ w.quiet /\ w.what = "removed" => w.obj = "made"

\* Once a path was admitted, and while the user's own programs leave it alone,
\* no other account can make it lead elsewhere or put anything in its last
\* folder (namespace.rs: "a path used later leads to the same objects that
\* were checked").
Admitted == app.stage \notin {"off", "refused", "walk", "check", "look", "rmdir", "open_made", "check_made"}
PathStands == Admitted /\ still =>
    /\ \A k \in 1 .. Last : Leads[k] = chain[k]
    /\ ~MayPut(chain[Last]) /\ \A k \in 1 .. Last - 1 : ~MayTake(chain[k], chain[k + 1])

\* The version rows are those of the first migrations, each with its whole
\* effect and nothing without its row, whoever is killed and however many
\* migrate at once; an opened program finds all it knows (schema.rs: "Each
\* entry runs once inside its own transaction"); and where the decisions were
\* mended no group is left with two kept files, nor with one both kept and set
\* aside.
SchemaIsWhole ==
    /\ MendedAlready =>
          Cardinality(schema.kept) < 2 /\ schema.kept \cap schema.aside = {}
    /\ schema.rows = 1 .. Newest /\ schema.effects = schema.rows
    /\ \A p \in Programs : prog[p].stage = "done" => (1 .. Knows[p]) \subseteq schema.rows

------------------------------------------------------------------------------
(* The invariants the proofs rest on.                                      *)

Drafts == [rows : SUBSET Nat, effects : SUBSET Nat, kept : SUBSET Pair, aside : SUBSET Pair]
ProgStages == {"off", "read", "begin", "in", "done", "failed"}
\* A program is never ahead of the rows; one at a time is in a transaction,
\* and it writes the row that comes next over what it has read.
SchemaInv ==
    /\ Newest \in Nat /\ Newest <= Len(Kinds)
    /\ schema \in [rows : {1 .. Newest}, effects : {1 .. Newest}, kept : SUBSET Pair, aside : SUBSET Pair]
    /\ MendedAlready => schema.kept # Pair /\ schema.kept \cap schema.aside = {}
    /\ prog \in [Programs -> [stage : ProgStages, read : Nat, draft : Drafts]]
    /\ \A p \in Programs :
        /\ prog[p].stage \in {"begin", "in"} => prog[p].read <= Newest
        /\ prog[p].stage = "done" => Knows[p] <= Newest
        /\ prog[p].stage = "in" =>
            /\ prog[p].read = Newest /\ Newest < Knows[p] /\ prog[p].draft = Mended(Newest + 1)
            /\ \A q \in Programs : prog[q].stage = "in" => q = p

\* The app is where its migration is.
AppMigrates == prog["app"].stage \in {"read", "begin", "in"} => app.stage = "migrating"

AppStages == {"off", "refused", "walk", "check", "compare", "compare_cache", "recheck", "files", "check_cache", "probe", "sqlite",
              "moved", "journal", "migrating", "on", "lock", "cache",
              "mkdir", "open_made", "check_made", "has", "look", "rmdir"}
Standing == Objects \cup {"none", "link"}
Wanted == IF app.goal = "use" THEN 3 ELSE 2
Steady == app.stage \in {"mkdir", "open_made", "check_made"} \cup (AppStages \ {"off", "refused", "walk", "check", "look", "rmdir"})
\* How many levels are open, by what the app is at.
ChainGrows ==
    /\ app.stage = "walk" => app.level <= Wanted /\ Len(chain) = app.level - 1
    /\ app.stage = "check" => Len(chain) = Wanted
    /\ app.stage \in {"mkdir", "open_made"} => Len(chain) = 2
    /\ Running /\ app.stage \notin {"walk", "check", "mkdir", "open_made"} => Len(chain) = 3
    /\ app.stage \in {"check", "recheck"} => app.level \in 1 .. Len(chain)
    /\ Running /\ Len(chain) > 0 => chain[1] = "top"
\* While the user's programs keep still, an open folder is where it was found,
\* unless another account may take it from there, now as then.
LinksHold ==
    Running /\ still => \A k \in 1 .. Len(chain) - 1 :
        Below(chain[k], NameAt[k + 1]) = chain[k + 1] \/ MayTake(chain[k], chain[k + 1])
\* What was checked stays as it was checked.
Checked(k, last) == check(chain[k], last)
LevelsChecked ==
    still =>
        /\ app.stage = "check" => \A k \in 1 .. app.level - 1 : Checked(k, k = Len(chain))
        /\ Steady /\ app.stage # "check_made" => \A k \in 1 .. Len(chain) : Checked(k, k = Len(chain))
        /\ app.stage = "check_made" => \A k \in 1 .. 2 : Checked(k, FALSE)
PathInv ==
    /\ system \in {"macos", "linux", "windows"}
    /\ fact \in [Folders -> Fact] /\ at \in [Slots -> Objects \cup {"none", "link"}]
    /\ app \in [goal : {"use", "make"}, stage : AppStages, level : 1 .. 3, round : 1 .. 4]
    /\ chain \in Seq(Folders) /\ still \in BOOLEAN
    /\ ChainGrows /\ LinksHold /\ LevelsChecked
\* For OnlyTheProven, which bears one act of the user's programs.
Uses == {"compare_cache", "recheck", "files", "check_cache", "probe", "sqlite", "moved", "journal", "migrating", "on", "lock", "cache"}
Makes == {"mkdir", "open_made", "check_made", "has", "look", "rmdir"}
Spent == own = MaxOwn
Lost == at[<<"top", "up">>] # "up" \/ at[<<"up", "data">>] # "data"
\* A folder on the path fails its check: nothing the others do mends that.
Exposed == \E k \in 1 .. 3 : ~check(Path[k], k = 3)
SlotKinds == \A s \in Slots : s[2] \in {"wal", "lock"} => at[s] \in Beneath \cup {"none", "link"}
\* What was taken from a name could be taken there, whatever the folder's mode.
AwayInv == \A p \in away :
    p[1] \in Slots /\ (Rules(p[1][1]) \/ ~fact[p[1][1]].sticky \/ Who(p[2]) = "other")
ActsInv ==
    /\ own \in 0 .. MaxOwn /\ quiet \in BOOLEAN /\ (~quiet \/ ~still => own > 0)
    /\ SlotKinds /\ AwayInv /\ held \in [db : Standing, thumbs : Standing, sqlite : Standing, cache : Standing]
    /\ app.stage \in {"walk", "check", "compare", "compare_cache"} => app.round = 1
\* The levels this round of checks has been through, and what they hold still does.
Linked(k) == k > 1 => Below(Path[k - 1], NameAt[k]) = Path[k]
Firm(n) == \A k \in 1 .. n : check(Path[k], k = 3) /\ Linked(k)
Held == /\ at[<<"data", "db">>] = held.db /\ at[<<"data", "wal">>] \in {"none", "plain"}
        /\ at[<<"data", "lock">>] \in {"none", "plain", "shared"}
Strayed == Spent /\ (Lost \/ Exposed \/ at[<<"data", "db">>] # "db")
\* SQLite can only hold a wrong object when the one act is spent; then the path
\* is lost or open to others, which the next round of checks finds.
UseInv == app.stage \in Uses =>
    /\ chain = Path /\ held.db = "db" /\ (app.stage # "compare_cache" => held.thumbs = "thumbs")
    /\ app.stage = "moved" => held.sqlite = "db" \/ Strayed
    /\ app.stage \in {"recheck", "files"} /\ app.round = 3 => held.sqlite = "db" \/ (Strayed /\ quiet)
    /\ app.stage = "journal" => held.sqlite = "db"
    /\ quiet =>
        /\ app.stage = "recheck" => Firm(app.level - 1)
        /\ app.stage \in {"files", "check_cache", "probe", "sqlite", "journal", "lock"} => Firm(3)
        /\ app.stage \in {"check_cache", "probe", "sqlite", "journal", "lock"} => Held
\* While the user's programs keep still, the folder a new one is made in is closed
\* to others; and what was looked at stays unless it can be taken away.
MakeInv ==
    /\ app.stage \in Makes /\ still => ~MayPut(chain[2])
    /\ app.stage = "rmdir" /\ (quiet \/ still) => Below(chain[2], "data") = chain[3] \/ MayTake(chain[2], chain[3])
=============================================================================

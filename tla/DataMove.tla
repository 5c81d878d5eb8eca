------------------------------ MODULE DataMove ------------------------------
(***************************************************************************)
(* The move of the app's data folder (pc-desktop, relocate.rs): the        *)
(* database and the thumbnails are copied into a private staging folder in *)
(* the target, proven there, published under their names without replacing *)
(* anything, and only then does the bootstrap name the copy. Nothing is    *)
(* ever unlinked: what a failed run leaves is moved aside and told.        *)
(*                                                                         *)
(* Entries are objects and places, not paths: whatever is done by name     *)
(* meets the object that is at the name then, whatever is done through an  *)
(* open folder meets that folder, wherever it was renamed to. Other        *)
(* programs of the same user act between any two steps.                    *)
(***************************************************************************)
EXTENDS Naturals, Sequences

CONSTANTS
    MaxRuns,      \* how often the move is tried
    MaxWrites,    \* records another process may make in the source
    MaxMeddles,   \* acts of other programs in the target
    MaxFaults     \* failing calls and crashes

ASSUME BoundsAssumption ==
    {MaxRuns, MaxWrites, MaxMeddles, MaxFaults} \subseteq Nat

VARIABLES
    at,        \* where every object is
    led,       \* the target's path still leads to the folder opened for the move
    ver,       \* how much the source archive holds
    copied,    \* how much of it each run's database copy holds
    chosen,    \* what the bootstrap names: 0 the old folder, n the copy of run n
    locked,    \* this process holds the source's and the target's writer lock
    run,       \* runs begun
    pc,        \* where the run stands
    reg,       \* names of this run registered for its cleanup
    todo,      \* names still to be settled
    spot,      \* the folder opened by path to move an entry aside from
    goal,      \* what follows the settling: "fail" or "commit"
    told,      \* objects the result names to the user
    stray,     \* the result says that a leftover folder holds a stranger's entry
    remains,   \* the staging folder of a published copy was left (staging_left)
    slipped,   \* history: entries the code loses sight of in a step that half fails
    hollow,    \* the other program's entry is an empty folder
    faults, meddles

vars == <<at, led, ver, copied, chosen, locked, run, pc, reg, todo, spot, goal,
          told, stray, remains, slipped, hollow, faults, meddles>>
world == <<at, led, ver, copied, chosen, slipped, hollow>>
\* What no step of a run changes but its first and last.
frame == <<led, ver, chosen, locked, run, hollow, meddles>>

------------------------------------------------------------------------------
(* Objects and where they are.                                             *)

Runs  == 1 .. MaxRuns
\* One name stands for the three SQLite companions, which are claimed alike.
Names == {"side", "partial", "thumbs", "db"}
Alien == <<0, "alien">>                       \* an entry of another program
Objects == (Runs \X Names) \cup {Alien}

Nowhere == <<"nowhere", "">>
Away    == <<"away", "">>                     \* where another program carried it
Inside(k) == <<"inside", k>>                  \* in the staging folder of its run
Target(k) == <<"target", k>>                  \* in the folder opened for the move
Left(k)   == <<"left", k>>                    \* in a photo-cleanup-leftover folder
\* What the target's path leads to: another folder, once the opened one was renamed.
ByPath(k) == IF led THEN Target(k) ELSE <<"ghost", k>>

Places == {Nowhere, Away}
    \cup {f[k] : f \in {[n \in Names |-> Inside(n)], [n \in Names |-> Target(n)],
                        [n \in Names |-> Left(n)], [n \in Names |-> <<"ghost", n>>]},
                 k \in Names}

Own(k) == <<run, k>>
occupied(p) == \E o \in Objects : at[o] = p
is_ours(k) == at[Own(k)] = ByPath(k)
PutAt(o, p) == at' = [at EXCEPT ![o] = p]

Fault == faults < MaxFaults /\ faults' = faults + 1
Works == UNCHANGED faults

------------------------------------------------------------------------------
Init ==
    /\ at = [o \in Objects |-> Nowhere] /\ led = TRUE
    /\ ver = 0 /\ copied = [n \in Runs |-> 0] /\ chosen = 0
    /\ locked = FALSE /\ run = 0 /\ pc = "idle"
    /\ reg = {} /\ todo = <<>> /\ spot = "target" /\ goal = "none" /\ told = {}
    /\ stray = FALSE /\ remains = FALSE /\ slipped = {} /\ hollow = FALSE
    /\ faults = 0 /\ meddles = 0

\* The run stops: everything registered is to be settled, thumbnails first.
Registered(set) == LET one(k) == IF k \in set THEN <<k>> ELSE <<>>
                   IN  one("thumbs") \o one("partial") \o one("side")
Abort ==
    /\ pc' = "settle" /\ goal' = "fail" /\ todo' = Registered(reg')
    /\ UNCHANGED <<spot, stray, remains>>

GiveUp == UNCHANGED <<at, copied, reg, told, slipped>> /\ Abort

\* It stops over an entry that is there and was not registered.
Slips(k) == slipped' = slipped \cup {Own(k)}
GiveUpOver(k) == Slips(k) /\ UNCHANGED <<copied, reg, told>> /\ Abort

Continue(next) == pc' = next /\ UNCHANGED <<todo, spot, goal, told, stray, remains, slipped>>

\* A step that works only in a world as it should be, and may fail in any.
Attempt(good, Good, Bad) ==
    \/ good /\ Works /\ Good
    \/ (IF good THEN Fault ELSE Works) /\ Bad

\* The chain of folders proven when the target was admitted still leads to it.
recheck == led

\* No name the move needs is taken (the blockers of the preview).
preview_move == \A k \in Names : ~occupied(ByPath(k))

\* copy_data: preview, admission of the three folders, the source's writer lock.
copy_data ==
    /\ pc = "idle" /\ run < MaxRuns /\ chosen = 0 /\ preview_move
    /\ run' = run + 1 /\ locked' = TRUE /\ pc' = "lock"
    /\ reg' = {} /\ todo' = <<>> /\ goal' = "none" /\ told' = {} /\ stray' = FALSE
    /\ remains' = FALSE
    /\ UNCHANGED <<world, spot, faults, meddles>>

\* The folder is opened and the rename everything is moved with tried in it: what
\* the trial leaves, an empty folder of its own, is named by its error.
probe_exclusive_rename ==
    /\ pc = "lock"
    /\ Attempt(TRUE, Continue("stage") /\ UNCHANGED <<at, copied, reg>>, GiveUp)
    /\ UNCHANGED frame

\* The target's lock is taken, and the preview made again under both locks.
stage ==
    /\ pc = "stage"
    /\ Attempt(preview_move, Continue("claim") /\ UNCHANGED <<at, copied, reg>>, GiveUp)
    /\ UNCHANGED frame

\* A create_new for the SQLite companions, by path; recorded once they exist and
\* a handle of them was made.
claim ==
    /\ pc = "claim"
    /\ Attempt(~occupied(ByPath("side")),
               /\ Continue("mkdir") /\ PutAt(Own("side"), ByPath("side"))
               /\ reg' = reg \cup {"side"} /\ UNCHANGED copied,
               \/ GiveUp
               \/ ~occupied(ByPath("side")) /\ PutAt(Own("side"), ByPath("side")) /\ GiveUpOver("side"))
    /\ UNCHANGED frame

\* mkdir returns no handle: the folder exists before it is known to be ours.
create_private_dir ==
    /\ pc = "mkdir"
    /\ Attempt(~occupied(ByPath("partial")),
               /\ Continue("open") /\ PutAt(Own("partial"), ByPath("partial"))
               /\ UNCHANGED <<copied, reg>>,
               GiveUp)
    /\ UNCHANGED frame

\* What is at the name is registered only if it can be proven to be the folder
\* just made: fresh, empty, private. Otherwise the error names what was made, if it
\* was not the last call, for the handle to register, that failed.
open_created_dir ==
    /\ pc = "open"
    /\ Attempt(is_ours("partial"),
               Continue("holds") /\ reg' = reg \cup {"partial"} /\ UNCHANGED copied,
               \/ /\ told' = told \cup {Own("partial")}
                  /\ UNCHANGED <<copied, reg, slipped>> /\ Abort
               \/ is_ours("partial") /\ GiveUpOver("partial"))
    /\ UNCHANGED <<at, frame>>

\* The folder registered by name must be an entry of the open target.
holds ==
    /\ pc = "holds" /\ Works
    /\ IF at[Own("partial")] = Target("partial")
          THEN Continue("snapshot") /\ UNCHANGED <<at, copied, reg>>
          ELSE GiveUp
    /\ UNCHANGED frame

\* The database file is made in the open folder; SQLite may fill it only while
\* the path leads to that file.
snapshot ==
    /\ pc = "snapshot" /\ PutAt(Own("db"), Inside("db")) /\ UNCHANGED reg
    /\ Attempt(is_ours("partial"),
               Continue("verify") /\ copied' = [copied EXCEPT ![run] = ver],
               UNCHANGED <<copied, told, slipped>> /\ Abort)
    /\ UNCHANGED frame

\* The proof compares the held file with the source, table by table.
verify_connections == copied[run] = ver
verify ==
    /\ pc = "verify"
    /\ Attempt(is_ours("partial") /\ verify_connections,
               Continue("thumbs") /\ UNCHANGED <<at, copied, reg>>, GiveUp)
    /\ UNCHANGED frame

\* The cache is copied and counted through the open staging folder.
stage_thumbs ==
    /\ pc = "thumbs" /\ PutAt(Own("thumbs"), Inside("thumbs")) /\ UNCHANGED <<reg, copied>>
    /\ Attempt(TRUE, Continue("check"), UNCHANGED <<told, slipped>> /\ Abort)
    /\ UNCHANGED frame

------------------------------------------------------------------------------
(* Publication.                                                            *)

\* A reservation SQLite consumed is claimed again.
ensure_owned == IF occupied(ByPath("side")) THEN UNCHANGED at
                                            ELSE PutAt(Own("side"), ByPath("side"))
SideIsSafe == ~occupied(ByPath("side")) \/ is_ours("side")

\* The companions are ours and the target's path still leads to the open folder.
still_at ==
    /\ pc = "check"
    /\ Attempt(SideIsSafe /\ recheck,
               Continue("publish") /\ ensure_owned /\ UNCHANGED <<copied, reg>>,
               /\ UNCHANGED at \/ (SideIsSafe /\ ensure_owned)
               /\ UNCHANGED <<copied, reg, told, slipped>> /\ Abort)
    /\ UNCHANGED frame

DbFirst  == "db"                          \* mutant
FirstOut == "thumbs"
LastOut  == IF FirstOut = "thumbs" THEN "db" ELSE "thumbs"

\* The first of the two goes out of the open staging folder into the open target,
\* where it must not replace anything.
publish_thumbs ==
    /\ pc = "publish"
    /\ Attempt(~occupied(Target(FirstOut)),
               /\ Continue("keep") /\ PutAt(Own(FirstOut), Target(FirstOut))
               /\ UNCHANGED <<copied, reg>>,
               GiveUp)
    /\ UNCHANGED frame

\* What is at the name after the rename is asked, and a second handle made, before the
\* thumbnails are registered: when either fails they are out and not registered.
keep ==
    /\ pc = "keep" /\ UNCHANGED at
    /\ Attempt(at[Own(FirstOut)] = Target(FirstOut),
               Continue("last") /\ reg' = reg \cup {FirstOut} /\ UNCHANGED copied,
               GiveUpOver(FirstOut))
    /\ UNCHANGED frame

publish_db ==
    /\ pc = "last"
    /\ Attempt(~occupied(Target(LastOut)),
               /\ Continue("out") /\ PutAt(Own(LastOut), Target(LastOut))
               /\ UNCHANGED <<copied, reg>>,
               GiveUp)
    /\ UNCHANGED frame

\* Once the database is out only the staging folder is left to settle.
succeed == <<"partial">>

\* The database is asked for after its rename too: when that fails, the thumbnails are
\* taken back and the database, which is never registered, stays where it is.
move_child ==
    /\ pc = "out" /\ UNCHANGED at
    /\ Attempt(at[Own(LastOut)] = Target(LastOut),
               /\ pc' = "settle" /\ goal' = "commit" /\ todo' = succeed
               /\ UNCHANGED <<copied, reg, spot, told, stray, remains, slipped>>,
               GiveUpOver(LastOut))
    /\ UNCHANGED frame

------------------------------------------------------------------------------
(* Settling what a run leaves: looked at by path, moved aside, told.       *)

Key  == Head(todo)
Done == pc' = "settle" /\ todo' = Tail(todo)
Tell == told' = told \cup {Own(Key)}
Empty == \A k \in Names : at[Own(k)] # Inside(k)
Folders == {"partial", "thumbs"}
\* The cache that was copied may have held nothing.
MayBeEmpty(k) == k = "thumbs" \/ Empty
MayHold(k) == k = "thumbs" \/ ~Empty

NameIsFree  == UNCHANGED told             \* mutant
\* Nothing at the name: done only if the entry is gone altogether.
not_at_name == IF at[Own(Key)] = Nowhere THEN UNCHANGED told ELSE Tell

\* The entry is in its place, and the folder it is in opened by path.
Opens == is_ours(Key) /\ pc' = "aside" /\ spot' = at[Own(Key)][1] /\ UNCHANGED <<todo, told>>

look ==
    /\ pc = "settle" /\ todo # <<>>
    /\ UNCHANGED <<at, copied, reg, goal, stray, remains, slipped, frame>>
    /\ \/ ~occupied(ByPath(Key)) /\ Works /\ not_at_name /\ Done /\ UNCHANGED spot
       \/ occupied(ByPath(Key)) /\ ~is_ours(Key) /\ Works /\ Tell /\ Done /\ UNCHANGED spot
       \/ occupied(ByPath(Key)) /\ Fault /\ Tell /\ Done /\ UNCHANGED spot
       \/ is_ours(Key) /\ Key \in Folders /\ Works /\ pc' = "rmdir" /\ UNCHANGED <<todo, told, spot>>
       \/ Key \notin Folders /\ Works /\ Opens

\* rmdir takes what is at the name then, and only an empty folder: the run's own, or one
\* another program put there since it was looked at. The run's own is then wherever it was
\* carried to, and nothing says so.
remove_dir ==
    /\ pc = "rmdir"
    /\ UNCHANGED <<copied, reg, goal, stray, remains, frame>>
    /\ \/ /\ ~occupied(ByPath(Key)) /\ Works /\ Tell /\ Done /\ UNCHANGED <<at, spot, slipped>>
       \/ /\ is_ours(Key) /\ MayBeEmpty(Key) /\ Done /\ UNCHANGED <<spot, slipped>>
          /\ \/ Works /\ PutAt(Own(Key), Nowhere) /\ UNCHANGED told
             \/ Fault /\ Tell /\ UNCHANGED at
       \/ MayHold(Key) /\ Works /\ Opens /\ UNCHANGED <<at, slipped>>
       \/ /\ at[Alien] = ByPath(Key) /\ Done /\ UNCHANGED spot
          /\ \/ hollow /\ Works /\ PutAt(Alien, Nowhere) /\ Slips(Key) /\ UNCHANGED told
             \/ (IF hollow THEN Fault ELSE Works) /\ Tell /\ UNCHANGED <<at, slipped>>

\* Whatever is at the name in the folder opened for it goes into the leftover
\* folder; what turns out to be a stranger's goes back.
set_aside ==
    /\ pc = "aside"
    /\ UNCHANGED <<copied, reg, goal, spot, stray, remains, slipped, frame>>
    /\ LET here == <<spot, Key>> IN
          \/ /\ ~occupied(here) /\ Works /\ Tell /\ Done /\ UNCHANGED at
          \/ /\ occupied(here) /\ Fault /\ Tell /\ Done /\ UNCHANGED at
          \/ /\ at[Own(Key)] = here /\ Works
             /\ PutAt(Own(Key), Left(Key)) /\ Tell /\ Done
          \/ /\ at[Alien] = here /\ Works
             /\ PutAt(Alien, Left(Key)) /\ pc' = "return" /\ UNCHANGED <<todo, told>>

CanReturn == ~occupied(<<spot, Key>>)
\* mutant: the result does not say that the folder holds a stranger's entry
PutBackSilently ==
    /\ pc = "return" /\ Tell /\ Done
    /\ Attempt(CanReturn, PutAt(Alien, <<spot, Key>>), UNCHANGED at)
    /\ UNCHANGED <<copied, reg, goal, spot, stray, remains, slipped, frame>>
put_back ==
    /\ pc = "return" /\ Tell /\ Done
    /\ Attempt(CanReturn, PutAt(Alien, <<spot, Key>>) /\ UNCHANGED stray,
               stray' = TRUE /\ UNCHANGED at)
    /\ UNCHANGED <<copied, reg, goal, spot, remains, slipped, frame>>

\* The run returns, and its locks go.
Ends == pc' = "idle" /\ locked' = FALSE

DropsLocks == locked' = FALSE             \* mutant: Copied without its source lock
\* The locks travel with the copy, until it is recorded.
KeepsLocks == UNCHANGED locked

finish ==
    /\ pc = "settle" /\ todo = <<>>
    /\ \/ goal = "fail" /\ Ends /\ UNCHANGED remains
       \/ goal = "commit" /\ pc' = "commit" /\ remains' = (told # {}) /\ KeepsLocks
    /\ UNCHANGED <<world, run, reg, todo, spot, goal, told, stray, faults, meddles>>

------------------------------------------------------------------------------
(* The switch.                                                             *)

\* The published database and thumbnails are the proven ones, at their paths.
prove == recheck /\ \A k \in {"db", "thumbs"} : at[Own(k)] = Target(k)

\* A copy that cannot be recorded is kept; the error says so.
KeepCopy ==
    Ends /\ UNCHANGED <<at, reg, todo, spot, goal, told, stray, remains>>

commit ==
    /\ pc = "commit"
    /\ Attempt(prove /\ ~remains /\ SideIsSafe,
               /\ ensure_owned /\ pc' = "record"
               /\ UNCHANGED <<reg, todo, spot, goal, told, stray, remains, locked>>,
               KeepCopy)
    /\ UNCHANGED <<led, ver, copied, chosen, run, slipped, hollow, meddles>>

\* The bootstrap is written beside its place; the proof is repeated right before
\* the rename that makes it count.
prove_all ==
    /\ pc = "record"
    /\ Attempt(prove, /\ pc' = "switch"
                      /\ UNCHANGED <<at, reg, todo, spot, goal, told, stray, remains, locked>>,
               KeepCopy)
    /\ UNCHANGED <<led, ver, copied, chosen, run, slipped, hollow, meddles>>

write_bootstrap ==
    /\ pc = "switch" /\ Ends
    /\ \/ Works /\ chosen' = run
       \/ Fault /\ UNCHANGED chosen
    /\ UNCHANGED <<at, led, ver, copied, run, reg, todo, spot, goal, told, stray, remains,
                   slipped, hollow, meddles>>

Run ==
    \/ copy_data \/ probe_exclusive_rename \/ stage \/ claim \/ create_private_dir \/ open_created_dir \/ holds
    \/ snapshot \/ verify \/ stage_thumbs \/ still_at \/ publish_thumbs \/ keep
    \/ publish_db \/ move_child \/ look \/ remove_dir \/ set_aside \/ put_back \/ finish
    \/ commit \/ prove_all \/ write_bootstrap

------------------------------------------------------------------------------
(* Everybody else.                                                         *)

mine == <<led, ver, copied, chosen, locked, run, pc, reg, todo, spot, goal, told, stray,
          remains, slipped, faults>>

\* Another process records something, if it gets the lock.
SourceWrite ==
    /\ ~locked /\ chosen = 0 /\ ver < MaxWrites /\ ver' = ver + 1
    /\ UNCHANGED <<at, led, copied, chosen, locked, run, pc, reg, todo, spot, goal, told,
                   stray, remains, slipped, hollow, faults, meddles>>

Meddle == meddles < MaxMeddles /\ meddles' = meddles + 1

\* Another program puts its entry under a name, in the place of ours or not,
\* or carries away what is there.
OtherPuts ==
    /\ Meddle /\ at[Alien] = Nowhere /\ hollow' \in BOOLEAN
    /\ \E k \in Names :
          at' = [o \in Objects |-> IF o = Alien THEN ByPath(k)
                                   ELSE IF at[o] = ByPath(k) THEN Away ELSE at[o]]
    /\ UNCHANGED mine
OtherTakes ==
    /\ Meddle /\ \E o \in Objects : (\E k \in Names : at[o] = ByPath(k)) /\ PutAt(o, Away)
    /\ UNCHANGED <<mine, hollow>>
\* SQLite removes the empty companions of a database it opens.
SqliteConsumes ==
    /\ Meddle /\ run > 0 /\ is_ours("side") /\ PutAt(Own("side"), Nowhere)
    /\ UNCHANGED <<mine, hollow>>
\* The target's folder is renamed; its path leads to another one.
OtherRenamesTarget ==
    /\ Meddle /\ led /\ led' = FALSE
    /\ UNCHANGED <<at, ver, copied, chosen, locked, run, pc, reg, todo, spot, goal, told,
                   stray, remains, slipped, hollow, faults>>

\* The process is killed: nothing is settled, its locks go.
Crash ==
    /\ pc # "idle" /\ Fault /\ Ends /\ goal' = "none" /\ reg' = {}
    /\ UNCHANGED <<world, run, todo, spot, told, stray, remains, meddles>>

Others == SourceWrite \/ OtherPuts \/ OtherTakes \/ SqliteConsumes \/ OtherRenamesTarget

Next == Run \/ Others \/ Crash

Spec == Init /\ [][Next]_vars

------------------------------------------------------------------------------
(* Properties.                                                             *)
\* A folder that has the archive's database under its name has the whole copy: the
\* thumbnails of the same run are beside it, unless another program carried them away
\* (relocate.rs: thumbnails first, the database last). The exception is a database whose
\* rename worked and whose look after it failed (anchored::move_child): the abort takes the
\* thumbnails back from beside it; no bootstrap ever names it.
DbMeansWhole ==
    /\ \A r \in Runs : at[<<r, "db">>] = Target("db") =>
          at[<<r, "thumbs">>] \in {Target("thumbs"), Away} \/ <<r, "db">> \in slipped
    /\ chosen # 0 => <<chosen, "db">> \notin slipped

\* What a failed run made and could not remove is named to the user, wherever other
\* programs carried it while it was being settled: entries by name, what is in the staging
\* folder with that folder (Cleanup::abort, Leftovers). The exceptions are the entries that
\* were made or published by a step whose next call failed before they were registered, and
\* a folder carried off in the instant before the rmdir that took another one's.
IsSettled(k) == at[Own(k)] = Nowhere \/ Own(k) \in told \cup slipped
Within(k)    == at[Own(k)] = Inside(k) /\ Own("partial") \in told \cup slipped
OwnedIsTold  == pc = "idle" /\ goal = "fail" => \A k \in Names : IsSettled(k) \/ Within(k)

\* Nothing that a run leaves behind is left untold, neither its own nor a stranger's: an
\* entry of another program is never gone unless it is an empty folder that was put at the
\* run's name between the look and the rmdir, and one that was moved aside in the place of
\* the run's own is put back before anything else, or the result says where it is
\* (Leftovers::settle, set_aside).
NothingIsUntold ==
    [][/\ OwnedIsTold'
       /\ at[Alien] # Nowhere /\ at'[Alien] = Nowhere =>
             hollow /\ pc = "rmdir" /\ at[Alien] = ByPath(Key)
       /\ pc = "return" /\ pc' = "settle" /\ at'[Alien] = Left(Key) => stray']_vars

\* The bootstrap only ever names a folder whose database was proven to hold everything
\* recorded so far, and nothing is recorded in the old one once it is named
\* (copy_data_with holds the source's writer lock until commit returned).
Archive == INSTANCE ArchiveChoice WITH
    place <- chosen, content <- IF chosen = 0 THEN ver ELSE copied[chosen]
KeepsArchive == Archive!Spec

------------------------------------------------------------------------------
(* The invariant the proofs rest on.                                       *)

Before   == {"lock", "stage", "claim", "mkdir", "open", "holds", "snapshot", "verify", "thumbs",
             "check", "publish", "keep", "last", "out"}
Settling == {"settle", "rmdir", "aside", "return"}
Switches == {"commit", "record", "switch"}
Succeeds == pc \in Settling /\ goal = "commit"
Fails    == pc \in Settling /\ goal # "commit"

MoveTypes ==
    /\ at = [o \in Objects |-> at[o]]
    /\ copied \in [Runs -> Nat] /\ ver \in Nat
    /\ run \in 0 .. MaxRuns /\ chosen \in 0 .. MaxRuns
    /\ pc \in {"idle"} \cup Before \cup Settling \cup Switches

\* A run holds the lock to its end, and what it has proven stays all there is.
CopyIsAll ==
    /\ pc # "idle" => locked /\ chosen = 0 /\ run # 0
    /\ pc \in {"thumbs", "check", "publish", "keep", "last", "out"} \cup Switches \/ Succeeds
         => copied[run] = ver

\* The thumbnails are out before the database, and only a run that fails takes them back.
ThumbsAreOut ==
    /\ \A r \in Runs, k \in Names : r > run => at[<<r, k>>] = Nowhere
    /\ pc \in Before \ {"out"} => at[Own("db")] # Target("db")
    /\ Fails => at[Own("db")] # Target("db") \/ Own("db") \in slipped
    /\ pc \in {"keep", "last", "out"} => at[Own("thumbs")] \in {Target("thumbs"), Away}
    /\ Succeeds => todo \in {<<>>, succeed} /\ (pc # "settle" => todo = succeed)

\* A database whose rename was not answered belongs to a run that failed.
SlipsFail ==
    /\ \A r \in Runs, k \in Names : r > run => <<r, k>> \notin slipped
    /\ pc \in Before \cup Switches \/ Succeeds => Own("db") \notin slipped

MoveInv == MoveTypes /\ CopyIsAll /\ ThumbsAreOut /\ SlipsFail /\ DbMeansWhole

\* Beside it, what NothingIsUntold rests on: an entry is gone, told, in the staging folder,
\* or still to be registered or to be looked at.
Claimed == Before \ {"lock", "stage", "claim"}
Made    == Claimed \ {"mkdir", "open"}
Fresh   == CASE pc = "open" -> {"partial"} [] pc = "keep" -> {"thumbs"} [] pc = "out" -> {"db"}
             [] OTHER -> {}
Covered(k) == IsSettled(k) \/ k \in reg \/ (at[Own(k)] = Inside(k) /\ "partial" \in reg)
Waits(k)   == \E i \in 1 .. Len(todo) : todo[i] = k
Pending(k) == \/ IsSettled(k) \/ Within(k) \/ Waits(k)
              \/ (at[Own(k)] = Inside(k) /\ Waits("partial"))
ToldInv ==
    /\ reg \subseteq {"side", "partial", "thumbs"} /\ todo \in Seq(Names)
    /\ spot \in {"target", "ghost"}
    /\ pc \in Settling \ {"settle"} => todo # <<>>
    /\ pc \in Claimed => "side" \in reg
    /\ pc \in Made => "partial" \in reg /\ at[Own("partial")] # Nowhere
    /\ run # 0 => \A k \in Names : at[Own(k)] = Inside(k) => at[Own("partial")] # Nowhere
    /\ pc \in Before => \A k \in Names : Covered(k) \/ k \in Fresh
    /\ pc \in Settling /\ goal = "fail" => \A k \in Names : Pending(k)
    /\ pc \in Switches => goal # "fail"
    /\ pc = "idle" /\ goal = "fail" => run # 0
    /\ OwnedIsTold
==============================================================================

---------------------------- MODULE DesktopShell ----------------------------
(***************************************************************************)
(* The desktop program (pc-desktop): one window process owns the instance  *)
(* lock, opens the data folder the bootstrap names, serves it, changes it  *)
(* for another one, hands over to a replacement process, and quits.        *)
(*                                                                         *)
(* Inside a process the change of the folder and the quit are two tasks    *)
(* that run against each other: `held` is the lock both take, `req` the    *)
(* quit that a signal may promote while its dialog is open. How a copy is  *)
(* made is DataMove: here it appears whole or not at all.                  *)
(***************************************************************************)
EXTENDS Naturals, FiniteSets

CONSTANTS
    Dirs,        \* data folders
    NoDir,       \* no folder
    System,      \* the folder a first launch makes
    MaxProcs,    \* window processes, launched by the user or as replacements
    MaxFaults,   \* failing calls and kills
    MaxMoves     \* times a drive is unplugged or plugged in

ASSUME DirsAssumption == System \in Dirs /\ NoDir \notin Dirs /\ {MaxProcs, MaxFaults, MaxMoves} \subseteq Nat

Procs == 1 .. MaxProcs

VARIABLES
    boot,      \* the bootstrap: the folder in use and the one it came from
    has,       \* folders with a database
    made,      \* folders where a launch made an empty one
    avail,     \* folders that can be reached and still hold the recorded objects
    owner,     \* who holds the instance lock; 0 nobody
    life,      \* where each process is in its life
    mine,      \* the folder it opened
    serves,    \* it has a server
    busy,      \* the server has a running job
    held,      \* who holds the process's `changing` lock: "free", "change" or "quit"
    chg,       \* where its change of the folder stands
    target,    \* the folder it changes to
    req,       \* the quit it was asked for: "none", "asked" or "confirmed"
    quit,      \* where the quit task stands
    sig,       \* a signal to end: "no", "sent" or "read"
    good,      \* the folder last confirmed by a server that came up
    torn,      \* a change could neither be finished nor taken back
    faults, moves

vars == <<boot, has, made, avail, owner, life, mine, serves, busy, held, chg, target, req, quit,
          sig, good, torn, faults, moves>>
files == <<boot, has, made>>
world == <<avail, moves>>
tasks == <<held, chg, target, req, quit>>
server == <<serves, busy>>
past == <<good, torn>>

Alive(p) == life[p] \notin {"none", "gone"}
Fault == faults < MaxFaults /\ faults' = faults + 1
Works == UNCHANGED faults
To(f, p, v) == [f EXCEPT ![p] = v]

Init ==
    /\ boot = [cur |-> NoDir, prev |-> NoDir] /\ has \in {{}, Dirs \ {System}} /\ made = {}
    /\ avail = Dirs /\ owner = 0
    /\ life = [p \in Procs |-> "none"] /\ mine = [p \in Procs |-> NoDir]
    /\ serves = [p \in Procs |-> FALSE] /\ busy = [p \in Procs |-> FALSE]
    /\ held = [p \in Procs |-> "free"] /\ chg = [p \in Procs |-> "no"]
    /\ target = [p \in Procs |-> NoDir] /\ req = [p \in Procs |-> "none"]
    /\ quit = [p \in Procs |-> "no"] /\ sig = [p \in Procs |-> "no"]
    /\ good = NoDir /\ torn = FALSE /\ faults = 0 /\ moves = 0

------------------------------------------------------------------------------
(* Starting.                                                               *)

New == {p \in Procs : life[p] = "none"}
\* Processes are numbered in the order they are launched.
IsNext(p) == p \in New /\ \A q \in New : p <= q

Launch(p) ==
    /\ IsNext(p) /\ life' = To(life, p, "claim")
    /\ UNCHANGED <<files, world, owner, mine, server, tasks, sig, past, faults>>

\* The instance lock is free.
take_writer == owner = 0

\* A launch owns the lock; or shows the owner's window, or gives up waiting, and is gone.
claim(p) ==
    /\ life[p] = "claim"
    /\ \/ take_writer /\ owner' = p /\ life' = To(life, p, "own")
       \/ owner # 0 /\ life' = To(life, p, "gone") /\ UNCHANGED owner
    /\ UNCHANGED <<files, world, mine, server, tasks, sig, past, faults>>

\* The folder is there with a database; a bound one with the very objects recorded.
Bound(d) == d \in avail
Usable(d) == Bound(d) /\ d \in has
FirstLaunch == boot.cur = NoDir
Chosen == IF FirstLaunch THEN System ELSE boot.cur
CreatesAnywhere == TRUE                   \* mutant: a missing folder is made anew
\* A chosen folder must be there with its database; only a first launch creates one.
MayCreate == FirstLaunch

\* resolve and prepare: open the chosen folder, or create the first one.
prepare(p) ==
    /\ life[p] = "own" /\ mine' = To(mine, p, Chosen)
    /\ \/ /\ Usable(Chosen) /\ Works /\ UNCHANGED <<has, made>>
          /\ life' = To(life, p, IF FirstLaunch THEN "created" ELSE "prepared")
       \/ /\ ~Usable(Chosen) /\ MayCreate /\ Works /\ life' = To(life, p, "created")
          /\ has' = has \cup {Chosen} /\ made' = made \cup {Chosen}
       \/ /\ (Usable(Chosen) \/ MayCreate => Fault) /\ (~(Usable(Chosen) \/ MayCreate) => Works)
          /\ life' = To(life, p, "error") /\ UNCHANGED <<has, made>>
    /\ UNCHANGED <<boot, world, owner, server, tasks, sig, past>>

\* Only once the database is there is the first choice recorded.
persist(p) ==
    /\ life[p] = "created"
    /\ \/ Works /\ boot' = [cur |-> mine[p], prev |-> NoDir] /\ life' = To(life, p, "prepared")
       \/ Fault /\ life' = To(life, p, "error") /\ UNCHANGED boot
    /\ UNCHANGED <<has, made, world, owner, mine, server, tasks, sig, past>>

\* The guard is asked again before the server's first write.
Guarded(p) == mine[p] \in avail
start_server(p) ==
    /\ life[p] = "prepared"
    /\ \/ /\ Guarded(p) /\ Works
          /\ serves' = To(serves, p, TRUE) /\ life' = To(life, p, "up")
       \/ /\ (Guarded(p) => Fault) /\ (~Guarded(p) => Works)
          /\ life' = To(life, p, "error") /\ UNCHANGED serves
    /\ UNCHANGED <<files, world, owner, mine, busy, tasks, sig, past>>

Confirmed == [boot EXCEPT !.prev = NoDir]
\* The choice stops being provisional; if that cannot be recorded nothing is served.
confirm_started(p) ==
    /\ life[p] = "up"
    /\ \/ /\ Works /\ boot' = Confirmed /\ good' = mine[p]
          /\ life' = To(life, p, "ready") /\ UNCHANGED serves
       \/ /\ Fault /\ serves' = To(serves, p, FALSE)
          /\ life' = To(life, p, "error") /\ UNCHANGED <<boot, good>>
    /\ UNCHANGED <<has, made, world, owner, mine, busy, tasks, sig, torn>>
\* A replacement is spawned, and this process exits; or the spawn fails.
Spawned(p) ==
    \E q \in Procs : IsNext(q) /\ life' = [life EXCEPT ![q] = "claim", ![p] = "exiting"]
restart_app(p, ok, failed) ==
    \/ Works /\ Spawned(p) /\ ok
    \/ (New # {} => Fault) /\ (New = {} => Works) /\ UNCHANGED life /\ failed

\* The error page: try again, or the folder the change came from.
try_again(p) ==
    /\ life[p] = "error" /\ Works /\ Spawned(p)
    /\ UNCHANGED <<files, world, owner, mine, server, tasks, sig, past>>
revert_data_dir(p) ==
    /\ life[p] = "error" /\ boot.prev # NoDir /\ Usable(boot.prev) /\ Works
    /\ boot' = [cur |-> boot.prev, prev |-> NoDir]
    /\ (IF New = {} THEN UNCHANGED life ELSE Spawned(p))
    /\ UNCHANGED <<has, made, world, owner, mine, server, tasks, sig, past>>

------------------------------------------------------------------------------
(* Jobs, and the change of the data folder.                                *)

JobStarts(p) ==
    /\ life[p] = "ready" /\ serves[p] /\ ~busy[p] /\ busy' = To(busy, p, TRUE)
    /\ UNCHANGED <<files, world, owner, life, mine, serves, tasks, sig, past, faults>>
JobEnds(p) ==
    /\ busy[p] /\ busy' = To(busy, p, FALSE)
    /\ UNCHANGED <<files, world, owner, life, mine, serves, tasks, sig, past, faults>>

\* The change is over and its lock free.
Over(p) == chg' = To(chg, p, "no") /\ held' = To(held, p, "free")

\* Nobody changes the folder or waits to quit.
change_data_dir(p, t) ==
    /\ life[p] = "ready" /\ held[p] = "free" /\ req[p] = "none" /\ t # mine[p]
    /\ held' = To(held, p, "change") /\ chg' = To(chg, p, "stop") /\ target' = To(target, p, t)
    /\ UNCHANGED <<files, world, owner, life, mine, server, req, quit, sig, past, faults>>

\* The server stops only if it is idle; otherwise the change is refused.
IfIdle(p) == ~busy[p]
stop_idle(p) ==
    /\ chg[p] = "stop"
    /\ \/ /\ serves[p] /\ IfIdle(p)
          /\ \/ Works /\ chg' = To(chg, p, "move")
             \/ Fault /\ chg' = To(chg, p, "recover")
          /\ serves' = To(serves, p, FALSE) /\ UNCHANGED held
       \/ (~serves[p] \/ busy[p]) /\ Works /\ Over(p) /\ UNCHANGED serves
    /\ UNCHANGED <<files, world, owner, life, mine, busy, target, req, quit, sig, past>>

\* What the bootstrap remembers as the way back.
current_choice(t) == IF boot.cur = t THEN NoDir ELSE boot.cur
Recorded(t) == boot' = [cur |-> t, prev |-> current_choice(t)]

\* A copy needs a folder without a database, and leaves a whole one before it is
\* recorded; a switch needs one that has it.
move_data(p) ==
    /\ chg[p] = "move" /\ target[p] \notin has
    /\ \/ /\ target[p] \in avail /\ mine[p] \in avail /\ Works
          /\ has' = has \cup {target[p]} /\ Recorded(target[p]) /\ chg' = To(chg, p, "spawn")
       \/ /\ (Usable(mine[p]) /\ target[p] \in avail => Fault)
          /\ (~(Usable(mine[p]) /\ target[p] \in avail) => Works)
          /\ chg' = To(chg, p, "recover") /\ UNCHANGED boot
          /\ has' \in {has, has \cup ({target[p]} \cap avail)}
    /\ UNCHANGED <<made, world, owner, life, mine, server, held, target, req, quit, sig, past>>
switch_to_existing(p) ==
    /\ chg[p] = "move" /\ target[p] \in has /\ UNCHANGED has
    /\ \/ target[p] \in avail /\ Works /\ Recorded(target[p]) /\ chg' = To(chg, p, "spawn")
       \/ /\ (target[p] \in avail => Fault) /\ (target[p] \notin avail => Works)
          /\ chg' = To(chg, p, "recover") /\ UNCHANGED boot
    /\ UNCHANGED <<made, world, owner, life, mine, server, held, target, req, quit, sig, past>>

\* A replacement that cannot be started: the previous choice is recorded again.
restart_or_restore(p) ==
    /\ chg[p] = "spawn"
    /\ restart_app(p, Over(p), chg' = To(chg, p, "restore") /\ UNCHANGED held)
    /\ UNCHANGED <<files, world, owner, mine, server, target, req, quit, sig, past>>
NotRestored == boot                       \* mutant: the bootstrap is left naming the copy
Restored == [cur |-> boot.prev, prev |-> NoDir]
restore(p) ==
    /\ chg[p] = "restore" /\ chg' = To(chg, p, "recover")
    /\ \/ boot.prev # NoDir /\ Works /\ boot' = Restored /\ UNCHANGED torn
       \/ (boot.prev # NoDir => Fault) /\ (boot.prev = NoDir => Works)
          /\ UNCHANGED boot /\ torn' = TRUE
    /\ UNCHANGED <<has, made, world, owner, life, mine, server, held, target, req, quit, sig, good>>

\* The server comes back on the folder it had, or a replacement is tried once more.
recover(p) ==
    /\ chg[p] = "recover"
    /\ \/ /\ Usable(mine[p]) /\ Works /\ serves' = To(serves, p, TRUE) /\ Over(p)
          /\ UNCHANGED life
       \/ /\ (Usable(mine[p]) => Fault) /\ (~Usable(mine[p]) => Works)
          /\ chg' = To(chg, p, "restart") /\ UNCHANGED <<serves, held, life>>
    /\ UNCHANGED <<files, world, owner, mine, busy, target, req, quit, sig, past>>
recover_restart(p) ==
    /\ chg[p] = "restart" /\ restart_app(p, TRUE, TRUE) /\ Over(p)
    /\ UNCHANGED <<files, world, owner, mine, server, target, req, quit, sig, past>>

------------------------------------------------------------------------------
(* Quitting.                                                               *)

Started(p) == life[p] \in {"ready", "error"}

\* A quit is asked for once; a signal promotes the one that is pending.
request(p, confirmed) ==
    IF req[p] = "none"
       THEN req' = To(req, p, IF confirmed THEN "confirmed" ELSE "asked")
            /\ quit' = To(quit, p, "wait")
       ELSE req' = (IF confirmed THEN To(req, p, "confirmed") ELSE req) /\ UNCHANGED quit

UserQuits(p) ==
    /\ Started(p) /\ req[p] = "none" /\ request(p, FALSE)
    /\ UNCHANGED <<files, world, owner, life, mine, server, held, chg, target, sig, past,
                   faults>>
\* Held from the registration on, and read once the start-up is complete.
Signal(p) ==
    /\ life[p] \notin {"none", "claim", "gone"} /\ sig[p] = "no"
    /\ sig' = To(sig, p, "sent")
    /\ UNCHANGED <<files, world, owner, life, mine, server, tasks, past, faults>>
SignalRead(p) ==
    /\ Started(p) /\ sig[p] = "sent" /\ sig' = To(sig, p, "read") /\ request(p, TRUE)
    /\ UNCHANGED <<files, world, owner, life, mine, server, held, chg, target, past, faults>>

\* The quit waits for a change under way; a busy server is put back and asked about.
HasTurn(p) == quit[p] = "wait" /\ held[p] = "free"
request_exit(p) ==
    /\ HasTurn(p) /\ held' = To(held, p, "quit")
    /\ IF serves[p] /\ busy[p]
          THEN quit' = To(quit, p, "dialog") /\ UNCHANGED serves
          ELSE quit' = To(quit, p, "finish") /\ serves' = To(serves, p, FALSE)
    /\ UNCHANGED <<files, world, owner, life, mine, busy, chg, target, req, sig, past, faults>>

UserAnswers(p) ==
    /\ quit[p] = "dialog" /\ quit' \in {To(quit, p, "stop"), To(quit, p, "cancel")}
    /\ UNCHANGED <<files, world, owner, life, mine, server, held, chg, target, req, sig, past,
                   faults>>
decide(p) ==
    /\ quit[p] = "dialog" /\ req[p] = "confirmed" /\ quit' = To(quit, p, "stop")
    /\ UNCHANGED <<files, world, owner, life, mine, server, held, chg, target, req, sig, past,
                   faults>>

\* A late "continue" does not discard a signal that came meanwhile.
CancelAlways(p) == TRUE                   \* mutant: the last answer counts
CancelWins(p) == req[p] # "confirmed"
cancel_exit(p) ==
    /\ quit[p] = "cancel"
    /\ IF CancelWins(p)
          THEN /\ req' = To(req, p, "none") /\ quit' = To(quit, p, "no")
               /\ held' = To(held, p, "free")
          ELSE quit' = To(quit, p, "stop") /\ UNCHANGED <<req, held>>
    /\ UNCHANGED <<files, world, owner, life, mine, server, chg, target, sig, past, faults>>

\* The job is cancelled and waited for, whatever it takes.
Drained(p) == busy' = To(busy, p, FALSE)
stop_work(p) ==
    /\ quit[p] = "stop" /\ Drained(p) /\ serves' = To(serves, p, FALSE)
    /\ quit' = To(quit, p, "finish")
    /\ UNCHANGED <<files, world, owner, life, mine, held, chg, target, req, sig, past, faults>>
finish_exit(p) ==
    /\ quit[p] = "finish" /\ life[p] # "exiting" /\ life' = To(life, p, "exiting")
    /\ UNCHANGED <<files, world, owner, mine, server, tasks, sig, past, faults>>

\* The event loop ends: the last drain, then the instance lock goes.
Gone(p) ==
    /\ life' = To(life, p, "gone") /\ owner' = (IF owner = p THEN 0 ELSE owner)
    /\ serves' = To(serves, p, FALSE) /\ busy' = To(busy, p, FALSE)
    /\ held' = To(held, p, "free") /\ chg' = To(chg, p, "no") /\ req' = To(req, p, "none")
    /\ quit' = To(quit, p, "no") /\ UNCHANGED sig
exit(p) ==
    /\ life[p] = "exiting" /\ Gone(p)
    /\ UNCHANGED <<files, world, mine, target, past, faults>>
\* The process is killed.
Crash(p) ==
    /\ Alive(p) /\ Fault /\ Gone(p)
    /\ UNCHANGED <<files, world, mine, target, past>>

\* A drive is unplugged or plugged in.
DriveMoves(d) ==
    /\ moves < MaxMoves /\ moves' = moves + 1
    /\ d # System /\ avail' = (IF d \in avail THEN avail \ {d} ELSE avail \cup {d})
    /\ UNCHANGED <<files, owner, life, mine, server, tasks, sig, past, faults>>

------------------------------------------------------------------------------
Starts(p) == claim(p) \/ prepare(p) \/ persist(p) \/ start_server(p) \/ confirm_started(p)
Changes(p) ==
    \/ stop_idle(p) \/ move_data(p) \/ switch_to_existing(p) \/ restart_or_restore(p)
    \/ restore(p) \/ recover(p) \/ recover_restart(p)
Quits(p) == decide(p) \/ cancel_exit(p) \/ stop_work(p) \/ finish_exit(p)
User(p) ==
    \/ Launch(p) \/ try_again(p) \/ revert_data_dir(p) \/ JobStarts(p) \/ JobEnds(p)
    \/ (\E t \in Dirs : change_data_dir(p, t)) \/ UserQuits(p) \/ Signal(p) \/ UserAnswers(p)

Next ==
    \/ \E p \in Procs :
          \/ Starts(p) \/ Changes(p) \/ Quits(p) \/ SignalRead(p) \/ request_exit(p) \/ exit(p)
          \/ User(p) \/ Crash(p)
    \/ \E d \in Dirs : DriveMoves(d)

Spec == Init /\ [][Next]_vars
\* Every task of a process is run; the lock `changing` is given to who waits for it.
Fairness ==
    \A p \in Procs :
        /\ WF_vars(Starts(p)) /\ WF_vars(Changes(p)) /\ WF_vars(Quits(p))
        /\ WF_vars(SignalRead(p)) /\ SF_vars(request_exit(p)) /\ WF_vars(exit(p))
FairSpec == Spec /\ Fairness

------------------------------------------------------------------------------
(* Properties.                                                             *)

\* However launches, replacements, kills and changes of the folder follow each other, the
\* instance lock lets one process at a time have a server (Instance::claim; the lock is
\* held until the last drain).
OneServer == \A p, q \in Procs : serves[p] /\ serves[q] => p = q

\* A server is on the folder the bootstrap names, except inside a change; a change that
\* could neither be finished nor taken back says so (restart_or_restore, recover).
ServedIsChosen ==
    \A p \in Procs : serves[p] /\ chg[p] \in {"no", "stop"} => mine[p] = boot.cur \/ torn

\* The folder that last came up is never forgotten before another one did: the bootstrap
\* names it as the one in use or as the way back (write_bootstrap, confirm_started).
WayBack == good = NoDir \/ torn \/ good \in {boot.cur, boot.prev}

\* A running job has its server: neither a change of the folder nor a quit takes it away
\* from under the job (Server::shutdown with IfIdle, then CancelJob).
WorkIsServed == \A p \in Procs : busy[p] => serves[p]

\* One server at a time, on the folder the bootstrap remembers, and no job without its
\* server, through every change of the folder, refused call and kill.
ChoiceIsServed == OneServer /\ ServedIsChosen /\ WayBack /\ WorkIsServed

\* An empty database is made only where nothing was ever chosen: a folder that is away is
\* never replaced by a new one (resolve, prepare, Creation::MustExist).
OnlyFirstIsMade == [][made' # made => boot.cur = NoDir /\ good = NoDir]_vars

\* A signal ends the process, whatever it does: starting, changing the folder, asking
\* about a running job, taking the last "continue" back (quit::Requests).
SignalEnds == \A p \in Procs : sig[p] # "no" ~> life[p] = "gone"

\* A change of the folder that was begun comes to an end, and its lock is free.
ChangeEnds == \A p \in Procs : held[p] = "change" ~> held[p] # "change"

\* Whoever is asked to end, ends: a signalled process, a change once begun.
AskedEnds == SignalEnds /\ ChangeEnds

------------------------------------------------------------------------------
(* The invariant the proofs rest on.                                       *)

ShellTypes ==
    /\ boot \in [cur : Dirs \cup {NoDir}, prev : Dirs \cup {NoDir}]
    /\ owner \in {0} \cup Procs
    /\ life \in [Procs -> {"none", "claim", "own", "created", "prepared", "up", "ready",
                           "error", "exiting", "gone"}]
    /\ mine \in [Procs -> Dirs \cup {NoDir}] /\ target \in [Procs -> Dirs \cup {NoDir}]
    /\ serves \in [Procs -> BOOLEAN] /\ busy \in [Procs -> BOOLEAN]
    /\ held \in [Procs -> {"free", "change", "quit"}]
    /\ chg \in [Procs -> {"no", "stop", "move", "spawn", "restore", "recover", "restart"}]
    /\ req \in [Procs -> {"none", "asked", "confirmed"}]
    /\ quit \in [Procs -> {"no", "wait", "dialog", "cancel", "stop", "finish"}]
    /\ good \in Dirs \cup {NoDir} /\ torn \in BOOLEAN

\* The instance lock is held from its claim to the last drain.
LockIsLife == \A p \in Procs : life[p] \notin {"none", "claim", "gone"} <=> owner = p

\* Who may have a server, and a job.
ServesInLife ==
    \A p \in Procs :
        /\ serves[p] => life[p] \in {"up", "ready"} /\ chg[p] \in {"no", "stop"}
        /\ busy[p] => serves[p] /\ life[p] = "ready"
        /\ quit[p] = "finish" => ~serves[p]

\* A change and a quit of one process exclude each other.
TasksExclude ==
    \A p \in Procs :
        /\ chg[p] # "no" =>
              held[p] = "change" /\ life[p] = "ready" /\ target[p] \in Dirs \ {mine[p]}
        /\ quit[p] \notin {"no", "wait"} => held[p] = "quit"
        /\ quit[p] # "no" => life[p] \in {"ready", "error", "exiting"}

\* What the bootstrap names, by how far the owner of the lock has come.
Recording(p) == chg[p] \in {"spawn", "restore"}
ChoiceIsTold ==
    /\ boot.cur = NoDir => good = NoDir /\ boot.prev = NoDir
    /\ ~torn /\ good # NoDir => good = IF boot.prev = NoDir THEN boot.cur ELSE boot.prev
    /\ \A p \in Procs :
          /\ life[p] = "created" => boot.cur = NoDir /\ mine[p] \in Dirs
          /\ life[p] \in {"prepared", "up"} => mine[p] = boot.cur
          /\ life[p] \in {"prepared", "up", "ready"} => boot.cur # NoDir /\ mine[p] \in Dirs
          /\ life[p] = "ready" /\ ~torn =>
                /\ good = mine[p]
                /\ boot = IF Recording(p) THEN [cur |-> target[p], prev |-> mine[p]]
                                          ELSE [cur |-> mine[p], prev |-> NoDir]

ShellInv == ShellTypes /\ LockIsLife /\ ServesInLife /\ TasksExclude /\ ChoiceIsTold
==============================================================================

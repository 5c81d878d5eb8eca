----------------------------- MODULE WriterGate -----------------------------
(***************************************************************************)
(* Who may write to one archive, across processes and within one           *)
(* (crates/pc-core/src/lock.rs, crates/pc-api/src/jobs.rs, state.rs,       *)
(* server.rs, service.rs; the command line of crates/pc-cli).              *)
(*                                                                         *)
(* Several servers may be started on one database.  In each, a mutation    *)
(* gate admits one job start or hand-made change at a time; a job's worker *)
(* thread outlives its admission.  Across them, one lock of the operating  *)
(* system, let go when its process dies.  A server that starts calls the   *)
(* jobs left running interrupted; one that stops waits for its worker.     *)
(***************************************************************************)
EXTENDS Naturals, FiniteSets

CONSTANTS
    Servers,     \* server processes; one may stop and be started again
    Cli,         \* a command line that writes
    None,        \* nobody, nothing
    MaxJobs,     \* bound on the jobs ever inserted
    Starts,      \* bound: which of them a server may be the one to start
    MaxFiles,    \* file boundaries of a job
    MaxFaults    \* bound on killed processes and refused database writes

ASSUME NumbersAssumption ==
    MaxJobs \in Nat /\ MaxFiles \in Nat /\ MaxFaults \in Nat

Jobs == 1 .. MaxJobs
ASSUME StartsAssumption == Starts \in [Servers -> SUBSET Jobs]

Uses      == {"job", "edit", "open"}
ASSUME NamesAssumption ==
    /\ None # Cli /\ None \notin Servers /\ None \notin Jobs
    /\ {None, Cli} \cap (Servers \X Uses) = {}
Ends      == {"done", "cancelled", "failed"}
RowStates == {"none", "queued", "running", "interrupted"} \cup Ends

VARIABLES
    lock,      \* the holder of the writer lock: None, Cli or <<server, use>>
    cli,       \* is a writing command of the command line under way?
    up,        \* a server: "off", "mark" (opening with the lock), "on"
    closing,   \* servers that take no new changes
    gate,      \* what is inside a server's mutation gate
    active,    \* the job a server calls running, or None
    worker,    \* the job whose thread a server remembers, or None
    shut,      \* where a server's shutdown is
    state,     \* the jobs rows of the database
    owner,     \* the server a job was started by, or None
    thread,    \* where a job's worker thread is
    left,      \* file boundaries a job has before it
    cancel,    \* jobs asked to stop
    end,       \* how a job ended, known to its thread
    cut,       \* jobs whose thread was killed, or could not say how it ended
    faults     \* killed processes and refused writes (bounded by MaxFaults)

server == <<cli, up, closing, gate, active, worker, shut>>
job    == <<state, owner, thread, left, cancel, end, cut>>
vars   == <<lock, server, job, faults>>

------------------------------------------------------------------------------

Fault == faults < MaxFaults /\ faults' = faults + 1
Works == UNCHANGED faults

\* flock(LOCK_EX | LOCK_NB): taken, or Busy at once.
FreeOfServers == lock \in {None, Cli}   \* mutant
LockIsFree == lock = None

Alive(j) == thread[j] \notin {"none", "gone"}

Init ==
    /\ lock = None /\ cli = FALSE
    /\ up = [s \in Servers |-> "off"]
    /\ closing = {}
    /\ gate = [s \in Servers |-> "free"]
    /\ active = [s \in Servers |-> None]
    /\ worker = [s \in Servers |-> None]
    /\ shut = [s \in Servers |-> "no"]
    /\ state = [j \in Jobs |-> "none"]
    /\ owner = [j \in Jobs |-> None]
    /\ thread = [j \in Jobs |-> "none"]
    /\ left = [j \in Jobs |-> MaxFiles]
    /\ cancel = {} /\ cut = {}
    /\ end = [j \in Jobs |-> None]
    /\ faults = 0

------------------------------------------------------------------------------
(* A server starts: AppState::open.                                          *)

OpenAsk(s) ==
    /\ up[s] = "off" /\ Works
    /\ IF LockIsFree
       THEN lock' = <<s, "open">> /\ up' = [up EXCEPT ![s] = "mark"]
       ELSE up' = [up EXCEPT ![s] = "on"] /\ UNCHANGED lock
    /\ UNCHANGED <<cli, closing, gate, active, worker, shut, job>>

\* The lock could be taken, so whatever is marked running stopped without
\* saying so.  Refused by the database, the server does not start.
Abandoned == {j \in Jobs : state[j] \in {"queued", "running"}}
OpenMark(s) ==
    /\ up[s] = "mark"
    /\ \/ Works
          /\ state' = [j \in Jobs |-> IF j \in Abandoned THEN "interrupted" ELSE state[j]]
          /\ up' = [up EXCEPT ![s] = "on"]
       \/ Fault /\ up' = [up EXCEPT ![s] = "off"] /\ UNCHANGED state
    /\ lock' = None
    /\ UNCHANGED <<cli, closing, gate, active, worker, shut, owner, thread, left, cancel, end, cut>>

------------------------------------------------------------------------------
(* Inside the mutation gate.                                                 *)

Serving(s) == up[s] = "on" /\ shut[s] # "stop"
Admitted(s) == s \notin closing /\ active[s] = None

Inside(s, from, to) == gate[s] = from /\ gate' = [gate EXCEPT ![s] = to]

\* jobs::start and service::mutate, up to their refusals.
Enter(s) ==
    /\ Serving(s) /\ Works
    /\ Admitted(s)
    /\ \E first \in {"start", "edit"} : Inside(s, "free", first)
    /\ UNCHANGED <<lock, cli, up, closing, active, worker, shut, job>>

\* Rows are numbered as they are inserted.
IsNext(j) == state[j] = "none" /\ \A i \in Jobs : i < j => state[i] # "none"

\* Refused while another process writes; or the request itself is (validate).
TakeForJob(s) ==
    /\ Works
    /\ \/ /\ LockIsFree /\ \E j \in Starts[s] : IsNext(j)
          /\ lock' = <<s, "job">>
          /\ Inside(s, "start", "insert")
       \/ Inside(s, "start", "free") /\ UNCHANGED lock
    /\ UNCHANGED <<cli, up, closing, active, worker, shut, job>>

\* INSERT INTO jobs; refused, the lock goes with the handler.
InsertJob(s) ==
    /\ \/ /\ Works /\ Inside(s, "insert", "spawn")
          /\ \E j \in Jobs :
                /\ IsNext(j)
                /\ state' = [state EXCEPT ![j] = "queued"]
                /\ owner' = [owner EXCEPT ![j] = s]
                /\ active' = [active EXCEPT ![s] = j]
          /\ UNCHANGED lock
       \/ /\ Fault /\ Inside(s, "insert", "free")
          /\ lock' = None
          /\ UNCHANGED <<state, owner, active>>
    /\ UNCHANGED <<cli, up, closing, worker, shut, thread, left, cancel, end, cut>>

SpawnWorker(s) ==
    /\ Works /\ Inside(s, "spawn", "record")
    /\ thread' = [thread EXCEPT ![active[s]] = "begin"]
    /\ UNCHANGED <<lock, cli, up, closing, active, worker, shut, state, owner, left, cancel, end, cut>>

\* The thread may be over by now; the gate opens only after it is recorded.
Newest(s) == CHOOSE j \in Jobs :
                owner[j] = s /\ \A i \in Jobs : owner[i] = s => i <= j
RecordWorker(s) ==
    /\ Works /\ Inside(s, "record", "free")
    /\ worker' = [worker EXCEPT ![s] = Newest(s)]
    /\ UNCHANGED <<lock, cli, up, closing, active, shut, job>>

TakeForEdit(s) ==
    /\ Works
    /\ \/ LockIsFree /\ lock' = <<s, "edit">> /\ Inside(s, "edit", "write")
       \/ ~LockIsFree /\ Inside(s, "edit", "free") /\ UNCHANGED lock
    /\ UNCHANGED <<cli, up, closing, active, worker, shut, job>>

Edit(s) ==
    /\ Works /\ Inside(s, "write", "free")
    /\ lock' = None
    /\ UNCHANGED <<cli, up, closing, active, worker, shut, job>>

InGate(s) == TakeForJob(s) \/ InsertJob(s) \/ SpawnWorker(s) \/ RecordWorker(s)
             \/ TakeForEdit(s) \/ Edit(s)

------------------------------------------------------------------------------
(* The worker thread.                                                        *)

At(j, from, to) == thread[j] = from /\ thread' = [thread EXCEPT ![j] = to]
EndsAs(j, how) == At(j, "run", "over") /\ end' = [end EXCEPT ![j] = how]

\* execute: the row says running; refused, the job has failed.
Begin(j) ==
    /\ \/ Works /\ At(j, "begin", "run") /\ state' = [state EXCEPT ![j] = "running"]
          /\ UNCHANGED end
       \/ Fault /\ At(j, "begin", "over") /\ end' = [end EXCEPT ![j] = "failed"]
          /\ UNCHANGED state
    /\ UNCHANGED <<lock, server, owner, left, cancel, cut>>

\* Where a job stands between its first and its last file boundary.
MoreFiles(j) == left[j] > 0
FinishedUncancelled(j) == left[j] = 0 /\ j \notin cancel   \* mutant
Finished(j) == left[j] = 0

\* From one file boundary to the next: Control::check, then one whole file.  An
\* error or a panic ends the job as failed.
WorkOn(j) ==
    /\ thread[j] = "run"
    /\ \/ /\ Works /\ MoreFiles(j) /\ j \notin cancel
          /\ left' = [left EXCEPT ![j] = @ - 1]
          /\ UNCHANGED <<thread, end>>
       \/ Works /\ MoreFiles(j) /\ j \in cancel /\ EndsAs(j, "cancelled") /\ UNCHANGED left
       \/ Works /\ Finished(j) /\ EndsAs(j, "done") /\ UNCHANGED left
       \/ Fault /\ EndsAs(j, "failed") /\ UNCHANGED left
    /\ UNCHANGED <<lock, server, state, owner, cancel, cut>>

\* Both gates open before the job is called finished: the one in this memory,
\* then the one of the system.
ClearAfterSaying(j) ==   \* mutant
    /\ Works /\ At(j, "over", "cleared")
    /\ active' = [active EXCEPT ![owner[j]] = None]
    /\ state' = [state EXCEPT ![j] = end[j]]
    /\ UNCHANGED <<lock, cli, up, closing, gate, worker, shut, owner, left, cancel, end, cut>>

ClearActive(j) ==
    /\ Works /\ At(j, "over", "cleared")
    /\ active' = [active EXCEPT ![owner[j]] = None]
    /\ UNCHANGED <<lock, cli, up, closing, gate, worker, shut, state, owner, left, cancel, end, cut>>

DropWriter(j) ==
    /\ Works /\ At(j, "cleared", "say")
    /\ lock' = None
    /\ UNCHANGED <<server, state, owner, left, cancel, end, cut>>

\* The result of the UPDATE is not looked at.
Say(j) ==
    /\ At(j, "say", "gone")
    /\ \/ Works /\ state' = [state EXCEPT ![j] = end[j]] /\ UNCHANGED cut
       \/ Fault /\ cut' = cut \cup {j} /\ UNCHANGED state
    /\ UNCHANGED <<lock, server, owner, left, cancel, end>>

Thread(j) == Begin(j) \/ WorkOn(j) \/ ClearActive(j) \/ DropWriter(j) \/ Say(j)

\* The cancel button, heard only while the job is the active one.
Cancel(s) ==
    /\ Serving(s) /\ active[s] # None /\ Works
    /\ cancel' = cancel \cup {active[s]}
    /\ UNCHANGED <<lock, server, state, owner, thread, left, end, cut>>

------------------------------------------------------------------------------
(* Server::shutdown.                                                         *)

Close(s) ==
    /\ up[s] = "on" /\ shut[s] = "no" /\ Works
    /\ closing' = closing \cup {s}
    /\ shut' = [shut EXCEPT ![s] = "gate"]
    /\ UNCHANGED <<lock, cli, up, gate, active, worker, job>>

\* The mutation gate, taken once and let go: whoever was inside is out.
GateIsOut(s) == gate[s] = "free"
PassGate(s) ==
    /\ shut[s] = "gate" /\ GateIsOut(s) /\ Works
    /\ shut' = [shut EXCEPT ![s] = "ask"]
    /\ UNCHANGED <<lock, cli, up, closing, gate, active, worker, job>>

\* A running job refuses an IfIdle shutdown, which opens the server again, or is
\* asked to stop by a CancelJob one.
AskJob(s) ==
    /\ shut[s] = "ask" /\ Works
    /\ \/ /\ active[s] # None
          /\ closing' = closing \ {s}
          /\ shut' = [shut EXCEPT ![s] = "no"]
          /\ UNCHANGED cancel
       \/ /\ shut' = [shut EXCEPT ![s] = "wait"]
          /\ cancel' = cancel \cup ({active[s]} \ {None})
          /\ UNCHANGED closing
    /\ UNCHANGED <<lock, cli, up, gate, active, worker, state, owner, thread, left, end, cut>>

\* The worker's thread, even when no job looks active.
AwaitedIfActive(s) == active[s] # None => ~Alive(active[s])   \* mutant
Awaited(s) == worker[s] # None => ~Alive(worker[s])
Await(s) ==
    /\ shut[s] = "wait" /\ Awaited(s) /\ Works
    /\ worker' = [worker EXCEPT ![s] = None]
    /\ shut' = [shut EXCEPT ![s] = "stop"]
    /\ UNCHANGED <<lock, cli, up, closing, gate, active, job>>

Stop(s) ==
    /\ shut[s] = "stop" /\ Works
    /\ up' = [up EXCEPT ![s] = "off"]
    /\ shut' = [shut EXCEPT ![s] = "no"]
    /\ closing' = closing \ {s}
    /\ UNCHANGED <<lock, cli, gate, active, worker, job>>

Shutdown(s) == PassGate(s) \/ AskJob(s) \/ Await(s) \/ Stop(s)

------------------------------------------------------------------------------
(* The command line, and a killed process.                                   *)

CliTakes ==
    /\ ~cli /\ LockIsFree /\ Works
    /\ cli' = TRUE /\ lock' = Cli
    /\ UNCHANGED <<up, closing, gate, active, worker, shut, job>>

\* It ends or is killed; the lock goes with the process.
CliEnds ==
    /\ cli /\ Works
    /\ cli' = FALSE /\ lock' = None
    /\ UNCHANGED <<up, closing, gate, active, worker, shut, job>>

Kill(s) ==
    /\ up[s] # "off" /\ Fault
    /\ up' = [up EXCEPT ![s] = "off"]
    /\ closing' = closing \ {s}
    /\ gate' = [gate EXCEPT ![s] = "free"]
    /\ active' = [active EXCEPT ![s] = None]
    /\ worker' = [worker EXCEPT ![s] = None]
    /\ shut' = [shut EXCEPT ![s] = "no"]
    /\ lock' = IF \E u \in Uses : lock = <<s, u>> THEN None ELSE lock
    /\ LET lost == {j \in Jobs : owner[j] = s /\ thread[j] # "gone"} IN
          /\ thread' = [j \in Jobs |-> IF j \in lost THEN "gone" ELSE thread[j]]
          /\ cut' = cut \cup lost
    /\ UNCHANGED <<cli, state, owner, left, cancel, end>>

Next ==
    \/ \E s \in Servers : OpenAsk(s) \/ OpenMark(s) \/ Enter(s) \/ InGate(s) \/ Cancel(s)
                          \/ Close(s) \/ Shutdown(s) \/ Kill(s)
    \/ \E j \in Jobs : Thread(j)
    \/ CliTakes \/ CliEnds

Spec == Init /\ [][Next]_vars

\* A thread runs on, and so does what is inside a gate or shutting down; nobody
\* has to start anything, and the command line may run as long as it likes.
FairSpec ==
    /\ Spec
    /\ \A s \in Servers : WF_vars(InGate(s)) /\ WF_vars(Shutdown(s))
    /\ \A j \in Jobs : WF_vars(Thread(j))

------------------------------------------------------------------------------
(* What must hold.                                                           *)

\* Every variable has its type.
TypeOK ==
    /\ lock \in {None, Cli} \cup (Servers \X Uses)
    /\ cli \in BOOLEAN
    /\ up \in [Servers -> {"off", "mark", "on"}]
    /\ closing \subseteq Servers
    /\ gate \in [Servers -> {"free", "start", "insert", "spawn", "record", "edit", "write"}]
    /\ active \in [Servers -> Jobs \cup {None}]
    /\ worker \in [Servers -> Jobs \cup {None}]
    /\ shut \in [Servers -> {"no", "gate", "ask", "wait", "stop"}]
    /\ state \in [Jobs -> RowStates]
    /\ owner \in [Jobs -> Servers \cup {None}]
    /\ thread \in [Jobs -> {"none", "begin", "run", "over", "cleared", "say", "gone"}]
    /\ left \in [Jobs -> 0 .. MaxFiles]
    /\ end \in [Jobs -> Ends \cup {None}]
    /\ cancel \subseteq Jobs /\ cut \subseteq Jobs
    /\ faults \in 0 .. MaxFaults

\* Whoever is changing the archive at this moment, in any process: a worker
\* between two file boundaries, a hand-made change, a starting server marking
\* jobs, the command line.
Working(j) == thread[j] \in {"begin", "run"}
Writing ==
    {<<"job", j>> : j \in {i \in Jobs : Working(i)}}
      \cup {<<"edit", s>> : s \in {r \in Servers : gate[r] = "write"}}
      \cup {<<"open", s>> : s \in {r \in Servers : up[r] = "mark"}}
      \cup (IF cli THEN {<<"cli", Cli>>} ELSE {})

\* One writer for one archive, across processes (lock.rs): and it holds the
\* lock, so whoever is refused next is told who it is.
OneWriter ==
    /\ \A w, v \in Writing : w = v
    /\ \A j \in Jobs : Working(j) => lock = <<owner[j], "job">>
    /\ cli => lock = Cli

\* Whoever reads how a job ended finds both gates open: the server no longer
\* calls it running, and its lock is let go (jobs.rs, the order of the end).
EndedMeansFree ==
    \A j \in Jobs :
        (owner[j] # None /\ state[j] \in Ends) =>
            /\ active[owner[j]] # j
            /\ ~Working(j) /\ thread[j] \notin {"over", "cleared"}

\* A job is never called interrupted while it is moving files (state.rs), and a
\* row still queued or running with nobody behind it was cut off: its process
\* was killed, or the database refused the last word.
InterruptedIsOver ==
    \A j \in Jobs :
        /\ state[j] = "interrupted" => ~Working(j)
        /\ state[j] \in {"queued", "running"} /\ thread[j] = "gone" => j \in cut

\* What a job's row says is so, to whoever reads it.
StateIsTrue == EndedMeansFree /\ InterruptedIsOver

\* Past its gate, a shutdown meets no new change: nothing is let in, and no
\* thread starts, until the server is stopped or opened again (server.rs, 1.).
NothingStartsPastTheGate ==
    \A s \in Servers :
        shut[s] \in {"ask", "wait", "stop"} => gate[s] = "free" /\ s \in closing

\* A server that stopped by itself left no lock and nothing writing behind, and
\* its last job says how it ended unless the database refused that.
StoppedMeansSettled ==
    \A s \in Servers :
        shut[s] = "stop" \/ up[s] = "off" =>
            /\ \A u \in Uses : lock # <<s, u>>
            /\ \A j \in Jobs : owner[j] = s =>
                  /\ thread[j] \in {"say", "gone"}
                  /\ j = Newest(s) => thread[j] = "gone"
                                      /\ (state[j] \in {"queued", "running"} => j \in cut)

\* A shutdown lets nothing in behind its back and leaves nothing behind.
ShutdownIsClean == NothingStartsPastTheGate /\ StoppedMeansSettled

\* A job asked to stop does stop, or its server is killed.
CancelIsHeard == \A j \in Jobs : j \in cancel ~> ~Alive(j)

\* A shutdown ends: stopped, or refused because a job runs.
ShutdownEnds == \A s \in Servers : shut[s] # "no" ~> shut[s] = "no"

\* Whatever is asked to stop stops: a cancelled job, a server shutting down.
AskedStops == CancelIsHeard /\ ShutdownEnds

------------------------------------------------------------------------------
(* The invariant the proofs rest on.                                         *)

\* A thread that has not let the lock go yet.
Holding(j) == thread[j] \in {"begin", "run", "over", "cleared"}

\* Who holds the lock, by what each of them is doing.
LockIsTold ==
    /\ cli <=> lock = Cli
    /\ \A s \in Servers : up[s] = "mark" <=> lock = <<s, "open">>
    /\ \A s \in Servers : gate[s] = "write" <=> lock = <<s, "edit">>
    /\ \A j \in Jobs : Holding(j) => owner[j] \in Servers /\ lock = <<owner[j], "job">>
    /\ \A i, j \in Jobs : Holding(i) /\ Holding(j) => i = j
    /\ \A s \in Servers : gate[s] \in {"insert", "spawn"} =>
          lock = <<s, "job">> /\ \A j \in Jobs : ~Holding(j)
    /\ \A s \in Servers : lock = <<s, "job">> =>
          gate[s] \in {"insert", "spawn"} \/ \E j \in Jobs : Holding(j)

\* Where a job is between its row and its thread.
JobIsPlaced ==
    /\ \A s \in Servers : gate[s] = "spawn" => active[s] \in Jobs
    /\ \A s \in Servers : active[s] \in Jobs =>
          owner[active[s]] = s /\ thread[active[s]] \in {"none", "begin", "run", "over"}
    /\ \A j \in Jobs :
          /\ state[j] = "none" => owner[j] = None /\ thread[j] = "none"
          /\ state[j] # "none" => owner[j] \in Servers
          /\ state[j] # "none" /\ thread[j] = "none" =>
                gate[owner[j]] = "spawn" /\ active[owner[j]] = j

\* What a row says, by where the thread is.
RowIsTold ==
    \A j \in Jobs :
        /\ thread[j] \in {"over", "cleared", "say"} => end[j] \in Ends
        /\ state[j] \in Ends => thread[j] = "gone"
        /\ state[j] = "interrupted" => thread[j] \in {"say", "gone"}
        /\ state[j] \in {"queued", "running"} /\ thread[j] = "gone" => j \in cut

\* Where a shutdown is.
ShutIsTold ==
    /\ \A s \in Servers : up[s] # "on" => shut[s] = "no"
    /\ \A s \in Servers : shut[s] # "no" => s \in closing
    /\ NothingStartsPastTheGate

\* The thread a server remembers is that of its latest job; it is the only one
\* that may be anywhere before its last word.
IsLatest(j, s) == owner[j] = s /\ \A i \in Jobs : owner[i] = s => i <= j
WorkerIsTold ==
    /\ \A i, j \in Jobs : i < j /\ state[i] = "none" => state[j] = "none"
    /\ \A s \in Servers :
          (\E j \in Jobs : owner[j] = s) => \E j \in Jobs : IsLatest(j, s)
    /\ \A j \in Jobs : owner[j] \in Servers =>
          thread[j] \in {"say", "gone"} \/ IsLatest(j, owner[j])
    /\ \A s \in Servers :
          /\ gate[s] \in {"spawn", "record"} => \E j \in Jobs : owner[j] = s
          /\ up[s] # "on" \/ shut[s] = "stop" => gate[s] = "free" /\ worker[s] = None
          /\ gate[s] \notin {"spawn", "record"} /\ worker[s] # None =>
                worker[s] \in Jobs /\ IsLatest(worker[s], s)
          /\ gate[s] \notin {"spawn", "record"} /\ worker[s] = None =>
                \A j \in Jobs : owner[j] = s =>
                    thread[j] \in {"say", "gone"} /\ (IsLatest(j, s) => thread[j] = "gone")

GateInv == TypeOK /\ LockIsTold /\ JobIsPlaced /\ RowIsTold /\ ShutIsTold /\ WorkerIsTold
==============================================================================

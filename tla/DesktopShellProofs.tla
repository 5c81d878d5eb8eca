------------------------- MODULE DesktopShellProofs -------------------------
(***************************************************************************)
(* For any number of folders, window processes, faults and moves of a      *)
(* drive: one server at a time, on the folder the bootstrap remembers, and *)
(* an empty database only where nothing was ever chosen.                   *)
(***************************************************************************)
EXTENDS DesktopShell, TLAPS

USE DirsAssumption DEF Procs, To

------------------------------------------------------------------------------
(* Starting.                                                               *)

LEMMA OneOwner ==
    ASSUME ShellInv, NEW p \in Procs, life[p] \notin {"none", "claim", "gone"}
    PROVE  \A q \in Procs \ {p} : life[q] \in {"none", "claim", "gone"} /\ chg[q] = "no"
BY DEF ShellInv, LockIsLife, TasksExclude

\* From the launch to a server that is up.
LEMMA Starting ==
    ASSUME ShellInv, NEW p \in Procs, Launch(p) \/ claim(p) \/ prepare(p) \/ persist(p) \/ start_server(p) \/ confirm_started(p)
    PROVE  ShellInv'
<1>1. CASE Launch(p)
  <2>1. ShellTypes'
    BY <1>1 DEF ShellInv, ShellTypes, Launch, IsNext, New, files, world, server, tasks, past
  <2>2. LockIsLife'
    BY <1>1 DEF ShellInv, LockIsLife, ShellTypes, Launch, IsNext, New, files, world, server, tasks, past
  <2>3. ServesInLife'
    BY <1>1 DEF ShellInv, ServesInLife, ShellTypes, TasksExclude, LockIsLife, Launch, IsNext, New, files, world, server, tasks, past
  <2>4. TasksExclude'
    BY <1>1 DEF ShellInv, TasksExclude, ShellTypes, ServesInLife, Launch, IsNext, New, files, world, server, tasks, past
  <2>5. ChoiceIsTold'
    BY <1>1 DEF ShellInv, ChoiceIsTold, ShellTypes, LockIsLife, TasksExclude, ServesInLife, Recording, Launch, IsNext, New, files, world, server, tasks, past
  <2>6. QED
    BY <2>1, <2>2, <2>3, <2>4, <2>5 DEF ShellInv
<1>2. CASE claim(p)
  <2>1. ShellTypes'
    BY <1>2 DEF ShellInv, ShellTypes, claim, take_writer, files, world, server, tasks, past
  <2>2. LockIsLife'
    BY <1>2 DEF ShellInv, LockIsLife, ShellTypes, claim, take_writer, files, world, server, tasks, past
  <2>3. ServesInLife'
    BY <1>2 DEF ShellInv, ServesInLife, ShellTypes, TasksExclude, LockIsLife, claim, take_writer, files, world, server, tasks, past
  <2>4. TasksExclude'
    BY <1>2 DEF ShellInv, TasksExclude, ShellTypes, ServesInLife, claim, take_writer, files, world, server, tasks, past
  <2>5. ChoiceIsTold'
    BY <1>2 DEF ShellInv, ChoiceIsTold, ShellTypes, LockIsLife, TasksExclude, ServesInLife, Recording, claim, take_writer, files, world, server, tasks, past
  <2>6. QED
    BY <2>1, <2>2, <2>3, <2>4, <2>5 DEF ShellInv
<1>3. CASE prepare(p)
  <2>1. ShellTypes'
    BY <1>3 DEF ShellInv, ShellTypes, prepare, Chosen, FirstLaunch, MayCreate, files, world, server, tasks, past
  <2>2. LockIsLife'
    BY <1>3 DEF ShellInv, LockIsLife, ShellTypes, prepare, Chosen, FirstLaunch, MayCreate, files, world, server, tasks, past
  <2>3. ServesInLife'
    BY <1>3 DEF ShellInv, ServesInLife, ShellTypes, TasksExclude, LockIsLife, prepare, Chosen, FirstLaunch, MayCreate, files, world, server, tasks, past
  <2>4. TasksExclude'
    BY <1>3 DEF ShellInv, TasksExclude, ShellTypes, ServesInLife, prepare, Chosen, FirstLaunch, MayCreate, files, world, server, tasks, past
  <2>5. ChoiceIsTold'
    BY <1>3 DEF ShellInv, ChoiceIsTold, ShellTypes, LockIsLife, TasksExclude, ServesInLife, Recording, prepare, Chosen, FirstLaunch, MayCreate, files, world, server, tasks, past
  <2>6. QED
    BY <2>1, <2>2, <2>3, <2>4, <2>5 DEF ShellInv
<1>4. CASE persist(p)
  <2>1. ShellTypes'
    <3>1. boot' \in [cur : Dirs \cup {NoDir}, prev : Dirs \cup {NoDir}]
      <4>1. mine[p] \in Dirs \cup {NoDir}
        BY DEF ShellInv, ShellTypes
      <4>2. boot' = [cur |-> mine[p], prev |-> NoDir] \/ boot' = boot
        BY <1>4 DEF persist
      <4>3. QED
        BY <4>1, <4>2 DEF ShellInv, ShellTypes
    <3>2. QED
      BY <1>4, <3>1 DEF ShellInv, ShellTypes, persist, files, world, server, tasks, past
  <2>2. LockIsLife'
    BY <1>4 DEF ShellInv, LockIsLife, ShellTypes, persist, files, world, server, tasks, past
  <2>3. ServesInLife'
    BY <1>4 DEF ShellInv, ServesInLife, ShellTypes, TasksExclude, LockIsLife, persist, files, world, server, tasks, past
  <2>4. TasksExclude'
    BY <1>4 DEF ShellInv, TasksExclude, ShellTypes, ServesInLife, persist, files, world, server, tasks, past
  <2>5. ChoiceIsTold'
    <3>1. \A q \in Procs \ {p} : life'[q] \in {"none", "claim", "gone"}
      <4>1. life[p] = "created"
        BY <1>4 DEF persist
      <4>2. \A q \in Procs \ {p} : life[q] \in {"none", "claim", "gone"}
        BY <4>1, OneOwner
      <4>3. life' \in {To(life, p, "prepared"), To(life, p, "error")}
        BY <1>4 DEF persist
      <4>4. QED
        BY <4>2, <4>3 DEF ShellInv, ShellTypes
    <3>2. good = NoDir /\ mine[p] \in Dirs /\ boot.cur = NoDir /\ boot.prev = NoDir
      BY <1>4 DEF ShellInv, ChoiceIsTold, persist
    <3>3. UNCHANGED <<good, mine, torn>>
      BY <1>4 DEF persist, past
    <3>4. \/ boot' = [cur |-> mine[p], prev |-> NoDir] /\ life'[p] = "prepared"
          \/ boot' = boot /\ life'[p] = "error"
      BY <1>4 DEF persist, ShellInv, ShellTypes
    <3>5. QED
      BY <3>1, <3>2, <3>3, <3>4 DEF ChoiceIsTold
  <2>6. QED
    BY <2>1, <2>2, <2>3, <2>4, <2>5 DEF ShellInv
<1>5. CASE start_server(p)
  <2>1. ShellTypes'
    BY <1>5 DEF ShellInv, ShellTypes, start_server, files, world, server, tasks, past
  <2>2. LockIsLife'
    BY <1>5 DEF ShellInv, LockIsLife, ShellTypes, start_server, files, world, server, tasks, past
  <2>3. ServesInLife'
    <3>1. life[p] = "prepared" /\ UNCHANGED <<busy, chg, quit>>
      BY <1>5 DEF start_server, tasks
    <3>2. \/ life' = To(life, p, "up") /\ serves' = To(serves, p, TRUE)
          \/ life' = To(life, p, "error") /\ serves' = serves
      BY <1>5 DEF start_server
    <3>3. ~busy[p] /\ ~serves[p] /\ chg[p] = "no" /\ quit[p] = "no"
      BY <3>1 DEF ShellInv, ServesInLife, TasksExclude, ShellTypes
    <3>4. QED
      BY <3>1, <3>2, <3>3 DEF ShellInv, ServesInLife, ShellTypes
  <2>4. TasksExclude'
    BY <1>5 DEF ShellInv, TasksExclude, ShellTypes, ServesInLife, start_server, files, world, server, tasks, past
  <2>5. ChoiceIsTold'
    BY <1>5 DEF ShellInv, ChoiceIsTold, ShellTypes, LockIsLife, TasksExclude, ServesInLife, Recording, start_server, files, world, server, tasks, past
  <2>6. QED
    BY <2>1, <2>2, <2>3, <2>4, <2>5 DEF ShellInv
<1>6. CASE confirm_started(p)
  <2>1. ShellTypes'
    <3>1. boot' \in [cur : Dirs \cup {NoDir}, prev : Dirs \cup {NoDir}]
      BY <1>6 DEF ShellInv, ShellTypes, confirm_started, Confirmed
    <3>2. good' \in Dirs \cup {NoDir}
      BY <1>6 DEF ShellInv, ShellTypes, confirm_started
    <3>3. life' \in {To(life, p, "ready"), To(life, p, "error")} /\ serves' \in {serves, To(serves, p, FALSE)}
      BY <1>6 DEF confirm_started
    <3>4. UNCHANGED <<owner, mine, busy, held, chg, target, req, quit, torn>>
      BY <1>6 DEF confirm_started, tasks
    <3>5. life' \in [Procs -> {"none", "claim", "own", "created", "prepared", "up", "ready",
                           "error", "exiting", "gone"}]
      BY <3>3 DEF ShellInv, ShellTypes
    <3>6. serves' \in [Procs -> BOOLEAN]
      BY <3>3 DEF ShellInv, ShellTypes
    <3>7. QED
      BY <3>1, <3>2, <3>4, <3>5, <3>6 DEF ShellInv, ShellTypes
  <2>2. LockIsLife'
    <3>1. life[p] = "up" /\ life' \in {To(life, p, "ready"), To(life, p, "error")} /\ owner' = owner
      BY <1>6 DEF confirm_started
    <3>2. \A q \in Procs : life'[q] \in {"none", "claim", "gone"} <=> life[q] \in {"none", "claim", "gone"}
      BY <3>1 DEF ShellInv, ShellTypes
    <3>3. QED
      BY <3>1, <3>2 DEF ShellInv, LockIsLife
  <2>3. ServesInLife'
    <3>1. life[p] = "up" /\ ~busy[p] /\ chg[p] = "no" /\ quit[p] = "no"
      BY <1>6 DEF ShellInv, ServesInLife, TasksExclude, confirm_started
    <3>2. UNCHANGED <<busy, quit, chg>>
      BY <1>6 DEF confirm_started, files, world, server, tasks, past
    <3>3. \/ life' = To(life, p, "ready") /\ serves' = serves
          \/ life' = To(life, p, "error") /\ serves' = To(serves, p, FALSE)
      BY <1>6 DEF confirm_started
    <3>4. QED
      BY <3>1, <3>2, <3>3 DEF ShellInv, ServesInLife, ShellTypes
  <2>4. TasksExclude'
    BY <1>6 DEF ShellInv, TasksExclude, ShellTypes, ServesInLife, confirm_started, Confirmed, files, world, server, tasks, past
  <2>5. ChoiceIsTold'
    <3>1. \A q \in Procs \ {p} : life'[q] \in {"none", "claim", "gone"}
      <4>1. life[p] = "up"
        BY <1>6 DEF confirm_started
      <4>2. \A q \in Procs \ {p} : life[q] \in {"none", "claim", "gone"}
        BY <4>1, OneOwner
      <4>3. life' \in {To(life, p, "ready"), To(life, p, "error")}
        BY <1>6 DEF confirm_started
      <4>4. QED
        BY <4>2, <4>3 DEF ShellInv, ShellTypes
    <3>2. mine[p] = boot.cur /\ mine[p] \in Dirs /\ chg'[p] = "no"
      BY <1>6 DEF ShellInv, ChoiceIsTold, TasksExclude, confirm_started, tasks
    <3>3. UNCHANGED <<mine, torn>>
      BY <1>6 DEF confirm_started
    <3>4. \/ /\ boot' = [cur |-> mine[p], prev |-> NoDir] /\ good' = mine[p] /\ life'[p] = "ready"
          \/ boot' = boot /\ good' = good /\ life'[p] = "error"
      <4>1. boot = [cur |-> boot.cur, prev |-> boot.prev]
        BY DEF ShellInv, ShellTypes
      <4>2. QED
        BY <1>6, <3>2, <4>1 DEF confirm_started, Confirmed, ShellInv, ShellTypes
    <3>5. CASE boot' = boot /\ good' = good /\ life'[p] = "error"
      BY <3>1, <3>3, <3>5 DEF ShellInv, ChoiceIsTold
    <3>6. CASE boot' = [cur |-> mine[p], prev |-> NoDir] /\ good' = mine[p] /\ life'[p] = "ready"
      BY <3>1, <3>2, <3>3, <3>6 DEF ChoiceIsTold, Recording
    <3>7. QED
      BY <3>4, <3>5, <3>6
  <2>6. QED
    BY <2>1, <2>2, <2>3, <2>4, <2>5 DEF ShellInv
<1>7. QED
  BY <1>1, <1>2, <1>3, <1>4, <1>5, <1>6

\* The page of a launch that failed.
LEMMA ErrorPage ==
    ASSUME ShellInv, NEW p \in Procs, try_again(p) \/ revert_data_dir(p)
    PROVE  ShellInv'
<1>1. CASE try_again(p)
  <2>1. ShellTypes'
    BY <1>1 DEF ShellInv, ShellTypes, try_again, IsNext, New, Spawned, files, world, server, tasks, past
  <2>2. LockIsLife'
    BY <1>1 DEF ShellInv, LockIsLife, ShellTypes, try_again, IsNext, New, Spawned, files, world, server, tasks, past
  <2>3. ServesInLife'
    BY <1>1 DEF ShellInv, ServesInLife, ShellTypes, TasksExclude, LockIsLife, try_again, IsNext, New, Spawned, files, world, server, tasks, past
  <2>4. TasksExclude'
    BY <1>1 DEF ShellInv, TasksExclude, ShellTypes, ServesInLife, try_again, IsNext, New, Spawned, files, world, server, tasks, past
  <2>5. ChoiceIsTold'
    BY <1>1 DEF ShellInv, ChoiceIsTold, ShellTypes, LockIsLife, TasksExclude, ServesInLife, Recording, try_again, IsNext, New, Spawned, files, world, server, tasks, past
  <2>6. QED
    BY <2>1, <2>2, <2>3, <2>4, <2>5 DEF ShellInv
<1>2. CASE revert_data_dir(p)
  <2>1. ShellTypes'
    BY <1>2 DEF ShellInv, ShellTypes, revert_data_dir, IsNext, New, Spawned, files, world, server, tasks, past
  <2>2. LockIsLife'
    BY <1>2 DEF ShellInv, LockIsLife, ShellTypes, revert_data_dir, IsNext, New, Spawned, files, world, server, tasks, past
  <2>3. ServesInLife'
    BY <1>2 DEF ShellInv, ServesInLife, ShellTypes, TasksExclude, LockIsLife, revert_data_dir, IsNext, New, Spawned, files, world, server, tasks, past
  <2>4. TasksExclude'
    BY <1>2 DEF ShellInv, TasksExclude, ShellTypes, ServesInLife, revert_data_dir, IsNext, New, Spawned, files, world, server, tasks, past
  <2>5. ChoiceIsTold'
    <3>1. \A q \in Procs \ {p} : life'[q] \in {"none", "claim", "gone"}
      <4>1. life[p] = "error"
        BY <1>2 DEF revert_data_dir
      <4>2. \A q \in Procs \ {p} : life[q] \in {"none", "claim", "gone"}
        BY <4>1, OneOwner
      <4>3. \/ life' = life
            \/ \E q \in Procs : life' = [life EXCEPT ![q] = "claim", ![p] = "exiting"]
        BY <1>2 DEF revert_data_dir, IsNext, New, Spawned
      <4>4. QED
        BY <4>2, <4>3 DEF ShellInv, ShellTypes
    <3>2. boot.prev \in Dirs /\ life'[p] \in {"error", "exiting"} /\ boot' = [cur |-> boot.prev, prev |-> NoDir]
      BY <1>2 DEF ShellInv, ShellTypes, revert_data_dir, IsNext, New, Spawned
    <3>3. UNCHANGED <<good, torn>>
      BY <1>2 DEF revert_data_dir, past
    <3>4. ~torn /\ good # NoDir => good = boot.prev
      BY <3>2 DEF ShellInv, ChoiceIsTold
    <3>5. QED
      BY <3>1, <3>2, <3>3, <3>4 DEF ChoiceIsTold
  <2>6. QED
    BY <2>1, <2>2, <2>3, <2>4, <2>5 DEF ShellInv
<1>3. QED
  BY <1>1, <1>2

------------------------------------------------------------------------------
(* Jobs, and the change of the data folder.                                *)

LEMMA Working ==
    ASSUME ShellInv, NEW p \in Procs, JobStarts(p) \/ JobEnds(p)
    PROVE  ShellInv'
<1>1. CASE JobStarts(p)
  <2>1. ShellTypes'
    BY <1>1 DEF ShellInv, ShellTypes, JobStarts, files, world, server, tasks, past
  <2>2. LockIsLife'
    BY <1>1 DEF ShellInv, LockIsLife, ShellTypes, JobStarts, files, world, server, tasks, past
  <2>3. ServesInLife'
    BY <1>1 DEF ShellInv, ServesInLife, ShellTypes, TasksExclude, LockIsLife, JobStarts, files, world, server, tasks, past
  <2>4. TasksExclude'
    BY <1>1 DEF ShellInv, TasksExclude, ShellTypes, ServesInLife, JobStarts, files, world, server, tasks, past
  <2>5. ChoiceIsTold'
    BY <1>1 DEF ShellInv, ChoiceIsTold, ShellTypes, LockIsLife, TasksExclude, ServesInLife, Recording, JobStarts, files, world, server, tasks, past
  <2>6. QED
    BY <2>1, <2>2, <2>3, <2>4, <2>5 DEF ShellInv
<1>2. CASE JobEnds(p)
  <2>1. ShellTypes'
    BY <1>2 DEF ShellInv, ShellTypes, JobEnds, files, world, server, tasks, past
  <2>2. LockIsLife'
    BY <1>2 DEF ShellInv, LockIsLife, ShellTypes, JobEnds, files, world, server, tasks, past
  <2>3. ServesInLife'
    BY <1>2 DEF ShellInv, ServesInLife, ShellTypes, TasksExclude, LockIsLife, JobEnds, files, world, server, tasks, past
  <2>4. TasksExclude'
    BY <1>2 DEF ShellInv, TasksExclude, ShellTypes, ServesInLife, JobEnds, files, world, server, tasks, past
  <2>5. ChoiceIsTold'
    BY <1>2 DEF ShellInv, ChoiceIsTold, ShellTypes, LockIsLife, TasksExclude, ServesInLife, Recording, JobEnds, files, world, server, tasks, past
  <2>6. QED
    BY <2>1, <2>2, <2>3, <2>4, <2>5 DEF ShellInv
<1>3. QED
  BY <1>1, <1>2

\* A change of the folder, once begun.
LEMMA Changing ==
    ASSUME ShellInv, NEW p \in Procs, stop_idle(p) \/ move_data(p) \/ switch_to_existing(p) \/ restart_or_restore(p) \/ restore(p) \/ recover(p) \/ recover_restart(p)
    PROVE  ShellInv'
<1>1. CASE stop_idle(p)
  <2>1. ShellTypes'
    <3>1. chg' \in {To(chg, p, "no"), To(chg, p, "move"), To(chg, p, "recover")}
      BY <1>1 DEF stop_idle, Over
    <3>2. serves' \in {serves, To(serves, p, FALSE)} /\ held' \in {held, To(held, p, "free")}
      BY <1>1 DEF stop_idle, Over
    <3>3. UNCHANGED <<boot, owner, life, mine, busy, target, req, quit, good, torn>>
      BY <1>1 DEF stop_idle, files, world, server, tasks, past
    <3>4. chg' \in [Procs -> {"no", "stop", "move", "spawn", "restore", "recover", "restart"}]
      BY <3>1 DEF ShellInv, ShellTypes
    <3>5. serves' \in [Procs -> BOOLEAN]
      BY <3>2 DEF ShellInv, ShellTypes
    <3>6. held' \in [Procs -> {"free", "change", "quit"}]
      BY <3>2 DEF ShellInv, ShellTypes
    <3>7. QED
      BY <3>3, <3>4, <3>5, <3>6 DEF ShellInv, ShellTypes
  <2>2. LockIsLife'
    BY <1>1 DEF ShellInv, LockIsLife, ShellTypes, stop_idle, Over, IfIdle, files, world, server, tasks, past
  <2>3. ServesInLife'
    BY <1>1 DEF ShellInv, ServesInLife, ShellTypes, TasksExclude, LockIsLife, stop_idle, Over, IfIdle, files, world, server, tasks, past
  <2>4. TasksExclude'
    BY <1>1 DEF ShellInv, TasksExclude, ShellTypes, ServesInLife, stop_idle, Over, IfIdle, files, world, server, tasks, past
  <2>5. ChoiceIsTold'
    BY <1>1 DEF ShellInv, ChoiceIsTold, ShellTypes, LockIsLife, TasksExclude, ServesInLife, Recording, stop_idle, Over, IfIdle, files, world, server, tasks, past
  <2>6. QED
    BY <2>1, <2>2, <2>3, <2>4, <2>5 DEF ShellInv
<1>2. CASE move_data(p)
  <2>1. ShellTypes'
    <3>1. chg' \in {To(chg, p, "spawn"), To(chg, p, "recover")}
      BY <1>2 DEF move_data
    <3>2. boot' = boot \/ boot' = [cur |-> target[p], prev |-> current_choice(target[p])]
      BY <1>2 DEF move_data, Recorded
    <3>3. boot' \in [cur : Dirs \cup {NoDir}, prev : Dirs \cup {NoDir}]
      <4>1. target[p] \in Dirs \cup {NoDir} /\ current_choice(target[p]) \in Dirs \cup {NoDir}
        BY DEF ShellInv, ShellTypes, current_choice
      <4>2. QED
        BY <3>2, <4>1 DEF ShellInv, ShellTypes
    <3>4. UNCHANGED <<owner, life, mine, serves, busy, held, target, req, quit, good, torn>>
      BY <1>2 DEF move_data, files, world, server, tasks, past
    <3>5. chg' \in [Procs -> {"no", "stop", "move", "spawn", "restore", "recover", "restart"}]
      BY <3>1 DEF ShellInv, ShellTypes
    <3>6. QED
      BY <3>3, <3>4, <3>5 DEF ShellInv, ShellTypes
  <2>2. LockIsLife'
    BY <1>2 DEF ShellInv, LockIsLife, ShellTypes, move_data, Recorded, current_choice, files, world, server, tasks, past
  <2>3. ServesInLife'
    BY <1>2 DEF ShellInv, ServesInLife, ShellTypes, TasksExclude, LockIsLife, move_data, Recorded, current_choice, files, world, server, tasks, past
  <2>4. TasksExclude'
    BY <1>2 DEF ShellInv, TasksExclude, ShellTypes, ServesInLife, move_data, Recorded, current_choice, files, world, server, tasks, past
  <2>5. ChoiceIsTold'
    BY <1>2 DEF ShellInv, ChoiceIsTold, ShellTypes, LockIsLife, TasksExclude, ServesInLife, Recording, move_data, Recorded, current_choice, files, world, server, tasks, past
  <2>6. QED
    BY <2>1, <2>2, <2>3, <2>4, <2>5 DEF ShellInv
<1>3. CASE switch_to_existing(p)
  <2>1. ShellTypes'
    <3>1. boot' \in [cur : Dirs \cup {NoDir}, prev : Dirs \cup {NoDir}]
      BY <1>3 DEF ShellInv, ShellTypes, switch_to_existing, Recorded, current_choice, TasksExclude
    <3>2. QED
      BY <1>3, <3>1 DEF ShellInv, ShellTypes, switch_to_existing, files, world, server, tasks, past
  <2>2. LockIsLife'
    BY <1>3 DEF ShellInv, LockIsLife, ShellTypes, switch_to_existing, Recorded, current_choice, files, world, server, tasks, past
  <2>3. ServesInLife'
    BY <1>3 DEF ShellInv, ServesInLife, ShellTypes, TasksExclude, LockIsLife, switch_to_existing, Recorded, current_choice, files, world, server, tasks, past
  <2>4. TasksExclude'
    BY <1>3 DEF ShellInv, TasksExclude, ShellTypes, ServesInLife, switch_to_existing, Recorded, current_choice, files, world, server, tasks, past
  <2>5. ChoiceIsTold'
    <3>1. \A q \in Procs \ {p} : life'[q] \in {"none", "claim", "gone"}
      BY <1>3, OneOwner DEF ShellInv, ShellTypes, TasksExclude, switch_to_existing
    <3>2. /\ life[p] = "ready" /\ chg[p] = "move" /\ target[p] \in Dirs \ {mine[p]} /\ mine[p] \in Dirs
          /\ UNCHANGED <<good, torn, mine, target, life>>
      BY <1>3 DEF ShellInv, TasksExclude, ChoiceIsTold, switch_to_existing, past
    <3>3. ~torn => boot = [cur |-> mine[p], prev |-> NoDir] /\ good = mine[p]
      BY <3>2 DEF ShellInv, ChoiceIsTold, Recording
    <3>4. \/ boot' = boot /\ chg'[p] = "recover"
          \/ /\ boot' = [cur |-> target[p], prev |-> current_choice(target[p])] /\ chg'[p] = "spawn"
             /\ ~torn => current_choice(target[p]) = mine[p]
      BY <1>3, <3>2, <3>3 DEF switch_to_existing, Recorded, current_choice, ShellInv, ShellTypes
    <3>5. CASE boot' = boot /\ chg'[p] = "recover"
      BY <3>1, <3>2, <3>5 DEF ShellInv, ChoiceIsTold, Recording
    <3>6. CASE /\ boot' = [cur |-> target[p], prev |-> current_choice(target[p])] /\ chg'[p] = "spawn"
               /\ ~torn => current_choice(target[p]) = mine[p]
      BY <3>1, <3>2, <3>3, <3>6 DEF ChoiceIsTold, Recording
    <3>7. QED
      BY <3>4, <3>5, <3>6
  <2>6. QED
    BY <2>1, <2>2, <2>3, <2>4, <2>5 DEF ShellInv
<1>4. CASE restart_or_restore(p)
  <2>1. ShellTypes'
    <3>1. \/ chg' = To(chg, p, "no") /\ held' = To(held, p, "free")
          \/ chg' = To(chg, p, "restore") /\ held' = held
      BY <1>4 DEF restart_or_restore, restart_app, Over
    <3>2. \/ life' = life
          \/ \E q \in Procs : life' = [life EXCEPT ![q] = "claim", ![p] = "exiting"]
      BY <1>4 DEF restart_or_restore, restart_app, Spawned
    <3>3. UNCHANGED <<boot, owner, mine, serves, busy, target, req, quit, good, torn>>
      BY <1>4 DEF restart_or_restore, files, world, server, tasks, past
    <3>4. chg' \in [Procs -> {"no", "stop", "move", "spawn", "restore", "recover", "restart"}]
      BY <3>1 DEF ShellInv, ShellTypes
    <3>5. held' \in [Procs -> {"free", "change", "quit"}]
      BY <3>1 DEF ShellInv, ShellTypes
    <3>6. life' \in [Procs -> {"none", "claim", "own", "created", "prepared", "up", "ready",
                           "error", "exiting", "gone"}]
      BY <3>2 DEF ShellInv, ShellTypes
    <3>7. QED
      BY <3>3, <3>4, <3>5, <3>6 DEF ShellInv, ShellTypes
  <2>2. LockIsLife'
    <3>1. life[p] = "ready" /\ owner' = owner
      BY <1>4 DEF ShellInv, TasksExclude, restart_or_restore
    <3>2. \/ life' = life
          \/ \E q \in Procs : life[q] = "none" /\ life' = [life EXCEPT ![q] = "claim", ![p] = "exiting"]
      BY <1>4 DEF restart_or_restore, restart_app, IsNext, New, Spawned
    <3>3. QED
      BY <3>1, <3>2 DEF ShellInv, LockIsLife, ShellTypes
  <2>3. ServesInLife'
    <3>1. life[p] = "ready" /\ ~serves[p] /\ ~busy[p] /\ UNCHANGED <<serves, busy, quit>>
      BY <1>4 DEF ShellInv, ServesInLife, TasksExclude, ShellTypes, restart_or_restore, server
    <3>2. chg' \in {To(chg, p, "no"), To(chg, p, "restore")}
      BY <1>4 DEF restart_or_restore, restart_app, Over
    <3>3. \/ life' = life
          \/ \E q \in Procs : life[q] = "none" /\ life' = [life EXCEPT ![q] = "claim", ![p] = "exiting"]
      BY <1>4 DEF restart_or_restore, restart_app, IsNext, New, Spawned
    <3>4. QED
      BY <3>1, <3>2, <3>3 DEF ShellInv, ServesInLife, ShellTypes
  <2>4. TasksExclude'
    BY <1>4 DEF ShellInv, TasksExclude, ShellTypes, ServesInLife, restart_or_restore, restart_app, Over, IsNext, New, Spawned, files, world, server, tasks, past
  <2>5. ChoiceIsTold'
    BY <1>4 DEF ShellInv, ChoiceIsTold, ShellTypes, LockIsLife, TasksExclude, ServesInLife, Recording, restart_or_restore, restart_app, Over, IsNext, New, Spawned, files, world, server, tasks, past
  <2>6. QED
    BY <2>1, <2>2, <2>3, <2>4, <2>5 DEF ShellInv
<1>5. CASE restore(p)
  <2>1. ShellTypes'
    <3>1. boot' \in [cur : Dirs \cup {NoDir}, prev : Dirs \cup {NoDir}]
      BY <1>5 DEF ShellInv, ShellTypes, restore, Restored
    <3>2. QED
      BY <1>5, <3>1 DEF ShellInv, ShellTypes, restore, files, world, server, tasks, past
  <2>2. LockIsLife'
    BY <1>5 DEF ShellInv, LockIsLife, ShellTypes, restore, Restored, files, world, server, tasks, past
  <2>3. ServesInLife'
    BY <1>5 DEF ShellInv, ServesInLife, ShellTypes, TasksExclude, LockIsLife, restore, Restored, files, world, server, tasks, past
  <2>4. TasksExclude'
    BY <1>5 DEF ShellInv, TasksExclude, ShellTypes, ServesInLife, restore, Restored, files, world, server, tasks, past
  <2>5. ChoiceIsTold'
    <3>1. \A q \in Procs \ {p} : life'[q] \in {"none", "claim", "gone"}
      BY <1>5, OneOwner DEF ShellInv, ShellTypes, TasksExclude, restore
    <3>2. life[p] = "ready" /\ chg[p] = "restore" /\ mine[p] \in Dirs /\ UNCHANGED <<good, mine, target, life>>
      BY <1>5 DEF ShellInv, TasksExclude, ChoiceIsTold, restore
    <3>3. /\ boot.cur # NoDir /\ boot.prev \in Dirs \cup {NoDir}
          /\ ~torn => boot = [cur |-> target[p], prev |-> mine[p]] /\ good = mine[p]
      BY <3>2 DEF ShellInv, ChoiceIsTold, Recording, ShellTypes
    <3>4. /\ chg'[p] = "recover"
          /\ \/ boot' = boot /\ torn' = TRUE
             \/ boot' = [cur |-> boot.prev, prev |-> NoDir] /\ boot.prev # NoDir /\ torn' = torn
      BY <1>5 DEF restore, Restored, ShellInv, ShellTypes
    <3>5. CASE boot' = boot /\ torn' = TRUE
      BY <3>1, <3>2, <3>3, <3>4, <3>5 DEF ChoiceIsTold, Recording
    <3>6. CASE boot' = [cur |-> boot.prev, prev |-> NoDir] /\ boot.prev # NoDir /\ torn' = torn
      BY <3>1, <3>2, <3>3, <3>4, <3>6 DEF ChoiceIsTold, Recording
    <3>7. QED
      BY <3>4, <3>5, <3>6
  <2>6. QED
    BY <2>1, <2>2, <2>3, <2>4, <2>5 DEF ShellInv
<1>6. CASE recover(p)
  <2>1. ShellTypes'
    <3>1. \/ serves' = To(serves, p, TRUE) /\ chg' = To(chg, p, "no") /\ held' = To(held, p, "free")
          \/ serves' = serves /\ chg' = To(chg, p, "restart") /\ held' = held
      BY <1>6 DEF recover, Over
    <3>2. UNCHANGED <<boot, owner, life, mine, busy, target, req, quit, good, torn>>
      BY <1>6 DEF recover, files, world, server, tasks, past
    <3>3. chg' \in [Procs -> {"no", "stop", "move", "spawn", "restore", "recover", "restart"}]
      BY <3>1 DEF ShellInv, ShellTypes
    <3>4. held' \in [Procs -> {"free", "change", "quit"}]
      BY <3>1 DEF ShellInv, ShellTypes
    <3>5. serves' \in [Procs -> BOOLEAN]
      BY <3>1 DEF ShellInv, ShellTypes
    <3>6. QED
      BY <3>2, <3>3, <3>4, <3>5 DEF ShellInv, ShellTypes
  <2>2. LockIsLife'
    BY <1>6 DEF ShellInv, LockIsLife, ShellTypes, recover, Over, files, world, server, tasks, past
  <2>3. ServesInLife'
    <3>1. life[p] = "ready" /\ ~serves[p] /\ ~busy[p] /\ quit[p] # "finish"
      BY <1>6 DEF ShellInv, ServesInLife, TasksExclude, ShellTypes, recover
    <3>2. UNCHANGED <<life, busy, quit>> /\ chg' \in {To(chg, p, "no"), To(chg, p, "restart")}
      BY <1>6 DEF recover, Over, files, world, server, tasks, past
    <3>3. chg' = To(chg, p, "no") \/ serves' = serves
      BY <1>6 DEF recover, Over
    <3>4. serves' \in {serves, To(serves, p, TRUE)}
      BY <1>6 DEF recover
    <3>5. QED
      BY <3>1, <3>2, <3>3, <3>4 DEF ShellInv, ServesInLife, ShellTypes
  <2>4. TasksExclude'
    BY <1>6 DEF ShellInv, TasksExclude, ShellTypes, ServesInLife, recover, Over, files, world, server, tasks, past
  <2>5. ChoiceIsTold'
    BY <1>6 DEF ShellInv, ChoiceIsTold, ShellTypes, LockIsLife, TasksExclude, ServesInLife, Recording, recover, Over, files, world, server, tasks, past
  <2>6. QED
    BY <2>1, <2>2, <2>3, <2>4, <2>5 DEF ShellInv
<1>7. CASE recover_restart(p)
  <2>1. ShellTypes'
    BY <1>7 DEF ShellInv, ShellTypes, recover_restart, restart_app, Over, IsNext, New, Spawned, files, world, server, tasks, past
  <2>2. LockIsLife'
    <3>1. life[p] = "ready" /\ owner' = owner
      BY <1>7 DEF ShellInv, TasksExclude, recover_restart
    <3>2. \/ life' = life
          \/ \E q \in Procs : life[q] = "none" /\ life' = [life EXCEPT ![q] = "claim", ![p] = "exiting"]
      BY <1>7 DEF recover_restart, restart_app, IsNext, New, Spawned
    <3>3. QED
      BY <3>1, <3>2 DEF ShellInv, LockIsLife, ShellTypes
  <2>3. ServesInLife'
    BY <1>7 DEF ShellInv, ServesInLife, ShellTypes, TasksExclude, LockIsLife, recover_restart, restart_app, Over, IsNext, New, Spawned, files, world, server, tasks, past
  <2>4. TasksExclude'
    BY <1>7 DEF ShellInv, TasksExclude, ShellTypes, ServesInLife, recover_restart, restart_app, Over, IsNext, New, Spawned, files, world, server, tasks, past
  <2>5. ChoiceIsTold'
    BY <1>7 DEF ShellInv, ChoiceIsTold, ShellTypes, LockIsLife, TasksExclude, ServesInLife, Recording, recover_restart, restart_app, Over, IsNext, New, Spawned, files, world, server, tasks, past
  <2>6. QED
    BY <2>1, <2>2, <2>3, <2>4, <2>5 DEF ShellInv
<1>8. QED
  BY <1>1, <1>2, <1>3, <1>4, <1>5, <1>6, <1>7

LEMMA ChangeBegins ==
    ASSUME ShellInv, NEW p \in Procs, NEW t \in Dirs, change_data_dir(p, t)
    PROVE  ShellInv'
<1>1. CASE change_data_dir(p, t)
  <2>1. ShellTypes'
    BY <1>1 DEF ShellInv, ShellTypes, change_data_dir, files, world, server, tasks, past
  <2>2. LockIsLife'
    BY <1>1 DEF ShellInv, LockIsLife, ShellTypes, change_data_dir, files, world, server, tasks, past
  <2>3. ServesInLife'
    BY <1>1 DEF ShellInv, ServesInLife, ShellTypes, TasksExclude, LockIsLife, change_data_dir, files, world, server, tasks, past
  <2>4. TasksExclude'
    BY <1>1 DEF ShellInv, TasksExclude, ShellTypes, ServesInLife, change_data_dir, files, world, server, tasks, past
  <2>5. ChoiceIsTold'
    <3>1. \A q \in Procs \ {p} : life'[q] \in {"none", "claim", "gone"}
      BY <1>1, OneOwner DEF ShellInv, ShellTypes, TasksExclude, change_data_dir
    <3>2. /\ life[p] = "ready" /\ chg[p] = "no" /\ chg'[p] = "stop"
          /\ UNCHANGED <<boot, good, torn, mine, life>>
      BY <1>1 DEF ShellInv, ShellTypes, TasksExclude, change_data_dir, files, past
    <3>3. QED
      BY <3>1, <3>2 DEF ShellInv, ChoiceIsTold, Recording
  <2>6. QED
    BY <2>1, <2>2, <2>3, <2>4, <2>5 DEF ShellInv
<1>2. QED
  BY <1>1

------------------------------------------------------------------------------
(* Quitting, and the end.                                                  *)

LEMMA Quitting ==
    ASSUME ShellInv, NEW p \in Procs, UserQuits(p) \/ Signal(p) \/ SignalRead(p) \/ request_exit(p) \/ UserAnswers(p) \/ decide(p) \/ cancel_exit(p) \/ stop_work(p) \/ finish_exit(p)
    PROVE  ShellInv'
<1>1. CASE UserQuits(p)
  <2>1. ShellTypes'
    BY <1>1 DEF ShellInv, ShellTypes, UserQuits, Started, request, files, world, server, tasks, past
  <2>2. LockIsLife'
    BY <1>1 DEF ShellInv, LockIsLife, ShellTypes, UserQuits, Started, request, files, world, server, tasks, past
  <2>3. ServesInLife'
    BY <1>1 DEF ShellInv, ServesInLife, ShellTypes, TasksExclude, LockIsLife, UserQuits, Started, request, files, world, server, tasks, past
  <2>4. TasksExclude'
    BY <1>1 DEF ShellInv, TasksExclude, ShellTypes, ServesInLife, UserQuits, Started, request, files, world, server, tasks, past
  <2>5. ChoiceIsTold'
    BY <1>1 DEF ShellInv, ChoiceIsTold, ShellTypes, LockIsLife, TasksExclude, ServesInLife, Recording, UserQuits, Started, request, files, world, server, tasks, past
  <2>6. QED
    BY <2>1, <2>2, <2>3, <2>4, <2>5 DEF ShellInv
<1>2. CASE Signal(p)
  <2>1. ShellTypes'
    BY <1>2 DEF ShellInv, ShellTypes, Signal, files, world, server, tasks, past
  <2>2. LockIsLife'
    BY <1>2 DEF ShellInv, LockIsLife, ShellTypes, Signal, files, world, server, tasks, past
  <2>3. ServesInLife'
    BY <1>2 DEF ShellInv, ServesInLife, ShellTypes, TasksExclude, LockIsLife, Signal, files, world, server, tasks, past
  <2>4. TasksExclude'
    BY <1>2 DEF ShellInv, TasksExclude, ShellTypes, ServesInLife, Signal, files, world, server, tasks, past
  <2>5. ChoiceIsTold'
    BY <1>2 DEF ShellInv, ChoiceIsTold, ShellTypes, LockIsLife, TasksExclude, ServesInLife, Recording, Signal, files, world, server, tasks, past
  <2>6. QED
    BY <2>1, <2>2, <2>3, <2>4, <2>5 DEF ShellInv
<1>3. CASE SignalRead(p)
  <2>1. ShellTypes'
    BY <1>3 DEF ShellInv, ShellTypes, SignalRead, Started, request, files, world, server, tasks, past
  <2>2. LockIsLife'
    BY <1>3 DEF ShellInv, LockIsLife, ShellTypes, SignalRead, Started, request, files, world, server, tasks, past
  <2>3. ServesInLife'
    BY <1>3 DEF ShellInv, ServesInLife, ShellTypes, TasksExclude, LockIsLife, SignalRead, Started, request, files, world, server, tasks, past
  <2>4. TasksExclude'
    BY <1>3 DEF ShellInv, TasksExclude, ShellTypes, ServesInLife, SignalRead, Started, request, files, world, server, tasks, past
  <2>5. ChoiceIsTold'
    BY <1>3 DEF ShellInv, ChoiceIsTold, ShellTypes, LockIsLife, TasksExclude, ServesInLife, Recording, SignalRead, Started, request, files, world, server, tasks, past
  <2>6. QED
    BY <2>1, <2>2, <2>3, <2>4, <2>5 DEF ShellInv
<1>4. CASE request_exit(p)
  <2>1. ShellTypes'
    BY <1>4 DEF ShellInv, ShellTypes, request_exit, HasTurn, files, world, server, tasks, past
  <2>2. LockIsLife'
    BY <1>4 DEF ShellInv, LockIsLife, ShellTypes, request_exit, HasTurn, files, world, server, tasks, past
  <2>3. ServesInLife'
    BY <1>4 DEF ShellInv, ServesInLife, ShellTypes, TasksExclude, LockIsLife, request_exit, HasTurn, files, world, server, tasks, past
  <2>4. TasksExclude'
    BY <1>4 DEF ShellInv, TasksExclude, ShellTypes, ServesInLife, request_exit, HasTurn, files, world, server, tasks, past
  <2>5. ChoiceIsTold'
    BY <1>4 DEF ShellInv, ChoiceIsTold, ShellTypes, LockIsLife, TasksExclude, ServesInLife, Recording, request_exit, HasTurn, files, world, server, tasks, past
  <2>6. QED
    BY <2>1, <2>2, <2>3, <2>4, <2>5 DEF ShellInv
<1>5. CASE UserAnswers(p)
  <2>1. ShellTypes'
    BY <1>5 DEF ShellInv, ShellTypes, UserAnswers, files, world, server, tasks, past
  <2>2. LockIsLife'
    BY <1>5 DEF ShellInv, LockIsLife, ShellTypes, UserAnswers, files, world, server, tasks, past
  <2>3. ServesInLife'
    BY <1>5 DEF ShellInv, ServesInLife, ShellTypes, TasksExclude, LockIsLife, UserAnswers, files, world, server, tasks, past
  <2>4. TasksExclude'
    BY <1>5 DEF ShellInv, TasksExclude, ShellTypes, ServesInLife, UserAnswers, files, world, server, tasks, past
  <2>5. ChoiceIsTold'
    BY <1>5 DEF ShellInv, ChoiceIsTold, ShellTypes, LockIsLife, TasksExclude, ServesInLife, Recording, UserAnswers, files, world, server, tasks, past
  <2>6. QED
    BY <2>1, <2>2, <2>3, <2>4, <2>5 DEF ShellInv
<1>6. CASE decide(p)
  <2>1. ShellTypes'
    BY <1>6 DEF ShellInv, ShellTypes, decide, files, world, server, tasks, past
  <2>2. LockIsLife'
    BY <1>6 DEF ShellInv, LockIsLife, ShellTypes, decide, files, world, server, tasks, past
  <2>3. ServesInLife'
    BY <1>6 DEF ShellInv, ServesInLife, ShellTypes, TasksExclude, LockIsLife, decide, files, world, server, tasks, past
  <2>4. TasksExclude'
    BY <1>6 DEF ShellInv, TasksExclude, ShellTypes, ServesInLife, decide, files, world, server, tasks, past
  <2>5. ChoiceIsTold'
    BY <1>6 DEF ShellInv, ChoiceIsTold, ShellTypes, LockIsLife, TasksExclude, ServesInLife, Recording, decide, files, world, server, tasks, past
  <2>6. QED
    BY <2>1, <2>2, <2>3, <2>4, <2>5 DEF ShellInv
<1>7. CASE cancel_exit(p)
  <2>1. ShellTypes'
    <3>1. \/ req' = To(req, p, "none") /\ quit' = To(quit, p, "no") /\ held' = To(held, p, "free")
          \/ quit' = To(quit, p, "stop") /\ req' = req /\ held' = held
      BY <1>7 DEF cancel_exit
    <3>2. UNCHANGED <<boot, owner, life, mine, serves, busy, chg, target, good, torn>>
      BY <1>7 DEF cancel_exit, files, world, server, tasks, past
    <3>3. req' \in [Procs -> {"none", "asked", "confirmed"}]
      BY <3>1 DEF ShellInv, ShellTypes
    <3>4. quit' \in [Procs -> {"no", "wait", "dialog", "cancel", "stop", "finish"}]
      BY <3>1 DEF ShellInv, ShellTypes
    <3>5. held' \in [Procs -> {"free", "change", "quit"}]
      BY <3>1 DEF ShellInv, ShellTypes
    <3>6. QED
      BY <3>2, <3>3, <3>4, <3>5 DEF ShellInv, ShellTypes
  <2>2. LockIsLife'
    BY <1>7 DEF ShellInv, LockIsLife, ShellTypes, cancel_exit, CancelWins, files, world, server, tasks, past
  <2>3. ServesInLife'
    BY <1>7 DEF ShellInv, ServesInLife, ShellTypes, TasksExclude, LockIsLife, cancel_exit, CancelWins, files, world, server, tasks, past
  <2>4. TasksExclude'
    BY <1>7 DEF ShellInv, TasksExclude, ShellTypes, ServesInLife, cancel_exit, CancelWins, files, world, server, tasks, past
  <2>5. ChoiceIsTold'
    BY <1>7 DEF ShellInv, ChoiceIsTold, ShellTypes, LockIsLife, TasksExclude, ServesInLife, Recording, cancel_exit, CancelWins, files, world, server, tasks, past
  <2>6. QED
    BY <2>1, <2>2, <2>3, <2>4, <2>5 DEF ShellInv
<1>8. CASE stop_work(p)
  <2>1. ShellTypes'
    BY <1>8 DEF ShellInv, ShellTypes, stop_work, Drained, files, world, server, tasks, past
  <2>2. LockIsLife'
    BY <1>8 DEF ShellInv, LockIsLife, ShellTypes, stop_work, Drained, files, world, server, tasks, past
  <2>3. ServesInLife'
    BY <1>8 DEF ShellInv, ServesInLife, ShellTypes, TasksExclude, LockIsLife, stop_work, Drained, files, world, server, tasks, past
  <2>4. TasksExclude'
    BY <1>8 DEF ShellInv, TasksExclude, ShellTypes, ServesInLife, stop_work, Drained, files, world, server, tasks, past
  <2>5. ChoiceIsTold'
    BY <1>8 DEF ShellInv, ChoiceIsTold, ShellTypes, LockIsLife, TasksExclude, ServesInLife, Recording, stop_work, Drained, files, world, server, tasks, past
  <2>6. QED
    BY <2>1, <2>2, <2>3, <2>4, <2>5 DEF ShellInv
<1>9. CASE finish_exit(p)
  <2>1. ShellTypes'
    BY <1>9 DEF ShellInv, ShellTypes, finish_exit, files, world, server, tasks, past
  <2>2. LockIsLife'
    <3>1. life[p] \in {"ready", "error"} /\ owner' = owner /\ life' = [life EXCEPT ![p] = "exiting"]
      BY <1>9 DEF ShellInv, TasksExclude, ShellTypes, finish_exit, files, world, server, tasks, past
    <3>2. QED
      BY <3>1 DEF ShellInv, LockIsLife, ShellTypes
  <2>3. ServesInLife'
    BY <1>9 DEF ShellInv, ServesInLife, ShellTypes, TasksExclude, LockIsLife, finish_exit, files, world, server, tasks, past
  <2>4. TasksExclude'
    BY <1>9 DEF ShellInv, TasksExclude, ShellTypes, ServesInLife, finish_exit, files, world, server, tasks, past
  <2>5. ChoiceIsTold'
    BY <1>9 DEF ShellInv, ChoiceIsTold, ShellTypes, LockIsLife, TasksExclude, ServesInLife, Recording, finish_exit, files, world, server, tasks, past
  <2>6. QED
    BY <2>1, <2>2, <2>3, <2>4, <2>5 DEF ShellInv
<1>10. QED
  BY <1>1, <1>2, <1>3, <1>4, <1>5, <1>6, <1>7, <1>8, <1>9

LEMMA Ending ==
    ASSUME ShellInv, NEW p \in Procs, exit(p) \/ Crash(p)
    PROVE  ShellInv'
<1>1. CASE exit(p)
  <2>1. ShellTypes'
    BY <1>1 DEF ShellInv, ShellTypes, exit, Gone, files, world, server, tasks, past
  <2>2. LockIsLife'
    BY <1>1 DEF ShellInv, LockIsLife, ShellTypes, exit, Gone, files, world, server, tasks, past
  <2>3. ServesInLife'
    BY <1>1 DEF ShellInv, ServesInLife, ShellTypes, TasksExclude, LockIsLife, exit, Gone, files, world, server, tasks, past
  <2>4. TasksExclude'
    BY <1>1 DEF ShellInv, TasksExclude, ShellTypes, ServesInLife, exit, Gone, files, world, server, tasks, past
  <2>5. ChoiceIsTold'
    BY <1>1 DEF ShellInv, ChoiceIsTold, ShellTypes, LockIsLife, TasksExclude, ServesInLife, Recording, exit, Gone, files, world, server, tasks, past
  <2>6. QED
    BY <2>1, <2>2, <2>3, <2>4, <2>5 DEF ShellInv
<1>2. CASE Crash(p)
  <2>1. ShellTypes'
    BY <1>2 DEF ShellInv, ShellTypes, Crash, Gone, Alive, files, world, server, tasks, past
  <2>2. LockIsLife'
    BY <1>2 DEF ShellInv, LockIsLife, ShellTypes, Crash, Gone, Alive, files, world, server, tasks, past
  <2>3. ServesInLife'
    BY <1>2 DEF ShellInv, ServesInLife, ShellTypes, TasksExclude, LockIsLife, Crash, Gone, Alive, files, world, server, tasks, past
  <2>4. TasksExclude'
    BY <1>2 DEF ShellInv, TasksExclude, ShellTypes, ServesInLife, Crash, Gone, Alive, files, world, server, tasks, past
  <2>5. ChoiceIsTold'
    BY <1>2 DEF ShellInv, ChoiceIsTold, ShellTypes, LockIsLife, TasksExclude, ServesInLife, Recording, Crash, Gone, Alive, files, world, server, tasks, past
  <2>6. QED
    BY <2>1, <2>2, <2>3, <2>4, <2>5 DEF ShellInv
<1>3. QED
  BY <1>1, <1>2

------------------------------------------------------------------------------
(* The theorems.                                                           *)

LEMMA InitInv == Init => ShellInv
<1> SUFFICES ASSUME Init PROVE ShellInv
  OBVIOUS
<1>1. ShellTypes
  BY DEF Init, ShellTypes
<1>2. LockIsLife /\ ServesInLife /\ TasksExclude
  BY DEF Init, LockIsLife, ServesInLife, TasksExclude
<1>3. ChoiceIsTold
  BY DEF Init, ChoiceIsTold
<1>4. QED
  BY <1>1, <1>2, <1>3 DEF ShellInv

LEMMA DriveInv ==
    ASSUME ShellInv, NEW d \in Dirs, DriveMoves(d) \/ UNCHANGED vars
    PROVE  ShellInv'
BY DEF DriveMoves, vars, ShellInv, ShellTypes, LockIsLife, ServesInLife, TasksExclude, ChoiceIsTold,
   Recording, files, server, tasks, past

LEMMA NextInv ==
    ASSUME ShellInv, [Next]_vars
    PROVE  ShellInv'
<1>1. ASSUME NEW p \in Procs, Starts(p) \/ Changes(p) \/ Quits(p) \/ SignalRead(p)
                              \/ request_exit(p) \/ exit(p) \/ User(p) \/ Crash(p)
      PROVE  ShellInv'
  BY <1>1, Starting, ErrorPage, Working, Changing, ChangeBegins, Quitting, Ending
     DEF Starts, Changes, Quits, User
<1>2. QED
  BY <1>1, DriveInv, DirsAssumption DEF Next

\* The instance lock is held from its claim to the last drain, a change and a quit of
\* a process exclude each other, and the bootstrap names what the owner of the lock opened,
\* by how far it has come (Instance::claim, lifecycle.rs, bootstrap.rs).
THEOREM ShellInvariance == Spec => []ShellInv
<1>1. ShellInv /\ [Next]_vars => ShellInv'
  BY NextInv
<1>2. QED
  BY InitInv, <1>1, PTL DEF Spec

\* One server at a time, on the folder the bootstrap remembers, and no job without its
\* server, for any number of processes, folders and failures (lifecycle.rs).
THEOREM ChoiceStaysServed == Spec => []ChoiceIsServed
<1>1. ShellInv => ChoiceIsServed
  <2> SUFFICES ASSUME ShellInv PROVE ChoiceIsServed
    OBVIOUS
  <2>1. OneServer
    BY DEF ShellInv, OneServer, ServesInLife, LockIsLife
  <2>2. ServedIsChosen
    BY DEF ShellInv, ServedIsChosen, ServesInLife, ChoiceIsTold, Recording
  <2>3. WayBack
    BY DEF ShellInv, WayBack, ChoiceIsTold
  <2>4. WorkIsServed
    BY DEF ShellInv, WorkIsServed, ServesInLife
  <2>5. QED
    BY <2>1, <2>2, <2>3, <2>4 DEF ChoiceIsServed
<1>2. QED
  BY ShellInvariance, <1>1, PTL

\* An empty database is made only where nothing was ever chosen (resolve, prepare).
THEOREM OnlyFirstStays == Spec => OnlyFirstIsMade
<1>1. ASSUME ShellInv, [Next]_vars, made' # made
      PROVE  boot.cur = NoDir /\ good = NoDir
  <2>1. PICK p \in Procs : prepare(p)
    <3>1. \A p \in Procs : \/ Starts(p) \/ Changes(p) \/ Quits(p) \/ SignalRead(p)
                           \/ request_exit(p) \/ exit(p) \/ User(p) \/ Crash(p)
                           => prepare(p) \/ made' = made
      <4>1. \A p \in Procs : Starts(p) => prepare(p) \/ made' = made
        BY DEF Starts, claim, persist, start_server, confirm_started, files
      <4>2. \A p \in Procs : Changes(p) => made' = made
        BY DEF Changes, stop_idle, move_data, switch_to_existing, restart_or_restore, restore,
               recover, recover_restart, files
      <4>3. \A p \in Procs : Quits(p) \/ SignalRead(p) \/ request_exit(p) => made' = made
        BY DEF Quits, decide, cancel_exit, stop_work, finish_exit, SignalRead, request_exit, files
      <4>4. \A p \in Procs : User(p) \/ exit(p) \/ Crash(p) => made' = made
        BY DEF User, Launch, try_again, revert_data_dir, JobStarts, JobEnds, change_data_dir,
               UserQuits, Signal, UserAnswers, exit, Crash, files
      <4>5. QED
        BY <4>1, <4>2, <4>3, <4>4
    <3>2. \A d \in Dirs : DriveMoves(d) => made' = made
      BY DEF DriveMoves, files
    <3>3. QED
      BY <1>1, <3>1, <3>2 DEF Next, vars
  <2>2. boot.cur = NoDir
    BY <1>1, <2>1 DEF prepare, MayCreate, FirstLaunch
  <2>3. QED
    BY <1>1, <2>2 DEF ShellInv, ChoiceIsTold
<1>2. ShellInv /\ [Next]_vars => [made' # made => boot.cur = NoDir /\ good = NoDir]_vars
  BY <1>1
<1>3. QED
  BY ShellInvariance, <1>2, PTL DEF Spec, OnlyFirstIsMade
==============================================================================

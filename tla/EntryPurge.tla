----------------------------- MODULE EntryPurge -----------------------------
(***************************************************************************)
(* Deleting a quarantined unit for good (crates/pc-apply/src/purge.rs),    *)
(* beside everything else that happens to the unit: the same journal row   *)
(* is undone and reconciled by UnitMove, other programs work in the same   *)
(* folders, and the process may be killed between two unlinks.             *)
(*                                                                         *)
(* A purge proves every member, opens the row again (`pending`), deletes   *)
(* the companions and then the photograph, and closes the row.             *)
(***************************************************************************)
EXTENDS UnitMove

VARIABLES
    step,      \* what the purge does next, "no" when none is under way
    seen,      \* members the purge has looked at
    proved,    \* members proven, each held open with its folder
    counted,   \* members the purge counts as deleted
    strange,   \* members under whose name it says it removed another object
    begun,     \* does the row's history say that a purge began?
    gone,      \* objects that are no more
    erased,    \* of these, the ones the purge removed (history)
    touched    \* objects others moved or changed since the last comparison (history)

work    == <<seen, proved, counted, strange>>
fate    == <<gone, erased, touched>>
purge   == <<step, work, begun, fate>>
rest    == <<into, pc, way, steps, run, look, located>>
allVars == <<vars, purge>>

PurgeInit ==
    /\ Init
    /\ step = "no"
    /\ seen = {} /\ proved = {} /\ counted = {} /\ strange = {}
    /\ begun = FALSE
    /\ gone = {} /\ erased = {} /\ touched = {}

------------------------------------------------------------------------------
(* The purge of one entry.                                                   *)

\* purge_entry_controlled: a finished row, with nothing located elsewhere.
StartPurge ==
    /\ step = "no" /\ pc = "idle"
    /\ row = "done" /\ located = {}
    /\ step' = "prove"
    /\ seen' = {} /\ proved' = {} /\ counted' = {} /\ strange' = {}
    /\ UNCHANGED <<world, faults, rest, row, index, begun, fate>>

\* Member::prove: reached by its recorded path, a plain file, all its evidence.
Provable(m) == path["dst"] = into[m] /\ Proven(m, Dst(m))

\* Every member is looked at; one refused refuses all, with nothing deleted.
AllProven(set) == set = Members
Prove(m) ==
    /\ step = "prove" /\ m \in Members \ seen /\ \A n \in Members \ seen : m <= n
    /\ seen' = seen \cup {m}
    /\ \/ Works /\ Provable(m) /\ proved' = proved \cup {m}
       \/ Works /\ ~Provable(m) /\ UNCHANGED proved
       \/ Fault /\ UNCHANGED proved
    /\ step' = IF seen' # Members THEN "prove"
               ELSE IF AllProven(proved') THEN "begin" ELSE "no"
    /\ UNCHANGED <<world, rest, row, index, counted, strange, begun, fate>>

\* The last place a cancel is heard; then the row is opened again, before the
\* first deletion.
LeftDone == row' = row   \* mutant
Reopened == row' = "pending"
BeginPurge ==
    /\ step = "begin"
    /\ \/ Works /\ Reopened /\ begun' = TRUE /\ step' = "compare"
       \/ (Works \/ Fault) /\ step' = "no" /\ UNCHANGED <<row, begun>>
    /\ UNCHANGED <<world, rest, index, work, fate>>

\* A purge that stops once it has begun: the row stays open, with what went and
\* what did not in its history.
Stopped == "no"

\* The companions in the order of the list, the photograph last.
Remaining == proved \ (counted \cup strange)
GoesNext(m) ==
    /\ m \in Remaining
    /\ \A n \in Remaining \ {m} : m # 0 /\ (n = 0 \/ m < n)

\* unlink_proven: the last comparison, through the held folder and file.
Uncompared(m) == TRUE   \* mutant
StillProven(m) == Proven(m, Dst(m))
Compare(m) ==
    /\ step = "compare" /\ GoesNext(m)
    /\ \/ Works /\ step' = IF StillProven(m) THEN "unlink" ELSE Stopped
       \/ Fault /\ step' = Stopped
    /\ touched' = {}
    /\ UNCHANGED <<world, rest, row, index, work, begun, gone, erased>>

\* unlinkat: whatever bears the name by now is what goes.
Unlink(m) ==
    /\ step = "unlink" /\ GoesNext(m)
    /\ \/ /\ Works
          /\ \E o \in Objects :
                /\ Bears(o, Dst(m))
                /\ at' = [at EXCEPT ![o] = Away]
                /\ gone' = gone \cup {o} /\ erased' = erased \cup {o}
          /\ step' = "count"
       \/ /\ (Works /\ Free(Dst(m))) \/ Fault
          /\ step' = Stopped
          /\ UNCHANGED <<at, gone, erased>>
    /\ UNCHANGED <<changed, path, mover, late, handled, others, rest, row, index,
                   work, begun, touched>>

\* Afterwards the held file says what went: it lost a link, or it did not.  One
\* that did not lets the rest be deleted, and leaves the row open at the end.
LostALink(m) == m \in gone
NoStranger(set) == set = {}
Count(m) ==
    /\ step = "count" /\ GoesNext(m)
    /\ \/ /\ Works
          /\ IF LostALink(m) THEN counted' = counted \cup {m} /\ UNCHANGED strange
                             ELSE strange' = strange \cup {m} /\ UNCHANGED counted
          /\ step' = IF Remaining # {m} THEN "compare"
                     ELSE IF NoStranger(strange') THEN "close" ELSE Stopped
       \/ Fault /\ step' = Stopped /\ UNCHANGED <<counted, strange>>
    /\ UNCHANGED <<world, rest, row, index, seen, proved, begun, fate>>

\* The row is closed, then the index follows.
ClosePurge ==
    /\ step = "close"
    /\ \/ Works /\ row' = "purged" /\ step' = "index"
       \/ Fault /\ step' = "no" /\ UNCHANGED row
    /\ UNCHANGED <<world, rest, index, work, begun, fate>>

IndexPurged ==
    /\ step = "index" /\ step' = "no"
    /\ \/ Works /\ index' = "purged"
       \/ Fault /\ UNCHANGED index
    /\ UNCHANGED <<world, rest, row, work, begun, fate>>

KillPurge ==
    /\ step # "no" /\ Fault
    /\ step' = "no"
    /\ UNCHANGED <<world, rest, row, index, work, begun, fate>>

Purge ==
    \/ BeginPurge \/ ClosePurge \/ IndexPurged
    \/ \E m \in Members : Prove(m) \/ Compare(m) \/ Unlink(m) \/ Count(m)

------------------------------------------------------------------------------
(* Everything else.  One writer at a time: no other operation of the tool    *)
(* while a purge is under way (WriterGate).                                  *)

ByOperation(action) == step = "no" /\ action /\ UNCHANGED purge

ByOthers ==
    /\ OtherProgram
    /\ \A o \in gone : at'[o] = Away
    /\ touched' = touched \cup {o \in Objects : at'[o] # at[o]} \cup (changed' \ changed)
    /\ UNCHANGED <<step, work, begun, gone, erased>>

\* Another program deletes an object of the unit, or saves its own over it.
OtherRemoves(m, new) ==
    /\ Other /\ at[m] # Away
    /\ new \in Strangers => at[new] = Away /\ new \notin gone
    /\ at' = [o \in Objects |-> IF o = m THEN Away ELSE IF o = new THEN at[m] ELSE at[o]]
    /\ mover' = [o \in Objects |-> IF o \in {m, new} THEN "other" ELSE mover[o]]
    /\ late' = late \cup ({m, new} \ {None}) /\ handled' = handled \cup ({m, new} \ {None})
    /\ gone' = gone \cup {m}
    /\ touched' = touched \cup ({m, new} \ {None})
    /\ UNCHANGED <<changed, path, faults, rest, row, index,
                   step, work, begun, erased>>

PurgeNext ==
    \/ StartPurge \/ Purge \/ KillPurge
    \/ ByOperation(Begin) \/ ByOperation(Undo) \/ ByOperation(Reconcile)
    \/ ByOperation(Tool) \/ ByOperation(Crash)
    \/ ByOthers
    \/ \E m \in Members, new \in Strangers \cup {None} : OtherRemoves(m, new)

PurgeSpec == PurgeInit /\ [][PurgeNext]_allVars

\* As in UnitMove; and a purge carries on once started.
PurgeFairSpec ==
    /\ PurgeSpec
    /\ WF_allVars(Purge)
    /\ WF_allVars(ByOperation(Tool)) /\ WF_allVars(ByOperation(Reconcile))

------------------------------------------------------------------------------
(* What must hold.                                                           *)

\* What goes is a member of the unit, unchanged since it was moved, save in the
\* instant between the last comparison and the call (purge.rs, 4.); and all or none
\* goes: at every deletion the whole unit has been proven by this purge, nothing of it
\* was refused (purge.rs, 3.).
OnlyTheProvenGoes ==
    [][erased' # erased =>
          /\ proved = Members
          /\ \A o \in erased' \ erased : (o \in proved /\ o \notin changed) \/ o \in touched]_allVars

\* Once anything of the unit was deleted the row is no longer offered for undo, killed or
\* refused at whatever step (purge.rs, PurgeStopped).
DeletedIsNotDone == erased \cap Members # {} => row \in {"pending", "purged"}

\* A row closed as purged, and an index that says so: nothing of the unit is
\* left in quarantine or anywhere.
PurgedMeansGone == (row = "purged" \/ index = "purged") => Members \subseteq gone

\* What is left of a unit that lost a member to a purge is never carried back
\* without it: the rest stays where a person can find it (recovery.rs).
HalfNeverReturns == erased \cap Members # {} => pc = "idle"

\* A unit that lost a member is never taken for one that is only in quarantine, by its
\* row or by an operation that carries the rest of it back; and one closed as deleted is.
PurgeIsTold == DeletedIsNotDone /\ HalfNeverReturns /\ PurgedMeansGone

------------------------------------------------------------------------------
(* The invariant the proofs rest on.                                         *)

\* What is gone stays gone, whoever made it go.
GoneIsAway ==
    /\ at \in [Objects -> Places]
    /\ erased \subseteq gone /\ gone \subseteq Objects
    /\ \A o \in gone : at[o] = Away

\* The row at each step of a purge; no other operation is under way.
RowOfPurge ==
    /\ step # "no" \/ row = "purged" => pc = "idle"
    /\ step \in {"prove", "begin"} => row = "done"
    /\ step \in {"compare", "unlink", "count", "close"} => row = "pending"
    /\ step = "index" => row = "purged"

\* What a purge has proven, and what it takes for deleted.
Progress ==
    /\ step \in {"compare", "unlink", "count", "close"} => proved = Members
    /\ proved \subseteq Members /\ counted \subseteq gone
    /\ step = "prove" => counted = {} /\ strange = {}
    /\ step = "begin" => proved = Members /\ counted = {} /\ strange = {}
    /\ step = "close" => Members \subseteq counted

PurgeInv ==
    /\ GoneIsAway /\ RowOfPurge /\ Progress
    /\ DeletedIsNotDone /\ HalfNeverReturns /\ PurgedMeansGone
    /\ index = "purged" => row = "purged"

\* Between the last comparison and the unlink the name bears what was compared, unless
\* another program has been there since.
LastLook ==
    step = "unlink" => \A m \in Members : GoesNext(m) =>
        /\ m \in touched \/ m \notin changed
        /\ \A o \in Objects : at[o] = Dst(m) => o = m \/ o \in touched

LookInv == OneUnderAName /\ LastLook
==============================================================================

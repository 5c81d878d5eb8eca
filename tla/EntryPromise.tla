---------------------------- MODULE EntryPromise ----------------------------
(***************************************************************************)
(* What a journal row promises about the unit it names, with nothing said  *)
(* of how a unit is moved: which members the tool holds in quarantine, the *)
(* row's status, and what the index shows.  UnitMove implements it.        *)
(*                                                                         *)
(* A member is taken only under an open or a done row; a row is closed as  *)
(* failed or undone, and the photograph shown again, only when nothing of  *)
(* the unit is held; a closed row never opens again.                       *)
(***************************************************************************)
CONSTANT Unit   \* the members the row names

VARIABLES
    row,     \* "none", "pending", "done", "failed" or "undone"
    held,    \* members in quarantine by the tool's hand
    index    \* "present" or "quarantined"

vars == <<row, held, index>>

Init == row = "none" /\ held = {} /\ index = "present"

Open == row = "none" /\ row' = "pending" /\ UNCHANGED <<held, index>>

Take(m) ==
    /\ row \in {"pending", "done"}
    /\ held' = held \cup {m}
    /\ UNCHANGED <<row, index>>

\* Walked back by the tool, or moved off by another program.
Release(m) == held' = held \ {m} /\ UNCHANGED <<row, index>>

Finish == row = "pending" /\ row' = "done" /\ UNCHANGED <<held, index>>

Hide == row = "done" /\ index' = "quarantined" /\ UNCHANGED <<row, held>>

Show ==
    /\ row \in {"pending", "done"} /\ held = {}
    /\ index' = "present"
    /\ UNCHANGED <<row, held>>

Close ==
    /\ held = {} /\ index = "present"
    /\ \/ row = "pending" /\ row' = "failed"
       \/ row \in {"pending", "done"} /\ row' = "undone"
    /\ UNCHANGED <<held, index>>

Next == \/ Open \/ Finish \/ Hide \/ Show \/ Close
        \/ \E m \in Unit : Take(m) \/ Release(m)

Spec == Init /\ [][Next]_vars

==============================================================================

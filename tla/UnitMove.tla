------------------------------ MODULE UnitMove ------------------------------
(***************************************************************************)
(* A photograph and its companions travelling as one unit                  *)
(* (crates/pc-apply: unit.rs, bound.rs, files.rs, recovery.rs), with the   *)
(* journal row that explains the move, the file's state in the index, and  *)
(* other programs (a sync client, Finder, an editor) working in the same   *)
(* folders between any two steps of the tool.                              *)
(*                                                                         *)
(* One unit is followed through its whole life: quarantined, interrupted,  *)
(* reconciled, undone.  Member 0 is the photograph.  The tool's own object *)
(* of member m is m itself; Strangers are objects of other programs.  A    *)
(* place is a name in one of the two folders of the move, or Away.         *)
(***************************************************************************)
EXTENDS Naturals, FiniteSets

CONSTANTS
    Last,       \* the members are 0 .. Last
    Strangers,  \* objects that are none of the unit's
    None,       \* no object under a name, no refusal: a value of its own
    MaxOther,   \* bound on the steps other programs take
    MaxFaults   \* bound on refusals by the system or the journal, and crashes

ASSUME LastAssumption == Last \in Nat
ASSUME BoundsAssumption == MaxOther \in Nat /\ MaxFaults \in Nat
ASSUME StrangersAssumption == Strangers \cap (0 .. Last) = {}

Members == 0 .. Last
Objects == Members \cup Strangers

Src(m) == <<"src", m>>
Dst(m) == <<"dst", m>>
Away   == <<"away", 0>>
Names  == {"src", "dst"} \X Members
Places == Names \cup {Away}

\* A member whose rename happened and was then refused: what was found under
\* its new name, and whether it went back.
Refusal == [member : Members, object : Objects \cup {None}, back : BOOLEAN]

ASSUME NoneAssumption == None \notin Objects /\ None \notin Refusal

Phases == {"idle", "bind", "check", "rename", "verify", "return", "giveback",
           "putback", "ask", "record", "index", "close"}

VARIABLES
    at,        \* where each object is
    changed,   \* objects whose content differs from the recorded proof
    path,      \* does the recorded path of a folder lead to its first folder?
    into,      \* into which folder at the quarantine path a member went
    mover,     \* who renamed an object last (history)
    late,      \* objects moved by others since the tool last asked (history)
    handled,   \* objects ever moved by others (history)
    others,    \* steps taken by other programs (bounded by MaxOther)
    faults,    \* refusals and crashes so far (bounded by MaxFaults)
    row,       \* status of the unit's journal row
    look,      \* where the journal says recovery should look for a member
    located,   \* members with a `located` event of an object kept by the tool
    index,     \* the photograph's state in the index
    pc,        \* what the tool does next
    way,       \* forward (apply) or back (undo, reconcile)
    unit,      \* the members this operation moves
    arrived,   \* members renamed and proven where they went
    asked,     \* members asked about again right before the record
    tried,     \* members whose return was tried
    returned,  \* members whose return succeeded
    bad,       \* the refusal that ended the unit, if it had moved something
    kept,      \* an object of the unit stays where it was moved to
    moved,     \* a folder of the move was found moved, or a place doubted
    run        \* may the run go on to the next photograph?

world   == <<at, changed, path, mover, late, handled, others>>
journal == <<row, look, located, index>>
steps   == <<unit, arrived, asked, tried, returned, bad, kept, moved>>
vars    == <<world, into, faults, journal, pc, way, steps, run>>

------------------------------------------------------------------------------
(* The two sides of a rename, and what a folder held shows.                  *)

From(m) == IF way = "forward" THEN Src(m) ELSE Dst(m)
To(m)   == IF way = "forward" THEN Dst(m) ELSE Src(m)

Bears(o, name) == at[o] = name
Free(name)     == \A o \in Objects : at[o] # name

\* The path recovery uses for m leads to the folder m is in: the recorded path,
\* or the one a `located` event gave for a folder that was moved away.
QuarantineLeads(m) == IF look[m] = "record" THEN path["dst"] = into[m]
                                            ELSE path["dst"] # into[m]
FromLeads(m) == IF way = "forward" THEN path["src"] ELSE QuarantineLeads(m)
ToLeads(m)   == IF way = "forward" THEN path["dst"] = into[m] ELSE path["src"]

\* The name still bears the object of the proof, unchanged.
Proven(m, name) == Bears(m, name) /\ m \notin changed

IsNext(m)   == m \in unit \ arrived /\ \A n \in unit \ arrived : m <= n
IsNewest(m) == m \in arrived \ tried /\ \A n \in arrived \ tried : n <= m

\* The system or the journal refuses a call the model has no reason for.
Fault == faults < MaxFaults /\ faults' = faults + 1
Works == UNCHANGED faults

\* The tool renames whatever object bears one name to another, which must be
\* free: rename without replacing.
Rename(a, b) ==
    /\ Free(b)
    /\ \E o \in Objects :
          /\ Bears(o, a)
          /\ at' = [at EXCEPT ![o] = b]
          /\ mover' = [mover EXCEPT ![o] = "tool"]
    /\ UNCHANGED <<changed, path, late, handled, others>>

CanRename(a, b) == Free(b) /\ ~Free(a)

Init ==
    /\ at = [o \in Objects |-> IF o \in Members THEN Src(o) ELSE Away]
    /\ changed = {} /\ late = {} /\ handled = {}
    /\ path = [f \in {"src", "dst"} |-> TRUE]
    /\ into = [m \in Members |-> TRUE]
    /\ mover = [o \in Objects |-> "nobody"]
    /\ others = 0 /\ faults = 0
    /\ row = "none" /\ index = "present"
    /\ look = [m \in Members |-> "record"]
    /\ located = {}
    /\ pc = "idle" /\ way = "forward" /\ run = "on"
    /\ unit = {} /\ arrived = {} /\ asked = {} /\ tried = {} /\ returned = {}
    /\ bad = None /\ kept = FALSE /\ moved = FALSE

------------------------------------------------------------------------------
(* Starting an operation.                                                    *)

StartUnit(members) ==
    /\ unit' = members
    /\ arrived' = {} /\ asked' = {} /\ tried' = {} /\ returned' = {}
    /\ bad' = None /\ kept' = FALSE /\ moved' = FALSE
    /\ run' = "on"

\* quarantine_file up to journal_begin: every member's evidence and folder is in
\* the row before the first rename.  What bears a name then is the member.
Begin ==
    /\ pc = "idle" /\ row = "none"
    /\ row' = "pending"
    /\ way' = "forward"
    /\ StartUnit(Members)
    /\ pc' = "bind"
    /\ UNCHANGED <<world, into, faults, look, located, index>>

\* classify: what is at the two recorded places of m, against its proof.
HeldHere(m) == QuarantineLeads(m) /\ Proven(m, Dst(m))
HeldNone(m) == ~QuarantineLeads(m) \/ Free(Dst(m))
HomeHere(m) == path["src"] /\ Proven(m, Src(m))
HomeNone(m) == ~path["src"] \/ Free(Src(m))
IsMoved(m)  == HeldHere(m) /\ HomeNone(m)
IsHome(m)   == HeldNone(m) /\ HomeHere(m)

\* All of the unit or none of it: every member is accounted for.
AccountedInQuarantine == \A m \in Members : IsMoved(m)   \* mutant
Accounted == \A m \in Members : IsMoved(m) \/ IsHome(m)

\* What goes back.
Taken == {m \in Members : IsMoved(m)}

\* undo of a finished row, reconcile_undo of an unfinished one: every member is
\* accounted for and the folder to return to is the recorded one, or the row
\* only gains a line of history (no step here).
Recover(status) ==
    /\ pc = "idle" /\ row = status
    /\ Accounted
    /\ Taken # {} => path["src"]
    /\ StartUnit(Taken)
    /\ pc' = IF Taken = {} THEN "record" ELSE "bind"
    /\ way' = "back"
    /\ late' = {}
    /\ UNCHANGED <<at, changed, path, mover, handled, others, into, faults, journal>>

Undo      == Recover("done")
Reconcile == Recover("pending")

------------------------------------------------------------------------------
(* move_unit.                                                                *)

\* 1. Every member held and proven, every later name free.  The photograph of
\* an apply is held since before its check, so it is not asked here.
Bound(m) == FromLeads(m) /\ (Proven(m, From(m)) \/ (way = "forward" /\ m = 0))
LaterFree(m) == \/ \A n \in unit : m <= n
                \/ way = "forward" /\ ~path["dst"]
                \/ Free(To(m))

Bind ==
    /\ pc = "bind"
    /\ \/ Works /\ pc' = IF \A m \in unit : Bound(m) /\ LaterFree(m)
                         THEN "check" ELSE "close"
       \/ Fault /\ pc' = "close"
    /\ UNCHANGED <<world, into, journal, way, steps, run>>

\* Destination::open: on the way out the folder is whatever the path leads to at this
\* moment, made where it is missing.
DestinationFolder(m) == IF way = "forward" THEN [into EXCEPT ![m] = path["dst"]] ELSE into

\* 2. rename_bound, up to the call.  The destination folder is whatever the
\* path leads to at this moment; a missing one is made.
Check(m) ==
    /\ pc = "check" /\ IsNext(m)
    /\ into' = DestinationFolder(m)
    /\ \/ /\ ~FromLeads(m) /\ Works
          /\ bad' = [member |-> m, object |-> m, back |-> TRUE]
          /\ moved' = TRUE
          /\ pc' = "giveback"
       \/ /\ FromLeads(m)
          /\ \/ Works /\ pc' = IF Proven(m, From(m)) /\ (way = "back" => path["src"])
                               THEN "rename" ELSE "giveback"
             \/ Fault /\ pc' = "giveback"
          /\ UNCHANGED <<bad, moved>>
    /\ UNCHANGED <<world, journal, way, unit, arrived, asked, tried, returned,
                   kept, run>>

\* The name of the destination the call is given.
Goal(m) == To(m)

\* The call itself: it moves whatever bears the name by now.
RenameMember(m) ==
    /\ pc = "rename" /\ IsNext(m)
    /\ \/ Works /\ Rename(From(m), Goal(m)) /\ pc' = "verify"
       \/ Works /\ ~CanRename(From(m), Goal(m)) /\ pc' = "giveback" /\ UNCHANGED world
       \/ Fault /\ pc' = "giveback" /\ UNCHANGED world
    /\ UNCHANGED <<into, journal, way, steps, run>>

\* After the call: the checked object arrived unchanged, and both folder paths
\* still lead to the folders held.
Verify(m) ==
    /\ pc = "verify" /\ IsNext(m)
    /\ IF Proven(m, To(m)) /\ FromLeads(m) /\ ToLeads(m)
       THEN /\ arrived' = arrived \cup {m}
            /\ pc' = IF unit = arrived' THEN "ask" ELSE "check"
            /\ UNCHANGED <<bad, moved>>
       ELSE /\ \E found \in Objects \cup {None} :
                  /\ IF found = None THEN Free(To(m)) ELSE Bears(found, To(m))
                  /\ bad' = [member |-> m, object |-> found, back |-> FALSE]
            /\ moved' = ~(FromLeads(m) /\ ToLeads(m))
            /\ pc' = "return"
            /\ UNCHANGED arrived
    /\ UNCHANGED <<world, into, faults, journal, way, unit, asked, tried, returned,
                   kept, run>>

\* What the refused rename moved goes back, by name; if it cannot, an object of
\* the unit stays in the operation's keeping.
Return(m) ==
    /\ pc = "return" /\ bad # None /\ bad.member = m
    /\ \/ /\ Works /\ Rename(To(m), From(m))
          /\ bad' = [bad EXCEPT !.back = TRUE]
          /\ UNCHANGED kept
       \/ /\ \/ Works /\ ~CanRename(To(m), From(m))
             \/ Fault
          /\ kept' = (bad.object = m)
          /\ UNCHANGED <<world, bad>>
    /\ pc' = "giveback"
    /\ UNCHANGED <<into, journal, way, unit, arrived, asked, tried, returned,
                   moved, run>>

\* A member that could not be put back is not tried again.
NowTried(m) == tried \cup {m}

\* 3. Put back what arrived, newest first.  Only the object that was moved: the
\* name is looked at, then the rename follows.
GiveBack ==
    /\ pc = "giveback" /\ Works
    /\ IF arrived \subseteq tried
       THEN pc' = "close" /\ UNCHANGED <<tried, kept>>
       ELSE \E m \in Members :
              /\ IsNewest(m)
              /\ IF Bears(m, To(m))
                 THEN pc' = "putback" /\ UNCHANGED <<tried, kept>>
                 ELSE /\ tried' = NowTried(m)
                      /\ kept' = TRUE
                      /\ UNCHANGED pc
    /\ UNCHANGED <<world, into, journal, way, unit, arrived, asked, returned,
                   bad, moved, run>>

PutBack(m) ==
    /\ pc = "putback" /\ IsNewest(m)
    /\ tried' = tried \cup {m}
    /\ \/ /\ Works /\ Rename(To(m), From(m))
          /\ returned' = returned \cup {m}
          /\ UNCHANGED kept
       \/ /\ \/ Works /\ ~CanRename(To(m), From(m))
             \/ Fault
          /\ kept' = TRUE
          /\ UNCHANGED <<world, returned>>
    /\ pc' = "giveback"
    /\ UNCHANGED <<into, journal, way, unit, arrived, asked, bad, moved, run>>

\* doubt: is the member where it went, and does its origin folder still hold?
NoDoubt(m) == TRUE   \* mutant
Sure(m) == Bears(m, To(m)) /\ ToLeads(m) /\ FromLeads(m)

\* Asked again after the last rename, right before the record: any doubt about any
\* member sends the whole unit back.
Ask(m) ==
    /\ pc = "ask"
    /\ m \in unit \ asked /\ \A n \in unit \ asked : m <= n
    /\ asked' = asked \cup {m}
    /\ moved' = (moved \/ ~Sure(m))
    /\ late' = late \ {m}
    /\ pc' = IF unit # asked' THEN "ask" ELSE IF moved' THEN "giveback" ELSE "record"
    /\ UNCHANGED <<at, changed, path, mover, handled, others, into, faults, journal,
                   way, unit, arrived, tried, returned, bad, kept, run>>

------------------------------------------------------------------------------
(* The record.                                                               *)

\* The first of the two writes of a moved unit walked back.
RowFirst == row' = "undone" /\ UNCHANGED index   \* mutant
IndexFirst == index' = "present" /\ UNCHANGED row

\* A moved unit.  Forward: the row is closed, then the index follows.  Back: the
\* index first, and the row only after it, so that asking again finishes both.
Record ==
    /\ pc = "record"
    /\ \/ /\ way = "forward" /\ Works
          /\ row' = "done" /\ pc' = "index"
          /\ UNCHANGED <<index, run>>
       \/ /\ way = "back" /\ Works
          /\ IndexFirst /\ pc' = "index"
          /\ UNCHANGED run
       \/ Fault /\ pc' = "idle" /\ run' = "stopped" /\ UNCHANGED <<row, index>>
    /\ UNCHANGED <<world, into, look, located, way, steps>>

InQuarantine == "quarantined"

Index ==
    /\ pc = "index"
    /\ pc' = "idle"
    /\ \/ /\ way = "forward" /\ Works
          /\ index' = InQuarantine
          /\ UNCHANGED <<row, run>>
       \/ /\ way = "back" /\ Works
          /\ row' = "undone"
          /\ UNCHANGED <<index, run>>
       \/ Fault /\ run' = "stopped" /\ UNCHANGED <<row, index>>
    /\ UNCHANGED <<world, into, look, located, way, steps>>

\* 4. Where everything is now, after the last rename.  `whole`: every object
\* touched is proven at the name it was taken from.
Touched == arrived \cup (IF bad = None THEN {} ELSE {bad.member})
Whole ==
    /\ \A m \in arrived : m \in returned /\ Bears(m, From(m)) /\ FromLeads(m)
    /\ bad # None =>
          /\ bad.back /\ bad.object # None
          /\ Bears(bad.object, From(bad.member)) /\ FromLeads(bad.member)

\* The members a `located` event names, and of these the ones it says the tool
\* holds: in quarantine, whichever way the unit went.
Told == IF Touched = {} THEN {} ELSE IF Whole THEN Touched ELSE unit
BackAtFrom(m) == m \notin Touched \/ m \in returned \/ (m \notin arrived /\ bad.back)
ToldHeld == {m \in Told : (way = "forward") # BackAtFrom(m)}
            \ (IF bad # None /\ bad.object # bad.member THEN {bad.member} ELSE {})

\* The status the row is left with: an object kept leaves it open, and a refused
\* undo or reconcile only adds to its history.
ClosedThoughKept == IF way = "forward" THEN "failed" ELSE row   \* mutant
ClosedThoughBack == IF ~kept THEN "failed" ELSE row   \* mutant
Status == IF way = "forward" /\ ~kept THEN "failed" ELSE row

\* PutBack::stops.
GoesOn == Whole /\ ~kept /\ ~moved

Close ==
    /\ pc = "close"
    /\ pc' = "idle"
    /\ \/ /\ Works
          /\ row' = Status
          /\ located' = (located \ Told) \cup ToldHeld
          /\ look' = [m \in Members |->
                        IF m \notin Told THEN look[m]
                        ELSE IF m \in ToldHeld /\ path["dst"] # into[m]
                             THEN "moved" ELSE "record"]
          /\ run' = IF GoesOn THEN "on" ELSE "stopped"
       \/ Fault /\ run' = "stopped" /\ UNCHANGED <<row, located, look>>
    /\ UNCHANGED <<world, into, index, way, steps>>

------------------------------------------------------------------------------
(* The process is killed; other programs.                                    *)

Crash ==
    /\ pc # "idle" /\ Fault
    /\ pc' = "idle" /\ run' = "stopped"
    /\ UNCHANGED <<world, into, journal, way, steps>>

Other == row # "none" /\ others < MaxOther /\ others' = others + 1

OtherMoves(o, place) ==
    /\ Other
    /\ place # at[o] /\ (place = Away \/ (at[o] = Away /\ Free(place)))
    /\ at' = [at EXCEPT ![o] = place]
    /\ mover' = [mover EXCEPT ![o] = "other"]
    /\ late' = late \cup {o}
    /\ handled' = handled \cup {o}
    /\ UNCHANGED <<changed, path>>

OtherChanges(m) ==
    /\ Other /\ m \notin changed
    /\ changed' = changed \cup {m}
    /\ UNCHANGED <<at, path, mover, late, handled>>

\* A folder of the move is moved away, or brought back.
OtherMovesFolder(f) ==
    /\ Other
    /\ path' = [path EXCEPT ![f] = ~@]
    /\ UNCHANGED <<at, changed, mover, late, handled>>

OtherProgram ==
    /\ \/ \E o \in Objects, place \in Places : OtherMoves(o, place)
       \/ \E m \in Members : OtherChanges(m)
       \/ \E f \in {"src", "dst"} : OtherMovesFolder(f)
    /\ UNCHANGED <<into, faults, journal, pc, way, steps, run>>

Tool ==
    \/ Bind \/ GiveBack \/ Record \/ Index \/ Close
    \/ \E m \in Members : \/ Check(m) \/ RenameMember(m) \/ Verify(m)
                          \/ Return(m) \/ PutBack(m) \/ Ask(m)

Next == Begin \/ Undo \/ Reconcile \/ Tool \/ Crash \/ OtherProgram

Spec == Init /\ [][Next]_vars

\* The tool carries on once started, and an unfinished row is reconciled while
\* that can be done: the journal page and `status` keep naming it.
FairSpec == Spec /\ WF_vars(Tool) /\ WF_vars(Reconcile)

------------------------------------------------------------------------------
(* What must hold.                                                           *)

\* Every variable has its type.
TypeOK ==
    /\ at \in [Objects -> Places]
    /\ changed \subseteq Members /\ late \subseteq Objects /\ handled \subseteq Objects
    /\ path \in [{"src", "dst"} -> BOOLEAN]
    /\ into \in [Members -> BOOLEAN]
    /\ mover \in [Objects -> {"nobody", "tool", "other"}]
    /\ others \in 0 .. MaxOther /\ faults \in 0 .. MaxFaults
    /\ row \in {"none", "pending", "done", "failed", "undone"}
    /\ look \in [Members -> {"record", "moved"}]
    /\ located \subseteq Members
    /\ index \in {"present", "quarantined"}
    /\ pc \in Phases /\ way \in {"forward", "back"} /\ run \in {"on", "stopped"}
    /\ unit \subseteq Members
    /\ arrived \subseteq Members /\ asked \subseteq Members
    /\ tried \subseteq Members /\ returned \subseteq Members
    /\ bad \in Refusal \cup {None}
    /\ kept \in BOOLEAN /\ moved \in BOOLEAN

\* The tool took m into quarantine and nobody has moved it since.
Held(m) == at[m] = Dst(m) /\ mover[m] = "tool"

\* An object of the unit that the tool put under its quarantine name is held by
\* a row that is open or done, whatever was refused, killed or moved by another
\* program in between: it can always be found and walked back.  `failed` and
\* `undone` rows hold nothing (unit.rs close_forward, recovery.rs walk_back).
HeldIsOnRecord == \A m \in Members : Held(m) => row \in {"pending", "done"}

\* The unit implements what its row promises: the members held are those above.
Promise == INSTANCE EntryPromise WITH
               Unit <- Members, held <- {m \in Members : Held(m)}
KeepsPromise == Promise!Spec

\* A row closed as done: every member is under its quarantine name, unless
\* another program moved it after it was asked about for the last time, right
\* before the record (unit.rs doubt).
DoneMeansMoved ==
    (row = "done" /\ way = "forward") => \A m \in Members : at[m] = Dst(m) \/ m \in late

\* A row closed as undone: every member is home, with the same excuse.
UndoneMeansHome ==
    row = "undone" => \A m \in Members : at[m] = Src(m) \/ m \in late

\* A run goes on to the next photograph after a refused unit only if nothing
\* the tool renamed is left anywhere but under the name it was taken from, a
\* stranger's object caught by a rename included (PutBack::stops).
ContinueOnlyWhole ==
    (row = "failed" /\ pc = "idle" /\ run = "on") =>
        \A o \in Objects : mover[o] = "tool" => at[o] \in {Src(m) : m \in Members}

\* The index says the photograph is in quarantine only while a row says so too
\* and can be undone, killed between the two writes or not.
IndexIsExplained == index = "quarantined" => row = "done"

\* Killed or refused at any step, the unit can be reconciled: while a member and
\* its folders were left alone by others, and its other name is free, the places
\* the journal gives for it are where it is (recovery.rs classify).
Untouched(m) ==
    /\ m \notin handled /\ m \notin changed
    /\ path["src"] /\ path["dst"] = into[m] /\ look[m] = "record"
    /\ \A o \in Objects \ {m} : at[o] \notin {Src(m), Dst(m)}
KilledIsAccountedFor ==
    (row = "pending" /\ pc = "idle") =>
        \A m \in Members : Untouched(m) => IsMoved(m) \/ IsHome(m)

\* What the row and the run say of the unit is so: closed as done or undone,
\* refused and gone on, or still open (unit.rs close_forward, recovery.rs).
RecordIsTrue == DoneMeansMoved /\ UndoneMeansHome /\ ContinueOnlyWhole /\ KilledIsAccountedFor

\* An unfinished row whose members are all accounted for, and stay so, does not
\* stay unfinished (reconcile of the journal page and of the command line).
Settleable ==
    /\ row = "pending" /\ path["src"]
    /\ \A m \in Members : IsMoved(m) \/ IsHome(m)
SettleableSettles == ~<>[]Settleable

------------------------------------------------------------------------------
(* The invariant the proofs rest on: who may be held at each step.           *)

\* A name bears one object.
OneUnderAName ==
    \A o, p \in Objects : o # p /\ at[o] = at[p] => at[o] = Away

\* The row an operation works under, and what the index says meanwhile.
RowOfOperation ==
    /\ pc # "idle" => row \in {"pending", "done"}
    /\ pc # "idle" /\ way = "forward" => row = IF pc = "index" THEN "done" ELSE "pending"
    /\ pc = "index" /\ way = "back" => index = "present"
    /\ IndexIsExplained

\* The bookkeeping of move_unit.
Steps ==
    /\ pc # "idle" => arrived \subseteq unit
    /\ pc \in {"bind", "check", "rename", "verify", "return", "ask", "record", "index"}
          => tried = {}
    /\ pc = "bind" => arrived = {}
    /\ pc \in {"ask", "record", "index"} => arrived = unit
    /\ pc = "return" => /\ bad \in Refusal
                        /\ IsNext(bad.member)
                        /\ way = "forward" /\ bad.object # bad.member => ~Held(bad.member)

\* Forward, a member held is one that arrived and was not put back, or the one
\* being renamed, or the unit knows that it keeps something.
HeldForward(m) ==
    Held(m) =>
        \/ pc \in {"bind", "check", "rename", "ask"} /\ m \in arrived
        \/ pc \in {"verify", "return"} /\ (m \in arrived \/ IsNext(m))
        \/ pc \in {"giveback", "putback"} /\ (kept \/ m \in arrived \ tried)
        \/ pc = "close" /\ kept
        \/ pc \in {"record", "index"}

\* Back, what is home is not held, and only members of the unit ever are again.
HeldBack(m) ==
    Held(m) =>
        /\ m \in unit
        /\ pc \in {"check", "rename", "verify", "ask", "record", "index"} => m \notin arrived

WhoIsHeld ==
    \A m \in Members :
        /\ pc # "idle" /\ way = "forward" => HeldForward(m)
        /\ pc # "idle" /\ way = "back" => HeldBack(m)

IndInv ==
    /\ TypeOK /\ OneUnderAName /\ RowOfOperation /\ Steps /\ WhoIsHeld /\ HeldIsOnRecord
------------------------------------------------------------------------------
(* The invariant RecordIsTrue rests on, beside the one above.                *)

\* A member nobody else ever moved is under one of its own two names.
WhereItBelongs == \A m \in Members : m \notin handled => at[m] \in {Src(m), Dst(m)}

\* A member is where this operation wanted it, or another program took it since.
Settled(m) == at[m] = To(m) \/ m \in late

\* Who is known to be in place: forward, and back, where what was home stays so.
AskedBeforeRecord ==
    /\ pc \in {"bind", "check", "rename", "verify"} => asked = {} /\ ~moved
    /\ pc = "ask" /\ ~moved => \A m \in asked : Settled(m)
    /\ pc \in {"record", "index"} => \A m \in unit : Settled(m)
    /\ pc # "idle" /\ way = "forward" => unit = Members
    /\ pc # "idle" /\ way = "back" => \A m \in Members \ unit : Settled(m)

\* What the tool renamed on its way forward, and whether it is home again.
AtHome(o) == \E m \in Members : at[o] = Src(m)
OnItsWay(o) ==
    \/ o \in arrived
    \/ pc = "verify" /\ \E m \in Members : IsNext(m) /\ at[o] = Dst(m)
    \/ bad # None /\ bad.object = o /\ ~bad.back /\ at[o] = Dst(bad.member)
ToolTrail ==
    /\ pc \in {"bind", "check", "rename", "verify", "ask", "record", "index"} => bad = None
    /\ row = "none" => pc = "idle" /\ \A o \in Objects : mover[o] # "tool"
    /\ pc # "idle" /\ way = "forward" =>
          \A o \in Objects : mover[o] = "tool" => AtHome(o) \/ OnItsWay(o)

RecordInv ==
    /\ WhereItBelongs /\ AskedBeforeRecord /\ ToolTrail
    /\ DoneMeansMoved /\ UndoneMeansHome /\ ContinueOnlyWhole
==============================================================================

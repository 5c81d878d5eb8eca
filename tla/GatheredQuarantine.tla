------------------------- MODULE GatheredQuarantine -------------------------
(***************************************************************************)
(* A gathered quarantine, the note in it that says where each disk label   *)
(* was mounted, and the files in it that no journal claims (pc-core        *)
(* quarantine_layout.rs and lib.rs, pc-apply lib.rs, pc-db model.rs,       *)
(* pc-walk, pc-work scan.rs, pc-api service.rs).                           *)
(*                                                                         *)
(* Several programs, each with a database of its own, use one quarantine   *)
(* folder on one volume; each sees the volume under a mount point of its   *)
(* own, and a mount point's last name is the disk's label.  Nothing but    *)
(* the file system stands between them.  A place is where a file is on the *)
(* volume, a path is a place and the mount point it was written with.  The *)
(* move of a file is one step here: how it is made is UnitMove's subject.  *)
(***************************************************************************)
EXTENDS Naturals, Sequences, FiniteSets

CONSTANTS
    Proc,        \* the programs, each with its database
    Photo,       \* the files
    LabelOf,     \* the mount points, and the last name of each
    Sees,        \* the mount point each program first sees the volume under
    MaxRows,     \* bound: rows of each journal
    MaxFaults    \* bound: kills, remounts, lost databases, other hands

Mount == DOMAIN LabelOf
Label == {LabelOf[m] : m \in Mount}

ASSUME GatheredAssumption ==
    /\ Sees \in [Proc -> Mount]
    /\ MaxRows \in [Proc -> Nat] /\ MaxFaults \in Nat

VARIABLES
    place,   \* where each file is
    note,    \* the object that bears the note's name: [id, text, disks]
    made,    \* how many objects have borne it
    mount,   \* where each program sees the volume
    rows,    \* the journal of each program
    found,   \* quarantine_found: the paths the last walk saw
    todo,    \* the orphans a run has still to bring home
    op,      \* the move each program is making
    step,    \* how far it has come
    lapped,  \* the programs whose write of the note met another's
    came,    \* the mount point each gathered file had when it was moved under a label
    past,    \* what has happened to the note
    faults

vars == <<place, note, made, mount, rows, found, todo, op, step, lapped, came, past, faults>>
noted == <<note, made, lapped>>

Home == <<"home">>
Beside == <<"beside">>
Under(l) == <<"under", l>>
Guessed(l) == <<"guessed", l>>
Places == {Home, Beside} \cup {Under(l) : l \in Label} \cup {Guessed(l) : l \in Label}
Quarantined == {Beside} \cup {Under(l) : l \in Label}

NoNote == [id |-> 0, text |-> "none", disks |-> <<>>]
NoOp == [kind |-> "none"]
Steps == {"idle", "open", "create", "extend", "write", "begin", "move", "close", "next"}

(* --------------------------- what the note says ------------------------ *)
Parsed == note.text \in {"ours", "bare"}
\* missing or unreadable: it says nothing
read == IF Parsed THEN note.disks ELSE <<>>
Without(disks, l) == [k \in DOMAIN disks \ {l} |-> disks[k]]
With(disks, l, m) == [k \in DOMAIN disks \cup {l} |-> IF k = l THEN m ELSE disks[k]]

\* the path a quarantined file is said to come from, "" when there is none
origin(disks, l) == IF l \in DOMAIN disks THEN [place |-> Home, mount |-> disks[l]] ELSE <<>>
quarantine_origin_of(path) ==
    IF path.place = Beside THEN [place |-> Home, mount |-> path.mount]
    ELSE IF read = <<>> THEN [place |-> Guessed(path.place[2]), mount |-> path.mount]
    ELSE origin(read, path.place[2])

(* --------------------------- what a journal claims --------------------- *)
Claiming == {"done", "pending"}
claimed(p, path) ==
    \E i \in DOMAIN rows[p] : rows[p][i].status \in Claiming /\ rows[p][i].to = path

(* -------------------------------- the steps ---------------------------- *)
Init ==
    /\ place = [f \in Photo |-> Home]
    /\ note \in {NoNote} \cup {[id |-> 1, text |-> "bare", disks |-> With(<<>>, LabelOf[m], m)] :
                                 m \in Mount}
    /\ made = note.id
    /\ mount = Sees
    /\ rows = [p \in Proc |-> <<>>]
    /\ found = [p \in Proc |-> {}]
    /\ todo = [p \in Proc |-> {}]
    /\ op = [p \in Proc |-> NoOp]
    /\ step = [p \in Proc |-> "idle"]
    /\ lapped = {}
    /\ came = [f \in Photo |-> <<>>]
    /\ past = {} /\ faults = 0

Fault == faults < MaxFaults /\ faults' = faults + 1
Works == UNCHANGED <<mount, faults>>
At(p, s) == step[p] = s
Go(p, s) == step' = [step EXCEPT ![p] = s]
\* the item is over: the next orphan of the run, if there is one
Over(p) == Go(p, IF todo[p] = {} THEN "idle" ELSE "next") /\ op' = [op EXCEPT ![p] = NoOp]
Full(p) == Len(rows[p]) >= MaxRows[p]

\* mutant: the note is left for later
Unadmitted(gather) == "begin"
\* admit: the note comes before the journal and the move
Admission(gather) == IF gather THEN "open" ELSE "begin"
\* a file is to go beside itself, or to the gathered folder
file_target(p, f, gather) ==
    /\ At(p, "idle") /\ place[f] = Home /\ ~Full(p)
    /\ op' = [op EXCEPT ![p] =
         [kind |-> "quarantine", photo |-> f, id |-> 0, disks |-> <<>>,
          from |-> [place |-> Home, mount |-> mount[p]],
          to |-> [place |-> IF gather THEN Under(LabelOf[mount[p]]) ELSE Beside, mount |-> mount[p]]]]
    /\ Go(p, Admission(gather))
    /\ Works /\ UNCHANGED <<place, noted, rows, found, todo, came, past>>

\* the label stands for this mount point, or for none yet in a note of ours
Admits(p) ==
    LET l == LabelOf[mount[p]] IN
    Parsed /\ IF l \in DOMAIN note.disks THEN note.disks[l] = mount[p] ELSE note.text = "ours"
publish(p) ==
    LET l == LabelOf[mount[p]] IN
    /\ At(p, "open")
    /\ CASE note.id = 0 -> Go(p, "create") /\ UNCHANGED op
         [] note.id # 0 /\ ~Admits(p) -> Over(p)
         [] OTHER ->
              IF Parsed /\ l \in DOMAIN note.disks THEN Go(p, "begin") /\ UNCHANGED op
              ELSE /\ op' = [op EXCEPT ![p].id = note.id, ![p].disks = With(read, l, mount[p])]
                   /\ Go(p, "extend")
    /\ Works /\ UNCHANGED <<place, noted, rows, found, todo, came, past>>
\* a fresh file, renamed to a name that is still free; a file put in the
\* temporary's place is seen right after, which is OtherHands before this step
create(p) ==
    /\ At(p, "create")
    /\ IF note.id = 0
       THEN /\ made' = made + 1
            /\ note' = [id |-> made + 1, text |-> "ours",
                        disks |-> With(<<>>, LabelOf[mount[p]], mount[p])]
            /\ Go(p, "begin") /\ UNCHANGED op
       ELSE Over(p) /\ UNCHANGED <<note, made>>
    /\ Works /\ UNCHANGED <<place, lapped, rows, found, todo, came, past>>
\* mutant: the name is not looked at again
Whatever(p) == TRUE
\* still the object at the name: the one read is the one written
StillThere(p) == note.id = op[p].id
Writers == {q \in Proc : step[q] = "write" /\ op[q].id = note.id}
extend(p) ==
    /\ At(p, "extend")
    /\ IF StillThere(p)
       THEN /\ note' = [note EXCEPT !.text = "torn"]
            /\ lapped' = IF Writers = {} THEN lapped ELSE lapped \cup Writers \cup {p}
            /\ past' = past \cup {"torn"}
                       \cup (IF Writers = {} /\ note.disks = Without(op[p].disks, LabelOf[mount[p]])
                             THEN {} ELSE {"lost"})
            /\ Go(p, "write") /\ UNCHANGED op
       ELSE Over(p) /\ UNCHANGED <<note, lapped, past>>
    /\ Works /\ UNCHANGED <<place, made, rows, found, todo, came>>
\* the body is written and the file cut to its length; two writers at once
\* leave either body, or neither
written(p) ==
    /\ At(p, "write")
    /\ IF note.id # op[p].id THEN UNCHANGED note
       ELSE \E text \in IF p \in lapped THEN {"ours", "torn"} ELSE {"ours"} :
              note' = [note EXCEPT !.text = text, !.disks = op[p].disks]
    /\ lapped' = lapped \ {p}
    /\ Go(p, "begin")
    /\ Works /\ UNCHANGED <<place, made, rows, found, todo, op, came, past>>

Row(p, status) == [photo |-> op[p].photo, kind |-> op[p].kind, from |-> op[p].from,
                   to |-> op[p].to, status |-> status]
Last(p) == Len(rows[p])
journal_begin(p) ==
    /\ At(p, "begin")
    /\ rows' = [rows EXCEPT ![p] = Append(@, Row(p, "pending"))]
    /\ Go(p, "move")
    /\ Works /\ UNCHANGED <<place, noted, found, todo, op, came, past>>
\* within one volume and from where the file is, or not at all
Movable(p, path, at) == at.mount = mount[p] /\ path.mount = mount[p]
Closed(p, i, status) == rows' = [rows EXCEPT ![p][i].status = status]
move_unit(p) ==
    LET f == op[p].photo IN
    /\ At(p, "move")
    /\ IF place[f] = op[p].from.place /\ Movable(p, op[p].from, op[p].to)
       THEN /\ place' = [place EXCEPT ![f] = op[p].to.place]
            /\ came' = IF op[p].to.place \in {Under(l) : l \in Label}
                       THEN [came EXCEPT ![f] = With(@, LabelOf[mount[p]], mount[p])] ELSE came
            /\ Go(p, "close") /\ UNCHANGED <<rows, op>>
       ELSE Closed(p, Last(p), "failed") /\ Over(p) /\ UNCHANGED <<place, came>>
    /\ Works /\ UNCHANGED <<noted, found, todo, past>>
\* an orphan that came home is no longer news
journal_close(p) ==
    /\ At(p, "close")
    /\ Closed(p, Last(p), "done")
    /\ found' = [found EXCEPT ![p] = IF op[p].kind = "adopt" THEN @ \ {[photo |-> op[p].photo,
                                                                          path |-> op[p].from]} ELSE @]
    /\ Over(p)
    /\ Works /\ UNCHANGED <<place, noted, todo, came, past>>
\* the way back of an entry, finished or interrupted
undo(p, i) ==
    LET r == rows[p][i] IN
    /\ At(p, "idle") /\ r.status \in {"done", "pending"}
    /\ IF place[r.photo] = r.to.place /\ Movable(p, r.to, r.from)
       THEN place' = [place EXCEPT ![r.photo] = r.from.place] /\ Closed(p, i, "undone")
       ELSE /\ r.status = "pending" /\ place[r.photo] = r.from.place
            /\ Closed(p, i, "undone") /\ UNCHANGED place
    /\ Works /\ UNCHANGED <<noted, found, todo, op, step, came, past>>

(* ------------------------------- the orphans --------------------------- *)
set_quarantine_found(p) ==
    /\ At(p, "idle")
    /\ found' = [found EXCEPT ![p] =
         {[photo |-> f, path |-> [place |-> place[f], mount |-> mount[p]]] :
             f \in {g \in Photo : place[g] \in Quarantined}}]
    /\ Works /\ UNCHANGED <<place, noted, rows, todo, op, step, came, past>>
\* the listed files nobody claims, that are there and whose way home is told
orphans(p) ==
    {x \in found[p] : /\ ~claimed(p, x.path)
                      /\ place[x.photo] = x.path.place /\ x.path.mount = mount[p]}
adoptable(p) == {x \in orphans(p) : quarantine_origin_of(x.path) # <<>>}
start_adopt(p) ==
    /\ At(p, "idle") /\ adoptable(p) # {}
    /\ todo' = [todo EXCEPT ![p] = adoptable(p)]
    /\ Go(p, "next")
    /\ Works /\ UNCHANGED <<place, noted, rows, found, op, came, past>>
\* the way home is read again, and may have become another or none
adopt_orphan(p, x) ==
    LET dst == quarantine_origin_of(x.path) IN
    /\ At(p, "next") /\ x \in todo[p] /\ ~Full(p)
    /\ todo' = [todo EXCEPT ![p] = @ \ {x}]
    /\ IF dst = <<>> \/ place[x.photo] # x.path.place
       THEN Go(p, IF todo'[p] = {} THEN "idle" ELSE "next") /\ UNCHANGED op
       ELSE /\ op' = [op EXCEPT ![p] = [kind |-> "adopt", photo |-> x.photo, id |-> 0,
                                        disks |-> <<>>, from |-> x.path, to |-> dst]]
            /\ Go(p, "begin")
    /\ Works /\ UNCHANGED <<place, noted, rows, found, came, past>>
\* "delete for good": kept, and the row that says so claims nothing
abandon_orphan(p, x) ==
    /\ At(p, "idle") /\ ~Full(p) /\ x \in orphans(p)
    /\ rows' = [rows EXCEPT ![p] = Append(@,
         [photo |-> x.photo, kind |-> "abandon", from |-> x.path, to |-> <<>>, status |-> "failed"])]
    /\ Works /\ UNCHANGED <<place, noted, found, todo, op, step, came, past>>
\* a full journal ends the bounded run
Ends(p) ==
    /\ At(p, "next") /\ Full(p)
    /\ todo' = [todo EXCEPT ![p] = {}] /\ Go(p, "idle")
    /\ Works /\ UNCHANGED <<place, noted, rows, found, op, came, past>>

(* ------------------------------ what goes wrong ------------------------ *)
Kill(p) ==
    /\ ~At(p, "idle") /\ Fault
    /\ Go(p, "idle") /\ op' = [op EXCEPT ![p] = NoOp] /\ todo' = [todo EXCEPT ![p] = {}]
    /\ lapped' = lapped \ {p}
    /\ UNCHANGED <<place, note, made, mount, rows, found, came, past>>
LoseDatabase(p) ==
    /\ At(p, "idle") /\ Fault /\ rows[p] # <<>>
    /\ rows' = [rows EXCEPT ![p] = <<>>] /\ found' = [found EXCEPT ![p] = {}]
    /\ UNCHANGED <<place, noted, mount, todo, op, step, came, past>>
Remount(p, m) ==
    /\ At(p, "idle") /\ Fault /\ m # mount[p]
    /\ mount' = [mount EXCEPT ![p] = m]
    /\ UNCHANGED <<place, noted, rows, found, todo, op, step, came, past>>
\* somebody takes the note away, or puts a file of their own at its name
OtherHands(there) ==
    /\ Fault /\ (there \/ note.id # 0)
    /\ made' = made + 1
    /\ note' = IF there THEN [id |-> made + 1, text |-> "foreign", disks |-> <<>>] ELSE NoNote
    /\ past' = past \cup {"stranger"}
    /\ UNCHANGED <<place, lapped, mount, rows, found, todo, op, step, came>>

Next ==
    \/ \E p \in Proc :
         \/ \E f \in Photo, gather \in BOOLEAN : file_target(p, f, gather)
         \/ publish(p) \/ create(p) \/ extend(p) \/ written(p)
         \/ journal_begin(p) \/ move_unit(p) \/ journal_close(p)
         \/ \E i \in DOMAIN rows[p] : undo(p, i)
         \/ set_quarantine_found(p) \/ start_adopt(p) \/ Ends(p)
         \/ \E x \in todo[p] : adopt_orphan(p, x)
         \/ \E x \in found[p] : abandon_orphan(p, x)
         \/ Kill(p) \/ LoseDatabase(p)
         \/ \E m \in Mount : Remount(p, m)
    \/ \E there \in BOOLEAN : OtherHands(there)

Spec == Init /\ [][Next]_vars
-----------------------------------------------------------------------------
\* A note that can be read says of every file in the gathered folder which mount
\* point its label stood for when it was moved there: the note is admitted
\* before the journal and the move, and a label is never given another meaning
\* (pc-apply lib.rs admit, quarantine_layout.rs publish).  Two programs that
\* extend the note at once lose one label, which the note's file cannot prevent.
LandedIsRecorded ==
    Parsed /\ past \cap {"lost", "stranger"} = {} =>
        \A f \in Photo, l \in Label :
            place[f] = Under(l) => l \in DOMAIN note.disks /\ note.disks[l] = came[f][l]

\* An orphan comes home or stays where it is, as long as nobody has taken the
\* note away and no write of it has ever been under way: whatever was remounted,
\* killed or lost in the meantime, no file is given an address nobody recorded
\* (pc-core lib.rs quarantine_origin_of, pc-apply lib.rs adopt_orphan).
ComesHomeOrStays ==
    past \cap {"torn", "stranger"} = {} => \A f \in Photo, l \in Label : place[f] # Guessed(l)

\* What the note says is kept, and it is only ever ours: no file that landed loses its
\* way home, and a file of somebody else's at the note's name is never written, whether
\* it was there before, came while the note was read or took the temporary's place
\* (quarantine_layout.rs publish, create).
NoteIsKept ==
    [][/\ LandedIsRecorded'
       /\ note.text = "foreign" /\ note'.id = note.id => note' = note]_vars

-----------------------------------------------------------------------------
(* The invariant the proofs rest on.                                         *)
Path   == [place : Places, mount : Mount]
Entry  == [photo : Photo, kind : {"quarantine", "adopt", "abandon"}, from : Path,
           to : Path \cup {<<>>}, status : {"pending", "done", "failed", "undone"}]
Listed == [photo : Photo, path : [place : Quarantined, mount : Mount]]
Active == Steps \ {"idle", "next"}
Shapes ==
    /\ place \in [Photo -> Places] /\ mount \in [Proc -> Mount] /\ step \in [Proc -> Steps]
    /\ rows \in [Proc -> Seq(Entry)] /\ made \in Nat
    /\ found \in [Proc -> SUBSET Listed] /\ todo \in [Proc -> SUBSET Listed]
    /\ op = [p \in Proc |-> op[p]] /\ came = [f \in Photo |-> came[f]]
    /\ note = [id |-> note.id, text |-> note.text, disks |-> note.disks]
    /\ \A p \in Proc : /\ At(p, "move") \/ At(p, "close") => rows[p] # <<>>
                       /\ step[p] \in Active =>
                            op[p] = [kind |-> op[p].kind, photo |-> op[p].photo, id |-> op[p].id,
                                     disks |-> op[p].disks, from |-> op[p].from, to |-> op[p].to]

\* An object is a stranger's from its beginning, and torn only by a write of ours.
NoteInv ==
    /\ note.id \in 0 .. made /\ (note.id = 0 => note = NoNote)
    /\ note.text \in {"ours", "bare", "torn", "foreign"} \/ note.id = 0
    /\ \A l \in DOMAIN note.disks : note.disks[l] \in Mount
    /\ note.text = "torn" => "torn" \in past
    /\ note.text = "foreign" => "stranger" \in past
    /\ "lost" \in past => "torn" \in past

\* No label was dropped from the note, and nobody else's hands were on it.
Unspoilt == past \cap {"lost", "stranger"} = {}
\* What is written holds what was read: a writer is alone, and only adds.
AddsTo(disks) == \A l \in DOMAIN note.disks : l \in DOMAIN disks /\ disks[l] = note.disks[l]
WriterInv ==
    \A p \in Proc : At(p, "extend") \/ At(p, "write") =>
        /\ op[p].id \in 1 .. made
        /\ op[p].id = note.id => note.text # "foreign"
        /\ "stranger" \notin past => op[p].id = note.id
        /\ LabelOf[mount[p]] \in DOMAIN op[p].disks
        /\ op[p].disks[LabelOf[mount[p]]] = mount[p]
        /\ \A l \in DOMAIN op[p].disks : op[p].disks[l] \in Mount
        /\ At(p, "write") =>
             /\ "torn" \in past
             /\ Unspoilt => AddsTo(op[p].disks) /\ \A q \in Proc : At(q, "write") => q = p

\* Nothing leads to a place under a label but what has been there.
Reached(f, where) ==
    where \in {Home, Beside} \/ \E l \in Label : where = Under(l) /\ l \in DOMAIN came[f]
Invented(where) == \E l \in Label : where = Guessed(l)
WayOf(p) ==
    /\ \A x \in found[p] \cup todo[p] : Reached(x.photo, x.path.place)
    /\ \A i \in DOMAIN rows[p] : Reached(rows[p][i].photo, rows[p][i].from.place)
    /\ step[p] \in Active =>
         /\ op[p].kind \in {"quarantine", "adopt"} /\ op[p].photo \in Photo
         /\ op[p].from \in Path /\ op[p].to \in Path
         /\ Reached(op[p].photo, op[p].from.place)
         /\ op[p].to.place \in {Home, Beside, Under(LabelOf[mount[p]])}
              \/ Invented(op[p].to.place)
WayInv ==
    /\ \A f \in Photo : Invented(place[f]) \/ Reached(f, place[f])
    /\ \A p \in Proc : WayOf(p)

\* The note comes before the move, and what it said once it says.
Says(l, m) == l \in DOMAIN note.disks /\ note.disks[l] = m
Trusted == past \cap {"torn", "stranger"} = {}
Admitted(p) ==
    /\ At(p, "begin") \/ At(p, "move")
    /\ op[p].to.place = Under(LabelOf[mount[p]])
    => Says(LabelOf[mount[p]], mount[p])
KeptInv ==
    /\ Unspoilt => /\ \A f \in Photo : \A l \in DOMAIN came[f] : Says(l, came[f][l])
                   /\ \A p \in Proc : Admitted(p)
    /\ Trusted => /\ \A f \in Photo : ~Invented(place[f])
                  /\ \A p \in Proc : step[p] \in Active => ~Invented(op[p].to.place)

GatheredInv == Shapes /\ NoteInv /\ WriterInv /\ WayInv /\ KeptInv
=============================================================================

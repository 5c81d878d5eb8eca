---------------------- MODULE GatheredQuarantineProofs ----------------------
(***************************************************************************)
(* What the note of a gathered quarantine is good for, for any number of   *)
(* programs, photographs, mount points and faults: a file moved under a    *)
(* label keeps its way home, somebody else's note is never written, and an *)
(* orphan is never given an address nobody recorded.                       *)
(***************************************************************************)
EXTENDS GatheredQuarantine, TLAPS

LEMMA PlacesDiffer ==
    /\ Home # Beside
    /\ \A l : /\ Under(l) # Home /\ Under(l) # Beside /\ Under(l)[2] = l
              /\ Guessed(l) # Home /\ Guessed(l) # Beside
              /\ \A k : Under(l) # Guessed(k) /\ (Under(l) = Under(k) => l = k)
BY DEF Home, Beside, Under, Guessed

\* A label that stands for nothing yet.
LEMMA NothingSaid == DOMAIN <<>> = {}
OBVIOUS

LEMMA LabelsAreLabels == \A m \in Mount : LabelOf[m] \in Label
BY DEF Label

(* ------------------------------- the shapes ---------------------------- *)
\* What a program that is at step s has to be doing.
Doing(o) == o = [kind |-> o.kind, photo |-> o.photo, id |-> o.id, disks |-> o.disks,
                 from |-> o.from, to |-> o.to]

\* One program goes on.
LEMMA GoesOn ==
    ASSUME Shapes, NEW p \in Proc, NEW s \in Steps, Go(p, s)
    PROVE  /\ step' \in [Proc -> Steps] /\ step'[p] = s
           /\ \A q \in Proc : q # p => step'[q] = step[q]
BY DEF Shapes, Go
LEMMA DoesOther ==
    ASSUME Shapes, NEW p \in Proc, NEW o, op' = [op EXCEPT ![p] = o]
    PROVE  /\ op' = [q \in Proc |-> op'[q]] /\ op'[p] = o
           /\ \A q \in Proc : q # p => op'[q] = op[q]
BY DEF Shapes
LEMMA ItemOver ==
    ASSUME Shapes, NEW p \in Proc, Over(p)
    PROVE  /\ step' \in [Proc -> Steps] /\ step'[p] \in {"idle", "next"}
           /\ \A q \in Proc : q # p => step'[q] = step[q] /\ op'[q] = op[q]
           /\ op' = [q \in Proc |-> op'[q]]
<1>1. PICK s \in {"idle", "next"} : Go(p, s)
  BY DEF Over
<1>2. s \in Steps
  BY DEF Steps
<1>3. /\ step' \in [Proc -> Steps] /\ step'[p] = s
      /\ \A q \in Proc : q # p => step'[q] = step[q]
  BY <1>1, <1>2, GoesOn
<1>4. op' = [q \in Proc |-> op'[q]] /\ \A q \in Proc : q # p => op'[q] = op[q]
  BY DoesOther DEF Over
<1> QED  BY <1>3, <1>4

LEMMA OperatingShapes ==
    ASSUME GatheredInv, NEW p \in Proc,
           \/ \E f \in Photo, gather \in BOOLEAN : file_target(p, f, gather)
           \/ publish(p) \/ create(p) \/ extend(p) \/ written(p)
    PROVE  Shapes'
<1>0. Shapes
  BY DEF GatheredInv
<1>1. CASE \E f \in Photo, gather \in BOOLEAN : file_target(p, f, gather)
  <2>1. PICK f \in Photo, gather \in BOOLEAN : file_target(p, f, gather)
    BY <1>1
  <2> DEFINE o == [kind |-> "quarantine", photo |-> f, id |-> 0, disks |-> <<>>,
                   from |-> [place |-> Home, mount |-> mount[p]],
                   to |-> [place |-> IF gather THEN Under(LabelOf[mount[p]]) ELSE Beside,
                           mount |-> mount[p]]]
  <2>2. PICK s \in {"open", "begin"} : Go(p, s)
    BY <2>1 DEF file_target, Admission
  <2>3. op' = [op EXCEPT ![p] = o]
    BY <2>1 DEF file_target
  <2>4. UNCHANGED <<place, mount, rows, made, found, todo, came, note>>
    BY <2>1 DEF file_target, noted, Works
  <2>5. Doing(o)
    BY DEF Doing
  <2> HIDE DEF o
  <2>6. Doing(op'[p]) /\ op' = [q \in Proc |-> op'[q]] /\ \A q \in Proc : q # p => op'[q] = op[q]
    BY <1>0, <2>3, <2>5, DoesOther
  <2>7. s \in Steps
    BY DEF Steps
  <2>8. /\ step' \in [Proc -> Steps] /\ step'[p] = s
        /\ \A q \in Proc : q # p => step'[q] = step[q]
    BY <1>0, <2>2, <2>7, GoesOn
  <2> QED  BY <1>0, <2>4, <2>6, <2>8 DEF Shapes, At, Doing
<1>2. CASE publish(p)
  <2>1. UNCHANGED <<place, mount, rows, made, found, todo, came, note>> /\ step[p] = "open"
    BY <1>2 DEF publish, noted, Works, At
  <2>2. CASE Over(p)
    BY <1>0, <2>1, <2>2, ItemOver DEF Shapes, Active, At
  <2>3. CASE UNCHANGED op /\ \E s \in {"create", "begin"} : Go(p, s)
    <3>1. PICK s \in {"create", "begin"} : Go(p, s)
      BY <2>3
    <3>2. s \in Steps /\ step[p] \in Active
      BY <2>1 DEF Steps, Active
    <3>3. /\ step' \in [Proc -> Steps] /\ step'[p] = s
          /\ \A q \in Proc : q # p => step'[q] = step[q]
      BY <1>0, <3>1, <3>2, GoesOn
    <3> QED  BY <1>0, <2>1, <2>3, <3>2, <3>3 DEF Shapes, At
  <2>4. CASE Go(p, "extend") /\ op' = [op EXCEPT ![p].id = note.id,
                                                 ![p].disks = With(read, LabelOf[mount[p]], mount[p])]
    <3>1. Doing(op'[p]) /\ op' = [q \in Proc |-> op'[q]]
          /\ \A q \in Proc : q # p => op'[q] = op[q]
      BY <1>0, <2>1, <2>4 DEF Shapes, Steps, Active, Doing
    <3>2. "extend" \in Steps
      BY DEF Steps
    <3>3. /\ step' \in [Proc -> Steps] /\ step'[p] = "extend"
          /\ \A q \in Proc : q # p => step'[q] = step[q]
      BY <1>0, <2>4, <3>2, GoesOn
    <3> QED  BY <1>0, <2>1, <3>1, <3>3 DEF Shapes, At, Doing
  <2> QED  BY <1>2, <2>2, <2>3, <2>4 DEF publish
<1>3. CASE create(p) \/ extend(p)
  <2>1. /\ UNCHANGED <<place, mount, rows, found, todo, came>> /\ made' \in Nat
        /\ note' = [id |-> note'.id, text |-> note'.text, disks |-> note'.disks]
        /\ step[p] \in {"create", "extend"}
    BY <1>0, <1>3 DEF create, extend, Works, At, Shapes
  <2>2. CASE Over(p)
    BY <1>0, <2>1, <2>2, ItemOver DEF Shapes, Active, At
  <2>3. CASE UNCHANGED op /\ \E s \in {"begin", "write"} : Go(p, s)
    <3>1. PICK s \in {"begin", "write"} : Go(p, s)
      BY <2>3
    <3>2. s \in Steps /\ step[p] \in Active
      BY <2>1 DEF Steps, Active
    <3>3. /\ step' \in [Proc -> Steps] /\ step'[p] = s
          /\ \A q \in Proc : q # p => step'[q] = step[q]
      BY <1>0, <3>1, <3>2, GoesOn
    <3> QED  BY <1>0, <2>1, <2>3, <3>2, <3>3 DEF Shapes, At
  <2> QED  BY <1>3, <2>2, <2>3 DEF create, extend
<1>5. CASE written(p)
  <2>1. /\ UNCHANGED <<place, mount, rows, found, todo, came, made, op>> /\ Go(p, "begin")
        /\ note' = [id |-> note'.id, text |-> note'.text, disks |-> note'.disks]
        /\ step[p] = "write"
    BY <1>0, <1>5 DEF written, Works, At, Shapes
  <2> QED  BY <1>0, <2>1, GoesOn DEF Shapes, Steps, Active, At
<1> QED  BY <1>1, <1>2, <1>3, <1>5

\* A row is added to a journal, or one of its rows is closed.
LEMMA RowAdded ==
    ASSUME rows \in [Proc -> Seq(Entry)], NEW p \in Proc, NEW e \in Entry,
           rows' = [rows EXCEPT ![p] = Append(@, e)]
    PROVE  /\ rows' \in [Proc -> Seq(Entry)] /\ rows'[p] # <<>>
           /\ \A q \in Proc : q # p => rows'[q] = rows[q]
           /\ \A i \in DOMAIN rows'[p] : rows'[p][i] = e
                                          \/ (i \in DOMAIN rows[p] /\ rows'[p][i] = rows[p][i])
<1> DEFINE s == rows[p]
           t == Append(s, e)
<1>1. s \in Seq(Entry) /\ rows'[p] = t
  OBVIOUS
<1> HIDE DEF s
<1>2. /\ t \in Seq(Entry) /\ Len(s) \in Nat /\ Len(t) = Len(s) + 1
      /\ DOMAIN s = 1 .. Len(s) /\ DOMAIN t = 1 .. (Len(s) + 1)
      /\ t[Len(s) + 1] = e /\ \A i \in 1 .. Len(s) : t[i] = s[i]
  BY <1>1
<1> HIDE DEF t
<1>3. t # <<>>
  BY <1>2
<1>4. ASSUME NEW i \in DOMAIN t PROVE t[i] = e \/ (i \in DOMAIN s /\ t[i] = s[i])
  <2>1. i = Len(s) + 1 \/ i \in 1 .. Len(s)
    BY <1>2, <1>4
  <2> QED  BY <1>2, <2>1
<1>5. rows' \in [Proc -> Seq(Entry)]
  BY <1>2 DEF s, t
<1> QED  BY <1>1, <1>3, <1>4, <1>5 DEF s
LEMMA RowClosed ==
    ASSUME rows \in [Proc -> Seq(Entry)], NEW p \in Proc, NEW i \in DOMAIN rows[p],
           NEW status \in {"pending", "done", "failed", "undone"}, Closed(p, i, status)
    PROVE  /\ rows' \in [Proc -> Seq(Entry)] /\ rows'[p] # <<>>
           /\ \A q \in Proc : q # p => rows'[q] = rows[q]
           /\ \A j \in DOMAIN rows'[p] : /\ j \in DOMAIN rows[p]
                                          /\ rows'[p][j].photo = rows[p][j].photo
                                          /\ rows'[p][j].from = rows[p][j].from
<1> DEFINE e == [rows[p][i] EXCEPT !.status = status]
<1>1. rows[p] \in Seq(Entry) /\ rows[p][i] \in Entry /\ rows[p] # <<>>
  OBVIOUS
<1>2. e \in Entry /\ e.photo = rows[p][i].photo /\ e.from = rows[p][i].from
  BY <1>1 DEF Entry
<1>3. rows' = [rows EXCEPT ![p] = [rows[p] EXCEPT ![i] = e]]
  BY DEF Closed
<1> HIDE DEF e
<1>4. rows'[p] = [rows[p] EXCEPT ![i] = e] /\ \A q \in Proc : q # p => rows'[q] = rows[q]
  BY <1>3
<1>5. /\ [rows[p] EXCEPT ![i] = e] \in Seq(Entry)
      /\ DOMAIN [rows[p] EXCEPT ![i] = e] = DOMAIN rows[p]
      /\ Len([rows[p] EXCEPT ![i] = e]) = Len(rows[p])
      /\ \A j \in DOMAIN rows[p] :
            [rows[p] EXCEPT ![i] = e][j] = IF j = i THEN e ELSE rows[p][j]
  BY <1>1, <1>2
<1>6. rows' \in [Proc -> Seq(Entry)]
  BY <1>3, <1>5
<1>7. rows'[p] # <<>>
  BY <1>4, <1>5
<1> QED  BY <1>2, <1>4, <1>5, <1>6, <1>7

LEMMA MovingShapes ==
    ASSUME GatheredInv, NEW p \in Proc, journal_begin(p) \/ move_unit(p) \/ journal_close(p)
    PROVE  Shapes'
<1>0. Shapes
  BY DEF GatheredInv
<1>1. CASE journal_begin(p)
  <2>1. /\ UNCHANGED <<place, mount, found, todo, came, made, note, op>> /\ Go(p, "move")
        /\ rows' = [rows EXCEPT ![p] = Append(@, Row(p, "pending"))] /\ step[p] = "begin"
    BY <1>1 DEF journal_begin, noted, Works, At
  <2>2. Row(p, "pending") \in Entry
    BY <2>1 DEF GatheredInv, WayInv, WayOf, Row, Entry, Active, Steps
  <2>3. /\ rows' \in [Proc -> Seq(Entry)] /\ rows'[p] # <<>>
        /\ \A q \in Proc : q # p => rows'[q] = rows[q]
    BY <1>0, <2>1, <2>2, RowAdded DEF Shapes
  <2> QED  BY <1>0, <2>1, <2>3, GoesOn DEF Shapes, Steps, Active, At
<1>2. CASE move_unit(p)
  <2>1. UNCHANGED <<mount, found, todo, made, note>> /\ step[p] = "move" /\ rows[p] # <<>>
    BY <1>0, <1>2 DEF move_unit, noted, Works, At, Shapes
  <2>2. CASE /\ place' = [place EXCEPT ![op[p].photo] = op[p].to.place] /\ Go(p, "close")
             /\ UNCHANGED <<rows, op>>
             /\ \/ \E disks : came' = [came EXCEPT ![op[p].photo] = disks]
                \/ came' = came
    <3>1. op[p].to.place \in Places
      BY <2>1 DEF GatheredInv, WayInv, WayOf, Path, Active, Steps
    <3>2. place' \in [Photo -> Places] /\ came' = [f \in Photo |-> came'[f]]
      BY <1>0, <2>2, <3>1 DEF Shapes
    <3> QED  BY <1>0, <2>1, <2>2, <3>2, GoesOn DEF Shapes, Steps, Active, At
  <2>3. CASE Closed(p, Last(p), "failed") /\ Over(p) /\ UNCHANGED <<place, came>>
    <3>1. Last(p) \in DOMAIN rows[p]
      BY <1>0, <2>1 DEF Shapes, Last
    <3>2. rows' \in [Proc -> Seq(Entry)] /\ \A q \in Proc : q # p => rows'[q] = rows[q]
      BY <1>0, <2>3, <3>1, RowClosed DEF Shapes
    <3> QED  BY <1>0, <2>1, <2>3, <3>2, ItemOver DEF Shapes, Active, At
  <2> QED  BY <1>2, <2>2, <2>3 DEF move_unit
<1>3. CASE journal_close(p)
  <2>1. /\ UNCHANGED <<place, mount, todo, made, note, came>> /\ step[p] = "close"
        /\ rows[p] # <<>> /\ Closed(p, Last(p), "done") /\ Over(p)
        /\ \E gone : found' = [found EXCEPT ![p] = @ \ gone]
    <3>1. \E gone : found' = [found EXCEPT ![p] = @ \ gone]
      <4>1. CASE op[p].kind = "adopt"
        BY <1>3, <4>1 DEF journal_close
      <4>2. CASE op[p].kind # "adopt"
        <5>1. found' = [found EXCEPT ![p] = @ \ {}]
          BY <1>3, <4>2 DEF journal_close
        <5> QED  BY <5>1
      <4> QED  BY <4>1, <4>2
    <3> QED  BY <1>0, <1>3, <3>1 DEF journal_close, noted, Works, At, Shapes
  <2>2. found' \in [Proc -> SUBSET Listed]
    BY <1>0, <2>1 DEF Shapes
  <2>3. Last(p) \in DOMAIN rows[p]
    BY <1>0, <2>1 DEF Shapes, Last
  <2>4. rows' \in [Proc -> Seq(Entry)] /\ \A q \in Proc : q # p => rows'[q] = rows[q]
    BY <1>0, <2>1, <2>3, RowClosed DEF Shapes
  <2> QED  BY <1>0, <2>1, <2>2, <2>4, ItemOver DEF Shapes, Active, At
<1> QED  BY <1>1, <1>2, <1>3

\* Nothing is made of a listed file but what the list says of it.
LEMMA WayBack ==
    ASSUME Shapes, NoteInv, NEW x \in Listed, quarantine_origin_of(x.path) # <<>>
    PROVE  /\ quarantine_origin_of(x.path) \in Path
           /\ quarantine_origin_of(x.path).place = Home
              \/ (/\ Invented(quarantine_origin_of(x.path).place) /\ read = <<>>
                  /\ \E l \in Label : x.path.place = Under(l))
<1>1. x.path.place \in Quarantined /\ x.path.mount \in Mount
  BY DEF Listed
<1>2. CASE x.path.place = Beside
  <2>1. quarantine_origin_of(x.path) = [place |-> Home, mount |-> x.path.mount]
    BY <1>2 DEF quarantine_origin_of
  <2> QED  BY <1>1, <2>1 DEF Path, Places
<1>3. CASE x.path.place # Beside
  <2>1. PICK l \in Label : x.path.place = Under(l) /\ x.path.place[2] = l
    BY <1>1, <1>3, PlacesDiffer DEF Quarantined
  <2>2. CASE read = <<>>
    <3>1. quarantine_origin_of(x.path) = [place |-> Guessed(l), mount |-> x.path.mount]
      BY <1>3, <2>1, <2>2 DEF quarantine_origin_of
    <3> QED  BY <1>1, <2>1, <2>2, <3>1 DEF Path, Places, Invented
  <2>3. CASE read # <<>>
    <3>1. quarantine_origin_of(x.path) = origin(read, l)
      BY <1>3, <2>1, <2>3 DEF quarantine_origin_of
    <3>2. l \in DOMAIN read /\ origin(read, l) = [place |-> Home, mount |-> read[l]]
      BY <3>1 DEF origin
    <3>3. read[l] \in Mount
      BY <3>2, NothingSaid DEF read, NoteInv
    <3> QED  BY <3>1, <3>2, <3>3 DEF Path, Places
  <2> QED  BY <2>2, <2>3
<1> QED  BY <1>2, <1>3

LEMMA OrphanShapes ==
    ASSUME GatheredInv, NEW p \in Proc,
           \/ \E i \in DOMAIN rows[p] : undo(p, i)
           \/ set_quarantine_found(p) \/ start_adopt(p) \/ Ends(p)
           \/ \E x \in todo[p] : adopt_orphan(p, x)
           \/ \E x \in found[p] : abandon_orphan(p, x)
    PROVE  Shapes'
<1>0. Shapes /\ NoteInv
  BY DEF GatheredInv
<1>1. CASE \E i \in DOMAIN rows[p] : undo(p, i)
  <2>1. PICK i \in DOMAIN rows[p] : undo(p, i)
    BY <1>1
  <2>2. /\ UNCHANGED <<mount, made, note, found, todo, op, step, came>> /\ step[p] = "idle"
        /\ Closed(p, i, "undone")
        /\ \/ place' = [place EXCEPT ![rows[p][i].photo] = rows[p][i].from.place]
           \/ UNCHANGED place
    BY <2>1 DEF undo, noted, Works, At
  <2>6. rows[p] \in Seq(Entry) /\ rows[p][i] \in Entry
    BY <1>0 DEF Shapes
  <2>3. rows[p][i].from.place \in Places
    BY <2>6 DEF Entry, Path
  <2>4. place' \in [Photo -> Places]
    BY <1>0, <2>2, <2>3 DEF Shapes
  <2>5. rows' \in [Proc -> Seq(Entry)] /\ \A q \in Proc : q # p => rows'[q] = rows[q]
    BY <1>0, <2>2, RowClosed DEF Shapes
  <2> QED  BY <1>0, <2>2, <2>4, <2>5 DEF Shapes, At
<1>2. CASE set_quarantine_found(p)
  <2>1. UNCHANGED <<place, mount, rows, made, note, todo, op, step, came>>
    BY <1>2 DEF set_quarantine_found, noted, Works
  <2>2. \A f \in Photo : place[f] \in Quarantined =>
            [photo |-> f, path |-> [place |-> place[f], mount |-> mount[p]]] \in Listed
    BY <1>0 DEF Shapes, Listed
  <2>3. found' \in [Proc -> SUBSET Listed]
    BY <1>0, <1>2, <2>2 DEF Shapes, set_quarantine_found
  <2> QED  BY <1>0, <2>1, <2>3 DEF Shapes, At
<1>3. CASE start_adopt(p)
  <2>1. /\ UNCHANGED <<place, mount, rows, made, note, found, op, came>> /\ Go(p, "next")
        /\ todo' = [todo EXCEPT ![p] = adoptable(p)]
    BY <1>3 DEF start_adopt, noted, Works
  <2>2. adoptable(p) \in SUBSET Listed
    BY <1>0 DEF Shapes, adoptable, orphans
  <2>3. todo' \in [Proc -> SUBSET Listed]
    BY <1>0, <2>1, <2>2 DEF Shapes
  <2> QED  BY <1>0, <2>1, <2>3, GoesOn DEF Shapes, Steps, Active, At
<1>4. CASE Ends(p)
  <2>1. /\ UNCHANGED <<place, mount, rows, made, note, found, op, came>> /\ Go(p, "idle")
        /\ todo' = [todo EXCEPT ![p] = {}]
    BY <1>4 DEF Ends, noted, Works
  <2>2. todo' \in [Proc -> SUBSET Listed]
    BY <1>0, <2>1 DEF Shapes
  <2> QED  BY <1>0, <2>1, <2>2, GoesOn DEF Shapes, Steps, Active, At
<1>5. CASE \E x \in todo[p] : adopt_orphan(p, x)
  <2>1. PICK x \in todo[p] : adopt_orphan(p, x)
    BY <1>5
  <2>2. /\ UNCHANGED <<place, mount, rows, made, note, found, came>>
        /\ todo' = [todo EXCEPT ![p] = @ \ {x}]
    BY <2>1 DEF adopt_orphan, noted, Works
  <2>3. todo' \in [Proc -> SUBSET Listed]
    BY <1>0, <2>2 DEF Shapes
  <2>4. CASE UNCHANGED op /\ \E s \in {"idle", "next"} : Go(p, s)
    <3>1. PICK s \in {"idle", "next"} : Go(p, s)
      BY <2>4
    <3>2. s \in Steps /\ s \notin Active
      BY DEF Steps, Active
    <3>3. /\ step' \in [Proc -> Steps] /\ step'[p] = s
          /\ \A q \in Proc : q # p => step'[q] = step[q]
      BY <1>0, <3>1, <3>2, GoesOn
    <3> QED  BY <1>0, <2>2, <2>3, <2>4, <3>2, <3>3 DEF Shapes, At
  <2>5. CASE /\ Go(p, "begin")
             /\ op' = [op EXCEPT ![p] = [kind |-> "adopt", photo |-> x.photo, id |-> 0,
                                         disks |-> <<>>, from |-> x.path,
                                         to |-> quarantine_origin_of(x.path)]]
    <3> DEFINE o == [kind |-> "adopt", photo |-> x.photo, id |-> 0, disks |-> <<>>,
                     from |-> x.path, to |-> quarantine_origin_of(x.path)]
    <3>1. Doing(o) /\ op' = [op EXCEPT ![p] = o]
      BY <2>5 DEF Doing
    <3> HIDE DEF o
    <3>2. Doing(op'[p]) /\ op' = [q \in Proc |-> op'[q]]
          /\ \A q \in Proc : q # p => op'[q] = op[q]
      BY <1>0, <3>1, DoesOther
    <3> QED  BY <1>0, <2>2, <2>3, <2>5, <3>2, GoesOn DEF Shapes, Steps, At, Doing
  <2> QED  BY <2>1, <2>4, <2>5 DEF adopt_orphan
<1>6. CASE \E x \in found[p] : abandon_orphan(p, x)
  <2>1. PICK x \in found[p] : abandon_orphan(p, x)
    BY <1>6
  <2> DEFINE e == [photo |-> x.photo, kind |-> "abandon", from |-> x.path, to |-> <<>>,
                   status |-> "failed"]
  <2>2. /\ UNCHANGED <<place, mount, made, note, found, todo, op, step, came>>
        /\ rows' = [rows EXCEPT ![p] = Append(@, e)] /\ step[p] = "idle"
    BY <2>1 DEF abandon_orphan, noted, Works, At
  <2>3. x \in Listed
    BY <1>0 DEF Shapes
  <2>4. x.photo \in Photo /\ x.path \in Path
    BY <2>3 DEF Listed, Path, Quarantined, Places
  <2>5. e \in Entry
    BY <2>4 DEF Entry
  <2> HIDE DEF e
  <2>6. rows' \in [Proc -> Seq(Entry)] /\ \A q \in Proc : q # p => rows'[q] = rows[q]
    BY <1>0, <2>2, <2>5, RowAdded DEF Shapes
  <2> QED  BY <1>0, <2>2, <2>6 DEF Shapes, At
<1> QED  BY <1>1, <1>2, <1>3, <1>4, <1>5, <1>6

LEMMA FaultShapes ==
    ASSUME GatheredInv,
           \/ \E p \in Proc : Kill(p) \/ LoseDatabase(p) \/ \E m \in Mount : Remount(p, m)
           \/ \E there \in BOOLEAN : OtherHands(there)
           \/ UNCHANGED vars
    PROVE  Shapes'
<1>0. Shapes
  BY DEF GatheredInv
<1>1. CASE \E p \in Proc : Kill(p)
  <2>1. PICK p \in Proc : Kill(p)
    BY <1>1
  <2>2. /\ UNCHANGED <<place, mount, rows, made, note, found, came>> /\ Go(p, "idle")
        /\ op' = [op EXCEPT ![p] = NoOp] /\ todo' = [todo EXCEPT ![p] = {}]
    BY <2>1 DEF Kill
  <2>3. todo' \in [Proc -> SUBSET Listed]
    BY <1>0, <2>2 DEF Shapes
  <2>4. op' = [q \in Proc |-> op'[q]] /\ \A q \in Proc : q # p => op'[q] = op[q]
    BY <1>0, <2>2, DoesOther
  <2> QED  BY <1>0, <2>2, <2>3, <2>4, GoesOn DEF Shapes, Steps, Active, At
<1>2. CASE \E p \in Proc : LoseDatabase(p)
  <2>1. PICK p \in Proc : LoseDatabase(p)
    BY <1>2
  <2>2. /\ UNCHANGED <<place, mount, made, note, todo, op, step, came>> /\ step[p] = "idle"
        /\ rows' = [rows EXCEPT ![p] = <<>>] /\ found' = [found EXCEPT ![p] = {}]
    BY <2>1 DEF LoseDatabase, noted, At
  <2>3. found' \in [Proc -> SUBSET Listed]
    BY <1>0, <2>2 DEF Shapes
  <2>4. rows' \in [Proc -> Seq(Entry)] /\ \A q \in Proc : q # p => rows'[q] = rows[q]
    BY <1>0, <2>2 DEF Shapes
  <2> QED  BY <1>0, <2>2, <2>3, <2>4 DEF Shapes, At
<1>3. CASE \E p \in Proc, m \in Mount : Remount(p, m)
  <2>1. /\ UNCHANGED <<place, rows, made, note, found, todo, op, step, came>>
        /\ mount' \in [Proc -> Mount]
    BY <1>0, <1>3 DEF Remount, noted, Shapes
  <2> QED  BY <1>0, <2>1 DEF Shapes, At
<1>4. CASE \E there \in BOOLEAN : OtherHands(there)
  <2>1. /\ UNCHANGED <<place, mount, rows, found, todo, op, step, came>> /\ made' = made + 1
        /\ note' = [id |-> note'.id, text |-> note'.text, disks |-> note'.disks]
    BY <1>4 DEF OtherHands, NoNote
  <2> QED  BY <1>0, <2>1 DEF Shapes, At
<1>5. CASE UNCHANGED vars
  BY <1>0, <1>5 DEF vars, Shapes, At
<1> QED  BY <1>1, <1>2, <1>3, <1>4, <1>5

(* ------------------------------- the note ------------------------------ *)
\* A step that leaves the note alone and lets nobody take it up.
Aloof(p) ==
    /\ UNCHANGED <<note, made, past>>
    /\ \A q \in Proc : q # p => step'[q] = step[q] /\ op'[q] = op[q] /\ mount'[q] = mount[q]
    /\ step'[p] \notin {"extend", "write"}

LEMMA AloofKeeps ==
    ASSUME NoteInv, WriterInv, NEW p \in Proc, Aloof(p)
    PROVE  NoteInv' /\ WriterInv'
<1>1. NoteInv'
  BY DEF NoteInv, Aloof, NoNote
<1>2. ASSUME NEW q \in Proc, At(q, "extend")' \/ At(q, "write")'
      PROVE  /\ q # p /\ step'[q] = step[q] /\ op'[q] = op[q] /\ mount'[q] = mount[q]
             /\ At(q, "extend") \/ At(q, "write")
  BY <1>2 DEF Aloof, At
<1>3. \A q \in Proc : At(q, "write")' => At(q, "write")
  BY <1>2 DEF Aloof, At
<1>4. WriterInv'
  BY <1>2, <1>3 DEF WriterInv, Aloof, At, Unspoilt, AddsTo
<1> QED  BY <1>1, <1>4

\* Which steps those are.
LEMMA MostAreAloof ==
    ASSUME Shapes, NEW p \in Proc,
           \/ \E f \in Photo, gather \in BOOLEAN : file_target(p, f, gather)
           \/ publish(p) /\ step'[p] # "extend"
           \/ create(p) /\ note.id # 0
           \/ extend(p) /\ ~StillThere(p)
           \/ journal_begin(p) \/ move_unit(p) \/ journal_close(p)
           \/ \E i \in DOMAIN rows[p] : undo(p, i)
           \/ set_quarantine_found(p) \/ start_adopt(p) \/ Ends(p)
           \/ \E x \in todo[p] : adopt_orphan(p, x)
           \/ \E x \in found[p] : abandon_orphan(p, x)
           \/ Kill(p) \/ LoseDatabase(p)
           \/ \E m \in Mount : Remount(p, m)
    PROVE  Aloof(p)
<1>1. CASE \/ \E f \in Photo, gather \in BOOLEAN : file_target(p, f, gather)
           \/ journal_begin(p)
           \/ \E x \in todo[p] : adopt_orphan(p, x)
  <2>1. PICK s \in {"open", "begin", "move", "idle", "next"} : Go(p, s)
    BY <1>1 DEF file_target, Admission, journal_begin, adopt_orphan
  <2>2. UNCHANGED <<note, made, past, mount>> /\ \A q \in Proc : q # p => op'[q] = op[q]
    BY <1>1 DEF file_target, noted, journal_begin, adopt_orphan, Works, Shapes
  <2> QED  BY <2>1, <2>2, GoesOn DEF Aloof, Steps
<1>2. CASE publish(p) /\ step'[p] # "extend"
  <2>1. UNCHANGED <<note, made, past, mount>>
    BY <1>2 DEF publish, noted, Works
  <2>2. CASE Over(p)
    BY <2>1, <2>2, ItemOver DEF Aloof
  <2>3. CASE UNCHANGED op /\ \E s \in {"create", "begin"} : Go(p, s)
    BY <2>1, <2>3, GoesOn DEF Aloof, Steps
  <2>4. CASE Go(p, "extend")
    BY <1>2, <2>4, GoesOn DEF Steps
  <2> QED  BY <1>2, <2>2, <2>3, <2>4 DEF publish
<1>3. CASE (create(p) /\ note.id # 0) \/ (extend(p) /\ ~StillThere(p))
  <2>1. Over(p) /\ UNCHANGED <<note, made, past, mount>>
    BY <1>3 DEF create, extend, Works
  <2> QED  BY <2>1, ItemOver DEF Aloof
<1>4. CASE move_unit(p) \/ journal_close(p)
  <2>1. UNCHANGED <<note, made, past, mount>>
    BY <1>4 DEF move_unit, journal_close, noted, Works
  <2>2. CASE Over(p)
    BY <2>1, <2>2, ItemOver DEF Aloof
  <2>3. CASE Go(p, "close") /\ UNCHANGED op
    BY <2>1, <2>3, GoesOn DEF Aloof, Steps
  <2> QED  BY <1>4, <2>2, <2>3 DEF move_unit, journal_close
<1>5. CASE \/ \E i \in DOMAIN rows[p] : undo(p, i)
           \/ set_quarantine_found(p)
           \/ \E x \in found[p] : abandon_orphan(p, x)
           \/ LoseDatabase(p)
           \/ \E m \in Mount : Remount(p, m)
  <2>1. UNCHANGED <<note, made, past, step, op>> /\ step[p] = "idle"
        /\ \A q \in Proc : q # p => mount'[q] = mount[q]
    BY <1>5 DEF undo, set_quarantine_found, abandon_orphan, LoseDatabase, Remount, noted, At,
                Works, Shapes
  <2> QED  BY <2>1 DEF Aloof
<1>6. CASE start_adopt(p) \/ Ends(p) \/ Kill(p)
  <2>1. UNCHANGED <<note, made, past, mount>> /\ \A q \in Proc : q # p => op'[q] = op[q]
    BY <1>6 DEF start_adopt, Ends, Kill, noted, Works, Shapes
  <2>2. PICK s \in {"idle", "next"} : Go(p, s)
    BY <1>6 DEF start_adopt, Ends, Kill
  <2> QED  BY <2>1, <2>2, GoesOn DEF Aloof, Steps
<1> QED  BY <1>1, <1>2, <1>3, <1>4, <1>5, <1>6

\* Nothing that is written was read from another's file, or drops what was read.
LEMMA NoteSteps ==
    ASSUME GatheredInv,
           \/ \E p \in Proc : \/ publish(p) /\ step'[p] = "extend"
                              \/ create(p) /\ note.id = 0
                              \/ extend(p) /\ StillThere(p)
                              \/ written(p)
           \/ \E there \in BOOLEAN : OtherHands(there)
           \/ UNCHANGED vars
    PROVE  NoteInv' /\ WriterInv'
<1> USE DEF At
<1>0. Shapes /\ NoteInv /\ WriterInv
  BY DEF GatheredInv
<1>1. CASE \E p \in Proc : publish(p) /\ step'[p] = "extend"
  <2>1. PICK p \in Proc : publish(p) /\ step'[p] = "extend"
    BY <1>1
  <2> DEFINE l == LabelOf[mount[p]]
  <2>2. ~Over(p)
    BY <1>0, <2>1, ItemOver
  <2>3. ~Go(p, "create") /\ ~Go(p, "begin")
    BY <1>0, <2>1, GoesOn DEF Steps
  <2>4. /\ UNCHANGED <<note, made, past, mount>> /\ step[p] = "open" /\ Go(p, "extend")
        /\ note.id # 0 /\ Admits(p) /\ ~(Parsed /\ l \in DOMAIN note.disks)
        /\ op' = [op EXCEPT ![p].id = note.id, ![p].disks = With(read, l, mount[p])]
    BY <2>1, <2>2, <2>3 DEF publish, noted, Works
  <2>5. Parsed /\ l \notin DOMAIN note.disks /\ read = note.disks
    BY <2>4 DEF Admits, read
  <2>6. /\ op'[p].id = note.id /\ op'[p].disks = With(note.disks, l, mount[p])
        /\ \A q \in Proc : q # p => op'[q] = op[q]
    <3>1. Doing(op[p]) /\ op = [q \in Proc |-> op[q]]
      BY <1>0, <2>4 DEF Shapes, Active, Steps, Doing
    <3> HIDE DEF l
    <3>2. op' = [op EXCEPT ![p].id = note.id, ![p].disks = With(note.disks, l, mount[p])]
      BY <2>4, <2>5
    <3> QED  BY <3>1, <3>2 DEF Doing
  <2>7. \A q \in Proc : q # p => step'[q] = step[q]
    BY <1>0, <2>4, GoesOn DEF Steps
  <2>8. NoteInv'
    BY <1>0, <2>4 DEF NoteInv, NoNote
  <2>9. ASSUME NEW q \in Proc, q # p, At(q, "extend")' \/ At(q, "write")'
        PROVE  /\ step'[q] = step[q] /\ op'[q] = op[q] /\ mount'[q] = mount[q]
               /\ At(q, "extend") \/ At(q, "write")
    BY <2>4, <2>6, <2>7, <2>9
  <2>10. \A q \in Proc : At(q, "write")' => At(q, "write")
    BY <2>1, <2>7
  <2>11. /\ op'[p].id \in 1 .. made /\ note.text # "foreign"
         /\ l \in DOMAIN op'[p].disks /\ op'[p].disks[l] = mount[p]
         /\ \A k \in DOMAIN op'[p].disks : op'[p].disks[k] \in Mount
    <3>1. mount[p] \in Mount /\ note.id \in 1 .. made /\ note.text # "foreign"
      BY <1>0, <2>4, <2>5 DEF Shapes, NoteInv, Parsed
    <3> HIDE DEF l
    <3>2. /\ DOMAIN op'[p].disks = DOMAIN note.disks \cup {l} /\ op'[p].disks[l] = mount[p]
          /\ \A k \in DOMAIN note.disks : k # l => op'[p].disks[k] = note.disks[k]
      <4>1. op'[p].disks = With(note.disks, l, mount[p])
        BY <2>6
      <4> QED  BY <4>1 DEF With
    <3>3. \A k \in DOMAIN note.disks : note.disks[k] \in Mount
      BY <1>0 DEF NoteInv
    <3> QED  BY <2>6, <3>1, <3>2, <3>3
  <2>12. WriterInv'
    <3>1. ASSUME NEW q \in Proc, q # p, At(q, "extend")' \/ At(q, "write")'
          PROVE  /\ op'[q].id \in 1 .. made'
                 /\ op'[q].id = note'.id => note'.text # "foreign"
                 /\ "stranger" \notin past' => op'[q].id = note'.id
                 /\ LabelOf[mount'[q]] \in DOMAIN op'[q].disks
                 /\ op'[q].disks[LabelOf[mount'[q]]] = mount'[q]
                 /\ \A k \in DOMAIN op'[q].disks : op'[q].disks[k] \in Mount
                 /\ At(q, "write")' =>
                      /\ "torn" \in past'
                      /\ Unspoilt' => AddsTo(op[q].disks)'
                                      /\ \A r \in Proc : At(r, "write")' => r = q
      <4>1. /\ At(q, "extend") \/ At(q, "write")
            /\ step'[q] = step[q] /\ op'[q] = op[q] /\ mount'[q] = mount[q]
            /\ UNCHANGED <<note, made, past>>
        BY <2>4, <2>9, <3>1
      <4>2. At(q, "write")' => At(q, "write") /\ AddsTo(op[q].disks)' = AddsTo(op[q].disks)
        BY <4>1 DEF AddsTo
      <4> QED  BY <1>0, <2>10, <4>1, <4>2 DEF WriterInv, Unspoilt
    <3> QED  BY <2>1, <2>4, <2>6, <2>11, <3>1 DEF WriterInv
  <2> QED  BY <2>8, <2>12
<1>2. CASE \E p \in Proc : create(p) /\ note.id = 0
  <2>1. PICK p \in Proc : create(p) /\ note.id = 0
    BY <1>2
  <2>2. /\ UNCHANGED <<past, mount, op>> /\ made' = made + 1 /\ Go(p, "begin")
        /\ note' = [id |-> made + 1, text |-> "ours",
                    disks |-> With(<<>>, LabelOf[mount[p]], mount[p])]
    BY <2>1 DEF create, Works
  <2>3. NoteInv'
    <3>1. mount[p] \in Mount /\ made \in Nat
      BY <1>0 DEF Shapes
    <3>2. note'.disks = With(<<>>, LabelOf[mount[p]], mount[p])
      BY <2>2
    <3>3. /\ DOMAIN note'.disks = {LabelOf[mount[p]]}
          /\ note'.disks[LabelOf[mount[p]]] = mount[p]
      BY <3>2, NothingSaid DEF With
    <3>4. \A k \in DOMAIN note'.disks : note'.disks[k] \in Mount
      BY <3>1, <3>3
    <3> QED  BY <1>0, <2>2, <3>1, <3>4 DEF NoteInv
  <2>4. ASSUME NEW q \in Proc, At(q, "extend")' \/ At(q, "write")'
        PROVE  At(q, "extend") \/ At(q, "write")
    BY <1>0, <2>2, <2>4, GoesOn DEF Steps
  <2>5. ASSUME NEW q \in Proc, At(q, "extend")' \/ At(q, "write")'
        PROVE  /\ op'[q].id \in 1 .. made' /\ op'[q].id # note'.id /\ "stranger" \in past
    BY <1>0, <2>1, <2>2, <2>4, <2>5 DEF WriterInv, Shapes
  <2>6. \A q \in Proc : At(q, "write")' => At(q, "write")
    BY <1>0, <2>2, GoesOn DEF Steps
  <2>7. WriterInv'
    BY <1>0, <2>2, <2>4, <2>5, <2>6 DEF WriterInv, Unspoilt
  <2> QED  BY <2>3, <2>7
<1>3. CASE \E p \in Proc : extend(p) /\ StillThere(p)
  <2>1. PICK p \in Proc : extend(p) /\ StillThere(p)
    BY <1>3
  <2> DEFINE l == LabelOf[mount[p]]
  <2>2. /\ UNCHANGED <<made, mount, op>> /\ Go(p, "write") /\ step[p] = "extend"
        /\ note' = [note EXCEPT !.text = "torn"] /\ note.id = op[p].id
        /\ past' = past \cup {"torn"}
                   \cup (IF Writers = {} /\ note.disks = Without(op[p].disks, l)
                         THEN {} ELSE {"lost"})
    BY <2>1 DEF extend, Works, StillThere
  <2>3. note'.id = note.id /\ note'.text = "torn" /\ note'.disks = note.disks
    BY <1>0, <2>2 DEF Shapes
  <2>4. op[p].id \in 1 .. made
    BY <1>0, <2>2 DEF WriterInv
  <2>5. NoteInv'
    BY <1>0, <2>2, <2>3, <2>4 DEF NoteInv, Shapes
  <2>6. "torn" \in past' /\ past \subseteq past' /\ ("stranger" \in past' => "stranger" \in past)
    BY <2>2
  <2>7. Unspoilt' => /\ Unspoilt /\ "stranger" \notin past /\ Writers = {}
                     /\ note.disks = Without(op[p].disks, l)
    BY <2>2 DEF Unspoilt
  <2>8. Unspoilt' => AddsTo(op[p].disks)
    <3> HIDE DEF l
    <3>1. note.disks = Without(op[p].disks, l) =>
             \A k \in DOMAIN note.disks : k \in DOMAIN op[p].disks
                                          /\ note.disks[k] = op[p].disks[k]
      BY DEF Without
    <3> QED  BY <2>7, <3>1 DEF AddsTo
  <2>9. \A q \in Proc : q # p => step'[q] = step[q]
    BY <1>0, <2>2, GoesOn DEF Steps
  <2>10. Unspoilt' => \A q \in Proc : At(q, "write")' => q = p
    <3>1. \A q \in Proc : At(q, "write") /\ "stranger" \notin past => q \in Writers
      BY <1>0 DEF WriterInv, Writers
    <3> QED  BY <2>7, <2>9, <3>1
  <2>11. \A q \in Proc : At(q, "extend")' \/ At(q, "write")'
                         => At(q, "extend") \/ At(q, "write")
    BY <2>2, <2>9
  <2>12. \A q \in Proc : At(q, "write")' /\ Unspoilt' => AddsTo(op[q].disks)'
    BY <2>2, <2>3, <2>8, <2>10 DEF AddsTo
  <2>13. WriterInv'
    BY <1>0, <2>2, <2>3, <2>6, <2>10, <2>11, <2>12 DEF WriterInv
  <2> QED  BY <2>5, <2>13
<1>4. CASE \E p \in Proc : written(p)
  <2>1. PICK p \in Proc : written(p)
    BY <1>4
  <2>2. /\ UNCHANGED <<made, mount, op, past>> /\ Go(p, "begin") /\ step[p] = "write"
        /\ \/ UNCHANGED note /\ note.id # op[p].id
           \/ note.id = op[p].id /\ \E text \in {"ours", "torn"} :
                 note' = [note EXCEPT !.text = text, !.disks = op[p].disks]
    BY <2>1 DEF written, Works
  <2>3. /\ note'.id = note.id
        /\ (note' = note /\ note.id # op[p].id)
           \/ (/\ note'.text \in {"ours", "torn"} /\ note'.disks = op[p].disks
               /\ note.id = op[p].id)
    BY <1>0, <2>2 DEF Shapes
  <2>4. /\ "torn" \in past /\ \A k \in DOMAIN op[p].disks : op[p].disks[k] \in Mount
        /\ op[p].id \in 1 .. made
    BY <1>0, <2>2 DEF WriterInv
  <2>5. NoteInv'
    BY <1>0, <2>2, <2>3, <2>4 DEF NoteInv, NoNote
  <2>6. step'[p] = "begin" /\ \A q \in Proc : q # p => step'[q] = step[q]
    BY <1>0, <2>2, GoesOn DEF Steps
  <2>7. \A q \in Proc : At(q, "extend")' \/ At(q, "write")'
                         => (At(q, "extend") \/ At(q, "write")) /\ q # p
    BY <2>6
  <2>8. Unspoilt' => \A q \in Proc : ~At(q, "write")'
    BY <1>0, <2>2, <2>6 DEF WriterInv, Unspoilt
  <2>9. \A q \in Proc : At(q, "write")' => At(q, "write")
    BY <2>6
  <2>10. note'.text = "foreign" => note.text = "foreign"
    BY <2>3
  <2>11. WriterInv'
    BY <1>0, <2>2, <2>3, <2>7, <2>8, <2>9, <2>10 DEF WriterInv
  <2> QED  BY <2>5, <2>11
<1>5. CASE \E there \in BOOLEAN : OtherHands(there)
  <2>1. PICK there \in BOOLEAN : OtherHands(there)
    BY <1>5
  <2>2. /\ UNCHANGED <<mount, op, step>> /\ made' = made + 1 /\ past' = past \cup {"stranger"}
        /\ note' = IF there THEN [id |-> made + 1, text |-> "foreign", disks |-> <<>>] ELSE NoNote
    BY <2>1 DEF OtherHands
  <2>3. NoteInv'
    BY <1>0, <2>2, NothingSaid DEF NoteInv, NoNote, Shapes
  <2>4. ~Unspoilt' /\ "stranger" \in past' /\ ("torn" \in past => "torn" \in past')
    BY <2>2 DEF Unspoilt
  <2>5. \A q \in Proc : op[q].id \in 1 .. made => op[q].id \in 1 .. made' /\ op[q].id # note'.id
    BY <1>0, <2>2 DEF Shapes, NoNote
  <2>6. WriterInv'
    BY <1>0, <2>2, <2>4, <2>5 DEF WriterInv
  <2> QED  BY <2>3, <2>6
<1>6. CASE UNCHANGED vars
  BY <1>0, <1>6 DEF vars, NoteInv, WriterInv, NoNote, Unspoilt, AddsTo
<1> QED  BY <1>1, <1>2, <1>3, <1>4, <1>5, <1>6

(* ----------------------------- where files go -------------------------- *)
\* What one program does changes no other's journal, list or move.
Alone(p) ==
    \A q \in Proc : q # p => /\ step'[q] = step[q] /\ op'[q] = op[q] /\ mount'[q] = mount[q]
                             /\ rows'[q] = rows[q] /\ found'[q] = found[q] /\ todo'[q] = todo[q]
\* What has been moved under a label has been.
Remembers == \A f \in Photo : \A l \in DOMAIN came[f] : l \in DOMAIN came'[f]

LEMMA OthersWays ==
    ASSUME Shapes, WayInv, NEW p \in Proc, Alone(p), Remembers
    PROVE  \A q \in Proc : q # p => WayOf(q)'
<1> SUFFICES ASSUME NEW q \in Proc, q # p
             PROVE  WayOf(q)'
  OBVIOUS
<1>1. /\ step'[q] = step[q] /\ op'[q] = op[q] /\ mount'[q] = mount[q]
      /\ rows'[q] = rows[q] /\ found'[q] = found[q] /\ todo'[q] = todo[q] /\ WayOf(q)
  BY DEF Alone, WayInv
<1>2. \A x \in found[q] \cup todo[q] : x.photo \in Photo
  BY DEF Shapes, Listed
<1>3. \A i \in DOMAIN rows[q] : rows[q][i].photo \in Photo
  <2>1. rows[q] \in Seq(Entry)
    BY DEF Shapes
  <2>2. \A i \in DOMAIN rows[q] : rows[q][i] \in Entry
    BY <2>1
  <2> QED  BY <2>2 DEF Entry
<1>4. \A x \in found[q] \cup todo[q] : Reached(x.photo, x.path.place)'
  BY <1>1, <1>2 DEF WayOf, Reached, Remembers
<1>5. \A i \in DOMAIN rows[q] : Reached(rows[q][i].photo, rows[q][i].from.place)'
  BY <1>1, <1>3 DEF WayOf, Reached, Remembers
<1> QED  BY <1>1, <1>4, <1>5 DEF WayOf, Reached, Remembers, Invented

LEMMA ActsAlone ==
    ASSUME Shapes, NEW p \in Proc,
           \/ \E f \in Photo, gather \in BOOLEAN : file_target(p, f, gather)
           \/ publish(p) \/ create(p) \/ extend(p) \/ written(p)
           \/ journal_begin(p) \/ move_unit(p) \/ journal_close(p)
           \/ \E i \in DOMAIN rows[p] : undo(p, i)
           \/ set_quarantine_found(p) \/ start_adopt(p) \/ Ends(p)
           \/ \E x \in todo[p] : adopt_orphan(p, x)
           \/ \E x \in found[p] : abandon_orphan(p, x)
           \/ Kill(p) \/ LoseDatabase(p)
           \/ \E m \in Mount : Remount(p, m)
    PROVE  Alone(p)
<1> USE DEF Shapes, Go, Works
<1>1. CASE \/ \E f \in Photo, gather \in BOOLEAN : file_target(p, f, gather)
           \/ publish(p) \/ create(p) \/ extend(p) \/ written(p)
  <2>1. UNCHANGED <<mount, rows, found, todo>>
    BY <1>1 DEF file_target, publish, create, extend, written
  <2>2. \A q \in Proc : q # p => step'[q] = step[q]
    BY <1>1 DEF file_target, publish, create, extend, written, Over
  <2>3. \A q \in Proc : q # p => op'[q] = op[q]
    BY <1>1 DEF file_target, publish, create, extend, written, Over
  <2> QED  BY <2>1, <2>2, <2>3 DEF Alone
<1>2. CASE journal_begin(p) \/ move_unit(p) \/ journal_close(p)
  <2>1. UNCHANGED <<mount, todo>> /\ \A q \in Proc : q # p => found'[q] = found[q]
    BY <1>2 DEF journal_begin, move_unit, journal_close
  <2>2. \A q \in Proc : q # p => step'[q] = step[q] /\ op'[q] = op[q]
    BY <1>2 DEF journal_begin, move_unit, journal_close, Over
  <2>3. \A q \in Proc : q # p => rows'[q] = rows[q]
    BY <1>2 DEF journal_begin, move_unit, journal_close, Closed
  <2> QED  BY <2>1, <2>2, <2>3 DEF Alone
<1>3. CASE \/ \E i \in DOMAIN rows[p] : undo(p, i)
           \/ \E x \in found[p] : abandon_orphan(p, x)
           \/ set_quarantine_found(p) \/ LoseDatabase(p)
           \/ \E m \in Mount : Remount(p, m)
  <2>1. UNCHANGED <<todo, step, op>> /\ \A q \in Proc : q # p => found'[q] = found[q]
    BY <1>3 DEF undo, abandon_orphan, set_quarantine_found, LoseDatabase, Remount
  <2>2. \A q \in Proc : q # p => mount'[q] = mount[q]
    BY <1>3 DEF undo, abandon_orphan, set_quarantine_found, LoseDatabase, Remount
  <2>3. \A q \in Proc : q # p => rows'[q] = rows[q]
    BY <1>3 DEF undo, abandon_orphan, set_quarantine_found, LoseDatabase, Remount, Closed
  <2> QED  BY <2>1, <2>2, <2>3 DEF Alone
<1>4. CASE \/ start_adopt(p) \/ Ends(p) \/ Kill(p)
           \/ \E x \in todo[p] : adopt_orphan(p, x)
  <2>1. UNCHANGED <<mount, rows, found>> /\ \A q \in Proc : q # p => todo'[q] = todo[q]
    BY <1>4 DEF start_adopt, Ends, Kill, adopt_orphan
  <2>2. \A q \in Proc : q # p => step'[q] = step[q] /\ op'[q] = op[q]
    BY <1>4 DEF start_adopt, Ends, Kill, adopt_orphan
  <2> QED  BY <2>1, <2>2 DEF Alone
<1> QED  BY <1>1, <1>2, <1>3, <1>4

\* A program whose list, journal and move are what they were, or less.
SameMove(p) ==
    /\ step[p] \in Active /\ mount'[p] = mount[p]
    /\ op'[p].kind = op[p].kind /\ op'[p].photo = op[p].photo
    /\ op'[p].from = op[p].from /\ op'[p].to = op[p].to
SameRows(p) ==
    \A i \in DOMAIN rows'[p] : /\ i \in DOMAIN rows[p]
                               /\ rows'[p][i].photo = rows[p][i].photo
                               /\ rows'[p][i].from = rows[p][i].from
LEMMA RowsAreEntries ==
    ASSUME Shapes, NEW p \in Proc, NEW i \in DOMAIN rows[p]
    PROVE  rows[p][i] \in Entry /\ rows[p][i].photo \in Photo /\ rows[p][i].from \in Path
<1>1. rows[p] \in Seq(Entry)
  BY DEF Shapes
<1>2. rows[p][i] \in Entry
  BY <1>1
<1> QED  BY <1>2 DEF Entry

LEMMA ListKeepsWay ==
    ASSUME Shapes, WayInv, NEW p \in Proc, Remembers,
           \A x \in found'[p] \cup todo'[p] : x \in found[p] \cup todo[p]
    PROVE  \A x \in found'[p] \cup todo'[p] : Reached(x.photo, x.path.place)'
<1>1. \A x \in found[p] \cup todo[p] : x.photo \in Photo /\ Reached(x.photo, x.path.place)
  BY DEF Shapes, Listed, WayInv, WayOf
<1> QED  BY <1>1 DEF Reached, Remembers
LEMMA RowsKeepWay ==
    ASSUME Shapes, WayInv, NEW p \in Proc, Remembers, SameRows(p)
    PROVE  \A i \in DOMAIN rows'[p] : Reached(rows[p][i].photo, rows[p][i].from.place)'
<1> SUFFICES ASSUME NEW i \in DOMAIN rows'[p]
             PROVE  Reached(rows[p][i].photo, rows[p][i].from.place)'
  OBVIOUS
<1>1. /\ i \in DOMAIN rows[p] /\ rows'[p][i].photo = rows[p][i].photo
      /\ rows'[p][i].from = rows[p][i].from
  BY DEF SameRows
<1>2. rows[p][i].photo \in Photo /\ Reached(rows[p][i].photo, rows[p][i].from.place)
  BY <1>1, RowsAreEntries DEF WayInv, WayOf
<1> QED  BY <1>1, <1>2 DEF Reached, Remembers
LEMMA MoveKeepsWay ==
    ASSUME Shapes, WayInv, NEW p \in Proc, Remembers, SameMove(p)
    PROVE  /\ op'[p].kind \in {"quarantine", "adopt"} /\ op'[p].photo \in Photo
           /\ op'[p].from \in Path /\ op'[p].to \in Path
           /\ Reached(op[p].photo, op[p].from.place)'
           /\ op'[p].to.place \in {Home, Beside, Under(LabelOf[mount'[p]])}
                \/ Invented(op'[p].to.place)
BY DEF WayInv, WayOf, SameMove, Reached, Remembers
LEMMA OwnWay ==
    ASSUME Shapes, WayInv, NEW p \in Proc, Remembers, SameRows(p),
           \A x \in found'[p] \cup todo'[p] : x \in found[p] \cup todo[p],
           step'[p] \notin Active \/ SameMove(p)
    PROVE  WayOf(p)'
BY ListKeepsWay, RowsKeepWay, MoveKeepsWay DEF WayOf, Invented

LEMMA OperatingWays ==
    ASSUME GatheredInv, NEW p \in Proc,
           \/ \E f \in Photo, gather \in BOOLEAN : file_target(p, f, gather)
           \/ publish(p) \/ create(p) \/ extend(p) \/ written(p)
    PROVE  WayInv'
<1>0. Shapes /\ WayInv
  BY DEF GatheredInv
<1>1. /\ UNCHANGED <<place, mount, came, rows, found, todo>> /\ Remembers /\ SameRows(p)
      /\ \A x \in found'[p] \cup todo'[p] : x \in found[p] \cup todo[p]
  BY DEF file_target, publish, create, extend, written, Works, Remembers, SameRows
<1>2. \A q \in Proc : q # p => WayOf(q)'
  BY <1>0, <1>1, ActsAlone, OthersWays
<1>3. \A f \in Photo : (Invented(place[f]) \/ Reached(f, place[f]))'
  BY <1>0, <1>1 DEF WayInv, Reached, Invented
<1>4. CASE \E f \in Photo, gather \in BOOLEAN : file_target(p, f, gather)
  <2>1. PICK f \in Photo, gather \in BOOLEAN : file_target(p, f, gather)
    BY <1>4
  <2> DEFINE from == [place |-> Home, mount |-> mount[p]]
             to == [place |-> IF gather THEN Under(LabelOf[mount[p]]) ELSE Beside,
                    mount |-> mount[p]]
             o == [kind |-> "quarantine", photo |-> f, id |-> 0, disks |-> <<>>,
                   from |-> from, to |-> to]
  <2>2. op' = [op EXCEPT ![p] = o]
    BY <2>1 DEF file_target
  <2>3. mount[p] \in Mount /\ LabelOf[mount[p]] \in Label
    BY <1>0, LabelsAreLabels DEF Shapes
  <2>4. from \in Path /\ to \in Path /\ from.place = Home
        /\ to.place \in {Beside, Under(LabelOf[mount[p]])}
    BY <2>3 DEF Path, Places
  <2>5. o.kind = "quarantine" /\ o.photo = f /\ o.from = from /\ o.to = to
    OBVIOUS
  <2> HIDE DEF from, to, o
  <2>6. op'[p] = o
    BY <1>0, <2>2, DoesOther
  <2>7. /\ op'[p].kind \in {"quarantine", "adopt"} /\ op'[p].photo \in Photo
        /\ op'[p].from \in Path /\ op'[p].to \in Path
        /\ Reached(op[p].photo, op[p].from.place)'
        /\ op'[p].to.place \in {Home, Beside, Under(LabelOf[mount'[p]])}
    BY <1>1, <2>4, <2>5, <2>6 DEF Reached
  <2>8. WayOf(p)'
    BY <1>0, <1>1, <2>7, ListKeepsWay, RowsKeepWay DEF WayOf
  <2> QED  BY <1>2, <1>3, <2>8 DEF WayInv
<1>5. CASE publish(p) \/ create(p) \/ extend(p) \/ written(p)
  <2>1. step[p] \in Active
    BY <1>5 DEF publish, create, extend, written, At, Active, Steps
  <2>2. step'[p] \notin Active \/ SameMove(p)
    <3>1. CASE Over(p)
      BY <1>0, <3>1, ItemOver DEF Active
    <3>2. CASE UNCHANGED op
      BY <1>1, <2>1, <3>2 DEF SameMove
    <3>3. CASE \E id, disks : op' = [op EXCEPT ![p].id = id, ![p].disks = disks]
      <4>1. Doing(op[p]) /\ op = [q \in Proc |-> op[q]]
        BY <1>0, <2>1 DEF Shapes, Doing
      <4>2. /\ op'[p].kind = op[p].kind /\ op'[p].photo = op[p].photo
            /\ op'[p].from = op[p].from /\ op'[p].to = op[p].to
        BY <3>3, <4>1 DEF Doing
      <4> QED  BY <1>1, <2>1, <4>2 DEF SameMove
    <3> QED  BY <1>5, <3>1, <3>2, <3>3 DEF publish, create, extend, written
  <2>3. WayOf(p)'
    BY <1>0, <1>1, <2>2, OwnWay
  <2> QED  BY <1>2, <1>3, <2>3 DEF WayInv
<1> QED  BY <1>4, <1>5

LEMMA MovingWays ==
    ASSUME GatheredInv, NEW p \in Proc, journal_begin(p) \/ move_unit(p) \/ journal_close(p)
    PROVE  WayInv'
<1>0. Shapes /\ WayInv /\ step[p] \in Active /\ UNCHANGED <<mount, todo>> /\ WayOf(p)
  BY DEF GatheredInv, journal_begin, move_unit, journal_close, At, Active, Steps, Works, WayInv
<1>1. CASE journal_begin(p)
  <2>1. /\ UNCHANGED <<place, came, found, op>>
        /\ rows' = [rows EXCEPT ![p] = Append(@, Row(p, "pending"))]
    BY <1>1 DEF journal_begin, noted, Works
  <2>2. /\ Row(p, "pending") \in Entry /\ Row(p, "pending").photo = op[p].photo
        /\ Row(p, "pending").from = op[p].from
    BY <1>0 DEF WayOf, Row, Entry
  <2>3. \A i \in DOMAIN rows'[p] :
           rows'[p][i] = Row(p, "pending") \/ (i \in DOMAIN rows[p] /\ rows'[p][i] = rows[p][i])
    BY <1>0, <2>1, <2>2, RowAdded DEF Shapes
  <2>4. \A i \in DOMAIN rows'[p] : Reached(rows[p][i].photo, rows[p][i].from.place)'
    BY <1>0, <2>1, <2>2, <2>3 DEF WayOf, Reached
  <2>5. Remembers
    BY <2>1 DEF Remembers
  <2>6. WayOf(p)'
    BY <1>0, <2>1, <2>4 DEF WayOf, Reached, Invented
  <2>7. \A q \in Proc : q # p => WayOf(q)'
    BY <1>0, <1>1, <2>5, ActsAlone, OthersWays
  <2>8. \A f \in Photo : (Invented(place[f]) \/ Reached(f, place[f]))'
    BY <1>0, <2>1 DEF WayInv, Reached, Invented
  <2> QED  BY <2>6, <2>7, <2>8 DEF WayInv
<1>2. CASE move_unit(p)
  <2>0. PICK f, l : f = op[p].photo /\ l = LabelOf[mount[p]]
    OBVIOUS
  <2>1. UNCHANGED <<found, todo>> /\ step[p] = "move" /\ rows[p] # <<>>
        /\ \A x \in found'[p] \cup todo'[p] : x \in found[p] \cup todo[p]
    BY <1>0, <1>2 DEF move_unit, noted, Works, At, Shapes
  <2>2. CASE Closed(p, Last(p), "failed") /\ Over(p) /\ UNCHANGED <<place, came>>
    <3>1. Last(p) \in DOMAIN rows[p]
      BY <1>0, <2>1 DEF Shapes, Last
    <3>2. SameRows(p) /\ Remembers
      BY <1>0, <2>2, <3>1, RowClosed DEF Shapes, SameRows, Remembers
    <3>3. step'[p] \notin Active
      BY <1>0, <2>2, ItemOver DEF Active
    <3>4. WayOf(p)'
      BY <1>0, <2>1, <3>2, <3>3, OwnWay
    <3>5. \A q \in Proc : q # p => WayOf(q)'
      BY <1>0, <1>2, <3>2, ActsAlone, OthersWays
    <3>6. \A g \in Photo : (Invented(place[g]) \/ Reached(g, place[g]))'
      BY <1>0, <2>2 DEF WayInv, Reached, Invented
    <3> QED  BY <3>4, <3>5, <3>6 DEF WayInv
  <2>3. CASE /\ place' = [place EXCEPT ![f] = op[p].to.place] /\ Go(p, "close")
             /\ UNCHANGED <<rows, op>>
             /\ came' = IF op[p].to.place \in {Under(k) : k \in Label}
                        THEN [came EXCEPT ![f] = With(@, l, mount[p])] ELSE came
    <3>0. f \in Photo /\ l \in Label /\ op[p].to.place \in Places
      BY <1>0, <2>0, LabelsAreLabels DEF WayOf, Path, Shapes
    <3>1. SameRows(p) /\ SameMove(p)
      BY <1>0, <2>3 DEF SameRows, SameMove
    <3>2. ASSUME op[p].to.place \in {Under(k) : k \in Label}
          PROVE  Remembers /\ (Invented(place[f]) \/ Reached(f, place[f]))'
      <4>1. op[p].to.place = Under(l)
        BY <1>0, <2>0, <3>2, PlacesDiffer DEF WayOf, Invented
      <4>2. came' = [came EXCEPT ![f] = With(came[f], l, mount[p])]
            /\ came = [g \in Photo |-> came[g]]
        BY <1>0, <2>3, <3>2 DEF Shapes
      <4>3. came'[f] = With(came[f], l, mount[p]) /\ \A g \in Photo : g # f => came'[g] = came[g]
        BY <3>0, <4>2
      <4>4. DOMAIN came'[f] = DOMAIN came[f] \cup {l}
        BY <4>3 DEF With
      <4>5. Remembers
        BY <4>3, <4>4 DEF Remembers
      <4>6. place'[f] = Under(l)
        BY <1>0, <2>3, <3>0, <4>1 DEF Shapes
      <4>7. Reached(f, place[f])'
        BY <3>0, <4>4, <4>6 DEF Reached
      <4> QED  BY <4>5, <4>7
    <3>3. ASSUME op[p].to.place \notin {Under(k) : k \in Label}
          PROVE  Remembers /\ (Invented(place[f]) \/ Reached(f, place[f]))'
      <4>1. came' = came
        BY <2>3, <3>3
      <4>2. op[p].to.place \in {Home, Beside} \/ Invented(op[p].to.place)
        BY <1>0, <2>0, <3>0, <3>3 DEF WayOf
      <4>3. place'[f] = op[p].to.place
        BY <1>0, <2>3, <3>0 DEF Shapes
      <4>4. op[p].to.place \in {Home, Beside} => Reached(f, place[f])'
        BY <4>3 DEF Reached
      <4>5. Invented(op[p].to.place) => Invented(place[f])'
        BY <4>3 DEF Invented
      <4> QED  BY <4>1, <4>2, <4>4, <4>5 DEF Remembers
    <3>4. Remembers /\ (Invented(place[f]) \/ Reached(f, place[f]))'
      BY <3>2, <3>3
    <3>5. ASSUME NEW g \in Photo, g # f PROVE (Invented(place[g]) \/ Reached(g, place[g]))'
      <4>1. place'[g] = place[g]
        BY <1>0, <2>3, <3>5 DEF Shapes
      <4> QED  BY <1>0, <3>4, <4>1 DEF WayInv, Reached, Invented, Remembers
    <3>6. WayOf(p)'
      BY <1>0, <2>1, <3>1, <3>4, OwnWay
    <3>7. \A q \in Proc : q # p => WayOf(q)'
      BY <1>0, <1>2, <3>4, ActsAlone, OthersWays
    <3>8. \A g \in Photo : (Invented(place[g]) \/ Reached(g, place[g]))'
      BY <3>4, <3>5
    <3> QED  BY <3>6, <3>7, <3>8 DEF WayInv
  <2> QED  BY <1>2, <2>0, <2>2, <2>3 DEF move_unit
<1>3. CASE journal_close(p)
  <2>1. /\ UNCHANGED <<place, came>> /\ rows[p] # <<>> /\ Closed(p, Last(p), "done") /\ Over(p)
    BY <1>0, <1>3 DEF journal_close, noted, Works, At, Shapes
  <2>2. found'[p] \subseteq found[p]
    BY <1>0, <1>3 DEF journal_close, Shapes
  <2>3. Last(p) \in DOMAIN rows[p]
    BY <1>0, <2>1 DEF Shapes, Last
  <2>4. SameRows(p) /\ Remembers
    BY <1>0, <2>1, <2>3, RowClosed DEF Shapes, SameRows, Remembers
  <2>5. step'[p] \notin Active
    BY <1>0, <2>1, ItemOver DEF Active
  <2>6. WayOf(p)'
    BY <1>0, <2>2, <2>4, <2>5, OwnWay
  <2>7. \A q \in Proc : q # p => WayOf(q)'
    BY <1>0, <1>3, <2>4, ActsAlone, OthersWays
  <2>8. \A g \in Photo : (Invented(place[g]) \/ Reached(g, place[g]))'
    BY <1>0, <2>1 DEF WayInv, Reached, Invented
  <2> QED  BY <2>6, <2>7, <2>8 DEF WayInv
<1> QED  BY <1>1, <1>2, <1>3

LEMMA OrphanWays ==
    ASSUME GatheredInv, NEW p \in Proc,
           \/ \E i \in DOMAIN rows[p] : undo(p, i)
           \/ set_quarantine_found(p) \/ start_adopt(p) \/ Ends(p)
           \/ \E x \in todo[p] : adopt_orphan(p, x)
           \/ \E x \in found[p] : abandon_orphan(p, x)
    PROVE  WayInv'
<1>0. Shapes /\ WayInv /\ WayOf(p) /\ NoteInv
  BY DEF GatheredInv, WayInv
<1>1. UNCHANGED came /\ Remembers /\ UNCHANGED mount
  BY DEF undo, set_quarantine_found, start_adopt, Ends, adopt_orphan, abandon_orphan, Remembers,
         Works
<1>2. \A q \in Proc : q # p => WayOf(q)'
  BY <1>0, <1>1, ActsAlone, OthersWays
<1>3. UNCHANGED place => \A f \in Photo : (Invented(place[f]) \/ Reached(f, place[f]))'
  BY <1>0, <1>1 DEF WayInv, Reached, Invented
<1>4. CASE \E i \in DOMAIN rows[p] : undo(p, i)
  <2>1. PICK i \in DOMAIN rows[p] : undo(p, i)
    BY <1>4
  <2>2. PICK g, w : g = rows[p][i].photo /\ w = rows[p][i].from.place
    OBVIOUS
  <2>3. /\ UNCHANGED <<found, todo, op, step>> /\ step[p] = "idle" /\ Closed(p, i, "undone")
        /\ place' = [place EXCEPT ![g] = w] \/ UNCHANGED place
    BY <2>1, <2>2 DEF undo, Works, At
  <2>4. SameRows(p)
    BY <1>0, <2>3, RowClosed DEF Shapes, SameRows
  <2>5. WayOf(p)'
    BY <1>0, <1>1, <2>3, <2>4, OwnWay DEF Active
  <2>6. g \in Photo /\ Reached(g, w)
    BY <1>0, <2>2, RowsAreEntries DEF WayOf
  <2>7. ASSUME place' = [place EXCEPT ![g] = w], NEW f \in Photo
        PROVE  (Invented(place[f]) \/ Reached(f, place[f]))'
    <3>1. place'[f] = IF f = g THEN w ELSE place[f]
      BY <1>0, <2>7 DEF Shapes
    <3>2. CASE f = g
      <4>1. place'[f] = w /\ Reached(f, w)
        BY <2>6, <3>1, <3>2
      <4> QED  BY <1>1, <4>1 DEF Reached
    <3>3. CASE f # g
      <4>1. place'[f] = place[f] /\ (Invented(place[f]) \/ Reached(f, place[f]))
        BY <1>0, <3>1, <3>3 DEF WayInv
      <4> QED  BY <1>1, <4>1 DEF Reached, Invented
    <3> QED  BY <3>2, <3>3
  <2> QED  BY <1>2, <1>3, <2>3, <2>5, <2>7 DEF WayInv
<1>5. CASE set_quarantine_found(p)
  <2>1. UNCHANGED <<place, rows, todo, op, step>> /\ step[p] = "idle"
        /\ found' = [found EXCEPT ![p] =
             {[photo |-> f, path |-> [place |-> place[f], mount |-> mount[p]]] :
                 f \in {g \in Photo : place[g] \in Quarantined}}]
    BY <1>5 DEF set_quarantine_found, Works, At
  <2>2. ASSUME NEW x \in found'[p] PROVE Reached(x.photo, x.path.place)'
    <3>1. PICK f \in Photo : /\ place[f] \in Quarantined
                             /\ x = [photo |-> f, path |-> [place |-> place[f], mount |-> mount[p]]]
      BY <1>0, <2>1, <2>2 DEF Shapes
    <3>2. ~Invented(place[f])
      BY <3>1, PlacesDiffer DEF Quarantined, Invented
    <3>3. Reached(f, place[f]) /\ x.photo = f /\ x.path.place = place[f]
      BY <1>0, <3>1, <3>2 DEF WayInv
    <3> QED  BY <1>1, <3>3 DEF Reached
  <2>3. \A x \in todo'[p] : Reached(x.photo, x.path.place)'
    BY <1>0, <1>1, <2>1 DEF WayOf, Reached
  <2>4. SameRows(p)
    BY <2>1 DEF SameRows
  <2>5. \A i \in DOMAIN rows'[p] : Reached(rows[p][i].photo, rows[p][i].from.place)'
    BY <1>0, <1>1, <2>4, RowsKeepWay
  <2>6. WayOf(p)'
    BY <2>1, <2>2, <2>3, <2>5 DEF WayOf, Active
  <2> QED  BY <1>2, <1>3, <2>1, <2>6 DEF WayInv
<1>6. CASE start_adopt(p) \/ Ends(p)
  <2>1. /\ UNCHANGED <<place, rows, found>> /\ \E s \in {"idle", "next"} : Go(p, s)
        /\ todo'[p] \subseteq found[p]
    BY <1>0, <1>6 DEF start_adopt, Ends, Works, adoptable, orphans, Shapes
  <2>2. SameRows(p) /\ step'[p] \notin Active
    BY <1>0, <2>1, GoesOn DEF SameRows, Active, Steps
  <2>3. WayOf(p)'
    BY <1>0, <1>1, <2>1, <2>2, OwnWay
  <2> QED  BY <1>2, <1>3, <2>1, <2>3 DEF WayInv
<1>7. CASE \E x \in todo[p] : adopt_orphan(p, x)
  <2>1. PICK x \in todo[p] : adopt_orphan(p, x)
    BY <1>7
  <2>2. /\ UNCHANGED <<place, rows, found>> /\ todo' = [todo EXCEPT ![p] = @ \ {x}]
    BY <2>1 DEF adopt_orphan, Works
  <2>3. todo'[p] \subseteq todo[p] /\ SameRows(p) /\ x \in Listed
    BY <1>0, <2>2 DEF Shapes, SameRows
  <2>4. CASE \E s \in {"idle", "next"} : Go(p, s)
    <3>1. step'[p] \notin Active
      BY <1>0, <2>4, GoesOn DEF Active, Steps
    <3>2. WayOf(p)'
      BY <1>0, <1>1, <2>2, <2>3, <3>1, OwnWay
    <3> QED  BY <1>2, <1>3, <2>2, <3>2 DEF WayInv
  <2>5. CASE /\ quarantine_origin_of(x.path) # <<>>
             /\ op' = [op EXCEPT ![p] = [kind |-> "adopt", photo |-> x.photo, id |-> 0,
                                         disks |-> <<>>, from |-> x.path,
                                         to |-> quarantine_origin_of(x.path)]]
    <3>1. PICK to : to = quarantine_origin_of(x.path)
      OBVIOUS
    <3>2. to \in Path /\ (to.place = Home \/ Invented(to.place))
      BY <1>0, <2>3, <2>5, <3>1, WayBack
    <3>3. op'[p] = [kind |-> "adopt", photo |-> x.photo, id |-> 0, disks |-> <<>>,
                    from |-> x.path, to |-> to]
      BY <1>0, <2>5, <3>1 DEF Shapes
    <3>4. x.photo \in Photo /\ x.path \in Path /\ Reached(x.photo, x.path.place)
      BY <1>0, <2>3 DEF Listed, Path, Places, Quarantined, WayOf
    <3>5. /\ op'[p].kind \in {"quarantine", "adopt"} /\ op'[p].photo \in Photo
          /\ op'[p].from \in Path /\ op'[p].to \in Path
          /\ Reached(op[p].photo, op[p].from.place)'
          /\ op'[p].to.place = Home \/ Invented(op'[p].to.place)
      BY <1>1, <3>2, <3>3, <3>4 DEF Reached
    <3>6. WayOf(p)'
      BY <1>0, <1>1, <2>2, <2>3, <3>5, ListKeepsWay, RowsKeepWay DEF WayOf, Invented
    <3> QED  BY <1>2, <1>3, <2>2, <3>6 DEF WayInv
  <2> QED  BY <2>1, <2>4, <2>5 DEF adopt_orphan
<1>8. CASE \E x \in found[p] : abandon_orphan(p, x)
  <2>1. PICK x \in found[p] : abandon_orphan(p, x)
    BY <1>8
  <2>2. PICK e : e = [photo |-> x.photo, kind |-> "abandon", from |-> x.path, to |-> <<>>,
                      status |-> "failed"]
    OBVIOUS
  <2>3. /\ UNCHANGED <<place, found, todo, op, step>> /\ step[p] = "idle"
        /\ rows' = [rows EXCEPT ![p] = Append(@, e)]
    BY <2>1, <2>2 DEF abandon_orphan, Works, At
  <2>4. x \in Listed /\ Reached(x.photo, x.path.place)
    BY <1>0 DEF Shapes, WayOf
  <2>5. e \in Entry /\ e.photo = x.photo /\ e.from = x.path
    BY <2>2, <2>4 DEF Listed, Entry, Path, Places, Quarantined
  <2>6. \A i \in DOMAIN rows'[p] :
           rows'[p][i] = e \/ (i \in DOMAIN rows[p] /\ rows'[p][i] = rows[p][i])
    BY <1>0, <2>3, <2>5, RowAdded DEF Shapes
  <2>7. \A i \in DOMAIN rows'[p] : Reached(rows[p][i].photo, rows[p][i].from.place)'
    BY <1>0, <1>1, <2>4, <2>5, <2>6 DEF WayOf, Reached
  <2>8. WayOf(p)'
    BY <1>0, <1>1, <2>3, <2>7 DEF WayOf, Active, Reached
  <2> QED  BY <1>2, <1>3, <2>3, <2>8 DEF WayInv
<1> QED  BY <1>4, <1>5, <1>6, <1>7, <1>8

LEMMA FaultWays ==
    ASSUME GatheredInv,
           \/ \E p \in Proc : Kill(p) \/ LoseDatabase(p) \/ \E m \in Mount : Remount(p, m)
           \/ \E there \in BOOLEAN : OtherHands(there)
           \/ UNCHANGED vars
    PROVE  WayInv'
<1>0. Shapes /\ WayInv
  BY DEF GatheredInv
<1>1. UNCHANGED <<place, came>> /\ Remembers
  BY DEF Kill, LoseDatabase, Remount, OtherHands, vars, Remembers
<1>2. \A f \in Photo : (Invented(place[f]) \/ Reached(f, place[f]))'
  BY <1>0, <1>1 DEF WayInv, Reached, Invented
<1>3. CASE \E p \in Proc : Kill(p) \/ LoseDatabase(p) \/ \E m \in Mount : Remount(p, m)
  <2>1. PICK p \in Proc : Kill(p) \/ LoseDatabase(p) \/ \E m \in Mount : Remount(p, m)
    BY <1>3
  <2>2. step'[p] \notin Active
    <3>1. CASE Kill(p)
      BY <1>0, <3>1, GoesOn DEF Kill, Active, Steps
    <3>2. CASE LoseDatabase(p) \/ \E m \in Mount : Remount(p, m)
      BY <3>2 DEF LoseDatabase, Remount, At, Active
    <3> QED  BY <2>1, <3>1, <3>2
  <2>3. SameRows(p)
    BY <1>0, <2>1 DEF Kill, LoseDatabase, Remount, SameRows, Shapes
  <2>4. \A x \in found'[p] \cup todo'[p] : x \in found[p] \cup todo[p]
    BY <1>0, <2>1 DEF Kill, LoseDatabase, Remount, Shapes
  <2>5. WayOf(p)'
    BY <1>0, <1>1, <2>2, <2>3, <2>4, OwnWay
  <2>6. \A q \in Proc : q # p => WayOf(q)'
    BY <1>0, <1>1, <2>1, ActsAlone, OthersWays
  <2> QED  BY <1>2, <2>5, <2>6 DEF WayInv
<1>4. CASE (\E there \in BOOLEAN : OtherHands(there)) \/ UNCHANGED vars
  <2>1. UNCHANGED <<mount, rows, found, todo, op, step>>
    BY <1>4 DEF OtherHands, vars
  <2> QED  BY <1>0, <1>1, <1>2, <2>1 DEF WayInv, WayOf, Reached, Invented
<1> QED  BY <1>3, <1>4

(* --------------------------- what the note says ------------------------ *)
LEMMA PastStays ==
    ASSUME [Next]_vars
    PROVE  /\ past \subseteq past' /\ (Unspoilt' => Unspoilt) /\ (Trusted' => Trusted)
<1>1. past \subseteq past'
  <2>1. ASSUME NEW p \in Proc, create(p) \/ extend(p) \/ written(p)
        PROVE  past \subseteq past'
    BY <2>1 DEF create, extend, written
  <2>2. ASSUME NEW p \in Proc,
               \/ \E f \in Photo, gather \in BOOLEAN : file_target(p, f, gather)
               \/ publish(p) \/ journal_begin(p) \/ move_unit(p) \/ journal_close(p)
               \/ \E i \in DOMAIN rows[p] : undo(p, i)
               \/ set_quarantine_found(p) \/ start_adopt(p) \/ Ends(p)
               \/ \E x \in todo[p] : adopt_orphan(p, x)
               \/ \E x \in found[p] : abandon_orphan(p, x)
               \/ Kill(p) \/ LoseDatabase(p)
               \/ \E m \in Mount : Remount(p, m)
        PROVE  past' = past
    BY <2>2 DEF file_target, publish, journal_begin, move_unit, journal_close, undo,
                set_quarantine_found, start_adopt, Ends, adopt_orphan, abandon_orphan, Kill,
                LoseDatabase, Remount
  <2>3. ASSUME \E there \in BOOLEAN : OtherHands(there) PROVE past \subseteq past'
    BY <2>3 DEF OtherHands
  <2>4. ASSUME UNCHANGED vars PROVE past' = past
    BY <2>4 DEF vars
  <2> QED  BY <2>1, <2>2, <2>3, <2>4 DEF Next
<1> QED  BY <1>1 DEF Unspoilt, Trusted

\* What the note says stays said, as long as no label was lost and no stranger came.
LEMMA SaysStays ==
    ASSUME GatheredInv, [Next]_vars, Unspoilt'
    PROVE  \A l, m : Says(l, m) => Says(l, m)'
<1>0. Unspoilt /\ NoteInv /\ WriterInv /\ Shapes
  BY PastStays DEF GatheredInv
<1>1. CASE UNCHANGED note
  BY <1>1 DEF Says
<1>2. CASE \E p \in Proc : create(p) /\ note.id = 0
  BY <1>0, <1>2, NothingSaid DEF Says, NoteInv, NoNote
<1>3. CASE \E p \in Proc : extend(p) /\ StillThere(p)
  <2>1. note'.disks = note.disks
    BY <1>0, <1>3 DEF extend, Shapes
  <2> QED  BY <2>1 DEF Says
<1>4. CASE \E p \in Proc : written(p)
  <2>1. PICK p \in Proc : written(p)
    BY <1>4
  <2>2. AddsTo(op[p].disks) /\ op[p].id = note.id
    BY <1>0, <2>1 DEF WriterInv, written, At, Unspoilt
  <2>3. note'.disks = op[p].disks
    BY <1>0, <2>1, <2>2 DEF written, Shapes
  <2> QED  BY <2>2, <2>3 DEF AddsTo, Says
<1>5. CASE \E there \in BOOLEAN : OtherHands(there)
  BY <1>5 DEF OtherHands, Unspoilt
<1>6. ASSUME NEW p \in Proc, Aloof(p) PROVE UNCHANGED note
  BY <1>6 DEF Aloof
<1>7. ASSUME NEW p \in Proc, publish(p) PROVE UNCHANGED note
  BY <1>7 DEF publish, noted
<1> QED  BY <1>0, <1>1, <1>2, <1>3, <1>4, <1>5, <1>6, <1>7, MostAreAloof DEF Next, vars

LEMMA StillKept ==
    ASSUME GatheredInv, [Next]_vars, UNCHANGED <<place, came>>
    PROVE  /\ Unspoilt' => \A f \in Photo : \A l \in DOMAIN came'[f] : Says(l, came[f][l])'
           /\ Trusted' => \A f \in Photo : ~Invented(place[f])'
<1>1. /\ Unspoilt' => \A f \in Photo : \A l \in DOMAIN came[f] : Says(l, came[f][l])
      /\ Trusted' => \A f \in Photo : ~Invented(place[f])
  BY PastStays DEF GatheredInv, KeptInv
<1> QED  BY <1>1, SaysStays DEF Says, Invented

\* What holds of the move of one program.
MoveKept(q) ==
    /\ Unspoilt => Admitted(q)
    /\ Trusted /\ step[q] \in Active => ~Invented(op[q].to.place)
LEMMA OthersKept ==
    ASSUME GatheredInv, [Next]_vars, NEW p \in Proc, Alone(p)
    PROVE  \A q \in Proc : q # p => MoveKept(q)'
<1> SUFFICES ASSUME NEW q \in Proc, q # p
             PROVE  MoveKept(q)'
  OBVIOUS
<1>1. step'[q] = step[q] /\ op'[q] = op[q] /\ mount'[q] = mount[q]
  BY DEF Alone
<1>2. (Unspoilt' => Admitted(q)) /\ (Trusted' /\ step[q] \in Active => ~Invented(op[q].to.place))
  BY PastStays DEF GatheredInv, KeptInv
<1>3. Unspoilt' => Admitted(q)'
  BY <1>1, <1>2, SaysStays DEF Admitted, At, Says
<1> QED  BY <1>1, <1>2, <1>3 DEF MoveKept, Invented

\* A program at rest, or on with a move it had, owes the note nothing new.
LEMMA OwnKept ==
    ASSUME GatheredInv, [Next]_vars, NEW p \in Proc,
           \/ step'[p] \notin Active
           \/ SameMove(p) /\ step'[p] \notin {"begin", "move"}
           \/ SameMove(p) /\ step[p] = "begin" /\ step'[p] = "move"
    PROVE  MoveKept(p)'
<1>1. CASE step'[p] \notin Active
  BY <1>1 DEF MoveKept, Admitted, At, Active, Steps
<1>2. CASE SameMove(p) /\ step'[p] \notin {"begin", "move"}
  <2>1. Trusted' => ~Invented(op[p].to.place)
    BY <1>2, PastStays DEF GatheredInv, KeptInv, SameMove
  <2> QED  BY <1>2, <2>1 DEF MoveKept, Admitted, At, SameMove, Invented
<1>3. CASE SameMove(p) /\ step[p] = "begin" /\ step'[p] = "move"
  <2>1. (Unspoilt' => Admitted(p)) /\ (Trusted' => ~Invented(op[p].to.place))
    BY <1>3, PastStays DEF GatheredInv, KeptInv, SameMove
  <2>2. Unspoilt' => Admitted(p)'
    BY <1>3, <2>1, SaysStays DEF Admitted, At, Says, SameMove
  <2> QED  BY <1>3, <2>1, <2>2 DEF MoveKept, SameMove, Invented
<1> QED  BY <1>1, <1>2, <1>3

LEMMA KeptTogether ==
    ASSUME GatheredInv, [Next]_vars, NEW p \in Proc, Alone(p), UNCHANGED <<place, came>>,
           MoveKept(p)'
    PROVE  KeptInv'
<1>1. \A q \in Proc : MoveKept(q)'
  BY OthersKept
<1> QED  BY <1>1, StillKept DEF KeptInv, MoveKept

LEMMA OperatingKeeps ==
    ASSUME GatheredInv, [Next]_vars, NEW p \in Proc,
           \/ \E f \in Photo, gather \in BOOLEAN : file_target(p, f, gather)
           \/ publish(p) \/ create(p) \/ extend(p) \/ written(p)
    PROVE  KeptInv'
<1>0. Shapes /\ WayInv /\ WayOf(p) /\ NoteInv /\ KeptInv /\ WriterInv
  BY DEF GatheredInv, WayInv
<1>1. UNCHANGED <<place, mount, came>> /\ Alone(p)
  <2>1. UNCHANGED <<place, mount, came>>
    BY DEF file_target, publish, create, extend, written, Works
  <2> QED  BY <1>0, <2>1, ActsAlone
<1>2. CASE \E f \in Photo, gather \in BOOLEAN : file_target(p, f, gather)
  <2>1. PICK f \in Photo, gather \in BOOLEAN : file_target(p, f, gather)
    BY <1>2
  <2>2. /\ op'[p].to.place = IF gather THEN Under(LabelOf[mount[p]]) ELSE Beside
        /\ gather => step'[p] = "open"
    BY <1>0, <2>1 DEF file_target, Shapes, Go, Admission
  <2>3. Beside # Under(LabelOf[mount[p]]) /\ ~Invented(op'[p].to.place)
    BY <2>2, PlacesDiffer DEF Invented
  <2>4. MoveKept(p)'
    BY <1>1, <2>2, <2>3 DEF MoveKept, Admitted, At, Invented
  <2> QED  BY <1>1, <2>4, KeptTogether
<1>3. CASE Over(p)
  <2>1. step'[p] \notin Active
    BY <1>0, <1>3, ItemOver DEF Active
  <2> QED  BY <1>1, <2>1, OwnKept, KeptTogether
<1>4. CASE \/ publish(p) /\ (Go(p, "create") \/ Go(p, "extend"))
           \/ extend(p) /\ Go(p, "write")
  <2>1. step[p] \in Active /\ step'[p] \notin {"begin", "move"}
    BY <1>0, <1>4, GoesOn DEF publish, extend, At, Active, Steps
  <2>2. CASE UNCHANGED op
    <3>1. SameMove(p)
      BY <1>1, <2>1, <2>2 DEF SameMove
    <3> QED  BY <1>1, <2>1, <3>1, OwnKept, KeptTogether
  <2>3. CASE \E id, disks : op' = [op EXCEPT ![p].id = id, ![p].disks = disks]
    <3>1. Doing(op[p]) /\ op = [q \in Proc |-> op[q]]
      BY <1>0, <2>1 DEF Shapes, Doing
    <3>2. SameMove(p)
      BY <1>1, <2>1, <2>3, <3>1 DEF Doing, SameMove
    <3> QED  BY <1>1, <2>1, <3>2, OwnKept, KeptTogether
  <2> QED  BY <1>3, <1>4, <2>2, <2>3 DEF publish, extend
<1>5. CASE /\ UNCHANGED op /\ Go(p, "begin") /\ step[p] \in Active
           /\ Unspoilt' => Says(LabelOf[mount[p]], mount[p])'
  <2>1. step'[p] = "begin"
    BY <1>0, <1>5, GoesOn DEF Steps
  <2>2. Trusted' => ~Invented(op[p].to.place)
    BY <1>0, <1>5, PastStays DEF KeptInv
  <2>3. MoveKept(p)'
    BY <1>1, <1>5, <2>1, <2>2 DEF MoveKept, Admitted, Invented
  <2> QED  BY <1>1, <2>3, KeptTogether
<1>6. CASE publish(p)
  <2>1. CASE Parsed /\ LabelOf[mount[p]] \in DOMAIN note.disks /\ Go(p, "begin") /\ Admits(p)
    <3>1. Says(LabelOf[mount[p]], mount[p]) /\ UNCHANGED note
      BY <1>6, <2>1 DEF Admits, Says, publish, noted
    <3>2. Says(LabelOf[mount[p]], mount[p])' /\ step[p] \in Active
      BY <1>1, <1>6, <3>1 DEF Says, publish, At, Active, Steps
    <3>3. UNCHANGED op
      BY <1>3, <1>6, <2>1 DEF publish
    <3> QED  BY <1>5, <2>1, <3>2, <3>3
  <2> QED  BY <1>3, <1>4, <1>6, <2>1 DEF publish
<1>7. CASE create(p)
  <2>1. CASE note.id = 0
    <3>1. /\ UNCHANGED op /\ Go(p, "begin") /\ step[p] \in Active
          /\ note'.disks = With(<<>>, LabelOf[mount[p]], mount[p])
      BY <1>7, <2>1 DEF create, At, Active, Steps
    <3>2. Says(LabelOf[mount[p]], mount[p])'
      BY <1>1, <3>1 DEF With, Says
    <3> QED  BY <1>5, <3>1, <3>2
  <2> QED  BY <1>3, <1>7, <2>1 DEF create
<1>8. CASE written(p)
  <2>1. /\ UNCHANGED op /\ Go(p, "begin") /\ step[p] = "write" /\ step[p] \in Active
    BY <1>8 DEF written, At, Active, Steps
  <2>2. Unspoilt' => Says(LabelOf[mount[p]], mount[p])'
    <3>1. /\ Unspoilt' => op[p].id = note.id
          /\ LabelOf[mount[p]] \in DOMAIN op[p].disks
          /\ op[p].disks[LabelOf[mount[p]]] = mount[p]
      BY <1>0, <2>1, PastStays DEF WriterInv, At, Unspoilt
    <3>2. Unspoilt' => note'.disks = op[p].disks
      BY <1>0, <1>8, <3>1 DEF written, Shapes
    <3> QED  BY <1>1, <3>1, <3>2 DEF Says
  <2> QED  BY <1>5, <2>1, <2>2
<1> QED  BY <1>2, <1>3, <1>4, <1>6, <1>7, <1>8 DEF extend

LEMMA MovingKeeps ==
    ASSUME GatheredInv, [Next]_vars, NEW p \in Proc,
           journal_begin(p) \/ move_unit(p) \/ journal_close(p)
    PROVE  KeptInv'
<1>0. Shapes /\ WayInv /\ WayOf(p) /\ KeptInv /\ UNCHANGED mount /\ Alone(p) /\ step[p] \in Active
  <2>1. Shapes
    BY DEF GatheredInv
  <2> QED  BY <2>1, ActsAlone DEF GatheredInv, WayInv, journal_begin, move_unit, journal_close,
                                  Works, At, Active, Steps
<1>1. CASE journal_begin(p)
  <2>1. UNCHANGED <<place, came, op>> /\ step[p] = "begin" /\ step'[p] = "move"
    BY <1>0, <1>1, GoesOn DEF journal_begin, At, Steps
  <2>2. SameMove(p)
    BY <1>0, <2>1 DEF SameMove
  <2> QED  BY <1>0, <2>1, <2>2, OwnKept, KeptTogether
<1>2. CASE Over(p) /\ UNCHANGED <<place, came>>
  <2>1. step'[p] \notin Active
    BY <1>0, <1>2, ItemOver DEF Active
  <2> QED  BY <1>0, <1>2, <2>1, OwnKept, KeptTogether
<1>3. CASE move_unit(p) /\ Go(p, "close") /\ place' = [place EXCEPT ![op[p].photo] = op[p].to.place]
  <2>0. PICK f, l, w : f = op[p].photo /\ l = LabelOf[mount[p]] /\ w = op[p].to.place
    OBVIOUS
  <2>1. /\ UNCHANGED <<op, note>> /\ step[p] = "move" /\ step'[p] = "close" /\ f \in Photo
        /\ place' = [place EXCEPT ![f] = w]
        /\ came' = [came EXCEPT ![f] = With(@, l, mount[p])] \/ came' = came
        /\ came' = came \/ w \in {Under(k) : k \in Label}
    <3>1. step'[p] = "close"
      BY <1>0, <1>3, GoesOn DEF Steps
    <3>2. step[p] = "move"
      BY <1>3 DEF move_unit, At
    <3>3. ~Over(p)
      BY <1>0, <3>1, ItemOver
    <3> QED  BY <1>0, <1>3, <2>0, <3>1, <3>2, <3>3 DEF move_unit, noted, WayOf
  <2>2. SameMove(p) /\ step'[p] \notin {"begin", "move"}
    BY <1>0, <2>1 DEF SameMove
  <2>3. \A q \in Proc : MoveKept(q)'
    BY <1>0, <2>2, OthersKept, OwnKept
  <2>4. Trusted' => \A g \in Photo : ~Invented(place[g])'
    <3>1. Trusted' => ~Invented(w) /\ \A g \in Photo : ~Invented(place[g])
      BY <1>0, <2>0, PastStays DEF KeptInv
    <3>2. \A g \in Photo : place'[g] = IF g = f THEN w ELSE place[g]
      BY <1>0, <2>1 DEF Shapes
    <3> QED  BY <3>1, <3>2 DEF Invented
  <2>5. Unspoilt' => \A g \in Photo : \A k \in DOMAIN came'[g] : Says(k, came[g][k])'
    <3> SUFFICES ASSUME Unspoilt', NEW g \in Photo, NEW k \in DOMAIN came'[g]
                 PROVE  Says(k, came[g][k])'
      OBVIOUS
    <3>0. \A h \in Photo : \A i \in DOMAIN came[h] : Says(i, came[h][i])
      BY <1>0, PastStays DEF KeptInv
    <3>1. CASE came' = came
      BY <2>1, <3>0, <3>1 DEF Says
    <3>2. CASE /\ came' = [came EXCEPT ![f] = With(@, l, mount[p])]
               /\ w \in {Under(i) : i \in Label}
      <4>1. w = Under(l)
        BY <1>0, <2>0, <3>2, PlacesDiffer DEF WayOf, Invented
      <4>2. Says(l, mount[p])
        BY <1>0, <2>0, <2>1, <4>1, PastStays DEF KeptInv, Admitted, At
      <4>3. came'[g] = IF g = f THEN With(came[f], l, mount[p]) ELSE came[g]
        BY <1>0, <2>1, <3>2 DEF Shapes
      <4>4. CASE g = f /\ k = l
        <5>1. came'[g][k] = mount[p]
          BY <4>3, <4>4 DEF With
        <5> QED  BY <2>1, <4>2, <4>4, <5>1 DEF Says
      <4>5. CASE ~(g = f /\ k = l)
        <5>1. k \in DOMAIN came[g] /\ came'[g][k] = came[g][k]
          BY <4>3, <4>5 DEF With
        <5> QED  BY <2>1, <3>0, <5>1 DEF Says
      <4> QED  BY <4>4, <4>5
    <3> QED  BY <2>1, <3>1, <3>2
  <2> QED  BY <2>3, <2>4, <2>5 DEF KeptInv, MoveKept
<1> QED  BY <1>1, <1>2, <1>3 DEF move_unit, journal_close

\* No way home is invented while the note can be trusted: what was moved under a
\* label is in it.
LEMMA WayIsTold ==
    ASSUME GatheredInv, Trusted, NEW p \in Proc, NEW x \in todo[p],
           quarantine_origin_of(x.path) # <<>>
    PROVE  quarantine_origin_of(x.path).place = Home
<1>0. Shapes /\ NoteInv /\ x \in Listed /\ Reached(x.photo, x.path.place) /\ KeptInv
  BY DEF GatheredInv, WayInv, WayOf, Shapes
<1>1. Unspoilt /\ x.photo \in Photo
  BY <1>0 DEF Trusted, Unspoilt, NoteInv, Listed
<1>2. ASSUME NEW l \in Label, x.path.place = Under(l), read = <<>> PROVE FALSE
  <2>1. l \in DOMAIN came[x.photo]
    BY <1>0, <1>2, PlacesDiffer DEF Reached
  <2>2. l \in DOMAIN note.disks
    BY <1>0, <1>1, <2>1 DEF KeptInv, Says
  <2>3. Parsed
    BY <1>0, <2>2, NothingSaid DEF NoteInv, Trusted, Parsed, NoNote
  <2> QED  BY <1>2, <2>2, <2>3, NothingSaid DEF read
<1> QED  BY <1>0, <1>2, WayBack

LEMMA OrphanKeeps ==
    ASSUME GatheredInv, [Next]_vars, NEW p \in Proc,
           \/ \E i \in DOMAIN rows[p] : undo(p, i)
           \/ set_quarantine_found(p) \/ start_adopt(p) \/ Ends(p)
           \/ \E x \in todo[p] : adopt_orphan(p, x)
           \/ \E x \in found[p] : abandon_orphan(p, x)
    PROVE  KeptInv'
<1>0. Shapes /\ WayInv /\ WayOf(p) /\ KeptInv /\ UNCHANGED <<mount, came>> /\ Alone(p)
  <2>1. Shapes
    BY DEF GatheredInv
  <2> QED  BY <2>1, ActsAlone DEF GatheredInv, WayInv, undo, set_quarantine_found, start_adopt,
                                  Ends, adopt_orphan, abandon_orphan, Works
<1>1. CASE \E i \in DOMAIN rows[p] : undo(p, i)
  <2>1. PICK i \in DOMAIN rows[p] : undo(p, i)
    BY <1>1
  <2>2. PICK g, w : g = rows[p][i].photo /\ w = rows[p][i].from.place
    OBVIOUS
  <2>3. UNCHANGED <<op, step, note>> /\ step'[p] \notin Active
        /\ (place' = [place EXCEPT ![g] = w] \/ UNCHANGED place)
    BY <2>1, <2>2 DEF undo, noted, At, Active
  <2>4. \A q \in Proc : MoveKept(q)'
    BY <1>0, <2>3, OthersKept, OwnKept
  <2>5. ~Invented(w)
    BY <1>0, <2>2, PlacesDiffer DEF WayOf, Reached, Invented
  <2>6. Trusted' => \A f \in Photo : ~Invented(place[f])'
    <3>1. Trusted' => \A f \in Photo : ~Invented(place[f])
      BY <1>0, PastStays DEF KeptInv
    <3>2. \A f \in Photo : place'[f] \in {w, place[f]}
      BY <1>0, <2>3 DEF Shapes
    <3> QED  BY <2>5, <3>1, <3>2 DEF Invented
  <2>7. Unspoilt' => \A f \in Photo : \A l \in DOMAIN came'[f] : Says(l, came[f][l])'
    BY <1>0, <2>3, PastStays DEF KeptInv, Says
  <2> QED  BY <2>4, <2>6, <2>7 DEF KeptInv, MoveKept
<1>2. CASE \/ set_quarantine_found(p) \/ start_adopt(p) \/ Ends(p)
           \/ \E x \in found[p] : abandon_orphan(p, x)
  <2>1. UNCHANGED place
    BY <1>2 DEF set_quarantine_found, start_adopt, Ends, abandon_orphan
  <2>2. step'[p] \notin Active
    <3>1. CASE set_quarantine_found(p) \/ \E x \in found[p] : abandon_orphan(p, x)
      BY <3>1 DEF set_quarantine_found, abandon_orphan, At, Active
    <3>2. CASE start_adopt(p) \/ Ends(p)
      BY <1>0, <3>2, GoesOn DEF start_adopt, Ends, Active, Steps
    <3> QED  BY <1>2, <3>1, <3>2
  <2> QED  BY <1>0, <2>1, <2>2, OwnKept, KeptTogether
<1>3. CASE \E x \in todo[p] : adopt_orphan(p, x)
  <2>1. PICK x \in todo[p] : adopt_orphan(p, x)
    BY <1>3
  <2>2. UNCHANGED place
    BY <2>1 DEF adopt_orphan
  <2>3. CASE \E s \in {"idle", "next"} : Go(p, s)
    <3>1. step'[p] \notin Active
      BY <1>0, <2>3, GoesOn DEF Active, Steps
    <3> QED  BY <1>0, <2>2, <3>1, OwnKept, KeptTogether
  <2>4. CASE /\ quarantine_origin_of(x.path) # <<>>
             /\ op' = [op EXCEPT ![p] = [kind |-> "adopt", photo |-> x.photo, id |-> 0,
                                         disks |-> <<>>, from |-> x.path,
                                         to |-> quarantine_origin_of(x.path)]]
    <3>1. PICK to : to = quarantine_origin_of(x.path)
      OBVIOUS
    <3>2. op'[p].to = to
      BY <1>0, <2>4, <3>1 DEF Shapes
    <3>3. x \in Listed /\ NoteInv
      BY <1>0 DEF Shapes, GatheredInv
    <3>4. to.place = Home \/ Invented(to.place)
      BY <1>0, <2>4, <3>1, <3>3, WayBack
    <3>5. Trusted' => to.place = Home
      BY <2>4, <3>1, PastStays, WayIsTold
    <3>6. to.place # Under(LabelOf[mount[p]]) /\ ~Invented(Home)
      BY <3>4, PlacesDiffer DEF Invented
    <3>7. MoveKept(p)'
      BY <1>0, <3>2, <3>5, <3>6 DEF MoveKept, Admitted, Invented
    <3> QED  BY <1>0, <2>2, <3>7, KeptTogether
  <2> QED  BY <2>1, <2>3, <2>4 DEF adopt_orphan
<1> QED  BY <1>1, <1>2, <1>3

LEMMA FaultKeeps ==
    ASSUME GatheredInv, [Next]_vars,
           \/ \E p \in Proc : Kill(p) \/ LoseDatabase(p) \/ \E m \in Mount : Remount(p, m)
           \/ \E there \in BOOLEAN : OtherHands(there)
           \/ UNCHANGED vars
    PROVE  KeptInv'
<1>0. Shapes /\ KeptInv /\ UNCHANGED <<place, came>>
  BY DEF GatheredInv, Kill, LoseDatabase, Remount, OtherHands, vars
<1>1. CASE \E p \in Proc : Kill(p) \/ LoseDatabase(p) \/ \E m \in Mount : Remount(p, m)
  <2>1. PICK p \in Proc : Kill(p) \/ LoseDatabase(p) \/ \E m \in Mount : Remount(p, m)
    BY <1>1
  <2>2. step'[p] \notin Active
    <3>1. CASE Kill(p)
      BY <1>0, <3>1, GoesOn DEF Kill, Active, Steps
    <3>2. CASE LoseDatabase(p) \/ \E m \in Mount : Remount(p, m)
      BY <3>2 DEF LoseDatabase, Remount, At, Active
    <3> QED  BY <2>1, <3>1, <3>2
  <2>3. Alone(p)
    BY <1>0, <2>1, ActsAlone
  <2> QED  BY <1>0, <2>1, <2>2, <2>3, OwnKept, KeptTogether
<1>2. CASE \E there \in BOOLEAN : OtherHands(there)
  <2>1. ~Unspoilt' /\ ~Trusted'
    BY <1>2 DEF OtherHands, Unspoilt, Trusted
  <2> QED  BY <2>1 DEF KeptInv
<1>3. CASE UNCHANGED vars
  BY <1>0, <1>3 DEF vars, KeptInv, Unspoilt, Trusted, Says, Admitted, At, Invented
<1> QED  BY <1>1, <1>2, <1>3

(* ------------------------------ the theorems --------------------------- *)
LEMMA InitInv == Init => GatheredInv
<1> SUFFICES ASSUME Init PROVE GatheredInv
  OBVIOUS
<1>1. note = NoNote \/ \E m \in Mount :
          note = [id |-> 1, text |-> "bare", disks |-> With(<<>>, LabelOf[m], m)]
  BY DEF Init
<1>2. \A l \in DOMAIN note.disks : note.disks[l] \in Mount
  <2>1. CASE note = NoNote
    BY <2>1, NothingSaid DEF NoNote
  <2>2. CASE \E m \in Mount :
               note = [id |-> 1, text |-> "bare", disks |-> With(<<>>, LabelOf[m], m)]
    <3>1. PICK m \in Mount : note.disks = With(<<>>, LabelOf[m], m)
      BY <2>2
    <3>2. DOMAIN note.disks = {LabelOf[m]} /\ note.disks[LabelOf[m]] = m
      BY <3>1, NothingSaid DEF With
    <3> QED  BY <3>2
  <2> QED  BY <1>1, <2>1, <2>2
<1>3. NoteInv
  BY <1>1, <1>2 DEF Init, NoteInv, NoNote
<1>4. /\ \A p \in Proc : rows[p] = <<>> /\ found[p] = {} /\ todo[p] = {} /\ step[p] = "idle"
      /\ \A f \in Photo : place[f] = Home /\ came[f] = <<>>
  BY DEF Init
<1>5. \A l \in Label : Home # Guessed(l)
  BY PlacesDiffer
<1>6. Shapes
  <2>1. note = [id |-> note.id, text |-> note.text, disks |-> note.disks] /\ made \in Nat
    BY <1>1 DEF Init, NoNote
  <2>2. mount \in [Proc -> Mount]
    BY GatheredAssumption DEF Init
  <2>3. /\ rows \in [Proc -> Seq(Entry)] /\ place \in [Photo -> Places]
        /\ step \in [Proc -> Steps] /\ found \in [Proc -> SUBSET Listed]
        /\ todo \in [Proc -> SUBSET Listed]
    BY DEF Init, Steps, Places
  <2>4. op = [p \in Proc |-> op[p]] /\ came = [f \in Photo |-> came[f]]
    BY DEF Init
  <2> QED  BY <1>4, <2>1, <2>2, <2>3, <2>4 DEF Shapes, Active, At
<1>7. WriterInv
  BY <1>4 DEF WriterInv, At
<1>8. WayInv
  BY <1>4, NothingSaid DEF WayInv, WayOf, Reached, Active
<1>9. KeptInv
  BY <1>4, <1>5, NothingSaid DEF KeptInv, Admitted, At, Active, Invented
<1> QED  BY <1>3, <1>6, <1>7, <1>8, <1>9 DEF GatheredInv

LEMMA NextInv ==
    ASSUME GatheredInv, [Next]_vars
    PROVE  GatheredInv'
<1>0. Shapes /\ NoteInv /\ WriterInv
  BY DEF GatheredInv
<1>1. ASSUME NEW p \in Proc,
             \/ \E f \in Photo, gather \in BOOLEAN : file_target(p, f, gather)
             \/ publish(p) \/ create(p) \/ extend(p) \/ written(p)
      PROVE  GatheredInv'
  <2>1. Shapes' /\ WayInv' /\ KeptInv'
    BY <1>1, OperatingShapes, OperatingWays, OperatingKeeps
  <2>2. NoteInv' /\ WriterInv'
    BY <1>0, <1>1, MostAreAloof, AloofKeeps, NoteSteps
  <2> QED  BY <2>1, <2>2 DEF GatheredInv
<1>2. ASSUME NEW p \in Proc, journal_begin(p) \/ move_unit(p) \/ journal_close(p)
      PROVE  GatheredInv'
  <2>1. NoteInv' /\ WriterInv'
    BY <1>0, <1>2, MostAreAloof, AloofKeeps
  <2> QED  BY <1>2, <2>1, MovingShapes, MovingWays, MovingKeeps DEF GatheredInv
<1>3. ASSUME NEW p \in Proc,
             \/ \E i \in DOMAIN rows[p] : undo(p, i)
             \/ set_quarantine_found(p) \/ start_adopt(p) \/ Ends(p)
             \/ \E x \in todo[p] : adopt_orphan(p, x)
             \/ \E x \in found[p] : abandon_orphan(p, x)
      PROVE  GatheredInv'
  <2>1. NoteInv' /\ WriterInv'
    BY <1>0, <1>3, MostAreAloof, AloofKeeps
  <2> QED  BY <1>3, <2>1, OrphanShapes, OrphanWays, OrphanKeeps DEF GatheredInv
<1>4. ASSUME \/ \E p \in Proc : Kill(p) \/ LoseDatabase(p) \/ \E m \in Mount : Remount(p, m)
             \/ \E there \in BOOLEAN : OtherHands(there)
             \/ UNCHANGED vars
      PROVE  GatheredInv'
  <2>1. NoteInv' /\ WriterInv'
    BY <1>0, <1>4, MostAreAloof, AloofKeeps, NoteSteps
  <2> QED  BY <1>4, <2>1, FaultShapes, FaultWays, FaultKeeps DEF GatheredInv
<1> QED  BY <1>1, <1>2, <1>3, <1>4 DEF Next

\* Whoever shares the folder, and whatever is killed, lost or remounted, the note and the
\* ways stay what the invariant says of them (quarantine_layout.rs, pc-apply lib.rs).
THEOREM GatheredInvariance == Spec => []GatheredInv
BY InitInv, NextInv, PTL DEF Spec

\* No file is given an address nobody recorded, unless the note was taken away or a write
\* of it was under way (quarantine_origin_of, adopt_orphan).
THEOREM OrphansComeHome == Spec => []ComesHomeOrStays
<1>1. GatheredInv => ComesHomeOrStays
  BY DEF GatheredInv, KeptInv, Trusted, Invented, ComesHomeOrStays
<1> QED  BY <1>1, GatheredInvariance, PTL

LEMMA LandedStays == GatheredInv => LandedIsRecorded
<1> SUFFICES ASSUME GatheredInv, Unspoilt, NEW f \in Photo, NEW l \in Label, place[f] = Under(l)
             PROVE  l \in DOMAIN note.disks /\ note.disks[l] = came[f][l]
  BY DEF LandedIsRecorded, Unspoilt
<1>1. l \in DOMAIN came[f]
  BY PlacesDiffer DEF GatheredInv, WayInv, Reached, Invented
<1> QED  BY <1>1 DEF GatheredInv, KeptInv, Says

\* Somebody else's file at the note's name is never written.
LEMMA StrangerIsSpared ==
    ASSUME GatheredInv, [Next]_vars, note.text = "foreign", note'.id = note.id
    PROVE  note' = note
<1>0. Shapes /\ NoteInv /\ WriterInv /\ note.id # 0
  BY DEF GatheredInv, NoteInv, NoNote
<1>1. ASSUME NEW p \in Proc, Aloof(p) PROVE note' = note
  BY <1>1 DEF Aloof
<1>2. ASSUME NEW p \in Proc, publish(p) PROVE note' = note
  BY <1>2 DEF publish, noted
<1>3. ASSUME NEW p \in Proc, extend(p) \/ written(p) PROVE note' = note
  BY <1>0, <1>3 DEF extend, written, StillThere, WriterInv, At
<1>4. ASSUME NEW there \in BOOLEAN, OtherHands(there) PROVE note' = note
  BY <1>0, <1>4 DEF OtherHands, NoNote, NoteInv, Shapes
<1> QED  BY <1>0, <1>1, <1>2, <1>3, <1>4, MostAreAloof DEF Next, vars

\* A readable note tells the way home of every file that landed under a label, and a
\* stranger's file at its name is left as it is (admit, publish, create).
THEOREM NoteStays == Spec => NoteIsKept
<1>1. GatheredInv /\ GatheredInv' /\ [Next]_vars
        => [/\ LandedIsRecorded'
            /\ note.text = "foreign" /\ note'.id = note.id => note' = note]_vars
  <2>1. GatheredInv' => LandedIsRecorded'
    BY LandedStays, PTL
  <2> QED  BY <2>1, StrangerIsSpared
<1> QED  BY <1>1, GatheredInvariance, PTL DEF Spec, NoteIsKept
=============================================================================

----------------------------- MODULE Resemblance -----------------------------
(***************************************************************************)
(* What the tool measures of an archive and makes of it: which files show  *)
(* one photograph and what each of them is (pc-family links, perceptual,   *)
(* roles, quality, curation), which frames are one burst (series), and     *)
(* what kind of picture each is (categories); the jobs that write these    *)
(* down, cut short at any point, and the presses of a hand between them.   *)
(*                                                                         *)
(* A row of the index is a record of what was read from a file: where it   *)
(* is (dir, stem), its camera, serial and moment (0: none), its pixels and *)
(* format, who wrote it (edited, parent, doc, odoc, origin), the hashes    *)
(* (frame: the whole picture; gray: its small grey square; bytes: the      *)
(* file), where the likeness hashes put it (phash, crop, canon: places on  *)
(* a line, so that a distance is a difference), its thumbnail and the      *)
(* figures of its picture.  Structural similarity is a constant, Ssim, in  *)
(* hundredths.  What a person or a folder decides about groups is Groups.  *)
(***************************************************************************)
EXTENDS Integers, FiniteSets, SequencesExt

CONSTANTS
    File,       \* the ids of the files: naturals, in the order of their paths
    Archives,   \* the first rows of all files
    Readings,   \* the rows an index run may write for a file afterwards
    Touched,    \* bound: the files a person deals with
    Ssim,       \* how alike two pictures are, upright or turned
    Flat,       \* the pictures whose variance says nothing
    Catalogue,  \* the frames of live catalogues: [path, tail, stars]
    Ending,     \* the last three parts of each file's path
    Decisions,  \* the files kept by hand, first the one that outranks
    MaxLeads,   \* max_candidates_per_file
    Gap,        \* the seconds that may pass inside a burst
    Dates,      \* the dates given by hand
    MaxEdits,   \* bound: presses of a hand, files read again
    MaxStops    \* bound: jobs cancelled, kills

\* a row of the index; a thumbnail's figures are never the missing ones
Unmeasured == "unmeasured"
Tone == STRING \ {Unmeasured}
DateSource == {"exif", "digitized", "file-datetime", "filename", "none", "manual"}
Category == {"none", "blank", "screenshot", "document", "monochrome", "photo"}
IndexRow ==
    [dir : Nat, stem : Nat, camera : Nat, serial : Nat, taken : Nat, dated : DateSource,
     raw : BOOLEAN, format : STRING, pixels : Nat, dense : Nat, edited : BOOLEAN,
     parent : Nat, doc : Nat, odoc : Nat, origin : Nat,
     frame : Nat, gray : Nat, bytes : Nat \ {0}, phash : Nat, crop : Nat, canon : Nat,
     thumb : BOOLEAN, marks : SUBSET STRING, sharp : Nat, clip : Nat, detail : Nat,
     looks : SUBSET STRING, dull : BOOLEAN, busy : BOOLEAN, pale : STRING,
     chroma : STRING, tonal : STRING, tint : [chroma : Tone, tonal : Tone]]

ASSUME FilesAssumption ==
    /\ File \in SUBSET (Nat \ {0}) /\ IsFiniteSet(File) /\ Touched \subseteq File
    /\ MaxLeads \in Nat \ {0} /\ Gap \in Nat \ {0}
ASSUME RowsAssumption ==
    /\ Archives \subseteq [File -> IndexRow] /\ \A f \in Touched : Readings[f] \subseteq IndexRow
    /\ Dates \subseteq Nat /\ Decisions \subseteq Seq(File)
    /\ IsFiniteSet(Catalogue) /\ \A c \in Catalogue : c.stars \in Nat

VARIABLES
    index,     \* the row of each file
    present,   \* the files that are not in quarantine
    kept,      \* manual_keepers, in the order they count
    groups,    \* families: [of, role, keeper] of each file
    bursts,    \* series: [kind, members, best, protected]
    kinds,     \* file_categories: [kind, manual] of each file
    best,      \* manual_best
    asked,     \* the job was told to stop
    build,     \* the job: [todo, at], and [rows, made] once it has read the rows
    measured,  \* the rows the stored groups, bursts and kinds were made of
    chosen,    \* the date and the kind a person last gave each file
    edits, stops

resemblanceVars == <<index, present, kept, groups, bursts, kinds, best, asked, build,
          measured, chosen, edits, stops>>

Abs(n) == IF n < 0 THEN -n ELSE n
Near(x, y, d) == Abs(x - y) <= d
Most(S) == CHOOSE n \in S : \A m \in S : m <= n
Fewest(S) == CHOOSE n \in S : \A m \in S : n <= m
\* the one of S with the greatest figure; of equals the first path
Leading(S, figure) ==
    CHOOSE f \in S : \A g \in S : figure[g] < figure[f] \/ (figure[g] = figure[f] /\ f <= g)
PhashMax == 10
CropMax == 6
SsimMin == 90
SsimMinSameShape == 97

(* ----------------------- what the files say themselves ----------------- *)
SameMoment(x, y, d) ==
    IF x.taken = 0 \/ y.taken = 0 THEN x.taken = y.taken ELSE Near(x.taken, y.taken, d)
Converted(R, a) ==
    LET here == {b \in DOMAIN R : R[b].dir = R[a].dir /\ R[b].stem = R[a].origin}
        anywhere == {b \in DOMAIN R : R[b].stem = R[a].origin}
    IN CASE R[a].origin = 0             -> {}
         [] R[a].origin # 0 /\ here # {} -> here
         [] OTHER                       -> anywhere
Asserted(R, a, b) ==
    LET x == R[a] y == R[b]
    IN \/ x.bytes = y.bytes \/ x.gray = y.gray
       \/ b \in Converted(R, a) \/ (x.parent # 0 /\ x.parent = y.doc) \/ (x.odoc # 0 /\ x.odoc = y.odoc)
       \/ /\ x.dir = y.dir /\ x.stem = y.stem /\ x.format # y.format
          /\ x.camera = y.camera /\ SameMoment(x, y, 2)
SameShutter(x, y) ==
    x.serial # 0 /\ x.serial = y.serial /\ x.taken # 0 /\ x.taken = y.taken
    /\ Near(x.phash, y.phash, PhashMax)

(* ------------------------ what they only look like --------------------- *)
Lead(R, a, b) ==
    LET x == R[a] y == R[b] lead(far, turn) == {[a |-> a, b |-> b, far |-> far, turn |-> turn]}
    IN CASE Near(x.phash, y.phash, PhashMax) \/ Near(x.crop, y.crop, CropMax) ->
              lead(Abs(x.phash - y.phash), FALSE)
         [] ~Near(x.phash, y.phash, PhashMax) /\ ~Near(x.crop, y.crop, CropMax)
            /\ x.canon # 0 /\ y.canon # 0 /\ Near(x.canon, y.canon, PhashMax) ->
              lead(Abs(x.canon - y.canon), TRUE)
         [] OTHER -> {}
\* the leads one file brings; the nearest of them when there are too many
LeadsOf(R, a) ==
    LET all == UNION {Lead(R, a, b) : b \in {g \in DOMAIN R : a < g}}
        nearest == SetToSortSeq(all, LAMBDA l, m : l.far < m.far \/ (l.far = m.far /\ l.b < m.b))
    IN IF Cardinality(all) <= MaxLeads THEN all ELSE ToSet(SubSeq(nearest, 1, MaxLeads))
Leads(R) == UNION {LeadsOf(R, a) : a \in DOMAIN R}

StraightFromCamera(r) == r.camera # 0 /\ r.parent = 0 /\ r.origin = 0 /\ ~r.edited
Plausible(x, y, s, turn) ==
    /\ ~(x.raw /\ y.raw)
    /\ IF x.pixels # y.pixels \/ x.format # y.format THEN s >= SsimMin
       ELSE /\ turn \/ ~StraightFromCamera(x) \/ ~StraightFromCamera(y) \/ x.stem = y.stem
            /\ x.taken = 0 \/ y.taken = 0 \/ Near(x.taken, y.taken, 1)
            /\ s >= SsimMinSameShape
Verified(R, l) ==
    LET x == R[l.a] y == R[l.b]
    IN /\ x.thumb /\ y.thumb /\ {x.frame, y.frame} \cap Flat = {}
       /\ Ssim[x.frame][y.frame] >= SsimMin
       /\ Plausible(x, y, Ssim[x.frame][y.frame], l.turn)

\* the groups that the links and the verified leads make
Joins(R, found, a, b) ==
    \/ Asserted(R, a, b) \/ Asserted(R, b, a) \/ SameShutter(R[a], R[b])
    \/ \E l \in found : {l.a, l.b} = {a, b}
GroupOf(R, found, f) ==
    {g \in DOMAIN R : \A S \in SUBSET DOMAIN R :
        (f \in S /\ \A a \in S, b \in DOMAIN R : Joins(R, found, a, b) => b \in S) => g \in S}

(* -------------------------- what each of them is ----------------------- *)
\* an exact path first, the tail of it otherwise; of several the best rating
Curated(f) ==
    LET exact == {c \in Catalogue : c.path = f}
        alike == {c \in Catalogue : c.tail = Ending[f]}
    IN IF exact # {} THEN exact ELSE alike
Format(r) == IF r.raw THEN 22 ELSE IF r.format = "tiff" THEN 14 ELSE 8
Marks(r) ==
    (IF "low path" \in r.marks THEN -15 ELSE 0) + (IF "low name" \in r.marks THEN -10 ELSE 0)
    + (IF "preferred" \in r.marks THEN 8 ELSE 0) + (IF "copy" \in r.marks THEN -8 ELSE 0)
Rating(f) == IF Curated(f) = {} THEN 0 ELSE 25 + 3 * Most({c.stars : c \in Curated(f)})
Score(R, f, most) ==
    LET r == R[f]
    IN (40 * r.pixels) \div most + Format(r) + r.dense
       + (IF r.camera # 0 THEN 10 ELSE 0) + (IF r.taken # 0 THEN 4 ELSE 0)
       + Marks(r) + Rating(f)

Identity(r) == <<r.frame, IF r.raw THEN r.bytes ELSE 0>>
\* mutant: the roles are given before anybody asks what the group keeps
NotAsked(d, S, leading) == leading
Real(d, S, leading) == IF d \in S THEN d ELSE leading
Roles(R, G, d) ==
    LET most == Most({R[m].pixels : m \in G} \cup {1})
        score == [m \in G |-> Score(R, m, most)]
        twins(m) == {q \in G : Identity(R[q]) = Identity(R[m])}
        copy == {m \in G : Real(d, twins(m), Leading(twins(m), score)) # m}
        able == {m \in G \ copy : R[m].origin = 0
                    /\ (R[m].raw \/ (R[m].camera # 0 /\ ~R[m].edited /\ R[m].parent = 0))}
        rank(m) == 100 * (IF R[m].raw THEN 1 ELSE 0) + R[m].pixels
        original == {m \in able : \A q \in able : rank(q) < rank(m) \/ (rank(q) = rank(m) /\ q <= m)}
        named(m) == \E o \in original : R[o].stem = R[m].stem
        large(m) == 10 * R[m].pixels >= 6 * most
    IN [m \in G |->
          CASE m \in copy     -> "copy"
            [] m \in original -> "original"
            [] OTHER -> IF R[m].origin # 0 THEN "converted"
                        ELSE IF R[m].edited \/ R[m].parent # 0 THEN "export"
                        ELSE IF named(m) /\ R[m].camera # 0 /\ large(m) THEN "camera-jpg"
                        ELSE IF ~large(m) THEN "resize"
                        ELSE IF R[m].raw THEN "original"
                        ELSE IF R[m].camera # 0 THEN "camera-jpg" ELSE "unknown"]
Bonus(role) ==
    CASE role = "original" -> 30 [] role = "camera-jpg" -> 15 [] role = "converted" -> 12
      [] role = "export" -> 8 [] role = "resize" -> -10 [] role = "copy" -> -40 [] OTHER -> 0
Decided(hand, G) ==
    LET mine == {i \in DOMAIN hand : hand[i] \in G} IN IF mine = {} THEN 0 ELSE hand[Fewest(mine)]
Keeper(R, G, d) ==
    LET roles == Roles(R, G, d)
        most == Most({R[m].pixels : m \in G} \cup {1})
        claim == [m \in G |-> Score(R, m, most) + Bonus(roles[m])]
    IN IF d # 0 THEN d ELSE Leading(G, claim)
Families(R, found, hand) ==
    LET G == [f \in DOMAIN R |-> GroupOf(R, found, f)]
    IN [f \in DOMAIN R |-> [of |-> G[f], role |-> Roles(R, G[f], Decided(hand, G[f]))[f],
                            keeper |-> Keeper(R, G[f], Decided(hand, G[f]))]]

(* -------------------------------- bursts ------------------------------- *)
Continues(x, y) ==
    x.camera = y.camera /\ Near(x.taken, y.taken, Gap) /\ Near(x.phash, y.phash, 18)
Earlier(R, f, g) ==
    LET x == R[f] y == R[g]
    IN \/ x.camera < y.camera \/ (x.camera = y.camera /\ x.taken < y.taken)
       \/ (x.camera = y.camera /\ x.taken = y.taken /\ f < g)
Shots(R) == {f \in DOMAIN R : R[f].taken # 0 /\ R[f].camera # 0}
\* a frame that does not go on from the one before it begins a run
Follows(R, f, g) ==
    Earlier(R, f, g) /\ ~\E h \in Shots(R) : Earlier(R, f, h) /\ Earlier(R, h, g)
Begins(R) ==
    {f \in Shots(R) : ~\E e \in Shots(R) : Follows(R, e, f) /\ Continues(R[e], R[f])}
RunOf(R, b) ==
    {g \in Shots(R) : /\ g = b \/ Earlier(R, b, g)
                      /\ \A c \in Begins(R) : Earlier(R, b, c) => Earlier(R, g, c)}
Flush(S) == IF Cardinality(S) >= 2 THEN {S} ELSE {}
\* mutant: the run that is open at the end is forgotten
Forgotten(R, b) == IF \E c \in Begins(R) : Earlier(R, b, c) THEN Flush(RunOf(R, b)) ELSE {}
Closed(R, b) == Flush(RunOf(R, b))
Runs(R) == UNION {Closed(R, b) : b \in Begins(R)}
Looks(R, S) ==
    LET span == Most({R[f].taken : f \in S}) - Fewest({R[f].taken : f \in S})
        spread == Most({R[f].clip : f \in S}) - Fewest({R[f].clip : f \in S})
    IN IF Cardinality(S) = 4 /\ span <= 2 /\ \A f \in S : R[f].raw THEN "pixel-shift"
       ELSE IF span <= 3 /\ spread > 8 THEN "bracket" ELSE "burst"
\* sharpness and detail against the best of the burst, clipping against it
Merit(R, S) ==
    LET share(n, ns) == (100 * n) \div Most(ns \cup {1})
    IN [f \in S |-> 60 * share(R[f].sharp, {R[g].sharp : g \in S})
                    - (IF 2 * R[f].clip > 1 THEN 80 * Fewest({R[f].clip, 25}) ELSE 0)
                    + 20 * share(R[f].detail, {R[g].detail : g \in S})]
\* the first of the ranking a person chose, the first of all otherwise
BestOf(R, S, hand) == Leading(IF S \cap hand = {} THEN S ELSE S \cap hand, Merit(R, S))
Protected(kind) == kind = "pixel-shift"
Series(R, hand) ==
    {[members |-> S, kind |-> Looks(R, S), best |-> BestOf(R, S, hand),
      protected |-> Protected(Looks(R, S))] : S \in Runs(R)}

(* -------------------------------- kinds -------------------------------- *)
Blank(r) == r.dull /\ r.tonal \in {Unmeasured, "narrow"}
Screen(r) == "named" \in r.looks \/ ("screen" \in r.looks /\ r.camera = 0)
Tint(r) == IF r.chroma = Unmeasured THEN r.pale ELSE r.chroma
Scanned(r) == "printed" \in r.looks /\ Tint(r) \in {"none", "faint"}
Kind(r) == IF Blank(r) THEN "blank" ELSE IF Screen(r) THEN "screenshot"
           ELSE IF Scanned(r) THEN "document"
           ELSE IF Tint(r) = "none" /\ r.busy THEN "monochrome" ELSE "photo"
\* what the thumbnail still shows of a picture an older version indexed
Filled(r) == IF r.chroma = Unmeasured /\ r.thumb
             THEN [r EXCEPT !.chroma = r.tint.chroma, !.tonal = r.tint.tonal] ELSE r
\* mutant: a kind set by hand is worked out again
Overwritten(f, k) == [kind |-> k, manual |-> FALSE]
SetCategory(f, k) == IF kinds[f].manual THEN kinds[f] ELSE [kind |-> k, manual |-> FALSE]

(* --------------------------------- jobs -------------------------------- *)
Idle == [todo |-> <<>>, at |-> "idle"]
Nothing == [f \in {} |-> 0]
ResemblanceInit ==
    /\ index \in Archives /\ present = File /\ kept \in Decisions
    /\ groups = Nothing /\ bursts = {} /\ kinds = [f \in File |-> [kind |-> "none", manual |-> FALSE]]
    /\ best = {} /\ asked = FALSE /\ build = Idle
    /\ measured = [groups |-> Nothing, bursts |-> Nothing, kinds |-> Nothing]
    /\ chosen = [f \in File |-> [date |-> IF index[f].dated = "manual" THEN index[f].taken ELSE 0,
                                kind |-> "none"]]
    /\ edits = 0 /\ stops = 0

Rows == [f \in present |-> index[f]]
Stored == UNCHANGED <<groups, bursts, kinds, measured>>
SameCounts == UNCHANGED <<edits, stops>>
Hands == UNCHANGED <<kept, best, chosen>>
SameFiles == UNCHANGED <<index, present>>
At(stage, at) == build.at = at /\ build.todo # <<>> /\ Head(build.todo) = stage
GoesTo(to) == build' = to /\ Hands /\ SameCounts /\ UNCHANGED <<present, asked>>
Further(at, rows, made) ==
    GoesTo([todo |-> build.todo, at |-> at, rows |-> rows, made |-> made]) /\ Stored /\ UNCHANGED index
StageDone == GoesTo(IF Len(build.todo) = 1 THEN Idle ELSE [todo |-> Tail(build.todo), at |-> "begin"])
\* a check that fails ends the job: its connection closes and takes the open
\* transaction; the two passes over the pictures only return
Stop ==
    /\ asked /\ build.at \notin {"idle", "sweep", "verify", "restore"} /\ build' = Idle
    /\ SameFiles /\ Stored /\ Hands /\ SameCounts /\ UNCHANGED asked
\* mutant: a stage that was cut short hands on what it has
NotChecked == TRUE
Passed == ~asked

StartBuild(todo) ==
    /\ build = Idle /\ build' = [todo |-> todo, at |-> "begin"] /\ asked' = FALSE
    /\ SameFiles /\ Stored /\ Hands /\ SameCounts

\* the groups: both passes over the pictures stop where the cancel finds them
ReadFamilies ==
    /\ At("families", "begin") /\ Passed
    /\ IF present = {} THEN StageDone /\ Stored /\ UNCHANGED index ELSE Further("sweep", Rows, {})
Candidates ==
    /\ At("families", "sweep")
    /\ \E S \in IF asked THEN SUBSET DOMAIN build.rows ELSE {DOMAIN build.rows} :
          Further("leads", build.rows, UNION {LeadsOf(build.rows, a) : a \in S})
Verify ==
    /\ At("families", "leads") /\ Passed
    /\ Further("verify", build.rows, build.made)
Verification ==
    /\ At("families", "verify")
    /\ \E S \in IF asked THEN SUBSET build.made ELSE {build.made} :
          Further("found", build.rows, {l \in S : Verified(build.rows, l)})
WriteFamilies ==
    /\ At("families", "found") /\ Passed
    /\ Further("commit", build.rows, Families(build.rows, build.made, kept))
\* the old groups go and the new ones come in one transaction
InsertFamilies == groups' = build.made /\ measured' = [measured EXCEPT !.groups = build.rows]
CommitFamilies ==
    /\ At("families", "commit") /\ InsertFamilies
    /\ GoesTo([todo |-> build.todo, at |-> "restore"]) /\ UNCHANGED <<index, bursts, kinds>>

WriteSeries ==
    /\ At("series", "begin") /\ Passed
    /\ Further("commit", Rows, Series(Rows, best))
InsertSeries == bursts' = build.made /\ measured' = [measured EXCEPT !.bursts = build.rows]
CommitSeries ==
    /\ At("series", "commit") /\ InsertSeries
    /\ GoesTo([todo |-> build.todo, at |-> "restore"]) /\ UNCHANGED <<index, groups, kinds>>
\* what a person said of the bursts, put back on top
restore_curation ==
    /\ build.at = "restore" /\ StageDone
    /\ bursts' = {[b EXCEPT !.best = IF b.members \cap best = {} THEN @
                                     ELSE Fewest(b.members \cap best)] : b \in bursts}
    /\ UNCHANGED <<index, groups, kinds, measured>>

ReadAgain(early) == Rows
Measure == At("categories", "begin") /\ Passed /\ Further("fill", Rows, {})
Fill ==
    /\ At("categories", "fill")
    /\ index' = [f \in File |-> IF f \in present THEN Filled(index[f]) ELSE index[f]]
    /\ GoesTo([todo |-> build.todo, at |-> "filled", rows |-> build.rows]) /\ Stored
WriteCategories ==
    /\ At("categories", "filled") /\ Passed
    /\ Further("commit", ReadAgain(build.rows), {})
CommitCategories ==
    /\ At("categories", "commit") /\ StageDone
    /\ kinds' = [f \in File |-> IF f \in DOMAIN build.rows THEN SetCategory(f, Kind(build.rows[f]))
                                ELSE kinds[f]]
    /\ measured' = [measured EXCEPT !.kinds = [f \in DOMAIN @ \cup DOMAIN build.rows |->
                                        IF f \in DOMAIN build.rows THEN build.rows[f] ELSE @[f]]]
    /\ UNCHANGED <<index, groups, bursts>>

(* -------------------------------- a person ----------------------------- *)
Pressed == build = Idle /\ edits < MaxEdits /\ edits' = edits + 1 /\ UNCHANGED <<kept, asked, build, stops>>
best_(b, f) ==
    /\ Pressed /\ f \in b.members
    /\ bursts' = (bursts \ {b}) \cup {[b EXCEPT !.best = f]}
    /\ best' = (best \ b.members) \cup {f}
    /\ SameFiles /\ UNCHANGED <<groups, kinds, measured, chosen>>
SetCategoryManual(f, k) == kinds' = [kinds EXCEPT ![f] = [kind |-> k, manual |-> TRUE]]
category(f, k) ==
    /\ Pressed /\ SetCategoryManual(f, k)
    /\ chosen' = [chosen EXCEPT ![f].kind = k]
    /\ SameFiles /\ UNCHANGED <<groups, bursts, measured, best>>
date(f, t) ==
    /\ Pressed /\ index' = [index EXCEPT ![f].taken = t, ![f].dated = "manual"]
    /\ chosen' = [chosen EXCEPT ![f].date = t]
    /\ Stored /\ UNCHANGED <<present, best>>
\* an index run reads the file again: everything but a date given by hand
UpsertMeta(old, new) ==
    IF old.dated = "manual" THEN [new EXCEPT !.taken = old.taken, !.dated = "manual"] ELSE new
Reindex(f, r) ==
    /\ Pressed /\ f \in present /\ index' = [index EXCEPT ![f] = UpsertMeta(@, r)]
    /\ Stored /\ UNCHANGED <<present, best, chosen>>
Leave(f) == Pressed /\ present' = present \ {f} /\ f \in present
            /\ Stored /\ UNCHANGED <<index, best, chosen>>

CancelBuild ==
    /\ build # Idle /\ ~asked /\ stops < MaxStops /\ stops' = stops + 1 /\ asked' = TRUE
    /\ SameFiles /\ Stored /\ Hands /\ UNCHANGED <<build, edits>>
KillBuild ==
    /\ build # Idle /\ stops < MaxStops /\ stops' = stops + 1 /\ build' = Idle
    /\ SameFiles /\ Stored /\ Hands /\ UNCHANGED <<asked, edits>>

Stages == {<<"families">>, <<"series">>, <<"categories">>, <<"families", "series", "categories">>}
ResemblanceNext ==
    \/ \E todo \in Stages : StartBuild(todo)
    \/ ReadFamilies \/ Candidates \/ Verify \/ Verification \/ WriteFamilies \/ CommitFamilies
    \/ WriteSeries \/ CommitSeries \/ restore_curation
    \/ Measure \/ Fill \/ WriteCategories \/ CommitCategories \/ Stop
    \/ \E f \in Touched : \/ \E b \in bursts : best_(b, f)
                          \/ category(f, "document") \/ \E t \in Dates : date(f, t)
                          \/ \E r \in Readings[f] : Reindex(f, r)
                          \/ Leave(f)
    \/ CancelBuild \/ KillBuild
ResemblanceSpec == ResemblanceInit /\ [][ResemblanceNext]_resemblanceVars

(* ------------------------------ properties ----------------------------- *)
\* What is written as one photograph is whole: two files of the archive that
\* a link or a verified lead joins are in one group, nothing is in a group
\* that no such chain leads to, and no pass that a cancel cut short is ever
\* written down (pc-family lib.rs build_controlled, perceptual.rs).
GroupsAreWhole ==
    LET R == measured.groups
        all == {l \in Leads(R) : Verified(R, l)}
        of(f) == groups[f].of
    IN /\ DOMAIN groups = DOMAIN R
       /\ \A f \in DOMAIN R :
            /\ f \in of(f) /\ \A g \in of(f) : of(g) = of(f)
            /\ \A g \in DOMAIN R : Joins(R, all, f, g) => g \in of(f)
            /\ \A S \in SUBSET of(f) : S # {} /\ S # of(f) =>
                  \E a \in S, b \in of(f) \ S : Joins(R, all, a, b) \/ Joins(R, all, b, a)

\* A file is called a copy only beside another file of its group that shows
\* the same whole frame, raw files only one with the same bytes, and that is
\* not a copy itself; the file a group keeps, by hand or by its figures, is
\* never one (roles.rs assign, lib.rs build_controlled).
CopiesAreTwins ==
    LET R == measured.groups
        G(f) == groups[f]
    IN \A f \in DOMAIN groups :
        /\ G(f).role = "copy" => \E t \in G(f).of \ {f} :
              /\ G(t).role # "copy" /\ R[t].frame = R[f].frame
              /\ R[f].raw \/ R[t].raw => R[t].bytes = R[f].bytes
        /\ G(G(f).keeper).role # "copy"
        /\ ToSet(kept) \cap G(f).of # {} => G(f).keeper \in ToSet(kept)

\* The bursts are the chains of presses of one camera, each a moment after
\* the one before and like it: none is cut, none is left out, no frame is in
\* two (series.rs detect).
BurstsAreMoments ==
    LET R == measured.bursts
        after(f, g) == /\ Earlier(R, f, g) /\ Continues(R[f], R[g])
                       /\ ~\E h \in Shots(R) : Earlier(R, f, h) /\ Earlier(R, h, g)
        together(f, g) == \E b \in bursts : {f, g} \subseteq b.members
    IN /\ \A f, g \in Shots(R) : after(f, g) => together(f, g)
       /\ \A b, c \in bursts : b = c \/ b.members \cap c.members = {}
       /\ \A b \in bursts : \A f \in b.members :
            /\ f \in Shots(R) /\ \E g \in b.members : after(f, g) \/ after(g, f)
            /\ \A h \in b.members : f = h \/ (Earlier(R, f, h) => \E g \in b.members : after(f, g))

\* No kind is worked out from the old figures of a picture whose thumbnail
\* could give the new ones (categories.rs fill_missing_measurements).
KindsAreMeasured ==
    \A f \in DOMAIN measured.kinds :
        measured.kinds[f].thumb => measured.kinds[f].chroma # Unmeasured

\* What a person said of a file stands through every job: the date of an
\* index run, the best frame of a burst that is built again, the kind of a
\* picture; and a kind nobody gave comes of all the figures there are (pc-db
\* files.rs upsert_meta and set_category, series.rs build_controlled,
\* service.rs restore_curation).
HandStands ==
    /\ \A f \in File : /\ chosen[f].date # 0 => index[f].taken = chosen[f].date
                       /\ chosen[f].kind # "none" => kinds[f].kind = chosen[f].kind
    /\ \A b \in bursts : b.members \cap best # {} => b.best \in best
    /\ KindsAreMeasured

(* ------------------ the invariant the proofs rest on ------------------- *)
AreRows(R) == DOMAIN R \subseteq File /\ R \in [DOMAIN R -> IndexRow]
Found(R) == {l \in Leads(R) : Verified(R, l)}
Measured(r) == r.thumb => r.chroma # Unmeasured

\* what a person said is written where the jobs look
HandInv ==
    /\ index \in [File -> IndexRow] /\ present \subseteq File /\ kept \in Seq(File)
    /\ kinds \in [File -> [kind : Category, manual : BOOLEAN]]
    /\ chosen \in [File -> [date : Nat, kind : Category]]
    /\ \A f \in File :
         /\ chosen[f].date # 0 => index[f].dated = "manual" /\ index[f].taken = chosen[f].date
         /\ chosen[f].kind # "none" => kinds[f].manual /\ kinds[f].kind = chosen[f].kind

\* one burst for each run of presses, whatever is said of its best frame
AreBursts(B, R, hand) ==
    /\ \A b \in B :
         /\ b = [members |-> b.members, kind |-> b.kind, best |-> b.best, protected |-> b.protected]
         /\ b.members \in Runs(R)
         /\ b.members \cap hand # {} => b.best \in b.members \cap hand
    /\ \A b, c \in B : b.members = c.members => b = c
    /\ \A S \in Runs(R) : \E b \in B : b.members = S

\* what is stored was made of all the rows it says it was made of
StoredInv ==
    /\ measured = [groups |-> measured.groups, bursts |-> measured.bursts, kinds |-> measured.kinds]
    /\ AreRows(measured.groups) /\ AreRows(measured.bursts)
    /\ groups = Families(measured.groups, Found(measured.groups), kept)
    /\ AreBursts(bursts, measured.bursts, best)
    /\ \A f \in DOMAIN measured.kinds : Measured(measured.kinds[f])

\* a pass that a cancel cut short is followed by a check that stops the job
BuildInv ==
    /\ build.at = "idle" => build = Idle
    /\ build.at \in {"sweep", "leads", "verify", "found", "commit"} => AreRows(build.rows)
    /\ build.at = "leads" => asked \/ build.made = Leads(build.rows)
    /\ build.at = "verify" => build.made = Leads(build.rows)
    /\ build.at = "found" => asked \/ build.made = Found(build.rows)
    /\ At("families", "commit") => build.made = Families(build.rows, Found(build.rows), kept)
    /\ At("series", "commit") => build.made = Series(build.rows, best)
    /\ build.at = "filled" => \A f \in present : Measured(index[f])
    /\ At("categories", "commit") => \A f \in DOMAIN build.rows : Measured(build.rows[f])

ResemblanceInv == HandInv /\ StoredInv /\ BuildInv
=============================================================================

------------------------------- MODULE Groups -------------------------------
(***************************************************************************)
(* Groups of one photograph's files, what a person and the folder rules    *)
(* decided about them, the plan made of it and the run that carries the    *)
(* plan out (pc-family, pc-db files.rs, marks.rs and review.rs, pc-api     *)
(* service.rs, review.rs and jobs.rs).                                     *)
(*                                                                         *)
(* A group is the set of its members; `fam` says of each file its group,   *)
(* the file the group keeps (0: none) and the file's role.  What the       *)
(* index measured is a picture: the frame that was decoded, the file's own *)
(* bytes, and whether the frame is only a preview (a raw file).  Score,    *)
(* size and pixels are one figure, Worth.  Every step of a hand and every  *)
(* start of a job holds the gate and the writer's lock (WriterGate), so    *)
(* the only things that happen beside a run are other programs' writes.    *)
(***************************************************************************)
EXTENDS Naturals, FiniteSets, SequencesExt

CONSTANTS
    File,        \* the ids of the files, naturals
    Worth,       \* how good each file is, all different
    Dir,         \* the folder each file is in, a natural that orders their names
    Camera,      \* the files that can be an original
    Catalogued,  \* the files a live Lightroom catalogue names
    Bursts,      \* the series: sets of files
    Pictures,    \* [frame, bytes, proxy]
    First,       \* the picture each file starts with
    Shots,       \* the choices of pairs the files' own words link
    Requests,    \* the plans asked for: [scope, roles, catalogue]
    Writes,      \* what other programs write: <<file, picture>>
    MaxEdits,    \* bound: decisions pressed, entries undone
    MaxFaults    \* bound: writes of other programs and kills

ASSUME FileAssumption ==
    /\ File \in SUBSET (Nat \ {0}) /\ IsFiniteSet(File)
    /\ Worth \in [File -> Nat] /\ Dir \in [File -> Nat]
    /\ First \in [File -> Pictures]
ASSUME RequestAssumption ==
    \A req \in Requests : req.scope \in {"all", "reviewed", "marked"}

Dirs == {Dir[f] : f \in File}

VARIABLES
    now,      \* what each file holds on the disk
    present,  \* the files at home (files.state = 'present'), not in quarantine
    pic,      \* what the index says each file holds
    shots,    \* the pairs linked by names, documents and moments
    fam,      \* [group, keeper, role]
    kept,     \* manual_keepers in the order they were marked: [file, by]
    rejects,  \* manual_rejects
    splits,   \* manual_splits
    marks,    \* original_folders
    review,   \* review_choices: [state, seen, op] of each file
    history,  \* review_history
    page,     \* what the review page shows: tokens of groups
    agreed,   \* the evidence of every group approved on a page
    job,      \* what the writer is doing
    edits, faults

vars == <<now, present, pic, shots, fam, kept, rejects, splits, marks, review,
          history, page, agreed, job, edits, faults>>
decisions == <<kept, rejects, splits, marks>>
reviewed == <<review, history, agreed>>

Best(S) == CHOOSE m \in S : \A q \in S : Worth[q] <= Worth[m]

(* ---------------------------- what is the same ------------------------- *)
Identity(p) == <<p.frame, IF p.proxy THEN p.bytes ELSE 0>>
SamePicture(p, q) == IF p.proxy \/ q.proxy THEN p = q ELSE p.frame = q.frame

Linked(a, b) ==
    /\ {a, b} \cap splits = {}
    /\ pic[a].frame = pic[b].frame \/ {a, b} \in shots
Joined(f) ==
    {g \in present : \A S \in SUBSET present :
        (f \in S /\ \A a \in S, b \in present : Linked(a, b) => b \in S) => g \in S}

(* ------------------------------ the decisions -------------------------- *)
\* the numbers of S in their order
InOrder(S) ==
    CHOOSE s \in [1..Cardinality(S) -> S] : \A i, j \in 1..Cardinality(S) : i < j => s[i] < s[j]
Without(kp, files) ==
    LET left == {i \in DOMAIN kp : kp[i].file \notin files}
    IN [n \in 1..Cardinality(left) |-> kp[InOrder(left)[n]]]
Latest(kp, E) == kp[Max({i \in DOMAIN kp : kp[i] \in E})].file
Mine(kp, G) == {e \in ToSet(kp) : e.file \in G}
Hand(kp, G) == {e \in Mine(kp, G) : e.by = "hand"}
\* mutant: between two decisions in one group the rule's comes first
RuleFirst(kp, G) ==
    LET rule == Mine(kp, G) \ Hand(kp, G)
        first == IF rule # {} THEN rule ELSE Mine(kp, G)
    IN IF first = {} THEN 0 ELSE Latest(kp, first)
\* a person's answer outranks a rule's; of two of a kind the later stands
Decided(kp, G) ==
    LET first == IF Hand(kp, G) # {} THEN Hand(kp, G) ELSE Mine(kp, G)
    IN IF first = {} THEN 0 ELSE Latest(kp, first)

\* `pick` names the new keeper of each file's group, 0 where it stays: the
\* members that hold the keeper's frame become its copies, and the keeper
\* takes over the word the group had for the file it kept
Reconciled(fm, k, f) ==
    LET twins == {m \in fm.group[k] \cap present : pic[m].frame = pic[k].frame}
        words == {m \in twins \ {k} : fm.role[m] # "copy"}
    IN CASE f \notin twins                            -> fm.role[f]
         [] f \in twins /\ f # k                      -> "copy"
         [] f = k /\ fm.role[k] # "copy"              -> fm.role[k]
         [] f = k /\ fm.role[k] = "copy" /\ words # {} -> fm.role[Best(words)]
         [] OTHER                                     -> "unknown"
ReKeep(fm, pick) ==
    [fm EXCEPT !.keeper = [f \in File |-> IF pick[f] # 0 THEN pick[f] ELSE @[f]],
               !.role = [f \in File |-> IF pick[f] # 0 THEN Reconciled(fm, pick[f], f) ELSE @[f]]]
Picked(pick) == {pick[f] : f \in File} \ {0}
KeptAfter(kp, pick, by) ==
    Without(kp, {f \in File : pick[f] # 0})
    \o [i \in 1..Cardinality(Picked(pick)) |-> [file |-> InOrder(Picked(pick))[i], by |-> by]]

(* -------------------------- building the groups ------------------------ *)
Bonus(r) == CASE r = "original" -> 70 [] r = "version" -> 48 [] r = "unknown" -> 40 [] OTHER -> 0
RoleIn(G, d, f) ==
    LET Twins(m) == {q \in G : Identity(pic[q]) = Identity(pic[m])}
        Real(m) == IF d \in Twins(m) THEN d ELSE Best(Twins(m))
        cameras == {m \in G \cap Camera : Real(m) = m}
    IN IF Real(f) # f THEN "copy"
       ELSE IF cameras # {} /\ f = Best(cameras) THEN "original" ELSE "version"
KeeperIn(G, d) ==
    IF d # 0 THEN d
    ELSE CHOOSE m \in G : \A q \in G :
            Worth[q] + Bonus(RoleIn(G, d, q)) <= Worth[m] + Bonus(RoleIn(G, d, m))
Built ==
    LET G(f) == IF f \in present THEN Joined(f) ELSE {}
    IN [group |-> [f \in File |-> G(f)],
        keeper |-> [f \in File |-> IF G(f) = {} THEN 0 ELSE KeeperIn(G(f), Decided(kept, G(f)))],
        role |-> [f \in File |-> IF G(f) = {} THEN "unknown" ELSE RoleIn(G(f), Decided(kept, G(f)), f)]]

\* folders.rs: between files of one frame, keep the one in the folder that
\* holds most of the burst; the last of them read wins
Home(fm, B) ==
    LET Held(d) == Cardinality({f \in B \cap present : fm.group[f] # {} /\ Dir[f] = d})
    IN CHOOSE d \in Dirs : \A e \in Dirs : Held(e) < Held(d) \/ (Held(e) = Held(d) /\ d <= e)
Bursted(fm) ==
    LET manual == {e.file : e \in ToSet(kept)}
        k(f) == fm.keeper[f]
        Movers(f) == {g \in fm.group[f] \cap present :
            /\ \E B \in Bursts : g \in B /\ Dir[g] = Home(fm, B)
            /\ k(f) \in (UNION Bursts) \cap present /\ g # k(f)
            /\ {k(f), g} \cap manual = {}
            /\ pic[g].frame = pic[k(f)].frame}
    IN ReKeep(fm, [f \in File |-> IF Movers(f) = {} THEN 0 ELSE Max(Movers(f))])

\* marks.rs: the file lies in a marked folder
covering(f, mk) == Dir[f] \in mk
\* what no mark covers any more is taken back
Uncovered(fm, kp, mk) ==
    {f \in File : /\ fm.group[f] # {} /\ ~covering(f, mk)
                  /\ [file |-> f, by |-> "folder"] \in ToSet(kp)}
MayTake(f) == f \notin rejects
\* originals.rs: every group a person left alone keeps a file of the marked
\* folders, if one of them holds the picture that is kept
Settled(fm, kp, mk) ==
    LET freed == Uncovered(fm, kp, mk)
        left == Without(kp, freed)
        fallen == ReKeep(fm, [f \in File |->
            IF fm.group[f] \cap freed # {} /\ fm.group[f] \cap present # {}
            THEN Best(fm.group[f] \cap present) ELSE 0])
        Takes(f) == {m \in fm.group[f] \cap present :
            /\ Dir[m] \in mk /\ MayTake(m) /\ fallen.keeper[f] # 0
            /\ Identity(pic[m]) = Identity(pic[fallen.keeper[f]])}
        pick == [f \in File |->
            IF Hand(left, fm.group[f]) # {} \/ Takes(f) = {} THEN 0 ELSE Best(Takes(f))]
    IN [fam |-> ReKeep(fallen, pick), kept |-> KeptAfter(left, pick, "folder")]

(* -------------------------------- the plan ----------------------------- *)
Groups == {fam.group[f] : f \in File} \ {{}}
Rows(G) == G \cap present
KeepsFile(G) == fam.keeper[CHOOSE m \in G : TRUE]
PlanKeeper(G) == IF KeepsFile(G) \in Rows(G) THEN KeepsFile(G) ELSE Best(Rows(G))
StillCopy(m, k) == fam.role[m] = "copy" => Identity(pic[m]) = Identity(pic[k])
Automatic(req, G) ==
    {[file |-> m, keeper |-> PlanKeeper(G), role |-> fam.role[m]] :
        m \in {q \in Rows(G) \ {PlanKeeper(G)} :
            /\ fam.role[q] \in req.roles
            /\ StillCopy(q, PlanKeeper(G))
            /\ req.catalogue \/ q \notin Catalogued}}
RejectedRows == rejects \cap present
ByHand(req, taken) ==
    {[file |-> m, keeper |-> 0, role |-> "unknown"] :
        m \in {q \in RejectedRows \ taken : req.catalogue \/ q \notin Catalogued}}
\* mutant: every move is judged alone
NoRescue(cs, G) == {}
\* nothing may empty a group: of the files it would lose one stays
Rescued(cs, G) ==
    LET taken == {c \in cs : c.file \in G}
        files == {c.file : c \in taken}
        stays == IF PlanKeeper(G) \in files THEN PlanKeeper(G) ELSE Best(files)
    IN IF Rows(G) # {} /\ Rows(G) \subseteq files THEN {c \in taken : c.file = stays} ELSE {}
BeforeReview(req) ==
    LET auto == UNION {Automatic(req, G) : G \in {H \in Groups : Rows(H) # {}}}
        all == auto \cup ByHand(req, {c.file : c \in auto})
    IN all \ UNION {Rescued(all, G) : G \in Groups}
Compute(req) ==
    {c \in BeforeReview(req) : review[c.file].state \in {"none", "plan"}}

(* ------------------------------- the review ---------------------------- *)
NoChoice == [state |-> "none", seen |-> {}, op |-> 0]
Blank == [kind |-> "none"]
Default == [scope |-> "all", roles |-> {"copy"}, catalogue |-> FALSE]
\* the evidence a decision is about: never the id of a group
Seen(G) == {[file |-> m, keeper |-> m = KeepsFile(G), role |-> fam.role[m], pic |-> pic[m]] :
              m \in Rows(G)}
Exact(G) == KeepsFile(G) \in Rows(G)
            /\ \A m \in Rows(G) : Identity(pic[m]) = Identity(pic[KeepsFile(G)])
Eligible(G) ==
    /\ Exact(G)
    /\ Rows(G) \ {KeepsFile(G)} \subseteq {c.file : c \in {d \in BeforeReview(Default) : d.role = "copy"}}
KeeperSource(G) ==
    CASE KeepsFile(G) \notin Rows(G) -> "none"
      [] [file |-> KeepsFile(G), by |-> "hand"] \in ToSet(kept) -> "manual"
      [] covering(KeepsFile(G), marks) -> "folder"
      [] OTHER -> "none"
Source(G) == IF KeeperSource(G) # "none" THEN KeeperSource(G)
             ELSE IF rejects \cap Rows(G) # {} THEN "manual" ELSE "none"
\* mutant: an approval outlives what was approved
AnyEvidence(c, G) == TRUE
SameEvidence(c, G) == c.state # "plan" \/ c.seen = Seen(G)
State(G) ==
    LET choices == {review[m] : m \in Rows(G)}
        said == {c.state : c \in choices}
    IN IF Cardinality(said) = 1 /\ said # {"none"} /\ \A c \in choices : SameEvidence(c, G)
       THEN CHOOSE s \in said : TRUE
       ELSE IF Source(G) # "none" THEN "reviewed" ELSE "pending"
Queue == {G \in Groups : Cardinality(Rows(G)) >= 2}
Token(G) == [seen |-> Seen(G), state |-> State(G), source |-> Source(G),
             revision |-> {<<m, review[m].op>> : m \in Rows(G)}]
Untouched(G) == Source(G) = "none" /\ \A m \in Rows(G) : review[m] = NoChoice
BatchGroups == {G \in Queue : Untouched(G) /\ Eligible(G)}

ReviewedPlan(req) ==
    LET approved == UNION {G \in Queue : State(G) = "plan"}
        decided == UNION {G \in Groups : KeeperSource(G) # "none"}
    IN {c \in Compute(req) :
          /\ c.file \in approved \cup decided \cup rejects
          /\ c.role = "copy" \/ c.keeper = 0}
GroupKeeper(f) == fam.keeper[f]
MakePreview(req) ==
    CASE req.scope = "all"      -> Compute(req)
      [] req.scope = "reviewed" -> ReviewedPlan(req)
      [] req.scope = "marked"   -> {c \in Compute(req) :
             LET k == IF c.keeper # 0 THEN c.keeper ELSE GroupKeeper(c.file)
             IN k # 0 /\ Dir[k] \in marks}

(* ------------------------------- the steps ----------------------------- *)
Idle == [phase |-> "idle"]
None == [file |-> 0, keeper |-> 0, role |-> "unknown", was |-> {}, asked |-> FALSE, late |-> FALSE]

Init ==
    /\ now = First /\ pic = First /\ present = File
    /\ shots \in Shots
    /\ fam = [group |-> [f \in File |-> {}], keeper |-> [f \in File |-> 0],
              role |-> [f \in File |-> "unknown"]]
    /\ kept = <<>> /\ rejects = {} /\ splits = {} /\ marks = {}
    /\ review = [f \in File |-> NoChoice] /\ history = <<>>
    /\ agreed = {} /\ page = Blank /\ job = Idle /\ edits = 0 /\ faults = 0

Free == job.phase = "idle"
Works == UNCHANGED <<edits, faults>>
Pressed == Free /\ edits < MaxEdits /\ edits' = edits + 1 /\ UNCHANGED faults
Fault == faults < MaxFaults /\ faults' = faults + 1 /\ UNCHANGED edits
Files == UNCHANGED <<now, present, pic, shots>>
Screens == UNCHANGED <<agreed, page, job>>

\* the stages that read: the index, the groups, the curation put back on top
Reindex ==
    /\ Free /\ pic' = [f \in File |-> IF f \in present THEN now[f] ELSE pic[f]]
    /\ Works /\ UNCHANGED <<now, present, shots, fam, decisions, reviewed, page, job>>
Rebuild ==
    /\ Free
    /\ LET s == Settled(Bursted(Built), kept, marks)
       IN fam' = s.fam /\ kept' = s.kept
    /\ job' = [phase |-> "restore"]
    /\ Works /\ Files /\ UNCHANGED <<rejects, splits, marks, reviewed, page>>
Series ==
    /\ Free /\ fam' = Bursted(fam) /\ job' = [phase |-> "restore"]
    /\ Works /\ Files /\ UNCHANGED <<decisions, reviewed, page>>
restore_curation ==
    /\ job.phase = "restore"
    /\ LET d(f) == Decided(kept, fam.group[f])
           s == Settled([fam EXCEPT !.keeper = [f \in File |-> IF d(f) # 0 THEN d(f) ELSE @[f]]],
                        kept, marks)
       IN fam' = s.fam /\ kept' = s.kept
    /\ job' = Idle
    /\ Works /\ Files /\ UNCHANGED <<rejects, splits, marks, reviewed, page>>

\* one press that settles the groups `pick` names, setting `aside` aside
Press(pick, aside, forget) ==
    /\ Pressed
    /\ fam' = ReKeep(fam, pick) /\ kept' = KeptAfter(kept, pick, "hand")
    /\ rejects' = (rejects \ {pick[f] : f \in File}) \cup aside
    /\ review' = [f \in File |-> IF f \in forget THEN NoChoice ELSE review[f]]
    /\ Files /\ Screens /\ UNCHANGED <<splits, marks, history>>
keep_only(f) ==
    LET G == fam.group[f]
    IN f \in Rows(G) /\ Press([g \in File |-> IF g \in G THEN f ELSE 0], Rows(G) \ {f}, G)
Favourite(d) ==
    [f \in File |-> LET here == {m \in Rows(fam.group[f]) : Dir[m] = d}
                    IN IF here = {} THEN 0 ELSE Best(here)]
keep_folder_only(d) ==
    LET pick == Favourite(d)
        settled == {f \in File : pick[f] # 0}
    IN Press(pick, (settled \cap present) \ {pick[f] : f \in File}, settled)
prefer_folder(d) ==
    LET same(f) == {m \in Rows(fam.group[f]) : Dir[m] = d /\ pic[m].frame = pic[fam.keeper[f]].frame}
    IN Press([f \in File |-> IF same(f) = {} THEN 0 ELSE Best(same(f))], {}, {})

\* the marks on files: set aside or taken back, one or a burst or a group
MarkFiles(rj, forget) ==
    /\ Pressed /\ rejects' = rj /\ rj # rejects
    /\ review' = [f \in File |-> IF f \in forget THEN NoChoice ELSE review[f]]
    /\ Files /\ Screens /\ UNCHANGED <<fam, kept, splits, marks, history>>
reject(f) == MarkFiles(rejects \cup {f}, {f}) \/ MarkFiles(rejects \ {f}, {f})
reject_rest(B, best) == best \in B /\ MarkFiles(rejects \cup (B \ {best}), B \ {best})
keep_all(B) == MarkFiles(rejects \ B, {})
keep_all_versions(G) == MarkFiles(rejects \ G, {})

split_family(f) ==
    /\ Pressed /\ fam.group[f] # {}
    /\ LET rest == fam.group[f] \ {f}
       IN fam' = [group |-> [g \in File |-> IF g = f THEN {f} ELSE IF g \in rest THEN rest ELSE fam.group[g]],
                  keeper |-> [g \in File |-> IF g = f THEN f
                                             ELSE IF g \in rest /\ fam.keeper[g] = f THEN Best(rest)
                                             ELSE fam.keeper[g]],
                  role |-> [fam.role EXCEPT ![f] = "unknown"]]
    /\ splits' = splits \cup {f}
    /\ Files /\ Screens /\ UNCHANGED <<kept, rejects, marks, review, history>>
set_original_folder(d, mk) ==
    /\ Pressed /\ mk # marks /\ marks' = mk
    /\ LET s == Settled(fam, kept, mk) IN fam' = s.fam /\ kept' = s.kept
    /\ Files /\ Screens /\ UNCHANGED <<rejects, splits, review, history>>

\* the review page: what it shows, and the presses that carry its token back
Show(tokens, kind) ==
    /\ page = Blank /\ page' = [kind |-> kind, tokens |-> tokens]
    /\ Works /\ Files /\ UNCHANGED <<fam, decisions, review, history, agreed, job>>
Look == \/ \E G \in Queue : Show({Token(G)}, "group")
        \/ Show({Token(G) : G \in BatchGroups}, "batch")
TokenHolds(gs) == page.tokens = {Token(G) : G \in gs}
save_review(gs, state) ==
    /\ Pressed /\ gs # {} /\ TokenHolds(gs)
    /\ state = "plan" => \A G \in gs : Eligible(G)
    /\ LET op == Len(history) + 1
           files == UNION {Rows(G) : G \in gs}
       IN /\ history' = Append(history, [before |-> [f \in files |-> review[f]], undone |-> FALSE])
          /\ review' = [f \in File |-> IF f \in files
                          THEN [state |-> state, op |-> op,
                                seen |-> Seen(CHOOSE G \in gs : f \in G)]
                          ELSE review[f]]
    /\ agreed' = agreed \cup (IF state = "plan" THEN {t.seen : t \in page.tokens} ELSE {})
    /\ page' = Blank
    /\ Files /\ UNCHANGED <<fam, decisions, job>>
decide(state) == page.kind = "group" /\ \E G \in Queue : save_review({G}, state)
batch == page.kind = "batch" /\ save_review(BatchGroups, "plan")
Undoable(f, op) == review[f].op = op /\ f \in present
undo_review(op) ==
    LET before == history[op].before
    IN /\ Free /\ ~history[op].undone
       /\ \A f \in DOMAIN before : Undoable(f, op)
       /\ review' = [f \in File |-> IF f \in DOMAIN before THEN before[f] ELSE review[f]]
       /\ history' = [history EXCEPT ![op].undone = TRUE]
       /\ Works /\ Files /\ Screens /\ UNCHANGED <<fam, decisions>>

\* the plan, confirmed and carried out file by file: the job makes it anew
\* and goes on only if it is the one on the screen, token for token
Start(req) ==
    /\ Free /\ MakePreview(req) # {}
    /\ job' = [phase |-> "move", left |-> MakePreview(req), cur |-> None]
    /\ Works /\ Files /\ UNCHANGED <<fam, decisions, reviewed, page>>
\* a refused file is left where it is, and the run goes on to the next
Drop(c) == [job EXCEPT !.left = @ \ {c}]
Moving == job.phase = "move" /\ UNCHANGED <<now, pic, shots, fam, decisions, reviewed, page>>
Now(c) == {<<f, now[f]>> : f \in {c.file, c.keeper} \cap File}
\* the photograph and the file it is redundant to, held and compared
Compare(c) ==
    /\ Moving /\ job.cur = None /\ c \in job.left
    /\ IF c.keeper = 0 \/ (c.keeper \in present /\ SamePicture(now[c.file], now[c.keeper]))
       THEN job' = [Drop(c) EXCEPT !.cur =
                       [file |-> c.file, keeper |-> c.keeper, role |-> c.role, was |-> Now(c),
                        asked |-> FALSE, late |-> FALSE]]
       ELSE job' = Drop(c)
    /\ Works /\ UNCHANGED present
\* mutant: what was compared is not asked again
NotAsked(c) == TRUE
AsCompared(c) == Now(c) = c.was
\* the last question, to the photograph and to the keeper held, or the refusal
Ask ==
    /\ Moving /\ job.cur # None /\ ~job.cur.asked
    /\ job' = IF AsCompared(job.cur) THEN [job EXCEPT !.cur.asked = TRUE]
              ELSE [job EXCEPT !.cur = None]
    /\ Works /\ UNCHANGED present
\* the rename; after it the photograph is asked again, and put back if it
\* changed, but the keeper is not (what a kill leaves halfway is UnitMove's)
Unchanged(c) == <<c.file, now[c.file]>> \in c.was
Move ==
    /\ Moving /\ job.cur.asked
    /\ present' = IF Unchanged(job.cur) THEN present \ {job.cur.file} ELSE present
    /\ job' = [job EXCEPT !.cur = None]
    /\ Works
Finish == Moving /\ job.cur = None /\ job.left = {} /\ job' = Idle /\ Works /\ UNCHANGED present
\* one entry undone: the file is home again (UnitMove)
Return(f) ==
    /\ Pressed /\ f \notin present /\ present' = present \cup {f}
    /\ UNCHANGED <<now, pic, shots, fam, decisions, reviewed, page, job>>

\* other programs, and the end of this one in the middle
Asked(f) == job.phase = "move" /\ job.cur.asked /\ job.cur.keeper = f
Write(f, p) ==
    /\ Fault /\ f \in present /\ <<f, p>> \in Writes /\ p # now[f] /\ now' = [now EXCEPT ![f] = p]
    \* `late` is history: the keeper was written after the last question
    /\ job' = IF Asked(f) THEN [job EXCEPT !.cur.late = TRUE] ELSE job
    /\ UNCHANGED <<present, pic, shots, fam, decisions, reviewed, page>>
Kill ==
    /\ Fault /\ ~Free /\ job' = Idle
    /\ Files /\ UNCHANGED <<fam, decisions, reviewed, page>>

Next ==
    \/ Reindex \/ Rebuild \/ Series \/ restore_curation \/ Look \/ batch
    \/ \E f \in File : keep_only(f) \/ reject(f) \/ split_family(f) \/ Return(f)
                       \/ \E p \in Pictures : Write(f, p)
    \/ \E d \in Dirs : \/ keep_folder_only(d) \/ prefer_folder(d)
                       \/ \E mk \in {marks \cup {d}, marks \ {d}} : set_original_folder(d, mk)
    \/ \E G \in Groups : keep_all_versions(G)
    \/ \E B \in Bursts : keep_all(B) \/ \E f \in File : reject_rest(B, f)
    \/ \E s \in {"plan", "keep", "defer"} : decide(s)
    \/ \E op \in 1..Len(history) : undo_review(op)
    \/ \E req \in Requests : Start(req)
    \/ Ask \/ Move \/ Finish \/ Kill
    \/ job.phase = "move" /\ \E c \in job.left : Compare(c)

Spec == Init /\ [][Next]_vars

(* ------------------------------ properties ----------------------------- *)
\* A run of a plan never takes the last file of a group (plan.rs
\* compute_before_review, "Nothing may empty a group"), whatever was set
\* aside by hand, narrowed, approved or kept meanwhile.
NeverEmptied ==
    [][\A f \in present \ present' :
         fam.group[f] = {} \/ fam.group[f] \cap present' # {}]_vars

\* A file the tool chose leaves only while another file with the same
\* picture is at home: what was indexed, planned and compared may be old by
\* then, and another program may have written either (files.rs
\* quarantine_file, same_picture_in, bound.rs the keeper asked again).  The
\* exception is the instant between the last question and the rename: the
\* file that leaves is asked again after it, the keeper is not (bound.rs
\* 875-897), so a write of the keeper just there is not noticed.
CopyIsHeld ==
    [][\A f \in present \ present' :
         job.cur.keeper # 0 =>
            \/ job.cur.late
            \/ \E g \in present' : SamePicture(now'[f], now'[g])]_vars

FolderKept == {e \in ToSet(kept) : e.by = "folder"}
HandHolds ==
    \A G \in Groups : Hand(kept, G) # {} => KeepsFile(G) = Latest(kept, Hand(kept, G))
\* A group a person decided keeps what the person chose, through rebuilds,
\* bursts, folder marks, moves and the decisions on other groups (lib.rs
\* build_controlled, folders.rs settle_keepers, originals.rs settle,
\* service.rs restore_curation), as long as it is not split and no folder's
\* decision is taken back.
HandStands ==
    [][HandHolds /\ splits' = splits /\ FolderKept \subseteq FolderKept' => HandHolds']_vars

\* A folder's decision never rests on a file that was set aside, never on a
\* picture other than the one the group kept, and never outlives its mark
\* (originals.rs settle, marks.rs revoke_uncovered_folder_keepers, pc-db
\* files.rs set_manual_keeper_from).
RulesAreModest ==
    [][/\ \A e \in FolderKept' : fam'.group[e.file] = {} \/ Dir[e.file] \in marks'
       /\ \A e \in FolderKept' \ FolderKept :
            /\ e.file \notin rejects
            /\ marks \subseteq marks' /\ marks # marks' =>
                 Identity(pic[e.file]) = Identity(pic[fam.keeper[e.file]])]_vars

\* A person's decision stands, and a rule's stays within its bounds.
DecisionsStand == HandStands /\ RulesAreModest

\* What a reviewed plan takes by the tool's own choice is a group no decision
\* of a person or a folder stands behind only if its evidence, member for
\* member, was approved on a page (pc-family review.rs reviewed_plan, pc-api
\* review.rs decide and batch); and an undone decision never comes back
\* through an old page (pc-db review.rs undo_review).
ApprovedWasSeen ==
    /\ \A req \in Requests : req.scope = "reviewed" =>
         \A c \in MakePreview(req) : c.keeper # 0 =>
            LET G == fam.group[c.file]
            IN KeeperSource(G) # "none" \/ c.file \in rejects \/ Seen(G) \in agreed
    /\ \A f \in File : review[f].op # 0 => ~history[review[f].op].undone


(* ------------------ the invariant the proofs rest on ------------------- *)
Role == {"copy", "original", "version", "unknown"}
Evidence == [file : File, keeper : BOOLEAN, role : Role, pic : Pictures]
Choice == [state : {"none", "plan", "keep", "defer"}, seen : SUBSET Evidence, op : Nat]
Planned == [file : File, keeper : File \cup {0}, role : Role]
Decision == [file : File, by : {"hand", "folder"}]
Compared == [file : File \cup {0}, keeper : File \cup {0}, role : Role,
             was : SUBSET (File \X Pictures), asked : BOOLEAN, late : BOOLEAN]

FileInv ==
    /\ now \in [File -> Pictures] /\ pic \in [File -> Pictures]
    /\ present \in SUBSET File

\* the groups are a partition of the files that are in one
Whole(group) ==
    /\ group \in [File -> SUBSET File]
    /\ \A f \in File : group[f] = {} \/ f \in group[f]
    /\ \A f \in File : \A g \in group[f] : group[g] = group[f]
Family(fm) ==
    /\ fm = [group |-> fm.group, keeper |-> fm.keeper, role |-> fm.role]
    /\ Whole(fm.group)
    /\ fm.role \in [File -> Role]
FamInv == Family(fam)

\* an approval, also one that an undo would bring back, was given on a page
Approved(c) == c.state = "plan" => c.seen \in agreed
Before(i) == history[i].before
Stands(i) == i \in 1..Len(history) /\ ~history[i].undone
\* an entry of the history that stands, and what each file's choice was before
Stems(i, f, j) == Stands(i) /\ f \in DOMAIN Before(i) /\ Before(i)[f].op = j
\* the choices of one file are a chain: each came of an entry that stands,
\* took the place of an older one that stands, and of no choice twice
ChoiceInv ==
    /\ review \in [File -> Choice]
    /\ Len(history) \in Nat
    /\ history = [i \in 1..Len(history) |-> [before |-> Before(i), undone |-> history[i].undone]]
    /\ \A i \in 1..Len(history) :
          history[i].undone \in BOOLEAN /\ \E D \in SUBSET File : Before(i) \in [D -> Choice]
    /\ \A f \in File : Approved(review[f])
    /\ \A i \in 1..Len(history) : \A f \in DOMAIN Before(i) : Approved(Before(i)[f])
    /\ \A f \in File : review[f].op # 0 =>
          Stands(review[f].op) /\ f \in DOMAIN Before(review[f].op)
    /\ \A i \in 1..Len(history), j \in 1..Len(history), f \in File :
          Stems(i, f, j) =>
            /\ j < i /\ Stands(j) /\ f \in DOMAIN Before(j)
            /\ review[f].op # j
            /\ \A k \in 1..Len(history) : Stems(k, f, j) => k = i
    /\ \A i \in 1..Len(history) : \A f \in DOMAIN Before(i) :
          Before(i)[f].op \in 0..Len(history)

\* what a run may still take leaves a file of every group
Leaving == {c.file : c \in job.left} \cup {job.cur.file}
Spared(G) == Rows(G) # {} => Rows(G) \ Leaving # {}
\* what was compared is the file and another one at home, with one picture
HeldPair(c) ==
    /\ c.keeper \in present /\ c.keeper # c.file /\ c.file \in File
    /\ \E p, q \in Pictures : c.was = {<<c.file, p>>, <<c.keeper, q>>} /\ SamePicture(p, q)
KeeperStands(c) == <<c.keeper, now[c.keeper]>> \in c.was
RunInv ==
    job.phase = "move" =>
        /\ job = [phase |-> "move", left |-> job.left, cur |-> job.cur]
        /\ job.left \in SUBSET Planned /\ \A c \in job.left : c.keeper # c.file
        /\ job.cur \in Compared
        /\ job.cur.keeper # 0 => HeldPair(job.cur)
        /\ job.cur.keeper # 0 /\ job.cur.asked /\ ~job.cur.late => KeeperStands(job.cur)
        /\ \A f \in File : Spared(fam.group[f])

\* any file of a group tells what it keeps, a file split off is alone, and no
\* folder's decision outlives its mark
KeeperIsOne(fm) == \A f \in File : \A g \in fm.group[f] : fm.keeper[g] = fm.keeper[f]
Covered(e) == fam.group[e.file] = {} \/ Dir[e.file] \in marks
DecisionInv ==
    /\ kept \in Seq(Decision)
    /\ KeeperIsOne(fam)
    /\ splits \in SUBSET File /\ \A f \in splits : fam.group[f] \subseteq {f}
    /\ \A e \in FolderKept : Covered(e)

GroupsInv == FileInv /\ FamInv /\ ChoiceInv /\ RunInv
=============================================================================

------------------------------ MODULE Thumbnails ------------------------------
(***************************************************************************)
(* The thumbnail cache (pc-core thumbstore.rs) and who writes into it: the *)
(* indexing of a file (pc-work index.rs), the making again of thumbnails   *)
(* (pc-work thumbs.rs) and the rendered views of a page (pc-api            *)
(* routes.rs).                                                             *)
(*                                                                         *)
(* A job runs under the writer's lock, so there is one at a time; views    *)
(* are rendered by any thread of any process.  A picture is the number of  *)
(* the file's version it was made from, and the same number in two files   *)
(* is the same picture.  A thumbnail's key is its picture; a view's key is *)
(* the file and the stamp (time and size) it had.                          *)
(***************************************************************************)
EXTENDS Naturals, FiniteSets

CONSTANTS
    Photo,       \* the files
    Viewer,      \* the threads that render views
    ProcOf,      \* the process of each thread, the job's included
    Asked,       \* bound: the files whose views are asked for
    MaxVersion,  \* bound: versions of each file
    MaxMishaps   \* bound: kills, failed writes, refused readings, other hands

Job == "job"
Thread == Viewer \cup {Job}
Proc == {ProcOf[t] : t \in Thread}
Version == UNION {1..MaxVersion[f] : f \in Photo}

ASSUME ThumbnailsAssumption ==
    /\ Job \notin Viewer /\ Thread \subseteq DOMAIN ProcOf
    /\ Asked \subseteq Photo /\ MaxVersion \in [Photo -> Nat \ {0}] /\ MaxMishaps \in Nat

VARIABLES
    photos,     \* each file: its version and its stamp
    rows,       \* each row: the stamp it was read with, and its thumbnail's key
    thumbs,     \* what bears each name in the cache
    exclusive,  \* the volume renames without replacing
    direct,     \* the processes that know it does not
    pc, at,     \* where each thread is, and what it holds
    job,        \* the job: its kind, what it has to do and has done
    hurt,       \* the names a stranger or a cut write holds
    unseen,     \* the files rewritten within one second and one size
    mishaps

thumbsVars == <<photos, rows, thumbs, exclusive, direct, pc, at, job, hurt, unseen, mishaps>>

NoPicture == 0
Thumb(v) == <<"thumb", v>>
View(f, s) == <<"view", f, s>>
Key == {Thumb(v) : v \in Version} \cup {View(f, s) : f \in Asked, s \in Version}
Empty == [is |-> "absent", of |-> NoPicture]
Short == [is |-> "short", of |-> NoPicture]
Foreign == [is |-> "foreign", of |-> NoPicture]
Picture(v) == [is |-> "whole", of |-> v]
Borne == {Empty, Short, Foreign} \cup {Picture(v) : v \in Version}
Whole(k) == thumbs[k].is = "whole"
Holding == [photo : Photo, version : Version \cup {NoPicture}, key : Key, asked : Version]
NoJob == [kind |-> "none", todo |-> {}, checked |-> {}, made |-> <<>>]
Begun(kind, todo) == [kind |-> kind, todo |-> todo, checked |-> {}, made |-> <<>>]

ThumbsInit ==
    /\ photos = [f \in Photo |-> [version |-> 1, stamp |-> 1]]
    /\ rows = [f \in Photo |-> [stamp |-> NoPicture, thumb |-> NoPicture]]
    /\ thumbs = [k \in Key |-> Empty]
    /\ exclusive \in BOOLEAN /\ direct = {}
    /\ pc = [t \in Thread |-> "idle"] /\ at = [t \in Thread |-> <<>>]
    /\ job = NoJob
    /\ hurt = {} /\ unseen = {} /\ mishaps = 0

Mishap == mishaps < MaxMishaps /\ mishaps' = mishaps + 1
Undisturbed == UNCHANGED <<mishaps, hurt, unseen>>
Go(t, s) == pc' = [pc EXCEPT ![t] = s]
Holds(t, h) == at' = [at EXCEPT ![t] = h]
Lets(t, s) == Go(t, s) /\ Holds(t, <<>>)

(* ------------------------------ one put -------------------------------- *)
\* a thread of this process is writing under this key
Striped(t, k) ==
    \E u \in Thread \ {t} : /\ ProcOf[u] = ProcOf[t] /\ pc[u] \in {"publish", "create", "fill"}
                            /\ at[u].key = k
\* the put is over: what the caller does with it
After(t, well) == IF t = Job THEN (IF well THEN "stored" ELSE "unstored") ELSE "handed"

\* mutant: a file that bears the name is replaced
AlwaysFree(k) == thumbs[k] # Foreign
FreeName(k) == thumbs[k] = Empty
\* an existing plain file is as good as this one; another object is refused
write(t) ==
    LET k == at[t].key IN
    /\ pc[t] = "write" /\ ~Striped(t, k)
    /\ IF FreeName(k) THEN Go(t, IF ProcOf[t] \in direct THEN "create" ELSE "publish")
       ELSE Go(t, After(t, thumbs[k] # Foreign))
    /\ Undisturbed /\ UNCHANGED <<photos, rows, thumbs, exclusive, direct, at, job>>
\* a temporary, renamed without replacing; where that cannot be done the file
\* is created at its name from now on
publish(t) ==
    LET k == at[t].key IN
    /\ pc[t] = "publish"
    /\ IF exclusive
       THEN /\ thumbs' = IF FreeName(k) THEN [thumbs EXCEPT ![k] = Picture(at[t].version)] ELSE thumbs
            /\ Go(t, After(t, TRUE)) /\ UNCHANGED direct
       ELSE direct' = direct \cup {ProcOf[t]} /\ Go(t, "create") /\ UNCHANGED thumbs
    /\ Undisturbed /\ UNCHANGED <<photos, rows, exclusive, at, job>>
create_new(t) ==
    LET k == at[t].key IN
    /\ pc[t] = "create"
    /\ IF thumbs[k] = Empty THEN thumbs' = [thumbs EXCEPT ![k] = Short] /\ Go(t, "fill")
       ELSE Go(t, After(t, TRUE)) /\ UNCHANGED thumbs
    /\ Undisturbed /\ UNCHANGED <<photos, rows, exclusive, direct, at, job>>
write_all(t) ==
    /\ pc[t] = "fill"
    /\ thumbs' = [thumbs EXCEPT ![at[t].key] = Picture(at[t].version)]
    /\ Go(t, After(t, TRUE))
    /\ Undisturbed /\ UNCHANGED <<photos, rows, exclusive, direct, at, job>>
\* no room: a temporary stays, and so does a file cut short at its name
cannot(t) ==
    /\ pc[t] \in {"publish", "fill"} /\ Mishap
    /\ hurt' = IF pc[t] = "fill" THEN hurt \cup {at[t].key} ELSE hurt
    /\ Go(t, After(t, FALSE))
    /\ UNCHANGED <<photos, rows, thumbs, exclusive, direct, at, job, unseen>>

(* ------------------------------- a view -------------------------------- *)
\* mutant: the key names the file alone
KeyOfPath(f) == View(f, 1)
view_key(f) == View(f, photos[f].stamp)
full_preview(t, f) ==
    LET k == view_key(f) IN
    /\ pc[t] = "idle"
    /\ IF thumbs[k] \in {Empty, Foreign}
       THEN /\ Holds(t, [photo |-> f, version |-> NoPicture, key |-> k, asked |-> photos[f].version])
            /\ Go(t, "read")
       ELSE /\ Holds(t, [photo |-> f, version |-> thumbs[k].of, key |-> k, asked |-> photos[f].version])
            /\ Go(t, "handed")
    /\ Undisturbed /\ UNCHANGED <<photos, rows, thumbs, exclusive, direct, job>>
\* read after the stat: the file may be another one by now; a JPEG goes out as
\* it is, and a picture too big is not kept
render(t, kept) ==
    /\ pc[t] = "read"
    /\ Holds(t, [at[t] EXCEPT !.version = photos[at[t].photo].version])
    /\ Go(t, IF kept THEN "write" ELSE "handed")
    /\ Undisturbed /\ UNCHANGED <<photos, rows, thumbs, exclusive, direct, job>>
\* the page has its picture
respond(t) ==
    /\ pc[t] = "handed" /\ Lets(t, "idle")
    /\ Undisturbed /\ UNCHANGED <<photos, rows, thumbs, exclusive, direct, job>>

(* ------------------------------- the jobs ------------------------------ *)
ReadingOf(f) ==
    [photo |-> f, version |-> photos[f].version, key |-> Thumb(photos[f].version), asked |-> photos[f].stamp]
\* an indexing takes the files that are new or changed
Outdated == {f \in Photo : rows[f].stamp # photos[f].stamp}
\* what is made again is asked of the rows that have been read: those whose
\* thumbnail is no good, or all
RowsRead == {f \in Photo : rows[f].stamp # NoPicture}
StartJob(kind) ==
    /\ pc[Job] = "idle"
    /\ job' = Begun(kind, IF kind = "index" THEN Outdated ELSE RowsRead) /\ job'.todo # {}
    /\ Go(Job, "next")
    /\ Undisturbed /\ UNCHANGED <<photos, rows, thumbs, exclusive, direct, at>>
\* mutant: a key in the row is a thumbnail in the cache
HasKey(f) == rows[f].thumb # NoPicture
is_good(f) == rows[f].thumb # NoPicture /\ Whole(Thumb(rows[f].thumb))
Checked(f) == [job EXCEPT !.todo = @ \ {f}, !.checked = @ \cup {f}]
Skip(f) ==
    /\ pc[Job] = "next" /\ f \in job.todo /\ job.kind = "rebuild" /\ is_good(f)
    /\ job' = Checked(f)
    /\ Undisturbed /\ UNCHANGED <<photos, rows, thumbs, exclusive, direct, pc, at>>
probe_parts(f) ==
    /\ pc[Job] = "next" /\ f \in job.todo /\ (job.kind = "rebuild" => ~is_good(f))
    /\ job' = Checked(f)
    /\ Holds(Job, ReadingOf(f)) /\ Go(Job, "write")
    /\ Undisturbed /\ UNCHANGED <<photos, rows, thumbs, exclusive, direct>>
\* a refused reading is reported, and the row stays as it is
Refuse(f) ==
    /\ pc[Job] = "next" /\ f \in job.todo /\ Mishap
    /\ job' = [job EXCEPT !.todo = @ \ {f}]
    /\ UNCHANGED <<photos, rows, thumbs, exclusive, direct, pc, at, hurt, unseen>>
\* an indexed file is recorded with or without its thumbnail; one made again
\* waits for the end, and a refused one is not counted
Made(well) ==
    LET f == at[Job].photo IN
    /\ pc[Job] = IF well THEN "stored" ELSE "unstored"
    /\ IF job.kind = "index"
       THEN /\ rows' = [rows EXCEPT ![f] = [stamp |-> at[Job].asked,
                                            thumb |-> IF well THEN at[Job].version ELSE NoPicture]]
            /\ UNCHANGED job
       ELSE /\ job' = IF well
                      THEN [job EXCEPT !.made = [g \in DOMAIN @ \cup {f} |->
                                                   IF g = f THEN at[Job].version ELSE @[g]]]
                      ELSE [job EXCEPT !.checked = @ \ {f}]
            /\ UNCHANGED rows
    /\ Lets(Job, "next")
    /\ Undisturbed /\ UNCHANGED <<photos, thumbs, exclusive, direct>>
\* one transaction; a cancelled run leaves the rest and records what it made
CommitMade(cancelled) ==
    /\ pc[Job] = "next" /\ (cancelled \/ job.todo = {})
    /\ rows' = [f \in Photo |-> IF f \in DOMAIN job.made
                                THEN [rows[f] EXCEPT !.thumb = job.made[f]] ELSE rows[f]]
    /\ job' = [job EXCEPT !.kind = "told", !.todo = {}] /\ Go(Job, "told")
    /\ Undisturbed /\ UNCHANGED <<photos, thumbs, exclusive, direct, at>>
Ended ==
    /\ pc[Job] = "told" /\ job' = NoJob /\ Go(Job, "idle")
    /\ Undisturbed /\ UNCHANGED <<photos, rows, thumbs, exclusive, direct, at>>

(* ------------------------- the world around them ----------------------- *)
\* a file is written anew; within one second and one size nothing shows it
Rewrite(f, seen) ==
    /\ photos[f].version < MaxVersion[f]
    /\ photos' = [photos EXCEPT ![f] = [version |-> @.version + 1,
                                        stamp |-> IF seen THEN @.version + 1 ELSE @.stamp]]
    /\ unseen' = IF seen THEN unseen ELSE unseen \cup {f}
    /\ UNCHANGED <<rows, thumbs, exclusive, direct, pc, at, job, hurt, mishaps>>
KillProcess(p) ==
    LET mine == {t \in Thread : ProcOf[t] = p} IN
    /\ \E t \in mine : pc[t] # "idle"
    /\ Mishap
    /\ pc' = [t \in Thread |-> IF t \in mine THEN "idle" ELSE pc[t]]
    /\ at' = [t \in Thread |-> IF t \in mine THEN <<>> ELSE at[t]]
    /\ job' = IF Job \in mine THEN NoJob ELSE job
    /\ direct' = direct \ {p}
    /\ hurt' = hurt \cup {at[t].key : t \in {u \in mine : pc[u] = "fill"}}
    /\ UNCHANGED <<photos, rows, thumbs, exclusive, unseen>>
\* the user throws the cache away: nothing is in it, and nothing half written
Throw ==
    /\ Mishap /\ \A t \in Thread : pc[t] = "idle"
    /\ thumbs' = [k \in Key |-> Empty] /\ hurt' = {}
    /\ UNCHANGED <<photos, rows, exclusive, direct, pc, at, job, unseen>>
OtherHands(k) ==
    /\ Mishap /\ thumbs[k] = Empty
    /\ thumbs' = [thumbs EXCEPT ![k] = Foreign] /\ hurt' = hurt \cup {k}
    /\ UNCHANGED <<photos, rows, exclusive, direct, pc, at, job, unseen>>

ThumbsNext ==
    \/ \E t \in Thread : write(t) \/ publish(t) \/ create_new(t) \/ write_all(t) \/ cannot(t)
    \/ \E t \in Viewer :
         \/ \E f \in Asked : full_preview(t, f)
         \/ \E kept \in BOOLEAN : render(t, kept)
         \/ respond(t)
    \/ \E kind \in {"index", "rebuild", "all"} : StartJob(kind)
    \/ \E f \in Photo : Skip(f) \/ probe_parts(f) \/ Refuse(f)
    \/ \E well \in BOOLEAN : Made(well) \/ CommitMade(well)
    \/ Ended
    \/ \E f \in Photo, seen \in BOOLEAN : Rewrite(f, seen)
    \/ \E p \in Proc : KillProcess(p)
    \/ Throw
    \/ \E k \in Key : OtherHands(k)

ThumbsSpec == ThumbsInit /\ [][ThumbsNext]_thumbsVars
-----------------------------------------------------------------------------
\* A view that is handed out is never older than the file was when it was asked
\* for: not out of the cache, where another thread may have stored it meanwhile,
\* and not after the file was written anew (routes.rs view_key, full_preview).
\* Excepted: a file rewritten within one second and one size, and a file cut
\* short at its name where the volume cannot rename without replacing.
NeverOlder ==
    \A t \in Viewer :
        pc[t] = "handed" /\ at[t].photo \notin unseen =>
            \/ at[t].version >= at[t].asked
            \/ at[t].version = NoPicture /\ ~exclusive

\* Where the volume can rename without replacing, a name gets a whole file at
\* once and keeps it, whoever else was making the same one; where it cannot, a
\* file is only ever completed.  A stranger's object is never touched
\* (thumbstore.rs write, publish).
AppearsWholeAndStays ==
    [][\A k \in Key : thumbs'[k] # thumbs[k] /\ (\E j \in Key : thumbs'[j] # Empty) =>
            \/ thumbs[k] = Empty /\ (exclusive => thumbs'[k] # Short)
            \/ thumbs[k] = Short /\ ~exclusive]_thumbsVars

\* When the making again of thumbnails ends, every row it looked at and did not
\* refuse names a whole thumbnail, though the cache was thrown away or the file
\* written anew since it was indexed (thumbs.rs rebuild).  Excepted: a name whose
\* file was cut short before, which no put ever writes again.
RebuildMends ==
    [][job.kind \in {"rebuild", "all"} /\ job'.kind = "told" =>
         \A f \in job.checked :
            \/ rows'[f].thumb # NoPicture /\ Whole(Thumb(rows'[f].thumb))
            \/ rows'[f].thumb # NoPicture /\ Thumb(rows'[f].thumb) \in hurt
            \/ rows'[f].thumb # NoPicture /\ thumbs[Thumb(rows'[f].thumb)] = Short /\ ~exclusive]_thumbsVars

(* ------------------ the invariant the proofs rest on ------------------- *)
FileInv ==
    /\ photos \in [Photo -> [version : Nat, stamp : Nat]]
    /\ \A f \in Photo : /\ 1 <= photos[f].stamp /\ photos[f].stamp <= photos[f].version
                        /\ photos[f].version <= MaxVersion[f]
                        /\ f \in unseen \/ photos[f].stamp = photos[f].version
    /\ rows \in [Photo -> [stamp : Nat, thumb : Version \cup {NoPicture}]]

\* a name without a whole file has a reason
CacheInv ==
    /\ thumbs \in [Key -> Borne]
    /\ \A k \in Key : /\ thumbs[k] = Short => ~exclusive
                      /\ thumbs[k] = Foreign => k \in hurt
    /\ \A f \in Asked, s \in Version : Whole(View(f, s)) => s <= thumbs[View(f, s)].of
    /\ exclusive => direct = {}

Putting == {"write", "publish", "create", "fill"}
\* a view in the making is no older than the stat its key was made of
ViewerAt(t) ==
    LET h == at[t] IN
    /\ h \in Holding /\ h.photo \in Asked
    /\ \E s \in Version : /\ h.key = View(h.photo, s) /\ s <= h.asked
                          /\ h.photo \in unseen \/ s = h.asked
    /\ h.asked <= photos[h.photo].version
    /\ pc[t] \in Putting => h.version >= h.asked
JobAt ==
    /\ at[Job] \in Holding /\ at[Job].version \in Version
    /\ at[Job].key = Thumb(at[Job].version)
\* one thread at most completes a file, and it is still short
ThreadInv ==
    /\ pc = [t \in Thread |-> pc[t]] /\ at = [t \in Thread |-> at[t]]
    /\ pc[Job] \in {"idle", "next", "stored", "unstored", "told"} \cup Putting
    /\ \A t \in Viewer : pc[t] \in {"idle", "read", "handed"} \cup Putting
    /\ \A t \in Viewer : pc[t] # "idle" => ViewerAt(t)
    /\ pc[Job] \in Putting \cup {"stored", "unstored"} => JobAt
    /\ \A t \in Thread : /\ pc[t] \in {"create", "fill"} => ~exclusive
                         /\ pc[t] = "fill" => thumbs[at[t].key] = Short
    /\ \A t, u \in Thread : pc[t] = "fill" /\ pc[u] = "fill" /\ at[t].key = at[u].key => t = u

\* a thumbnail that is there, or is not for one of the reasons a put accepts
Settled(v) ==
    /\ v \in Version
    /\ Whole(Thumb(v)) \/ Thumb(v) \in hurt \/ (thumbs[Thumb(v)] = Short /\ ~exclusive)
Pending(f) == pc[Job] \in Putting \cup {"stored", "unstored"} /\ at[Job].photo = f
JobInv ==
    /\ job = [kind |-> job.kind, todo |-> job.todo, checked |-> job.checked, made |-> job.made]
    /\ job.todo \subseteq Photo /\ job.checked \subseteq Photo \ job.todo
    /\ \E D \in SUBSET Photo : job.made \in [D -> Version]
    /\ pc[Job] = "idle" => job = NoJob
    /\ pc[Job] = "stored" => Settled(at[Job].version)
    /\ job.kind \in {"rebuild", "all"} =>
         \A f \in job.checked :
            \/ Pending(f)
            \/ f \in DOMAIN job.made /\ Settled(job.made[f])
            \/ f \notin DOMAIN job.made /\ Settled(rows[f].thumb)
    /\ \A f \in DOMAIN job.made : Settled(job.made[f])
    /\ job.kind = "index" => job.made = <<>>

ThumbnailsInv == FileInv /\ CacheInv /\ ThreadInv /\ JobInv
=============================================================================

--------------------------- MODULE DataMoveProofs ---------------------------
(***************************************************************************)
(* For every number of runs, records, acts of other programs and faults:   *)
(* the archive the app opens never changes by being moved, and a folder    *)
(* with the database has the whole copy.                                   *)
(***************************************************************************)
EXTENDS DataMove, TLAPS

USE BoundsAssumption DEF Runs, Names, Alien, Objects

------------------------------------------------------------------------------
(* Places and entries.                                                       *)

LEMMA PlacesDiffer ==
    ASSUME NEW k \in Names
    PROVE  /\ Target(k) # Nowhere /\ Target(k) # Away /\ Inside(k) # Target(k)
           /\ Left(k) # Target(k) /\ ByPath(k) # Nowhere /\ Nowhere # Away
           /\ \A n \in Names : Target(n) = Target(k) \/ ByPath(n) = Target(k) => n = k
BY DEF Target, Nowhere, Away, Inside, Left, ByPath

\* An own entry is an object of the run, and no other's.
LEMMA OwnIsOwn ==
    ASSUME MoveTypes, run # 0, NEW k \in Names
    PROVE  /\ Own(k) \in Objects /\ Own(k) # Alien /\ Own(k) = <<run, k>> /\ run \in Runs
           /\ \A r \in Runs, n \in Names : <<r, n>> \in Objects /\ <<r, n>> # Alien
           /\ \A r \in Runs, n \in Names : <<r, n>> = Own(k) <=> r = run /\ n = k
BY DEF MoveTypes, Own

\* A step spares what is published if it puts no database under its name, and leaves the
\* thumbnails of one that is there or carries them out of every folder, unless the code lost
\* sight of that database; what belongs to runs to come is nowhere yet.
Spares ==
    /\ at' = [o \in Objects |-> at'[o]] /\ run' = run
    /\ \A r \in Runs : at'[<<r, "db">>] = Target("db") =>
          /\ at[<<r, "db">>] = Target("db")
          /\ at'[<<r, "thumbs">>] \in {at[<<r, "thumbs">>], Away} \/ <<r, "db">> \in slipped'
    /\ \A r \in Runs, k \in Names : r > run => at'[<<r, k>>] = at[<<r, k>>]

\* A step loses sight of entries of its own run alone, and of the database only as it stops.
Forgets ==
    /\ slipped \subseteq slipped' /\ run' = run
    /\ \A r \in Runs, k \in Names : r > run /\ <<r, k>> \in slipped' => <<r, k>> \in slipped
    /\ Own("db") \in slipped' => Own("db") \in slipped \/ Fails'
    /\ \/ chosen' = chosen /\ (chosen = 0 \/ slipped' = slipped)
       \/ chosen' = run /\ Own("db") \notin slipped'

LEMMA NothingForgets ==
    ASSUME UNCHANGED <<slipped, run, chosen>>
    PROVE  Forgets
BY DEF Forgets

\* It may lose sight of any of its entries as it stops, and of no database otherwise.
LEMMA SlipForgets ==
    ASSUME MoveTypes, run # 0, UNCHANGED <<run, chosen>>, chosen = 0, NEW k, Slips(k),
           k = "db" => Fails'
    PROVE  Forgets
<1>1. slipped' = slipped \cup {<<run, k>>}
  BY DEF Slips, Own
<1>2. \A r \in Runs, n \in Names : r > run => <<r, n>> # <<run, k>>
  BY DEF MoveTypes
<1> QED  BY <1>1, <1>2 DEF Forgets, Own

LEMMA SparedStays ==
    ASSUME MoveInv, Spares, Forgets
    PROVE  /\ DbMeansWhole'
           /\ \A r \in Runs, k \in Names : r > run' => at'[<<r, k>>] = Nowhere
           /\ \A r \in Runs, k \in Names : r > run' => <<r, k>> \notin slipped'
           /\ run # 0 =>
                 (at[Own("db")] # Target("db") => at'[Own("db")'] # Target("db"))
<1>1. /\ \A r \in Runs : at[<<r, "db">>] = Target("db")
              => at[<<r, "thumbs">>] \in {Target("thumbs"), Away} \/ <<r, "db">> \in slipped
      /\ \A r \in Runs, k \in Names : r > run => at[<<r, k>>] = Nowhere
      /\ \A r \in Runs, k \in Names : r > run => <<r, k>> \notin slipped
      /\ run \in 0 .. MaxRuns
      /\ chosen # 0 => <<chosen, "db">> \notin slipped
  BY DEF MoveInv, MoveTypes, DbMeansWhole, ThumbsAreOut, SlipsFail
<1>2. Target("db") # Away
  BY PlacesDiffer
<1>3. DbMeansWhole'
  <2>1. ASSUME NEW r \in Runs, at'[<<r, "db">>] = Target("db")
        PROVE  at'[<<r, "thumbs">>] \in {Target("thumbs"), Away} \/ <<r, "db">> \in slipped'
    BY <1>1, <2>1 DEF Spares, Forgets
  <2>2. chosen' # 0 => <<chosen', "db">> \notin slipped'
    BY <1>1 DEF Forgets, Own
  <2> QED  BY <2>1, <2>2 DEF DbMeansWhole, Target
<1>4. \A r \in Runs, k \in Names :
         r > run' => at'[<<r, k>>] = Nowhere /\ <<r, k>> \notin slipped'
  BY <1>1 DEF Spares, Forgets
<1>5. run # 0 => run \in Runs
  BY <1>1
<1>6. QED
  BY <1>2, <1>3, <1>4, <1>5 DEF Spares, Own

\* One entry is put somewhere: it spares the published ones if it is neither of them.
LEMMA OtherEntrySpares ==
    ASSUME MoveTypes, run # 0, run' = run, NEW o \in Objects, NEW p, PutAt(o, p),
           o \in {Alien, Own("side"), Own("partial")}
    PROVE  /\ Spares
           /\ \A k \in {"db", "thumbs"} : at'[<<run, k>>] = at[<<run, k>>]
<1>1. at' = [at EXCEPT ![o] = p] /\ at = [x \in Objects |-> at[x]]
  BY DEF PutAt, MoveTypes
<1>2. \A x \in Objects : x # o => at'[x] = at[x]
  BY <1>1
<1>3. at' = [x \in Objects |-> at'[x]]
  BY <1>1
<1>4. \A r \in Runs, k \in {"db", "thumbs"} : <<r, k>> \in Objects /\ <<r, k>> # o
  BY OwnIsOwn
<1>5. \A r \in Runs, k \in Names : r > run => <<r, k>> \in Objects /\ <<r, k>> # o
  BY OwnIsOwn DEF MoveTypes
<1>6. run \in Runs
  BY DEF MoveTypes
<1>7. QED
  BY <1>2, <1>3, <1>4, <1>5, <1>6 DEF Spares

\* Until the database is out, or once it is lost sight of, an own entry may go anywhere but
\* where a database is looked for.
LEMMA OwnEntrySpares ==
    ASSUME MoveTypes, run # 0, run' = run, NEW k, NEW p, PutAt(Own(k), p),
           at[Own("db")] # Target("db") \/ Own("db") \in slipped', p # Target("db")
    PROVE  Spares
<1>1. at' = [at EXCEPT ![Own(k)] = p] /\ at = [x \in Objects |-> at[x]]
  BY DEF PutAt, MoveTypes
<1>2. \A x \in Objects : x # Own(k) => at'[x] = at[x]
  BY <1>1
<1>3. at' = [x \in Objects |-> at'[x]]
  BY <1>1
<1>4. run \in Runs /\ \A r \in Runs, n \in Names : <<r, n>> \in Objects
  BY OwnIsOwn
<1>5. at'[<<run, "db">>] = Target("db")
         => at[<<run, "db">>] = Target("db") /\ <<run, "db">> \in slipped'
  BY <1>1, <1>2, <1>4 DEF Own
<1>6. \A r \in Runs, n \in Names : r # run => at'[<<r, n>>] = at[<<r, n>>]
  BY <1>2, <1>4 DEF Own
<1>7. \A r \in Runs : r > run => r # run
  BY DEF MoveTypes
<1>8. QED
  BY <1>3, <1>5, <1>6, <1>7 DEF Spares

LEMMA NothingSpares ==
    ASSUME MoveTypes, run' = run, UNCHANGED at
    PROVE  Spares
BY DEF Spares, MoveTypes

------------------------------------------------------------------------------
(* The steps of a run.                                                       *)

\* A run goes on to its next step before the publication, or gives up.
GoesOn(next) ==
    /\ UNCHANGED <<ver, chosen, locked>>
    /\ (pc' = next /\ pc # "out") \/ (pc' = "settle" /\ goal' = "fail")

LEMMA BeforeStep ==
    ASSUME MoveInv, Spares, Forgets, pc \in Before, NEW next \in Before \ {"keep", "last", "out"},
           GoesOn(next), copied' \in [Runs -> Nat],
           pc = "out" => at'[Own("db")] # Target("db") \/ Own("db") \in slipped',
           next \in {"thumbs", "check", "publish"} /\ pc' = next => copied'[run] = ver
    PROVE  MoveInv'
<1>1. run # 0 /\ locked /\ chosen = 0 /\ run' = run
  BY DEF MoveInv, CopyIsAll, Spares, Before
<1>2. MoveTypes'
  BY <1>1 DEF MoveInv, MoveTypes, Spares, GoesOn, Settling
<1>3. ~Succeeds'
  BY DEF GoesOn, Succeeds, Settling, Before
<1>4. CopyIsAll'
  BY <1>1, <1>3 DEF CopyIsAll, GoesOn, Switches, Before
<1>5. pc # "out" => at'[Own("db")'] # Target("db")
  BY <1>1, SparedStays DEF MoveInv, ThumbsAreOut
<1>6. ThumbsAreOut'
  <2>1. /\ \A r \in Runs, k \in Names : r > run' => at'[<<r, k>>] = Nowhere
        /\ Target("db")' = Target("db")
    BY SparedStays DEF Target
  <2>2. pc' \in Before \ {"out"} => at'[Own("db")'] # Target("db")
    BY <1>5 DEF GoesOn, Before
  <2>3. Fails' => at'[Own("db")'] # Target("db") \/ Own("db")' \in slipped'
    BY <1>1, <1>5 DEF Own
  <2>4. pc' \notin {"keep", "last", "out"}
    BY DEF GoesOn
  <2> QED  BY <1>3, <2>1, <2>2, <2>3, <2>4 DEF ThumbsAreOut
<1>7. SlipsFail'
  <2>1. Own("db")' = Own("db") /\ Own("db") \notin slipped
    BY <1>1 DEF MoveInv, SlipsFail, Own
  <2>2. pc' \in Before \cup Switches => ~Fails'
    BY DEF Fails, Before, Switches, Settling
  <2> QED  BY <1>3, <2>1, <2>2, SparedStays DEF SlipsFail, Forgets
<1>8. QED
  BY <1>2, <1>4, <1>6, <1>7, SparedStays DEF MoveInv

\* The run stops, and settles what it registered.
LEMMA GivesUp ==
    ASSUME MoveInv, pc \in Before, Spares, Forgets, UNCHANGED <<ver, chosen, locked>>,
           pc = "out" => at'[Own("db")] # Target("db") \/ Own("db") \in slipped',
           copied' \in [Runs -> Nat], Abort
    PROVE  MoveInv'
BY BeforeStep DEF GoesOn, Abort, Before

LEMMA FirstSteps ==
    ASSUME MoveInv,
           \/ probe_exclusive_rename \/ stage \/ claim \/ create_private_dir
           \/ open_created_dir \/ holds \/ verify \/ still_at
    PROVE  MoveInv'
<1>1. /\ pc \in Before \ {"out"} /\ MoveTypes /\ run # 0 /\ copied \in [Runs -> Nat] /\ chosen = 0
      /\ UNCHANGED <<run, chosen, ver, locked>>
  BY DEF probe_exclusive_rename, stage, claim, create_private_dir, open_created_dir, holds,
         verify, still_at, MoveInv, MoveTypes, CopyIsAll, Before, frame
<1>2. \A k \in Names : Own(k) \in Objects
  BY <1>1, OwnIsOwn
<1>3. ASSUME UNCHANGED at PROVE Spares
  BY <1>1, <1>3, NothingSpares
<1>4. ASSUME NEW k \in {"side", "partial"}, NEW p, PutAt(Own(k), p) PROVE Spares
  BY <1>1, <1>2, <1>4, OtherEntrySpares
<1>5. slipped' = slipped => Forgets
  BY <1>1, NothingForgets
<1>6. ASSUME NEW k \in {"side", "partial"}, GiveUpOver(k) PROVE Forgets
  BY <1>1, <1>6, SlipForgets DEF GiveUpOver
<1>7. ASSUME NEW next \in Before \ {"keep", "last", "out"}, Spares, Forgets, copied' = copied,
             pc' = next \/ (pc' = "settle" /\ goal' = "fail"),
             next \in {"thumbs", "check", "publish"} /\ pc' = next => copied[run] = ver
      PROVE  MoveInv'
  BY <1>1, <1>7, BeforeStep DEF GoesOn
<1> DEFINE Goes(next) == /\ copied' = copied
                         /\ pc' = next \/ (pc' = "settle" /\ goal' = "fail")
<1>8. CASE probe_exclusive_rename
  <2>1. UNCHANGED at
    BY <1>8 DEF probe_exclusive_rename, Attempt, Continue, GiveUp, Abort
  <2>2. slipped' = slipped
    BY <1>8 DEF probe_exclusive_rename, Attempt, Continue, GiveUp, Abort
  <2>3. Goes("stage")
    BY <1>8 DEF probe_exclusive_rename, Attempt, Continue, GiveUp, Abort
  <2> QED  BY <1>3, <1>4, <1>5, <1>6, <1>7, <2>1, <2>2, <2>3 DEF Before
<1>9. CASE stage
  <2>1. UNCHANGED at
    BY <1>9 DEF stage, Attempt, Continue, GiveUp, Abort
  <2>2. slipped' = slipped
    BY <1>9 DEF stage, Attempt, Continue, GiveUp, Abort
  <2>3. Goes("claim")
    BY <1>9 DEF stage, Attempt, Continue, GiveUp, Abort
  <2> QED  BY <1>3, <1>4, <1>5, <1>6, <1>7, <2>1, <2>2, <2>3 DEF Before
<1>10. CASE claim
  <2>1. UNCHANGED at \/ PutAt(Own("side"), ByPath("side"))
    BY <1>10 DEF claim, Attempt, Continue, GiveUp, Abort
  <2>2. slipped' = slipped \/ GiveUpOver("side")
    BY <1>10 DEF claim, Attempt, Continue, GiveUp, Abort
  <2>3. Goes("mkdir")
    BY <1>10 DEF claim, Attempt, Continue, GiveUp, Abort, GiveUpOver
  <2> QED  BY <1>3, <1>4, <1>5, <1>6, <1>7, <2>1, <2>2, <2>3 DEF Before
<1>11. CASE create_private_dir
  <2>1. UNCHANGED at \/ PutAt(Own("partial"), ByPath("partial"))
    BY <1>11 DEF create_private_dir, Attempt, Continue, GiveUp, Abort
  <2>2. slipped' = slipped
    BY <1>11 DEF create_private_dir, Attempt, Continue, GiveUp, Abort
  <2>3. Goes("open")
    BY <1>11 DEF create_private_dir, Attempt, Continue, GiveUp, Abort
  <2> QED  BY <1>3, <1>4, <1>5, <1>6, <1>7, <2>1, <2>2, <2>3 DEF Before
<1>12. CASE open_created_dir
  <2>1. UNCHANGED at
    BY <1>12 DEF open_created_dir, Attempt, Continue, GiveUp, Abort, GiveUpOver
  <2>2. slipped' = slipped \/ GiveUpOver("partial")
    BY <1>12 DEF open_created_dir, Attempt, Continue, GiveUp, Abort
  <2>3. Goes("holds")
    BY <1>12 DEF open_created_dir, Attempt, Continue, GiveUp, Abort, GiveUpOver
  <2> QED  BY <1>3, <1>4, <1>5, <1>6, <1>7, <2>1, <2>2, <2>3 DEF Before
<1>13. CASE holds
  <2>1. UNCHANGED at
    BY <1>13 DEF holds, Attempt, Continue, GiveUp, Abort
  <2>2. slipped' = slipped
    BY <1>13 DEF holds, Attempt, Continue, GiveUp, Abort
  <2>3. Goes("snapshot")
    BY <1>13 DEF holds, Attempt, Continue, GiveUp, Abort
  <2> QED  BY <1>3, <1>4, <1>5, <1>6, <1>7, <2>1, <2>2, <2>3 DEF Before
<1>14. CASE verify
  <2>1. UNCHANGED at
    BY <1>14 DEF verify, Attempt, Continue, GiveUp, Abort
  <2>2. slipped' = slipped
    BY <1>14 DEF verify, Attempt, Continue, GiveUp, Abort
  <2>3. Goes("thumbs")
    BY <1>14 DEF verify, Attempt, Continue, GiveUp, Abort
  <2>4. pc' = "thumbs" => copied[run] = ver
    BY <1>14 DEF verify, verify_connections, Attempt, GiveUp, Abort, Continue
  <2> QED  BY <1>3, <1>4, <1>5, <1>6, <1>7, <2>1, <2>2, <2>3, <2>4 DEF Before
<1>15. CASE still_at
  <2>1. UNCHANGED at \/ PutAt(Own("side"), ByPath("side"))
    BY <1>15 DEF still_at, Attempt, Continue, GiveUp, Abort, ensure_owned
  <2>2. slipped' = slipped
    BY <1>15 DEF still_at, Attempt, Continue, GiveUp, Abort, ensure_owned
  <2>3. Goes("publish")
    BY <1>15 DEF still_at, Attempt, Continue, GiveUp, Abort, ensure_owned
  <2>4. copied[run] = ver
    BY <1>15 DEF still_at, MoveInv, CopyIsAll
  <2> QED  BY <1>3, <1>4, <1>5, <1>6, <1>7, <2>1, <2>2, <2>3, <2>4 DEF Before
<1> QED  BY <1>8, <1>9, <1>10, <1>11, <1>12, <1>13, <1>14, <1>15

\* The copy and the thumbnails are made in the staging folder, where nothing looks for them.
LEMMA StagingSteps ==
    ASSUME MoveInv, snapshot \/ stage_thumbs
    PROVE  MoveInv'
<1>1. /\ pc \in Before \ {"out"} /\ MoveTypes /\ run # 0 /\ run' = run /\ copied \in [Runs -> Nat]
      /\ ver \in Nat /\ UNCHANGED <<slipped, chosen>>
  BY DEF snapshot, stage_thumbs, frame, MoveInv, MoveTypes, CopyIsAll, Before, Attempt, Continue
<1>2. at[<<run, "db">>] # Target("db") /\ Inside("db") # Target("db") /\ run \in Runs
  BY <1>1, PlacesDiffer, OwnIsOwn DEF MoveInv, ThumbsAreOut, Own
<1>3. ASSUME NEW k \in {"db", "thumbs"}, PutAt(Own(k), Inside(k)) PROVE Spares
  BY <1>1, <1>2, <1>3, OwnEntrySpares DEF Inside, Target, Own
<1>4. Forgets
  BY <1>1, NothingForgets
<1>5. CASE snapshot
  <2>1. Spares
    BY <1>3, <1>5 DEF snapshot
  <2>2. GoesOn("verify") /\ copied' \in [Runs -> Nat]
    BY <1>1, <1>5 DEF snapshot, frame, Attempt, Continue, Abort, GoesOn
  <2>3. QED
    BY <1>1, <1>4, <2>1, <2>2, BeforeStep DEF Before
<1>6. CASE stage_thumbs
  <2>1. Spares
    BY <1>3, <1>6 DEF stage_thumbs
  <2>2. GoesOn("check") /\ copied' = copied
    BY <1>6 DEF stage_thumbs, frame, Attempt, Continue, Abort, GoesOn
  <2>3. copied[run] = ver
    <3>1. pc = "thumbs"
      BY <1>6 DEF stage_thumbs
    <3>2. QED
      BY <3>1 DEF MoveInv, CopyIsAll
  <2>4. QED
    BY <1>1, <1>4, <2>1, <2>2, <2>3, BeforeStep DEF Before
<1>7. QED
  BY <1>5, <1>6

\* The publication: thumbnails first, then the database, each asked for after its rename.
LEMMA PublicationSteps ==
    ASSUME MoveInv, publish_thumbs \/ keep \/ publish_db \/ move_child
    PROVE  MoveInv'
<1> DEFINE Goes == \/ /\ publish_thumbs /\ pc' = "keep" /\ UNCHANGED slipped
                      /\ PutAt(Own("thumbs"), Target("thumbs"))
                   \/ keep /\ pc' = "last" /\ UNCHANGED <<at, slipped>>
                   \/ /\ publish_db /\ pc' = "out" /\ UNCHANGED slipped
                      /\ PutAt(Own("db"), Target("db"))
                   \/ /\ move_child /\ goal' = "commit" /\ todo' = succeed /\ pc' = "settle"
                      /\ UNCHANGED <<at, slipped>>
<1>1. /\ pc \in {"publish", "keep", "last", "out"} /\ MoveTypes /\ run # 0 /\ locked /\ chosen = 0
      /\ UNCHANGED <<run, ver, chosen, locked, copied>>
      /\ copied \in [Runs -> Nat] /\ copied[run] = ver /\ run \in 0 .. MaxRuns
  BY DEF publish_thumbs, keep, publish_db, move_child, frame, Attempt, GiveUp, GiveUpOver,
         MoveInv, MoveTypes, CopyIsAll
<1>2. /\ pc # "out" => at[<<run, "db">>] # Target("db")
      /\ run \in Runs /\ <<run, "db">> \notin slipped
  BY <1>1, OwnIsOwn DEF MoveInv, ThumbsAreOut, SlipsFail, Own, Before
<1>3. \/ GiveUp /\ pc # "out"
      \/ keep /\ GiveUpOver("thumbs") /\ UNCHANGED at
      \/ move_child /\ GiveUpOver("db") /\ UNCHANGED at
      \/ Goes
  <2>1. FirstOut = "thumbs" /\ LastOut = "db"
    BY DEF FirstOut, LastOut
  <2>2. CASE publish_thumbs
    <3>1. pc # "out"
      BY <2>2 DEF publish_thumbs
    <3>2. GiveUp \/ (pc' = "keep" /\ UNCHANGED slipped /\ PutAt(Own(FirstOut), Target(FirstOut)))
      BY <2>2 DEF publish_thumbs, Attempt, Continue
    <3>3. PutAt(Own(FirstOut), Target(FirstOut)) => PutAt(Own("thumbs"), Target("thumbs"))
      BY <2>1 DEF PutAt, Own, Target
    <3> QED  BY <2>2, <3>1, <3>2, <3>3
  <2>3. CASE keep
    <3>1. /\ UNCHANGED at
          /\ GiveUpOver("thumbs") \/ (pc' = "last" /\ UNCHANGED slipped)
      BY <2>1, <2>3 DEF keep, Attempt, Continue
    <3> QED  BY <2>3, <3>1
  <2>4. CASE publish_db
    <3>1. pc # "out"
      BY <2>4 DEF publish_db
    <3>2. GiveUp \/ (pc' = "out" /\ UNCHANGED slipped /\ PutAt(Own(LastOut), Target(LastOut)))
      BY <2>4 DEF publish_db, Attempt, Continue
    <3>3. PutAt(Own(LastOut), Target(LastOut)) => PutAt(Own("db"), Target("db"))
      BY <2>1 DEF PutAt, Own, Target
    <3> QED  BY <2>4, <3>1, <3>2, <3>3
  <2>5. CASE move_child
    <3>1. /\ UNCHANGED at
          /\ \/ GiveUpOver("db")
             \/ pc' = "settle" /\ goal' = "commit" /\ todo' = succeed /\ UNCHANGED slipped
      BY <2>1, <2>5 DEF move_child, Attempt
    <3> QED  BY <2>5, <3>1
  <2> QED  BY <2>2, <2>3, <2>4, <2>5
<1>4. CASE GiveUp /\ pc # "out"
  <2>1. Spares /\ Forgets
    BY <1>1, <1>4, NothingSpares, NothingForgets DEF GiveUp
  <2>2. QED
    BY <1>1, <1>4, <2>1, GivesUp DEF GiveUp, Before
<1>5. CASE keep /\ GiveUpOver("thumbs") /\ UNCHANGED at
  <2>1. Spares /\ Forgets
    BY <1>1, <1>5, NothingSpares, SlipForgets DEF GiveUpOver
  <2>2. pc # "out"
    BY <1>5 DEF keep
  <2>3. QED
    BY <1>1, <1>5, <2>1, <2>2, GivesUp DEF GiveUpOver, Before
<1>6. CASE move_child /\ GiveUpOver("db") /\ UNCHANGED at
  <2>1. Fails'
    BY <1>6 DEF GiveUpOver, Abort, Fails, Settling
  <2>2. Spares /\ Forgets
    BY <1>1, <1>6, <2>1, NothingSpares, SlipForgets DEF GiveUpOver
  <2>3. Own("db") \in slipped'
    BY <1>6 DEF GiveUpOver, Slips
  <2>4. QED
    BY <1>1, <1>6, <2>2, <2>3, GivesUp DEF GiveUpOver, Before
<1>7. CASE Goes
  <2>0. pc' \in {"keep", "last", "out", "settle"} /\ slipped' = slipped
    BY <1>7
  <2>1. MoveTypes'
    BY <1>1, <1>7 DEF MoveTypes, PutAt, Before, Settling
  <2>2. CopyIsAll'
    BY <1>1, <1>7 DEF CopyIsAll
  <2>3. \A r \in Runs, n \in Names : r # run => at'[<<r, n>>] = at[<<r, n>>]
    <3>1. at = [o \in Objects |-> at[o]] /\ \A r \in Runs, n \in Names : <<r, n>> \in Objects
      BY <1>1 DEF MoveTypes
    <3>2. \A r \in Runs, n, k \in Names : r # run => <<r, n>> # Own(k)
      BY DEF Own
    <3>3. ASSUME NEW k \in Names, NEW q, PutAt(Own(k), q)
          PROVE  \A r \in Runs, n \in Names : r # run => at'[<<r, n>>] = at[<<r, n>>]
      BY <3>1, <3>2, <3>3 DEF PutAt
    <3>4. QED
      BY <1>7, <3>3
  <2>4. /\ pc' \in {"keep", "last"} => at'[<<run, "db">>] # Target("db")
        /\ at'[<<run, "thumbs">>] \in {Target("thumbs"), Away}
    <3>1. <<run, "db">> \in Objects /\ <<run, "thumbs">> \in Objects
      BY <1>2
    <3>2. pc \in {"keep", "last", "out"} => at[<<run, "thumbs">>] \in {Target("thumbs"), Away}
      BY DEF MoveInv, ThumbsAreOut, Own
    <3>3. CASE publish_thumbs /\ pc' = "keep" /\ PutAt(Own("thumbs"), Target("thumbs"))
      <4>1. pc # "out"
        BY <3>3 DEF publish_thumbs
      <4> QED  BY <1>1, <1>2, <3>1, <3>3, <4>1 DEF PutAt, Own, MoveTypes
    <3>4. CASE keep /\ pc' = "last" /\ UNCHANGED at
      BY <1>2, <3>2, <3>4 DEF keep
    <3>5. CASE publish_db /\ pc' = "out" /\ PutAt(Own("db"), Target("db"))
      <4>1. at'[<<run, "thumbs">>] = at[<<run, "thumbs">>]
        BY <1>1, <3>1, <3>5 DEF PutAt, Own, MoveTypes
      <4>2. pc = "last"
        BY <3>5 DEF publish_db
      <4>3. QED
        BY <3>2, <3>5, <4>1, <4>2
    <3>6. CASE move_child /\ pc' = "settle" /\ UNCHANGED at
      BY <3>2, <3>6 DEF move_child
    <3>7. QED
      BY <1>7, <3>3, <3>4, <3>5, <3>6
  <2>5. /\ \A r \in Runs : at[<<r, "db">>] = Target("db")
              => at[<<r, "thumbs">>] \in {Target("thumbs"), Away} \/ <<r, "db">> \in slipped
        /\ \A r \in Runs, n \in Names :
              r > run => at[<<r, n>>] = Nowhere /\ <<r, n>> \notin slipped
    BY DEF MoveInv, ThumbsAreOut, DbMeansWhole, SlipsFail
  <2>6. DbMeansWhole'
    BY <1>1, <2>0, <2>3, <2>4, <2>5 DEF DbMeansWhole
  <2>7. ThumbsAreOut'
    <3>1. /\ run' = run
          /\ pc' = "settle" => Succeeds' /\ ~Fails' /\ todo' = succeed
      BY <1>1, <1>7 DEF Succeeds, Fails, Settling
    <3>2. ASSUME NEW r \in Runs, NEW k \in Names, r > run' PROVE at'[<<r, k>>] = Nowhere
      <4>1. r > run /\ r # run
        BY <1>1, <3>2
      <4>2. at'[<<r, k>>] = at[<<r, k>>] /\ at[<<r, k>>] = Nowhere
        BY <2>3, <2>5, <4>1
      <4>. QED
        BY <4>2
    <3>3. pc' # "settle" => ~Succeeds' /\ ~Fails'
      BY <2>0 DEF Succeeds, Fails, Settling
    <3>. QED
      BY <2>0, <2>4, <3>1, <3>2, <3>3 DEF ThumbsAreOut, Own, Before, Settling
  <2>8. SlipsFail'
    BY <1>1, <1>2, <2>0, <2>5 DEF SlipsFail, Own
  <2>9. QED
    BY <2>1, <2>2, <2>6, <2>7, <2>8 DEF MoveInv
<1>8. QED
  BY <1>3, <1>4, <1>5, <1>6, <1>7

\* While entries are settled nothing is published; a run that succeeds settles its staging
\* folder alone.
LEMMA SettleStep ==
    ASSUME MoveInv, Spares, Forgets, pc \in Settling, pc' \in Settling,
           UNCHANGED <<goal, copied, ver, chosen, locked>>,
           goal = "commit" => todo' \in {<<>>, succeed} /\ (pc' # "settle" => todo' = succeed)
    PROVE  MoveInv'
<1>1. /\ run' = run /\ run # 0 /\ MoveTypes /\ (Succeeds' <=> Succeeds) /\ (Fails' <=> Fails)
      /\ pc' \notin Before \cup Switches
  BY DEF MoveInv, CopyIsAll, Spares, Settling, Succeeds, Fails, Before, Switches
<1>2. MoveTypes'
  BY <1>1 DEF MoveTypes, Spares
<1>3. CopyIsAll'
  BY <1>1 DEF MoveInv, CopyIsAll, Settling, Switches
<1>4. Own("db")' = Own("db")
  BY <1>1 DEF Own
<1>5. ThumbsAreOut'
  <2>1. Fails' => at'[Own("db")'] # Target("db") \/ Own("db")' \in slipped'
    BY <1>1, <1>4, SparedStays DEF MoveInv, ThumbsAreOut, Forgets
  <2>2. pc' \notin {"keep", "last", "out"} /\ (Succeeds' => goal = "commit")
    BY DEF Settling, Succeeds
  <2> QED  BY <1>1, <2>1, <2>2, SparedStays DEF ThumbsAreOut, Target, Before
<1>6. SlipsFail'
  <2>1. Succeeds => Own("db") \notin slipped /\ ~Fails
    BY DEF MoveInv, SlipsFail, Succeeds, Fails
  <2> QED  BY <1>1, <1>4, <2>1, SparedStays DEF SlipsFail, Forgets
<1>7. QED
  BY <1>2, <1>3, <1>5, <1>6, SparedStays DEF MoveInv

LEMMA SettlingSteps ==
    ASSUME MoveInv, look \/ remove_dir \/ set_aside \/ put_back
    PROVE  MoveInv'
<1>1. /\ pc \in Settling /\ pc' \in Settling /\ MoveTypes /\ run # 0 /\ run' = run
      /\ UNCHANGED <<goal, copied, ver, chosen, locked>> /\ chosen = 0
  BY DEF look, remove_dir, set_aside, put_back, Done, Opens, frame, Settling, MoveInv, CopyIsAll
<1>2. goal = "commit" => /\ todo \in {<<>>, succeed}
                         /\ pc # "settle" => todo = succeed
  BY <1>1 DEF MoveInv, ThumbsAreOut, Succeeds
<1>3. goal = "commit" => /\ todo' \in {<<>>, succeed} /\ (pc' # "settle" => todo' = succeed)
                         /\ Key = "partial"
  <2>1. goal = "commit" => todo = succeed
    BY <1>2 DEF look, remove_dir, set_aside, put_back
  <2>2. Head(succeed) = "partial" /\ Tail(succeed) = <<>>
    BY DEF succeed
  <2>3. QED
    BY <2>1, <2>2 DEF look, remove_dir, set_aside, put_back, Done, Opens, Key
<1>4. goal # "commit" => at[Own("db")] # Target("db") \/ Own("db") \in slipped
  BY <1>1 DEF MoveInv, ThumbsAreOut, Fails
<1>5. Forgets
  <2>1. CASE slipped' = slipped
    BY <1>1, <2>1, NothingForgets
  <2>2. CASE Slips(Key)
    <3>1. Key = "db" => Fails'
      BY <1>1, <1>3 DEF Fails
    <3> QED  BY <1>1, <2>2, <3>1, SlipForgets
  <2> QED  BY <2>1, <2>2 DEF look, remove_dir, set_aside, put_back
<1>6. Spares
  <2>1. CASE UNCHANGED at
    BY <1>1, <2>1, NothingSpares
  <2>2. ASSUME NEW p, PutAt(Alien, p) PROVE Spares
    BY <1>1, <2>2, OtherEntrySpares
  <2>3. ASSUME NEW p, PutAt(Own(Key), p), p # Target("db") PROVE Spares
    <3>1. CASE goal = "commit"
      BY <1>1, <1>3, <2>3, <3>1, OwnIsOwn, OtherEntrySpares
    <3>2. CASE goal # "commit"
      BY <1>1, <1>4, <1>5, <2>3, <3>2, OwnEntrySpares DEF Forgets
    <3>3. QED
      BY <3>1, <3>2
  <2>4. Nowhere # Target("db") /\ Left(Key) # Target("db")
    BY DEF Nowhere, Left, Target
  <2>5. CASE look
    BY <2>1, <2>5 DEF look
  <2>6. CASE remove_dir
    BY <2>1, <2>2, <2>3, <2>4, <2>6 DEF remove_dir
  <2>7. CASE set_aside
    BY <2>1, <2>2, <2>3, <2>4, <2>7 DEF set_aside
  <2>8. CASE put_back
    BY <2>1, <2>2, <2>8 DEF put_back, Attempt
  <2>9. QED
    BY <2>5, <2>6, <2>7, <2>8
<1>7. QED
  BY <1>1, <1>3, <1>5, <1>6, SettleStep

\* A run ends, is killed, or goes on to the switch with its proven copy.
LEMMA LastStep ==
    ASSUME MoveInv, Spares, Forgets, pc' \in {"idle"} \cup Switches, UNCHANGED <<ver, copied>>,
           chosen' \in 0 .. MaxRuns,
           pc' # "idle" => /\ UNCHANGED <<chosen, locked>> /\ pc # "idle"
                           /\ pc \in Switches \/ Succeeds
    PROVE  MoveInv'
<1>1. run' = run /\ MoveTypes
  BY DEF MoveInv, Spares
<1>2. MoveTypes'
  BY <1>1 DEF MoveTypes, Spares
<1>3. CopyIsAll'
  BY <1>1 DEF MoveInv, CopyIsAll, Switches, Settling, Succeeds
<1>4. pc' \notin Before \cup Settling
  BY DEF Before, Switches, Settling
<1>5. ThumbsAreOut'
  BY <1>1, <1>4, SparedStays DEF ThumbsAreOut, Before, Switches, Succeeds, Fails
<1>6. SlipsFail'
  <2>1. pc' \in Switches => Own("db") \notin slipped
    BY DEF MoveInv, SlipsFail, Switches
  <2> QED  BY <1>1, <1>4, <2>1, SparedStays DEF SlipsFail, Forgets, Succeeds, Fails, Own
<1>7. QED
  BY <1>2, <1>3, <1>5, <1>6, SparedStays DEF MoveInv

LEMMA LastSteps ==
    ASSUME MoveInv, finish \/ commit \/ prove_all \/ write_bootstrap \/ Crash
    PROVE  MoveInv'
<1>1. /\ pc # "idle" /\ run # 0 /\ run' = run /\ MoveTypes /\ UNCHANGED <<ver, copied>>
      /\ chosen \in 0 .. MaxRuns /\ run \in 0 .. MaxRuns
  BY DEF finish, commit, prove_all, write_bootstrap, Crash, world, MoveInv, MoveTypes, CopyIsAll
<1>2. Spares
  <2>1. CASE UNCHANGED at
    BY <1>1, <2>1, NothingSpares
  <2>2. CASE PutAt(Own("side"), ByPath("side"))
    BY <1>1, <2>2, OwnIsOwn, OtherEntrySpares
  <2>3. QED
    BY <2>1, <2>2 DEF finish, commit, prove_all, write_bootstrap, Crash, world, Attempt,
                      KeepCopy, ensure_owned
<1>3. Forgets
  <2>1. UNCHANGED <<slipped, run>>
    BY DEF finish, commit, prove_all, write_bootstrap, Crash, world
  <2>2. CASE chosen' = chosen
    BY <2>1, <2>2, NothingForgets
  <2>3. CASE write_bootstrap
    <3>1. Own("db") \notin slipped
      BY <2>3 DEF write_bootstrap, MoveInv, SlipsFail, Switches
    <3>2. chosen' \in {chosen, run}
      BY <2>3 DEF write_bootstrap
    <3> QED  BY <2>1, <3>1, <3>2 DEF Forgets
  <2> QED  BY <2>2, <2>3 DEF finish, commit, prove_all, Crash, world
<1>4. CASE finish
  BY <1>1, <1>2, <1>3, <1>4, LastStep
     DEF finish, Ends, KeepsLocks, world, Switches, Succeeds, Settling
<1>5. CASE commit
  BY <1>1, <1>2, <1>3, <1>5, LastStep DEF commit, Attempt, KeepCopy, Ends, Switches
<1>6. CASE prove_all
  BY <1>1, <1>2, <1>3, <1>6, LastStep DEF prove_all, Attempt, KeepCopy, Ends, Switches
<1>7. CASE write_bootstrap
  BY <1>1, <1>2, <1>3, <1>7, LastStep DEF write_bootstrap, Ends
<1>8. CASE Crash
  BY <1>1, <1>2, <1>3, <1>8, LastStep DEF Crash, Ends, world
<1>9. QED
  BY <1>4, <1>5, <1>6, <1>7, <1>8

\* A run begins where no run has put anything yet.
LEMMA FirstStep ==
    ASSUME MoveInv, copy_data
    PROVE  MoveInv'
<1>1. /\ run \in Nat /\ run' = run + 1 /\ run' \in Runs /\ pc' = "lock" /\ locked' /\ chosen = 0
      /\ UNCHANGED <<at, ver, copied, chosen, slipped>> /\ goal' = "none"
  BY DEF MoveInv, MoveTypes, copy_data, world
<1>2. at[<<run', "db">>] = Nowhere /\ \A r \in Runs, k \in Names : r > run' => at[<<r, k>>] = Nowhere
  <2>1. \A r \in Runs, k \in Names : r > run => at[<<r, k>>] = Nowhere
    BY DEF MoveInv, ThumbsAreOut
  <2>2. run' > run /\ \A r \in Runs : r > run' => r > run
    BY <1>1
  <2>3. QED
    BY <1>1, <2>1, <2>2
<1>3. MoveTypes'
  BY <1>1 DEF MoveInv, MoveTypes, Before
<1>4. CopyIsAll'
  BY <1>1 DEF CopyIsAll, Switches, Succeeds
<1>5. ThumbsAreOut'
  <2>1. pc' \notin Settling /\ pc' \notin {"keep", "last", "out"}
    BY <1>1 DEF Settling
  <2> QED  BY <1>1, <1>2, <2>1, PlacesDiffer DEF ThumbsAreOut, Own, Target, Nowhere, Succeeds, Fails
<1>6. DbMeansWhole'
  BY <1>1 DEF MoveInv, DbMeansWhole, Target
<1>7. SlipsFail'
  <2>1. \A r \in Runs, k \in Names : r > run => <<r, k>> \notin slipped
    BY DEF MoveInv, SlipsFail
  <2>2. run' > run /\ \A r \in Runs : r > run' => r > run
    BY <1>1
  <2> QED  BY <1>1, <2>1, <2>2 DEF SlipsFail, Own
<1>8. QED
  BY <1>3, <1>4, <1>5, <1>6, <1>7 DEF MoveInv

------------------------------------------------------------------------------
(* Everybody else.                                                           *)

\* What other programs do leaves every entry of a run where it is or carries it away.
LEMMA OthersSpare ==
    ASSUME MoveInv, Others
    PROVE  /\ at' = [o \in Objects |-> at'[o]] /\ run' = run
           /\ \A r \in Runs, k \in {"db", "thumbs"} : at'[<<r, k>>] \in {at[<<r, k>>], Away}
           /\ \A r \in Runs, k \in Names : r > run => at'[<<r, k>>] = at[<<r, k>>]
<1>1. /\ at = [o \in Objects |-> at[o]] /\ run \in 0 .. MaxRuns
      /\ \A r \in Runs, k \in Names : <<r, k>> \in Objects /\ <<r, k>> # Alien
      /\ \A r \in Runs, k \in Names : r > run => at[<<r, k>>] = Nowhere
  BY DEF MoveInv, MoveTypes, ThumbsAreOut
<1>2. CASE UNCHANGED <<at, run>>
  BY <1>1, <1>2
<1>3. CASE OtherPuts
  <2>1. PICK k \in Names :
           at' = [o \in Objects |-> IF o = Alien THEN ByPath(k)
                                    ELSE IF at[o] = ByPath(k) THEN Away ELSE at[o]]
    BY <1>3 DEF OtherPuts
  <2>2. run' = run
    BY <1>3 DEF OtherPuts, mine
  <2>3. ByPath(k) # Nowhere
    BY PlacesDiffer
  <2>4. QED
    BY <1>1, <2>1, <2>2, <2>3
<1>4. CASE OtherTakes
  <2>1. PICK o \in Objects : (\E k \in Names : at[o] = ByPath(k)) /\ PutAt(o, Away)
    BY <1>4 DEF OtherTakes
  <2>2. run' = run /\ at[o] # Nowhere
    BY <1>4, <2>1, PlacesDiffer DEF OtherTakes, mine
  <2>3. at' = [at EXCEPT ![o] = Away]
    BY <2>1 DEF PutAt
  <2>4. /\ at' = [x \in Objects |-> at'[x]]
        /\ \A x \in Objects : at'[x] = at[x] \/ (x = o /\ at'[x] = Away)
    BY <1>1, <2>3
  <2>5. \A x \in Objects : at[x] = Nowhere => at'[x] = at[x]
    BY <2>2, <2>4
  <2>6. \A r \in Runs, k \in {"db", "thumbs"} : at'[<<r, k>>] \in {at[<<r, k>>], Away}
    BY <1>1, <2>4
  <2>7. \A r \in Runs, k \in Names : r > run => at'[<<r, k>>] = at[<<r, k>>]
    BY <1>1, <2>5
  <2>8. QED
    BY <2>2, <2>4, <2>6, <2>7
<1>5. CASE SqliteConsumes
  <2>1. run' = run /\ run # 0 /\ PutAt(Own("side"), Nowhere)
    BY <1>5 DEF SqliteConsumes, mine
  <2>2. \A r \in Runs, k \in {"db", "thumbs"} : <<r, k>> # Own("side")
    BY DEF Own
  <2>3. \A r \in Runs, k \in Names : r > run => <<r, k>> # Own("side")
    BY <1>1 DEF Own
  <2>4. QED
    BY <1>1, <2>1, <2>2, <2>3 DEF PutAt
<1>6. QED
  BY <1>2, <1>3, <1>4, <1>5 DEF Others, SourceWrite, OtherRenamesTarget

LEMMA OtherSteps ==
    ASSUME MoveInv, Others
    PROVE  MoveInv'
<1>1. Target("db") # Away
  BY PlacesDiffer
<1>2. Spares
  BY <1>1, OthersSpare DEF Spares
<1>3. /\ run' = run /\ UNCHANGED <<copied, chosen, locked, pc, goal, todo, slipped>>
      /\ ver' = ver \/ (ver' \in Nat /\ pc = "idle")
  BY DEF Others, SourceWrite, OtherPuts, OtherTakes, SqliteConsumes, OtherRenamesTarget, mine,
         MoveInv, MoveTypes, CopyIsAll
<1>4. Forgets
  BY <1>3, NothingForgets
<1>5. MoveTypes'
  BY <1>2, <1>3 DEF MoveInv, MoveTypes, Spares
<1>6. CopyIsAll'
  BY <1>3 DEF MoveInv, CopyIsAll, Succeeds, Settling, Switches
<1>7. pc # "idle" => run \in Runs
  BY DEF MoveInv, MoveTypes, CopyIsAll
<1>8. pc \in {"keep", "last", "out"} => at'[<<run, "thumbs">>] \in {Target("thumbs"), Away}
  BY <1>7, OthersSpare DEF MoveInv, ThumbsAreOut, Own
<1>9. ThumbsAreOut'
  <2>1. /\ pc' = pc /\ todo' = todo /\ Own("db")' = Own("db") /\ Own("thumbs")' = <<run, "thumbs">>
        /\ Succeeds' = Succeeds /\ Fails' = Fails /\ Target("db")' = Target("db")
        /\ Target("thumbs")' = Target("thumbs")
    BY <1>3 DEF Own, Succeeds, Fails, Target
  <2>2. pc \in Before \cup Settling => pc # "idle"
    BY DEF Before, Settling
  <2>3. pc # "idle" => run # 0
    BY DEF MoveInv, CopyIsAll
  <2>4. Fails \/ Succeeds => pc \in Settling
    BY DEF Fails, Succeeds
  <2> QED  BY <1>3, <1>4, <1>2, <1>8, <2>1, <2>2, <2>3, <2>4, SparedStays DEF MoveInv, ThumbsAreOut
<1>10. SlipsFail'
  BY <1>3 DEF MoveInv, SlipsFail, Own, Succeeds
<1>11. QED
  BY <1>2, <1>4, <1>5, <1>6, <1>9, <1>10, SparedStays DEF MoveInv

------------------------------------------------------------------------------
(* The theorems.                                                             *)

LEMMA InitInv == Init => MoveInv
<1> SUFFICES ASSUME Init PROVE MoveInv
  OBVIOUS
<1>1. MoveTypes
  BY DEF Init, MoveTypes
<1>2. CopyIsAll
  BY DEF Init, CopyIsAll, Switches, Settling, Succeeds
<1>3. \A r \in Runs, k \in Names : at[<<r, k>>] = Nowhere
  BY DEF Init
<1>4. ThumbsAreOut
  BY <1>3 DEF Init, ThumbsAreOut, Before, Settling, Succeeds, Fails
<1>5. DbMeansWhole
  BY <1>3, PlacesDiffer DEF Init, DbMeansWhole
<1>6. SlipsFail
  BY DEF Init, SlipsFail
<1>7. QED
  BY <1>1, <1>2, <1>4, <1>5, <1>6 DEF MoveInv

LEMMA NextInv ==
    ASSUME MoveInv, [Next]_vars
    PROVE  MoveInv'
<1>1. CASE Run
  BY <1>1, FirstStep, FirstSteps, StagingSteps, PublicationSteps, SettlingSteps, LastSteps DEF Run
<1>2. CASE Others
  BY <1>2, OtherSteps
<1>3. CASE Crash
  BY <1>3, LastSteps
<1>4. CASE UNCHANGED vars
  BY <1>4 DEF vars, MoveInv, MoveTypes, CopyIsAll, ThumbsAreOut, SlipsFail, DbMeansWhole, Own,
              Succeeds, Fails
<1>5. QED
  BY <1>1, <1>2, <1>3, <1>4 DEF Next

\* A run that has proven its copy holds the source's lock and a copy of everything
\* recorded until its end, and the thumbnails are out before the database
\* (copy_data_with, stage, Copied).
THEOREM MoveInvariance == Spec => []MoveInv
<1>1. MoveInv /\ [Next]_vars => MoveInv'
  BY NextInv
<1>2. QED
  BY InitInv, <1>1, PTL DEF Spec

\* A folder that has the archive's database under its name has the whole copy, whatever
\* other programs carry away and wherever a run is killed, unless it is the database of a run
\* that failed because the look after its rename did; the bootstrap never names that one
\* (relocate.rs, stage, anchored::move_child).
THEOREM DbStaysWhole == Spec => []DbMeansWhole
BY MoveInvariance, PTL DEF MoveInv

\* The bootstrap changes once, to a copy of everything recorded, and nothing is recorded
\* in the old folder after that (copy_data_with, Copied::commit).
LEMMA StepKeepsArchive ==
    ASSUME MoveInv, [Next]_vars
    PROVE  [Archive!Next]_(Archive!vars)
<1>1. CASE write_bootstrap
  <2>1. chosen = 0 /\ copied[run] = ver /\ run # 0
    BY <1>1 DEF write_bootstrap, MoveInv, CopyIsAll, Switches
  <2>2. UNCHANGED <<ver, copied>> /\ chosen' \in {chosen, run}
    BY <1>1 DEF write_bootstrap
  <2>3. CASE chosen' = chosen
    BY <2>1, <2>2, <2>3 DEF Archive!vars
  <2>4. CASE chosen' = run
    <3>1. run \in Nat
      BY DEF MoveInv, MoveTypes
    <3>2. copied'[chosen'] = ver
      BY <2>1, <2>2, <2>4
    <3>3. QED
      BY <2>1, <2>2, <2>4, <3>1, <3>2 DEF Archive!Next, Archive!Switch
  <2>5. QED
    BY <2>2, <2>3, <2>4
<1>2. CASE SourceWrite
  <2>1. UNCHANGED <<copied, chosen>> /\ chosen = 0 /\ ver' = ver + 1
    BY <1>2 DEF SourceWrite
  <2>2. QED
    BY <2>1 DEF Archive!Next, Archive!Record, Archive!vars
<1>3. CASE snapshot
  <2>1. chosen = 0 /\ UNCHANGED <<ver, chosen>>
    BY <1>3 DEF snapshot, frame, MoveInv, CopyIsAll
  <2>2. QED
    BY <2>1 DEF Archive!vars
<1>4. CASE UNCHANGED <<ver, copied, chosen>>
  BY <1>4 DEF Archive!vars
<1>5. QED
  <2>1. Run => write_bootstrap \/ snapshot \/ UNCHANGED <<ver, copied, chosen>>
    BY DEF Run, copy_data, probe_exclusive_rename, stage, claim, create_private_dir,
           open_created_dir, holds, verify, stage_thumbs, still_at, publish_thumbs, keep,
           publish_db, move_child, look, remove_dir, set_aside, put_back, finish, commit,
           prove_all, Attempt, GiveUp, GiveUpOver, frame, world
  <2>2. Others => SourceWrite \/ UNCHANGED <<ver, copied, chosen>>
    BY DEF Others, OtherPuts, OtherTakes, SqliteConsumes, OtherRenamesTarget, mine
  <2>3. Crash => UNCHANGED <<ver, copied, chosen>>
    BY DEF Crash, world
  <2>4. QED
    BY <1>1, <1>2, <1>3, <1>4, <2>1, <2>2, <2>3 DEF Next, vars

\* The move implements a choice of archives that loses nothing: what the app opens always
\* holds everything recorded (copy_data_with, Copied::commit, write_bootstrap).
THEOREM ArchiveKept == Spec => KeepsArchive
<1>1. Init => Archive!Init
  BY DEF Init, Archive!Init
<1>2. MoveInv /\ [Next]_vars => [Archive!Next]_(Archive!vars)
  BY StepKeepsArchive
<1>3. QED
  BY MoveInvariance, <1>1, <1>2, PTL DEF Spec, KeepsArchive, Archive!Spec

------------------------------------------------------------------------------
(* Nothing a run leaves is untold.                                           *)

\* What can be registered, and where an entry can be found by path.
Owned == {"side", "partial", "thumbs"}

LEMMA Concatenated ==
    ASSUME NEW S, NEW c \in Seq(S), NEW d \in Seq(S)
    PROVE  /\ c \o d \in Seq(S) /\ Len(c \o d) = Len(c) + Len(d)
           /\ \A i \in 1 .. Len(c) : (c \o d)[i] = c[i]
           /\ Len(d) = 1 => (c \o d)[Len(c) + 1] = d[1]
OBVIOUS

\* Everything registered is waiting when a run gives up.
LEMMA RegisteredWaits ==
    ASSUME NEW set \in SUBSET Owned
    PROVE  /\ Registered(set) \in Seq(Names)
           /\ \A k \in set : \E i \in 1 .. Len(Registered(set)) : Registered(set)[i] = k
<1> DEFINE one(k) == IF k \in set THEN <<k>> ELSE <<>>
           head == one("thumbs") \o one("partial")
<1>1. Registered(set) = head \o one("side")
  BY DEF Registered
<1>2. \A k \in Names : /\ one(k) \in Seq(Names) /\ Len(one(k)) \in {0, 1}
                       /\ k \in set => Len(one(k)) = 1 /\ one(k)[1] = k
  OBVIOUS
<1> HIDE DEF one
<1>3. /\ head \in Seq(Names) /\ Len(head) = Len(one("thumbs")) + Len(one("partial"))
      /\ "thumbs" \in set => Len(head) >= 1 /\ head[1] = "thumbs"
      /\ "partial" \in set => Len(head) >= 1 /\ head[Len(head)] = "partial"
  BY <1>2
<1> HIDE DEF head
<1>4. /\ head \o one("side") \in Seq(Names)
      /\ Len(head \o one("side")) = Len(head) + Len(one("side"))
      /\ \A i \in 1 .. Len(head) : (head \o one("side"))[i] = head[i]
      /\ "side" \in set => (head \o one("side"))[Len(head) + 1] = "side"
  <2>1. head \in Seq(Names) /\ one("side") \in Seq(Names)
    BY <1>2, <1>3
  <2>2. "side" \in set => Len(one("side")) = 1 /\ one("side")[1] = "side"
    BY <1>2
  <2> QED  BY <2>1, <2>2, Concatenated
<1>5. "side" \in set => Len(head) + 1 \in 1 .. Len(head \o one("side"))
  BY <1>2, <1>3, <1>4
<1>6. /\ "thumbs" \in set => 1 \in 1 .. Len(head) /\ 1 \in 1 .. Len(head \o one("side"))
      /\ "partial" \in set => Len(head) \in 1 .. Len(head)
                              /\ Len(head) \in 1 .. Len(head \o one("side"))
  BY <1>2, <1>3, <1>4
<1> QED  BY <1>1, <1>3, <1>4, <1>5, <1>6 DEF Owned

\* An entry of the run other than the one put somewhere stays, and so does a stranger's.
LEMMA PutLeaves ==
    ASSUME MoveTypes, run # 0, NEW o \in Objects, NEW p, PutAt(o, p)
    PROVE  /\ at'[o] = p
           /\ \A k \in Names : o # Own(k) => at'[Own(k)] = at[Own(k)]
           /\ o # Alien => at'[Alien] = at[Alien]
<1>1. at' = [at EXCEPT ![o] = p] /\ at = [x \in Objects |-> at[x]]
  BY DEF PutAt, MoveTypes
<1>2. at'[o] = p /\ \A x \in Objects : x # o => at'[x] = at[x]
  BY <1>1
<1>3. \A k \in Names : Own(k) \in Objects
  BY OwnIsOwn
<1> QED  BY <1>2, <1>3

\* A run that gives up has everything it registered yet to settle.
LEMMA AbortTold ==
    ASSUME ToldInv, Abort, reg' \in SUBSET Owned, \A k \in Names : Covered(k)', run # 0,
           run' = run,
           \A k \in Names : at'[Own(k)'] = Inside(k) => at'[Own("partial")'] # Nowhere
    PROVE  ToldInv'
<1>1. pc' = "settle" /\ todo' = Registered(reg') /\ spot' = spot
  BY DEF Abort
<1>2. todo' \in Seq(Names) /\ \A k \in reg' : Waits(k)'
  BY <1>1, RegisteredWaits DEF Waits
<1>3. \A k \in Names : Pending(k)'
  BY <1>2 DEF Covered, Pending, Inside
<1>4. \A k : Inside(k)' = Inside(k)
  BY DEF Inside
<1> QED
  BY <1>1, <1>2, <1>3, <1>4
     DEF ToldInv, OwnedIsTold, Owned, Switches, Before, Claimed, Made, Nowhere

\* A run that goes on settles nothing yet.
LEMMA OnwardTold ==
    ASSUME ToldInv, pc' \in Before, reg' \in SUBSET Owned, UNCHANGED spot, todo' \in Seq(Names),
           \A k \in Names : Covered(k)' \/ k \in Fresh',
           pc' \in Claimed => "side" \in reg',
           pc' \in Made => "partial" \in reg' /\ at'[Own("partial")'] # Nowhere,
           \A k \in Names : at'[Own(k)'] = Inside(k) => at'[Own("partial")'] # Nowhere
    PROVE  ToldInv'
<1>1. \A k : Inside(k)' = Inside(k)
  BY DEF Inside
<1>2. Nowhere' = Nowhere
  BY DEF Nowhere
<1>3. pc' \notin Settling \cup Switches \cup {"idle"}
  BY DEF Before, Settling, Switches
<1> QED  BY <1>1, <1>2, <1>3 DEF ToldInv, OwnedIsTold, Settling, Owned

\* What a step before the end does to the entries of its run: each stays where it is, or is
\* put in a place and then registered, fresh, or lost sight of.
LEMMA BeforeTold ==
    ASSUME MoveInv, ToldInv, pc \in Before, run' = run,
           reg \subseteq reg', reg' \in SUBSET Owned, told \subseteq told', slipped \subseteq slipped',
           UNCHANGED spot,
           \A k \in Names :
              \/ k \in reg' \/ Own(k) \in told' \cup slipped'
              \/ at'[Own(k)] = Inside(k) /\ pc \in Made
              \/ at'[Own(k)] = at[Own(k)] /\ k \notin Fresh
              \/ k \in Fresh' /\ ~Abort,
           at'[Own("partial")] # Nowhere \/ (at[Own("partial")] = Nowhere /\ pc \notin Made),
           \A k \in Names : at'[Own(k)] = Inside(k) => at[Own(k)] = Inside(k) \/ pc \in Made,
           \/ Abort
           \/ /\ pc' \in Before /\ UNCHANGED todo
              /\ pc' \in Claimed => pc \in Claimed \/ "side" \in reg'
              /\ pc' \in Made =>
                    pc \in Made \/ ("partial" \in reg' /\ at'[Own("partial")] # Nowhere)
    PROVE  ToldInv'
<1>1. \A k : Own(k)' = Own(k)
  BY DEF Own
<1>2. run # 0
  BY DEF MoveInv, CopyIsAll, Before
<1>3. \A k \in Names : Covered(k) \/ k \in Fresh
  BY DEF ToldInv
<1>4. pc \in Made => "partial" \in reg /\ at[Own("partial")] # Nowhere
  BY DEF ToldInv
<1>5. ASSUME NEW k \in Names PROVE Covered(k)' \/ (k \in Fresh' /\ ~Abort)
  <2>1. CASE k \in reg' \/ Own(k) \in told' \cup slipped'
    BY <1>1, <2>1 DEF Covered, IsSettled
  <2>2. CASE at'[Own(k)] = Inside(k) /\ pc \in Made
    BY <1>1, <1>4, <2>2 DEF Covered, Inside
  <2>3. CASE at'[Own(k)] = at[Own(k)] /\ k \notin Fresh
    <3>1. Covered(k)
      BY <1>3, <2>3
    <3> QED  BY <1>1, <2>3, <3>1 DEF Covered, IsSettled, Inside, Nowhere
  <2> QED  BY <2>1, <2>2, <2>3
<1>6. \A k \in Names : at'[Own(k)] = Inside(k) => at'[Own("partial")] # Nowhere
  BY <1>2, <1>4 DEF ToldInv
<1>7. CASE Abort
  BY <1>1, <1>2, <1>5, <1>6, <1>7, AbortTold
<1>8. CASE ~Abort
  <2>1. todo' \in Seq(Names) /\ pc' \in Before
    BY <1>8 DEF ToldInv
  <2>2. pc' \in Claimed => "side" \in reg'
    BY <1>8 DEF ToldInv
  <2>3. pc' \in Made => "partial" \in reg' /\ at'[Own("partial")] # Nowhere
    BY <1>4, <1>8
  <2> QED  BY <1>1, <1>5, <1>6, <2>1, <2>2, <2>3, OnwardTold
<1> QED  BY <1>7, <1>8

\* A run begins with nothing of its own anywhere.
LEMMA FirstTold ==
    ASSUME MoveInv, ToldInv, copy_data
    PROVE  ToldInv'
<1>1. /\ run \in Nat /\ run' = run + 1 /\ run' \in Runs /\ at' = at /\ pc' = "lock" /\ reg' = {}
      /\ todo' = <<>> /\ spot' = spot
  BY DEF MoveInv, MoveTypes, copy_data, world
<1>2. \A k \in Names : at'[Own(k)'] = Nowhere
  <2>1. \A r \in Runs, k \in Names : r > run => at[<<r, k>>] = Nowhere
    BY DEF MoveInv, ThumbsAreOut
  <2>2. run' > run /\ \A k \in Names : Own(k)' = <<run', k>>
    BY <1>1 DEF Own
  <2> QED  BY <1>1, <2>1, <2>2
<1>3. \A k \in Names : Covered(k)'
  BY <1>2 DEF Covered, IsSettled, Nowhere
<1>4. \A k \in Names : at'[Own(k)'] # Inside(k)
  <2>1. \A k : Inside(k) # Nowhere
    BY DEF Inside, Nowhere
  <2> QED  BY <1>2, <2>1
<1>5. pc' \notin Claimed /\ pc' \notin Made /\ pc' \in Before /\ todo' \in Seq(Names)
  BY <1>1 DEF Claimed, Made, Before
<1> QED  BY <1>1, <1>3, <1>4, <1>5, OnwardTold

LEMMA StepTold ==
    ASSUME MoveInv, ToldInv,
           \/ probe_exclusive_rename \/ stage \/ claim \/ create_private_dir
           \/ open_created_dir \/ holds \/ snapshot \/ verify \/ stage_thumbs \/ still_at
           \/ publish_thumbs \/ keep \/ publish_db \/ move_child
    PROVE  ToldInv'
<1> DEFINE Frames == /\ pc \in Before /\ run' = run /\ reg \subseteq reg' /\ reg' \in SUBSET Owned
                     /\ told \subseteq told' /\ slipped \subseteq slipped' /\ UNCHANGED spot
           Goes(next) == Abort \/ (pc' = next /\ UNCHANGED todo)
           Stays(k) == at'[Own(k)] = at[Own(k)]
<1>0. /\ reg \in SUBSET Owned /\ MoveTypes /\ (pc \in Before => run # 0)
  BY DEF ToldInv, Owned, MoveInv, CopyIsAll, Before
<1>1. \A k \in Names : /\ Inside(k) # Nowhere /\ ByPath(k) # Inside(k) /\ ByPath(k) # Nowhere
                       /\ Target(k) # Inside(k) /\ Target(k) # Nowhere
  BY PlacesDiffer DEF Inside, ByPath, Target, Nowhere
<1>2. ASSUME pc \in Before, NEW k \in Names, NEW p, PutAt(Own(k), p)
      PROVE  at'[Own(k)] = p /\ \A n \in Names : n # k => Stays(n)
  BY <1>0, <1>2, OwnIsOwn, PutLeaves DEF Own
<1>3. CASE probe_exclusive_rename \/ stage \/ holds \/ verify
  <2>1. Frames /\ UNCHANGED at /\ \A k \in Names : k \notin Fresh
    BY <1>0, <1>3 DEF probe_exclusive_rename, stage, holds, verify, Attempt, Continue, GiveUp,
                      Abort, Before, frame, Fresh
  <2>2. \/ Abort
        \/ /\ pc' \in Before /\ UNCHANGED todo
           /\ pc' \in Claimed => pc \in Claimed
           /\ pc' \in Made => pc \in Made \/ (pc = "holds" /\ "partial" \in reg)
    BY <1>3 DEF probe_exclusive_rename, stage, holds, verify, Attempt, Continue, GiveUp, Before,
                Claimed, Made
  <2>3. pc' \in Made => Abort \/ pc \in Made
    BY <1>3 DEF probe_exclusive_rename, stage, holds, verify, Attempt, Continue, GiveUp, Before,
                Claimed, Made
  <2>4. at'[Own("partial")] # Nowhere \/ (at[Own("partial")] = Nowhere /\ pc \notin Made)
    BY <2>1 DEF ToldInv
  <2> QED  BY <2>1, <2>2, <2>3, <2>4, BeforeTold
<1>4. CASE claim
  <2>1. /\ Frames /\ \A k \in Names : k \notin Fresh
        /\ \/ UNCHANGED at /\ Abort
           \/ /\ PutAt(Own("side"), ByPath("side"))
              /\ \/ "side" \in reg' /\ pc' = "mkdir" /\ UNCHANGED todo
                 \/ Own("side") \in slipped' /\ Abort
    BY <1>0, <1>4 DEF claim, Attempt, Continue, GiveUp, GiveUpOver, Slips, Abort, Before, frame,
                      Fresh, Owned
  <2>2. pc \notin Made /\ ("mkdir" \in Before /\ "mkdir" \notin Made)
    BY <1>4 DEF claim, Made, Claimed, Before
  <2>3. \A k \in Names : \/ k \in reg' \/ Own(k) \in told' \cup slipped' \/ Stays(k)
    BY <1>2, <2>1
  <2>4. \A k \in Names : at'[Own(k)] = Inside(k) => at[Own(k)] = Inside(k)
    BY <1>1, <1>2, <2>1
  <2>5. at'[Own("partial")] # Nowhere \/ at[Own("partial")] = Nowhere
    BY <1>2, <2>1
  <2> QED  BY <2>1, <2>2, <2>3, <2>4, <2>5, BeforeTold
<1>5. CASE create_private_dir
  <2>1. /\ Frames /\ \A k \in Names : k \notin Fresh
        /\ \/ UNCHANGED at /\ Abort
           \/ /\ PutAt(Own("partial"), ByPath("partial")) /\ pc' = "open" /\ UNCHANGED todo
              /\ ~Abort
    BY <1>0, <1>5 DEF create_private_dir, Attempt, Continue, GiveUp, Abort, Before, frame, Fresh
  <2>2. /\ pc \notin Made /\ pc \in Claimed /\ "open" \in Before /\ "open" \notin Made
        /\ pc' = "open" => "partial" \in Fresh'
    BY <1>5 DEF create_private_dir, Made, Claimed, Before, Fresh
  <2>3. \A k \in Names : Stays(k) \/ (k \in Fresh' /\ ~Abort)
    BY <1>2, <2>1, <2>2
  <2>4. \A k \in Names : at'[Own(k)] = Inside(k) => at[Own(k)] = Inside(k)
    BY <1>1, <1>2, <2>1
  <2>5. at'[Own("partial")] # Nowhere \/ at[Own("partial")] = Nowhere
    BY <1>1, <1>2, <2>1
  <2> QED  BY <2>1, <2>2, <2>3, <2>4, <2>5, BeforeTold
<1>6. CASE open_created_dir
  <2>1. /\ Frames /\ UNCHANGED at /\ pc = "open" /\ Fresh = {"partial"}
        /\ \/ /\ "partial" \in reg' /\ pc' = "holds" /\ UNCHANGED todo
              /\ at[Own("partial")] = ByPath("partial")
           \/ Own("partial") \in told' \cup slipped' /\ Abort
    BY <1>0, <1>6 DEF open_created_dir, Attempt, Continue, GiveUpOver, Slips, Abort, Before, frame,
                      Fresh, Owned, is_ours
  <2>2. pc \notin Made /\ pc \in Claimed /\ "holds" \in Before
    BY <2>1 DEF Made, Claimed, Before
  <2>3. at'[Own("partial")] # Nowhere \/ at[Own("partial")] = Nowhere
    BY <2>1
  <2>4. pc' = "holds" /\ UNCHANGED todo /\ ~Abort => at'[Own("partial")] # Nowhere
    BY <1>1, <2>1
  <2>5. \A k \in Names : k \in reg' \/ Own(k) \in told' \cup slipped' \/ k \notin Fresh
    BY <2>1
  <2>6. Abort \/ ("partial" \in reg' /\ pc' = "holds" /\ UNCHANGED todo)
    BY <2>1
  <2> QED  BY <2>1, <2>2, <2>3, <2>4, <2>5, <2>6, BeforeTold
<1>7. CASE snapshot \/ stage_thumbs
  <2>1. PICK k \in {"db", "thumbs"} : PutAt(Own(k), Inside(k))
    BY <1>7 DEF snapshot, stage_thumbs
  <2>2. /\ Frames /\ pc \in Made /\ pc \in Claimed /\ \A n \in Names : n \notin Fresh
        /\ \/ Abort
           \/ pc' \in Before /\ UNCHANGED todo
    BY <1>0, <1>7 DEF snapshot, stage_thumbs, Attempt, Continue, Abort, Before, frame, Fresh,
                      Made, Claimed
  <2>3. at'[Own(k)] = Inside(k) /\ \A n \in Names : n # k => Stays(n)
    BY <1>2, <2>1, <2>2
  <2>4. at'[Own("partial")] # Nowhere
    BY <2>2, <2>3 DEF ToldInv
  <2> QED  BY <2>2, <2>3, <2>4, BeforeTold
<1>8. CASE still_at
  <2>1. /\ Frames /\ pc \in Made /\ pc \in Claimed /\ \A n \in Names : n \notin Fresh
        /\ Abort \/ (pc' \in Before /\ UNCHANGED todo)
    BY <1>0, <1>8 DEF still_at, Attempt, Continue, Abort, Before, frame, Fresh, Made, Claimed
  <2>2. UNCHANGED at \/ PutAt(Own("side"), ByPath("side"))
    BY <1>8 DEF still_at, ensure_owned, Attempt
  <2>3. \A n \in Names : n # "side" => Stays(n)
    BY <1>2, <2>1, <2>2
  <2>4. "side" \in reg' /\ at'[Own("partial")] # Nowhere
    BY <2>1, <2>3 DEF ToldInv
  <2> QED  BY <2>1, <2>3, <2>4, BeforeTold
<1>9. CASE publish_thumbs \/ publish_db
  <2>1. PICK k \in {"thumbs", "db"} :
           \/ UNCHANGED at /\ Abort
           \/ /\ PutAt(Own(k), Target(k)) /\ UNCHANGED todo /\ ~Abort /\ pc' \in Before
              /\ k \in Fresh'
    <3>1. CASE publish_thumbs
      BY <3>1 DEF publish_thumbs, FirstOut, Attempt, Continue, GiveUp, Abort, Before, Fresh
    <3>2. CASE publish_db
      BY <3>2 DEF publish_db, FirstOut, LastOut, Attempt, Continue, GiveUp, Abort, Before, Fresh
    <3> QED  BY <1>9, <3>1, <3>2
  <2>2. Frames /\ pc \in Made /\ pc \in Claimed /\ \A n \in Names : n \notin Fresh
    BY <1>0, <1>9 DEF publish_thumbs, publish_db, Attempt, Continue, GiveUp, Abort, Before, frame,
                      Fresh, Made, Claimed
  <2>3. /\ \A n \in Names : n # k => Stays(n)
        /\ Stays(k) \/ (at'[Own(k)] = Target(k) /\ k \in Fresh' /\ ~Abort)
    BY <1>2, <2>1, <2>2
  <2>4. at'[Own("partial")] # Nowhere
    BY <2>2, <2>3 DEF ToldInv
  <2> QED  BY <1>1, <2>1, <2>2, <2>3, <2>4, BeforeTold
<1>10. CASE keep
  <2>1. /\ Frames /\ UNCHANGED at /\ pc \in Made /\ pc \in Claimed /\ Fresh = {"thumbs"}
        /\ \/ "thumbs" \in reg' /\ pc' \in Before /\ UNCHANGED todo
           \/ Own("thumbs") \in slipped' /\ Abort
    BY <1>0, <1>10 DEF keep, FirstOut, Attempt, Continue, GiveUpOver, Slips, Abort, Before, frame,
                       Fresh, Made, Claimed, Owned
  <2>2. at'[Own("partial")] # Nowhere
    BY <2>1 DEF ToldInv
  <2> QED  BY <2>1, <2>2, BeforeTold
<1>11. CASE move_child
  <2>1. CASE GiveUpOver("db")
    <3>1. /\ Frames /\ UNCHANGED at /\ pc \in Made /\ pc \in Claimed /\ Fresh = {"db"}
          /\ Own("db") \in slipped' /\ Abort
      BY <1>0, <1>11, <2>1 DEF move_child, GiveUpOver, Slips, Abort, Before, frame, Fresh, Made,
                               Claimed
    <3>2. at'[Own("partial")] # Nowhere
      BY <3>1 DEF ToldInv
    <3> QED  BY <3>1, <3>2, BeforeTold
  <2>2. CASE /\ pc' = "settle" /\ goal' = "commit" /\ todo' = succeed
             /\ UNCHANGED <<reg, spot, at, run>>
    <3>1. todo' \in Seq(Names) /\ \A k : Own(k)' = Own(k) /\ Inside(k)' = Inside(k)
      BY <2>2 DEF succeed, Own, Inside
    <3>2. /\ pc' \notin Before /\ pc' \notin Claimed /\ pc' \notin Made /\ pc' \notin Switches
          /\ Nowhere' = Nowhere
      BY <2>2 DEF Claimed, Made, Before, Switches, Nowhere
    <3> QED  BY <2>2, <3>1, <3>2 DEF ToldInv, OwnedIsTold
  <2>3. GiveUpOver(LastOut) => GiveUpOver("db")
    BY DEF GiveUpOver, Slips, Own, LastOut, FirstOut
  <2> QED  BY <1>11, <2>1, <2>2, <2>3 DEF move_child, Attempt, frame
<1> QED  BY <1>3, <1>4, <1>5, <1>6, <1>7, <1>8, <1>9, <1>10, <1>11

\* An entry is looked at, and gone, told or lost sight of before the next one is.
LEMMA SettledTold ==
    ASSUME MoveInv, ToldInv, pc \in Settling, pc' \in Settling, todo # <<>>, NEW key, key = Key,
           UNCHANGED <<reg, run, goal>>, told \subseteq told', slipped \subseteq slipped',
           spot' \in {"target", "ghost"},
           \A k \in Names : at'[Own(k)] = Inside(k) => at[Own(k)] = Inside(k),
           at'[Own("partial")] = Nowhere =>
              at[Own("partial")] = Nowhere \/ \A k \in Names : at[Own(k)] # Inside(k),
           \/ UNCHANGED todo /\ \A k \in Names : at'[Own(k)] = at[Own(k)]
           \/ /\ todo' = Tail(todo) /\ pc' = "settle" /\ IsSettled(key)'
              /\ \A k \in Names \ {key} : at'[Own(k)] = at[Own(k)]
    PROVE  ToldInv'
<1>1. /\ \A k : Own(k)' = Own(k) /\ Inside(k)' = Inside(k)
      /\ Nowhere' = Nowhere
  BY DEF Own, Inside, Nowhere
<1>2. /\ pc' \notin Before \cup Switches \cup {"idle"} /\ pc' \notin Claimed /\ pc' \notin Made
  BY DEF Settling, Before, Switches, Claimed, Made
<1>3. run # 0
  BY DEF MoveInv, CopyIsAll, Settling
<1>4. \A k \in Names : at'[Own(k)] = Inside(k) => at'[Own("partial")] # Nowhere
  BY <1>3 DEF ToldInv
<1>5. ASSUME todo' \in Seq(Names), pc' # "settle" => todo' # <<>>,
             goal = "fail" => \A k \in Names : Pending(k)'
      PROVE  ToldInv'
  BY <1>1, <1>2, <1>4, <1>5 DEF ToldInv, OwnedIsTold
<1>6. CASE UNCHANGED todo /\ \A k \in Names : at'[Own(k)] = at[Own(k)]
  <2>1. ASSUME NEW k \in Names, Pending(k) PROVE Pending(k)'
    BY <1>1, <1>6, <2>1 DEF Pending, IsSettled, Within, Waits
  <2>2. goal = "fail" => \A k \in Names : Pending(k)
    BY DEF ToldInv
  <2> QED  BY <1>5, <1>6, <2>1, <2>2 DEF ToldInv
<1>7. CASE /\ todo' = Tail(todo) /\ pc' = "settle" /\ IsSettled(key)'
           /\ \A k \in Names \ {key} : at'[Own(k)] = at[Own(k)]
  <2>1. /\ todo' \in Seq(Names) /\ Len(todo) \in Nat \ {0} /\ key = todo[1]
        /\ Len(todo') = Len(todo) - 1
        /\ \A i \in 1 .. Len(todo') : todo'[i] = todo[i + 1]
    BY <1>7 DEF ToldInv, Key
  <2>2. ASSUME NEW k \in Names, k # key, Waits(k) PROVE Waits(k)'
    <3>1. PICK i \in 1 .. Len(todo) : todo[i] = k
      BY <2>2 DEF Waits
    <3>2. i # 1
      BY <2>1, <2>2, <3>1
    <3>3. i - 1 \in 1 .. Len(todo') /\ todo'[i - 1] = k
      BY <2>1, <3>1, <3>2
    <3> QED  BY <3>3 DEF Waits
  <2>3. ASSUME goal = "fail", NEW k \in Names PROVE Pending(k)'
    <3>1. CASE k = key
      <4>1. IsSettled(k)'
        BY <1>1, <1>7, <3>1 DEF IsSettled
      <4> QED  BY <4>1 DEF Pending
    <3>2. CASE k # key
      <4>1. Pending(k) /\ at'[Own(k)] = at[Own(k)]
        BY <1>7, <2>3, <3>2 DEF ToldInv
      <4>2. IsSettled(k) \/ Within(k) => IsSettled(k)' \/ Within(k)'
        BY <1>1, <4>1 DEF IsSettled, Within
      <4>3. ASSUME at[Own(k)] = Inside(k), Waits("partial") PROVE Pending(k)'
        <5>1. CASE key # "partial"
          BY <1>1, <2>2, <4>1, <4>3, <5>1 DEF Pending
        <5>2. CASE key = "partial"
          <6>1. at'[Own("partial")] # Nowhere
            BY <1>4, <4>1, <4>3
          <6>2. Own("partial") \in told' \cup slipped'
            BY <1>1, <1>7, <5>2, <6>1 DEF IsSettled
          <6> QED  BY <1>1, <4>1, <4>3, <6>2 DEF Pending, Within
        <5> QED  BY <5>1, <5>2
      <4> QED  BY <2>2, <3>2, <4>1, <4>2, <4>3 DEF Pending
    <3> QED  BY <3>1, <3>2
  <2> QED  BY <1>5, <1>7, <2>1, <2>3
<1> QED  BY <1>6, <1>7

LEMMA SettlingTold ==
    ASSUME MoveInv, ToldInv, look \/ remove_dir \/ set_aside \/ put_back
    PROVE  ToldInv'
<1>1. /\ pc \in Settling /\ pc' \in Settling /\ todo # <<>> /\ MoveTypes /\ run # 0
      /\ UNCHANGED <<goal, reg, run>> /\ told \subseteq told' /\ slipped \subseteq slipped'
  BY DEF look, remove_dir, set_aside, put_back, Done, Tell, Opens, Slips, Attempt, not_at_name,
         frame, Settling, MoveInv, CopyIsAll, ToldInv
<1>2. PICK key : key = Key
  OBVIOUS
<1>3. key \in Names
  BY <1>1, <1>2 DEF ToldInv, Key
<1>4. /\ Own(key) \in Objects /\ Own(key) # Alien
      /\ \A k \in Names : Own(k) # Alien /\ (k # key => Own(k) # Own(key))
  BY <1>1, <1>3, OwnIsOwn DEF Own
<1>5. ASSUME NEW p, PutAt(Own(key), p)
      PROVE  at'[Own(key)] = p /\ \A k \in Names \ {key} : at'[Own(k)] = at[Own(k)]
  BY <1>1, <1>3, <1>4, <1>5, PutLeaves
<1>6. ASSUME NEW p, PutAt(Alien, p)
      PROVE  \A k \in Names : at'[Own(k)] = at[Own(k)]
  BY <1>1, <1>3, <1>4, <1>6, PutLeaves
<1>7. Own(key)' = Own(key) /\ \A k : Nowhere # Inside(k) /\ Left(k) # Inside(k) /\ Left(k) # Nowhere
  BY <1>1 DEF Own, Nowhere, Inside, Left
<1>8. ASSUME Tell \/ Slips(key) PROVE IsSettled(key)'
  BY <1>2, <1>7, <1>8 DEF IsSettled, Tell, Slips
<1>9. ASSUME at'[Own(key)] = Nowhere PROVE IsSettled(key)'
  BY <1>7, <1>9 DEF IsSettled, Nowhere
<1>10. spot \in {"target", "ghost"}
  BY DEF ToldInv
<1>11. Opens => /\ spot' \in {"target", "ghost"} /\ UNCHANGED todo
  BY <1>1, <1>3, <1>2 DEF Opens, is_ours, ByPath, Target
<1> DEFINE Stays == \A k \in Names : at'[Own(k)] = at[Own(k)]
<1>12. ASSUME Stays, spot' \in {"target", "ghost"},
              UNCHANGED todo \/ (Done /\ IsSettled(key)')
       PROVE  ToldInv'
  BY <1>1, <1>2, <1>12, SettledTold DEF Done
<1>13. CASE look
  <2>1. CASE not_at_name /\ Done /\ UNCHANGED <<at, spot>>
    <3>1. at[Own(key)] = Nowhere \/ Tell
      BY <1>2, <2>1 DEF not_at_name
    <3>2. IsSettled(key)'
      BY <1>8, <1>9, <2>1, <3>1
    <3> QED  BY <1>10, <1>12, <2>1, <3>2
  <2>2. CASE Done /\ UNCHANGED <<at, spot>> /\ Tell
    BY <1>8, <1>10, <1>12, <2>2
  <2>3. CASE UNCHANGED <<at, todo, spot>>
    BY <1>10, <1>12, <2>3
  <2>4. CASE Opens /\ UNCHANGED at
    BY <1>11, <1>12, <2>4
  <2> QED  BY <1>13, <2>1, <2>2, <2>3, <2>4 DEF look
<1>14. CASE remove_dir
  <2>1. CASE Done /\ UNCHANGED <<at, spot>> /\ Tell
    BY <1>8, <1>10, <1>12, <2>1
  <2>2. CASE Done /\ UNCHANGED spot /\ MayBeEmpty(Key) /\ PutAt(Own(Key), Nowhere)
    <3>1. /\ at'[Own(key)] = Nowhere /\ \A k \in Names \ {key} : at'[Own(k)] = at[Own(k)]
          /\ IsSettled(key)'
      BY <1>2, <1>5, <1>9, <2>2
    <3>2. key = "partial" => \A k \in Names : at[Own(k)] # Inside(k)
      BY <1>2, <2>2 DEF MayBeEmpty, Empty
    <3>3. \A k \in Names : at'[Own(k)] = Inside(k) => at[Own(k)] = Inside(k)
      BY <1>7, <3>1
    <3>4. at'[Own("partial")] = Nowhere =>
             at[Own("partial")] = Nowhere \/ \A k \in Names : at[Own(k)] # Inside(k)
      BY <3>1, <3>2
    <3> QED  BY <1>1, <1>2, <1>10, <2>2, <3>1, <3>3, <3>4, SettledTold DEF Done
  <2>3. CASE Opens /\ UNCHANGED at
    BY <1>11, <1>12, <2>3
  <2>4. CASE Done /\ UNCHANGED spot /\ PutAt(Alien, Nowhere) /\ Slips(Key)
    <3>1. Stays
      BY <1>6, <2>4
    <3> QED  BY <1>2, <1>8, <1>10, <1>12, <2>4, <3>1
  <2> QED  BY <1>14, <2>1, <2>2, <2>3, <2>4 DEF remove_dir
<1>15. CASE set_aside
  <2>0. spot' \in {"target", "ghost"}
    BY <1>10, <1>15 DEF set_aside
  <2>1. CASE Tell /\ Done /\ UNCHANGED at
    BY <1>8, <1>12, <2>0, <2>1
  <2>2. CASE Tell /\ Done /\ PutAt(Own(Key), Left(Key))
    <3>1. /\ at'[Own(key)] = Left(key) /\ \A k \in Names \ {key} : at'[Own(k)] = at[Own(k)]
          /\ IsSettled(key)'
      BY <1>2, <1>5, <1>8, <2>2
    <3>2. \A k \in Names : at'[Own(k)] = Inside(k) => at[Own(k)] = Inside(k)
      BY <1>7, <3>1
    <3>3. at'[Own("partial")] = Nowhere => at[Own("partial")] = Nowhere
      BY <1>7, <3>1
    <3> QED  BY <1>1, <1>2, <2>0, <2>2, <3>1, <3>2, <3>3, SettledTold DEF Done
  <2>3. CASE PutAt(Alien, Left(Key)) /\ UNCHANGED todo
    BY <1>6, <1>12, <2>0, <2>3
  <2> QED  BY <1>15, <2>1, <2>2, <2>3 DEF set_aside
<1>16. CASE put_back
  <2>1. spot' \in {"target", "ghost"} /\ Tell /\ Done
    BY <1>10, <1>16 DEF put_back
  <2>2. Stays
    BY <1>6, <1>16 DEF put_back, Attempt
  <2> QED  BY <1>8, <1>12, <2>1, <2>2
<1> QED  BY <1>13, <1>14, <1>15, <1>16

LEMMA LastTold ==
    ASSUME MoveInv, ToldInv, finish \/ commit \/ prove_all \/ write_bootstrap \/ Crash
    PROVE  ToldInv'
<1>1. /\ run # 0 /\ UNCHANGED <<run, slipped>>
      /\ \A k : Own(k)' = Own(k) /\ Inside(k)' = Inside(k)
      /\ Nowhere' = Nowhere
  BY DEF finish, commit, prove_all, write_bootstrap, Crash, world, MoveInv, CopyIsAll, Own, Inside,
         Nowhere
<1>2. pc' \in {"idle"} \cup Switches
  BY DEF finish, commit, prove_all, write_bootstrap, Crash, Ends, KeepCopy, Attempt, Switches
<1>3. /\ pc' \notin Before \cup Settling /\ pc' \notin Claimed /\ pc' \notin Made
  BY <1>2 DEF Before, Settling, Switches, Claimed, Made
<1>4. \A k \in Names : at'[Own(k)] = Inside(k) => at'[Own("partial")] # Nowhere
  <2>1. CASE UNCHANGED at
    BY <1>1, <2>1 DEF ToldInv
  <2>2. CASE PutAt(Own("side"), ByPath("side"))
    <3>1. MoveTypes
      BY DEF MoveInv
    <3>2. /\ at'[Own("side")] = ByPath("side")
          /\ \A n \in Names : n # "side" => at'[Own(n)] = at[Own(n)]
      BY <1>1, <2>2, <3>1, OwnIsOwn, PutLeaves DEF Own
    <3>3. ByPath("side") # Inside("side")
      BY DEF ByPath, Inside, Target
    <3> QED  BY <1>1, <3>2, <3>3 DEF ToldInv
  <2> QED  BY <2>1, <2>2 DEF finish, commit, prove_all, write_bootstrap, Crash, world, Attempt,
                             KeepCopy, ensure_owned
<1>5. /\ reg' \subseteq {"side", "partial", "thumbs"} /\ todo' \in Seq(Names)
      /\ spot' \in {"target", "ghost"}
  BY DEF finish, commit, prove_all, write_bootstrap, Crash, Attempt, KeepCopy, ToldInv
<1>6. ASSUME pc' \in Switches => goal' # "fail", OwnedIsTold'
      PROVE  ToldInv'
  BY <1>1, <1>3, <1>4, <1>5, <1>6 DEF ToldInv, Settling
<1>7. CASE finish
  <2>1. /\ pc = "settle" /\ Len(todo) = 0 /\ UNCHANGED <<at, goal, told>>
        /\ \/ goal = "fail" /\ pc' = "idle"
           \/ goal = "commit" /\ pc' = "commit"
    BY <1>7 DEF finish, Ends, world, MoveInv, CopyIsAll
  <2>2. goal = "fail" => \A k \in Names : IsSettled(k) \/ Within(k)
    BY <2>1 DEF ToldInv, Pending, Waits, Settling
  <2>3. \A k \in Names : IsSettled(k) \/ Within(k) => IsSettled(k)' \/ Within(k)'
    BY <1>1, <2>1 DEF IsSettled, Within
  <2>4. OwnedIsTold'
    BY <2>1, <2>2, <2>3 DEF OwnedIsTold
  <2> QED  BY <1>6, <2>1, <2>4 DEF Switches
<1>8. CASE commit \/ prove_all \/ write_bootstrap
  <2>1. goal # "fail" /\ UNCHANGED goal
    BY <1>8 DEF commit, prove_all, write_bootstrap, Attempt, KeepCopy, Switches, ToldInv
  <2> QED  BY <1>6, <2>1 DEF OwnedIsTold
<1>9. CASE Crash
  <2>1. goal' = "none" /\ pc' = "idle"
    BY <1>9 DEF Crash, Ends
  <2> QED  BY <1>6, <2>1 DEF OwnedIsTold, Switches
<1> QED  BY <1>7, <1>8, <1>9

\* Other programs bring back nothing that was gone, and reach nothing in the staging folder.
LEMMA OthersReach ==
    ASSUME MoveInv, Others, run # 0, NEW k \in Names
    PROVE  /\ at[Own(k)] = Nowhere => at'[Own(k)] = Nowhere
           /\ at[Own(k)] = Inside(k) <=> at'[Own(k)] = Inside(k)
           /\ k # "side" /\ at'[Own(k)] = Nowhere => at[Own(k)] = Nowhere
<1>0. MoveTypes /\ Own(k) \in Objects /\ Own(k) # Alien
  BY OwnIsOwn DEF MoveInv
<1>1. /\ \A n \in Names : ByPath(n) # Nowhere /\ ByPath(n) # Inside(k)
      /\ Away # Nowhere /\ Away # Inside(k) /\ Nowhere # Inside(k)
  BY PlacesDiffer DEF ByPath, Inside, Target, Away, Nowhere
<1>2. CASE at'[Own(k)] = at[Own(k)]
  BY <1>2
<1>3. CASE at'[Own(k)] = Away /\ \E n \in Names : at[Own(k)] = ByPath(n)
  BY <1>1, <1>3
<1>4. CASE at'[Own(k)] = Nowhere /\ at[Own(k)] = ByPath(k) /\ k = "side"
  BY <1>1, <1>4
<1>5. CASE OtherPuts
  <2>1. PICK n \in Names :
           at' = [o \in Objects |-> IF o = Alien THEN ByPath(n)
                                    ELSE IF at[o] = ByPath(n) THEN Away ELSE at[o]]
    BY <1>5 DEF OtherPuts
  <2>2. at'[Own(k)] = IF at[Own(k)] = ByPath(n) THEN Away ELSE at[Own(k)]
    BY <1>0, <2>1
  <2> QED  BY <1>2, <1>3, <2>2
<1>6. CASE OtherTakes
  <2>1. PICK o \in Objects : (\E n \in Names : at[o] = ByPath(n)) /\ PutAt(o, Away)
    BY <1>6 DEF OtherTakes
  <2> QED  BY <1>0, <1>2, <1>3, <2>1, PutLeaves
<1>7. CASE SqliteConsumes
  <2>1. PutAt(Own("side"), Nowhere) /\ at[Own("side")] = ByPath("side") /\ Own("side") \in Objects
    BY <1>0, <1>7, OwnIsOwn DEF SqliteConsumes, is_ours
  <2>2. at'[Own("side")] = Nowhere /\ (k # "side" => Own(k) # Own("side"))
    BY <1>0, <2>1, PutLeaves DEF Own
  <2> QED  BY <1>0, <1>2, <1>4, <2>1, <2>2, PutLeaves
<1>8. CASE UNCHANGED at
  BY <1>2, <1>8
<1> QED  BY <1>5, <1>6, <1>7, <1>8 DEF Others, SourceWrite, OtherRenamesTarget

LEMMA OthersTold ==
    ASSUME MoveInv, ToldInv, Others
    PROVE  ToldInv'
<1>1. /\ UNCHANGED <<reg, todo, spot, pc, goal, told, run, slipped>>
      /\ \A k : Own(k)' = Own(k) /\ Inside(k)' = Inside(k)
      /\ Nowhere' = Nowhere /\ Fresh' = Fresh
  BY DEF Others, SourceWrite, OtherPuts, OtherTakes, SqliteConsumes, OtherRenamesTarget, mine, Own,
         Inside, Nowhere, Fresh
<1>2. ASSUME NEW k \in Names, run # 0
      PROVE  /\ IsSettled(k) => IsSettled(k)'
             /\ Within(k) => Within(k)'
             /\ Covered(k) => Covered(k)'
             /\ Pending(k) => Pending(k)'
  <2>1. /\ at[Own(k)] = Nowhere => at'[Own(k)] = Nowhere
        /\ at[Own(k)] = Inside(k) => at'[Own(k)] = Inside(k)
    BY <1>2, OthersReach
  <2>2. IsSettled(k) => IsSettled(k)'
    BY <1>1, <2>1 DEF IsSettled
  <2>3. Within(k) => Within(k)'
    BY <1>1, <2>1 DEF Within
  <2>4. \A n : Waits(n)' = Waits(n)
    BY <1>1 DEF Waits
  <2> QED  BY <1>1, <2>1, <2>2, <2>3, <2>4 DEF Covered, Pending
<1>3. pc \in Before \cup Settling \cup Switches => run # 0
  BY DEF MoveInv, CopyIsAll, Before, Settling, Switches
<1>4. /\ pc \in Before => \A k \in Names : Covered(k)' \/ k \in Fresh
      /\ pc \in Settling /\ goal = "fail" => \A k \in Names : Pending(k)'
  BY <1>2, <1>3 DEF ToldInv
<1>5. OwnedIsTold'
  BY <1>1, <1>2 DEF ToldInv, OwnedIsTold
<1>6. run # 0 => \A k \in Names : at'[Own(k)] = Inside(k) => at'[Own("partial")] # Nowhere
  BY OthersReach DEF ToldInv
<1>7. pc \in Made => at'[Own("partial")] # Nowhere
  BY <1>3, OthersReach DEF ToldInv, Made, Claimed
<1> QED  BY <1>1, <1>4, <1>5, <1>6, <1>7 DEF ToldInv

LEMMA InitTold == Init => ToldInv
BY DEF Init, ToldInv, OwnedIsTold, Settling, Switches, Before, Claimed, Made

LEMMA NextTold ==
    ASSUME MoveInv, ToldInv, [Next]_vars
    PROVE  ToldInv'
<1>1. CASE UNCHANGED vars
  BY <1>1 DEF vars, ToldInv, OwnedIsTold, IsSettled, Within, Waits, Covered, Pending, Fresh, Own,
              Inside, Nowhere
<1>2. CASE Run
  BY <1>2, FirstTold, StepTold, SettlingTold, LastTold DEF Run
<1>3. CASE Others
  BY <1>3, OthersTold
<1>4. CASE Crash
  BY <1>4, LastTold
<1> QED  BY <1>1, <1>2, <1>3, <1>4 DEF Next

\* A stranger's entry goes from place to place, and out of them only as an empty folder that
\* is at a name of the run when that name is removed.
LEMMA StrangerStays ==
    ASSUME MoveInv, ToldInv, [Next]_vars, at[Alien] # Nowhere, at'[Alien] = Nowhere
    PROVE  hollow /\ pc = "rmdir" /\ at[Alien] = ByPath(Key)
<1>0. MoveTypes /\ Alien \in Objects /\ spot \in {"target", "ghost"}
  BY DEF MoveInv, Objects, ToldInv
<1>1. \A n \in Names : ByPath(n) # Nowhere /\ Left(n) # Nowhere /\ <<spot, n>> # Nowhere
  BY <1>0, PlacesDiffer DEF Left, Nowhere
<1>2. ~UNCHANGED at
  OBVIOUS
<1>3. ~\E k \in Names : \E p : run # 0 /\ PutAt(Own(k), p)
  <2>1. SUFFICES ASSUME NEW k \in Names, NEW p, run # 0, PutAt(Own(k), p) PROVE FALSE
    OBVIOUS
  <2>2. Own(k) \in Objects /\ Own(k) # Alien
    BY <1>0, <2>1, OwnIsOwn DEF Own
  <2>3. at'[Alien] = at[Alien]
    BY <1>0, <2>1, <2>2, PutLeaves
  <2> QED  BY <2>3
<1>4. ~\E p : run # 0 /\ p # Nowhere /\ PutAt(Alien, p)
  BY <1>0, PutLeaves
<1>5. pc # "idle" => run # 0
  BY DEF MoveInv, CopyIsAll
<1>6. pc \in Settling /\ todo # <<>> => Key \in Names
  BY DEF ToldInv, Key
<1>7. ~(\/ probe_exclusive_rename \/ stage \/ claim \/ create_private_dir
        \/ open_created_dir \/ holds)
  BY <1>2, <1>3, <1>5 DEF probe_exclusive_rename, stage, claim, create_private_dir,
       open_created_dir, holds, Attempt, GiveUp, Names
<1>8. ~(\/ snapshot \/ verify \/ stage_thumbs \/ still_at \/ publish_thumbs \/ keep
        \/ publish_db \/ move_child)
  BY <1>2, <1>3, <1>5 DEF snapshot, verify, stage_thumbs, still_at, publish_thumbs, keep, publish_db,
       move_child, ensure_owned, Attempt, GiveUp, Names, FirstOut, LastOut
<1>9. ~look
  BY <1>2 DEF look
<1>10. ~(set_aside \/ put_back)
  <2>1. SUFFICES ASSUME set_aside \/ put_back PROVE FALSE
    OBVIOUS
  <2>2. run # 0 /\ Key \in Names
    BY <1>5, <1>6, <2>1 DEF set_aside, put_back, Settling, ToldInv
  <2>3. UNCHANGED at \/ PutAt(Own(Key), Left(Key)) \/ PutAt(Alien, Left(Key))
        \/ PutAt(Alien, <<spot, Key>>)
    BY <2>1 DEF set_aside, put_back, Attempt
  <2> QED  BY <1>1, <1>2, <1>3, <1>4, <2>2, <2>3
<1>11. ~commit
  BY <1>2, <1>3, <1>5 DEF commit, ensure_owned, Attempt, KeepCopy, Names
<1>12. ~(copy_data \/ finish \/ prove_all \/ write_bootstrap \/ Crash \/ UNCHANGED vars)
  BY <1>2 DEF copy_data, finish, prove_all, write_bootstrap, Crash, Attempt, KeepCopy, world, vars
<1>13. ~Others
  <2>1. ~(SourceWrite \/ OtherRenamesTarget)
    BY <1>2 DEF SourceWrite, OtherRenamesTarget
  <2>2. ~OtherPuts
    BY <1>1 DEF OtherPuts
  <2>3. ~OtherTakes
    <3>1. SUFFICES ASSUME NEW o \in Objects, at' = [at EXCEPT ![o] = Away] PROVE FALSE
      BY DEF OtherTakes, PutAt
    <3>2. at = [x \in Objects |-> at[x]]
      BY <1>0 DEF MoveTypes
    <3>3. at'[Alien] = IF Alien = o THEN Away ELSE at[Alien]
      BY <1>0, <3>1, <3>2
    <3>4. Away # Nowhere
      BY DEF Away, Nowhere
    <3> QED  BY <3>3, <3>4
  <2>4. ~SqliteConsumes
    BY <1>0, <1>3 DEF SqliteConsumes, Names, MoveTypes
  <2> QED  BY <2>1, <2>2, <2>3, <2>4 DEF Others
<1>14. remove_dir
  BY <1>7, <1>8, <1>9, <1>10, <1>11, <1>12, <1>13 DEF Next, Run
<1>15. run # 0 /\ Key \in Names
  BY <1>5, <1>6, <1>14 DEF remove_dir, Settling, ToldInv
<1> QED  BY <1>2, <1>3, <1>14, <1>15 DEF remove_dir

\* A stranger's entry that cannot go back is said to be where it is.
LEMMA StrangerIsTold ==
    ASSUME MoveInv, ToldInv, [Next]_vars, pc = "return", pc' = "settle",
           at'[Alien] = Left(Key)
    PROVE  stray'
<1>1. put_back
  BY DEF Next, Run, Others, vars, copy_data, probe_exclusive_rename, stage, claim,
         create_private_dir, open_created_dir, holds, snapshot, verify, stage_thumbs, still_at,
         publish_thumbs, keep, publish_db, move_child, look, remove_dir, set_aside, finish, commit,
         prove_all, write_bootstrap, SourceWrite, OtherPuts, OtherTakes, SqliteConsumes,
         OtherRenamesTarget, mine, Crash, Ends
<1>2. CASE PutAt(Alien, <<spot, Key>>)
  <2>1. /\ MoveTypes /\ Alien \in Objects /\ spot \in {"target", "ghost"} /\ run # 0
    BY DEF MoveInv, CopyIsAll, Objects, ToldInv
  <2>2. at'[Alien] = <<spot, Key>>
    BY <1>2, <2>1, PutLeaves
  <2> QED  BY <2>1, <2>2 DEF Left
<1>3. CASE stray' = TRUE
  BY <1>3
<1> QED  BY <1>1, <1>2, <1>3 DEF put_back, Attempt

\* Whatever other programs do meanwhile, nothing a run leaves behind is left untold, its own
\* or a stranger's, but for what a step that half failed lost sight of and an empty folder put
\* at a name between the look and the rmdir (Cleanup::abort, Leftovers::settle, set_aside).
THEOREM LeavesNothingUntold == Spec => NothingIsUntold
<1>1. MoveInv /\ ToldInv /\ [Next]_vars => ToldInv'
  BY NextTold
<1>2. MoveInv /\ ToldInv /\ ToldInv' /\ [Next]_vars
        => [/\ OwnedIsTold'
            /\ at[Alien] # Nowhere /\ at'[Alien] = Nowhere =>
                  hollow /\ pc = "rmdir" /\ at[Alien] = ByPath(Key)
            /\ pc = "return" /\ pc' = "settle" /\ at'[Alien] = Left(Key) => stray']_vars
  BY StrangerStays, StrangerIsTold DEF ToldInv
<1> QED  BY <1>1, <1>2, InitTold, MoveInvariance, PTL DEF Spec, NothingIsUntold
==============================================================================

-------------------------- MODULE DataFolderProofs --------------------------
(***************************************************************************)
(* The schema of a database and the path of its folder, for any number of  *)
(* migrations, any start, and any number of kills and of acts of others:   *)
(* the rows are always those of the first migrations, each with its whole  *)
(* effect, and an admitted path stays put while the user's own programs    *)
(* leave it alone.                                                         *)
(***************************************************************************)
EXTENDS DataFolder, FiniteSetTheorems, TLAPS

(* ------------------------------- the schema ---------------------------- *)
LEMMA Counting == \A n \in Nat : IsFiniteSet(1 .. n) /\ Cardinality(1 .. n) = n
<1> TAKE n \in Nat
<1> QED  BY FS_Interval, 1 \in Int, n \in Int

LEMMA TheTwo == Programs = {"app", "tool"} /\ \A p \in Programs : Knows[p] \in Nat /\ Knows[p] <= Len(Kinds)
BY FolderAssumption DEF Programs
LEMMA KindsCounted == Len(Kinds) \in Nat
BY FolderAssumption
LEMMA IdleShape == /\ Idle \in [stage : ProgStages, read : Nat, draft : Drafts]
                   /\ Idle.stage = "off" /\ NoDraft \in Drafts
BY DEF Idle, NoDraft, Drafts, ProgStages

Rec == [stage : ProgStages, read : Nat, draft : Drafts]
\* What a program's record says must be true of the database.
Honest(p, r) ==
    /\ r.stage \in {"begin", "in"} => r.read <= Newest
    /\ r.stage = "done" => Knows[p] <= Newest
    /\ r.stage = "in" => r.read = Newest /\ Newest < Knows[p] /\ r.draft = Mended(Newest + 1)

LEMMA SchemaStays ==
    ASSUME SchemaInv, schema' = schema, prog' = prog PROVE SchemaInv'
<1>1. Newest' = Newest /\ (MendedAlready' <=> MendedAlready) /\ \A v : Mended(v)' = Mended(v)
  BY DEF Newest, MendedAlready, Mended, OneChoice
<1> QED  BY <1>1 DEF SchemaInv

\* One program goes on and the database stays as it is.
LEMMA OneProgramGoes ==
    ASSUME SchemaInv, NEW p \in Programs, NEW r \in Rec, schema' = schema,
           prog' = [prog EXCEPT ![p] = r], Honest(p, r),
           r.stage = "in" => \A q \in Programs : q # p => prog[q].stage # "in"
    PROVE  SchemaInv'
<1>1. Newest' = Newest /\ (MendedAlready' <=> MendedAlready) /\ \A v : Mended(v)' = Mended(v)
  BY DEF Newest, MendedAlready, Mended, OneChoice
<1>2. prog \in [Programs -> Rec]
  BY DEF SchemaInv, Rec
<1>3. /\ prog' \in [Programs -> Rec] /\ prog'[p] = r
      /\ \A q \in Programs : q # p => prog'[q] = prog[q]
  BY <1>2
<1>4. \A q \in Programs : Honest(q, prog[q]) /\ (prog[q].stage = "in" => \A s \in Programs : prog[s].stage = "in" => s = q)
  BY DEF SchemaInv, Honest
<1>5. \A q \in Programs : Honest(q, prog'[q]) /\ (prog'[q].stage = "in" => \A s \in Programs : prog'[s].stage = "in" => s = q)
  BY <1>3, <1>4
<1> QED  BY <1>1, <1>3, <1>5 DEF SchemaInv, Honest, Rec

\* A change of the stage alone.
LEMMA StageOnly ==
    ASSUME NEW r \in Rec, NEW s \in ProgStages
    PROVE  /\ [r EXCEPT !.stage = s] \in Rec
           /\ [r EXCEPT !.stage = s].stage = s /\ [r EXCEPT !.stage = s].read = r.read
           /\ [r EXCEPT !.stage = s].draft = r.draft
BY DEF Rec
LEMMA ProgTyped == ASSUME SchemaInv PROVE prog \in [Programs -> Rec]
BY DEF SchemaInv, Rec

\* A program sets out to read the version, gives up, is killed or has failed.
LEMMA TakesStage ==
    ASSUME SchemaInv, NEW p \in Programs, NEW s \in {"off", "read", "failed"}, schema' = schema,
           \/ prog' = [prog EXCEPT ![p].stage = s]
           \/ prog' = [prog EXCEPT ![p] = Idle]
           \/ prog' = [prog EXCEPT ![p] = [Idle EXCEPT !.stage = s]]
    PROVE  SchemaInv'
<1>1. s \in ProgStages /\ prog[p] \in Rec /\ Idle \in Rec
  BY ProgTyped, IdleShape DEF ProgStages, Rec
<1>2. PICK r \in Rec : prog' = [prog EXCEPT ![p] = r] /\ r.stage \in {"off", "read", "failed"}
  <2>1. CASE prog' = [prog EXCEPT ![p].stage = s]
    <3>1. PICK r : r = [prog[p] EXCEPT !.stage = s]
      OBVIOUS
    <3>2. r \in Rec /\ r.stage = s
      BY <1>1, <3>1, StageOnly
    <3>3. prog' = [prog EXCEPT ![p] = r]
      BY <2>1, <3>1
    <3> QED  BY <3>2, <3>3
  <2>2. CASE prog' = [prog EXCEPT ![p] = Idle]
    BY <1>1, <2>2, IdleShape
  <2>3. CASE prog' = [prog EXCEPT ![p] = [Idle EXCEPT !.stage = s]]
    BY <1>1, <2>3, StageOnly
  <2> QED  BY <2>1, <2>2, <2>3
<1>3. Honest(p, r)
  BY <1>2 DEF Honest
<1> QED  BY <1>2, <1>3, OneProgramGoes

LEMMA ReadsVersion ==
    ASSUME SchemaInv, NEW p \in Programs, ReadVersion(p) PROVE SchemaInv'
<1>1. prog[p] \in Rec /\ Newest \in Nat
  BY ProgTyped DEF SchemaInv
<1>2. PICK r : r = [prog[p] EXCEPT !.stage = "begin", !.read = Newest]
  OBVIOUS
<1>3. r \in Rec /\ r.stage = "begin" /\ r.read = Newest
  BY <1>1, <1>2 DEF Rec, ProgStages
<1>4. prog' = [prog EXCEPT ![p] = r] /\ schema' = schema
  BY <1>2 DEF ReadVersion
<1>5. Honest(p, r)
  BY <1>1, <1>3 DEF Honest
<1> QED  BY <1>3, <1>4, <1>5, OneProgramGoes

LEMMA OneChoiceKept == \A v : OneChoice(v) \subseteq schema.kept
BY DEF OneChoice
LEMMA DraftShape ==
    ASSUME SchemaInv, NEW v \in Nat PROVE Mended(v) \in Drafts
<1>1. schema.kept \in SUBSET Pair /\ schema.aside \in SUBSET Pair
  BY DEF SchemaInv
<1>2. OneChoice(v) \in SUBSET Pair
  BY <1>1, OneChoiceKept
<1> QED  BY <1>1, <1>2 DEF Mended, Drafts

LEMMA BeginsTransaction ==
    ASSUME SchemaInv, NEW p \in Programs, Begin(p) PROVE SchemaInv'
<1>1. prog[p] \in Rec /\ Newest \in Nat /\ Knows[p] \in Nat /\ prog[p].stage = "begin"
  BY ProgTyped, TheTwo DEF SchemaInv, Begin
<1>2. prog[p].read \in Nat /\ prog[p].read <= Newest
  BY <1>1 DEF SchemaInv, Rec
<1> DEFINE v == prog[p].read + 1
<1>3. CASE v > Knows[p] /\ prog' = [prog EXCEPT ![p].stage = "done"] /\ schema' = schema
  <2>1. PICK r : r = [prog[p] EXCEPT !.stage = "done"]
    OBVIOUS
  <2>2. r \in Rec /\ r.stage = "done"
    BY <2>1, <1>1, StageOnly DEF ProgStages
  <2>3. prog' = [prog EXCEPT ![p] = r]
    BY <1>3, <2>1
  <2>4. Knows[p] <= Newest
    BY <1>1, <1>2, <1>3
  <2>5. Honest(p, r)
    BY <2>2, <2>4 DEF Honest
  <2> QED  BY <1>3, <2>2, <2>3, <2>5, OneProgramGoes
<1>4. CASE v <= Knows[p] /\ ~Busy /\ Statements(v) /\ prog' = [prog EXCEPT ![p] = InTransaction(p, v)] /\ schema' = Begun(v)
  <2>1. v \notin schema.effects /\ schema.effects = 1 .. Newest
    BY <1>4 DEF Statements, Creates, Alters, SchemaInv
  <2>2. prog[p].read = Newest
    BY <2>1, <1>1, <1>2
  <2>3. PICK r : r = InTransaction(p, v)
    OBVIOUS
  <2>4. PICK d : d = Mended(Newest + 1)
    OBVIOUS
  <2>5. d \in Drafts
    BY <2>4, <1>1, DraftShape
  <2>6. r = [prog[p] EXCEPT !.stage = "in", !.draft = d]
    BY <2>2, <2>3, <2>4 DEF InTransaction
  <2>7. r \in Rec /\ r.stage = "in" /\ r.read = prog[p].read /\ r.draft = d
    BY <2>5, <2>6, <1>1 DEF Rec, ProgStages
  <2>8. Newest < Knows[p]
    BY <2>2, <1>4, <1>1
  <2>9. Honest(p, r)
    BY <2>2, <2>4, <2>7, <2>8, <1>1 DEF Honest
  <2>10. \A q \in Programs : prog[q].stage # "in"
    BY <1>4 DEF Busy
  <2> QED  BY <1>4, <2>3, <2>7, <2>9, <2>10, OneProgramGoes DEF Begun
<1>5. CASE Fails(p) /\ schema' = schema
  BY <1>5, TakesStage DEF Fails
<1> QED  BY <1>3, <1>4, <1>5 DEF Begin

\* The row of the next migration, with its effect.
LEMMA CommitsRow ==
    ASSUME SchemaInv, NEW p \in Programs, Commit(p) PROVE SchemaInv'
<1>1. PICK n \in Nat : n = Newest
  BY DEF SchemaInv
<1>2. /\ prog[p] \in Rec /\ Knows[p] \in Nat /\ Knows[p] <= Len(Kinds) /\ Len(Kinds) \in Nat
      /\ prog[p].stage = "in" /\ prog[p].read = n /\ n < Knows[p] /\ prog[p].draft = Mended(n + 1)
      /\ schema.rows = 1 .. n /\ schema.effects = 1 .. n
      /\ \A q \in Programs : q # p => prog[q].stage # "in"
  BY <1>1, ProgTyped, TheTwo, KindsCounted DEF SchemaInv, Commit
<1>3. PICK kept, aside : kept = OneChoice(n + 1) /\ aside = IF Kinds[n + 1] = "decisions" THEN schema.aside \ kept ELSE schema.aside
  OBVIOUS
<1>4. Mended(n + 1).rows = {n + 1} /\ Mended(n + 1).effects = {n + 1} /\ Mended(n + 1).kept = kept /\ Mended(n + 1).aside = aside
  BY <1>3 DEF Mended
<1>5. schema' = [rows |-> 1 .. n + 1, effects |-> 1 .. n + 1, kept |-> kept, aside |-> aside]
  <2>1. (1 .. n) \cup {n + 1} = 1 .. n + 1
    BY <1>1
  <2> QED  BY <2>1, <1>2, <1>4 DEF Commit
<1>6. kept \in SUBSET Pair /\ aside \in SUBSET Pair
  BY <1>3, OneChoiceKept DEF SchemaInv
<1>7. Newest' = n + 1
  BY <1>5, Counting DEF Newest
<1>8. MendedAlready' => kept # Pair /\ kept \cap aside = {}
  <2>1. SUFFICES ASSUME NEW w \in 1 .. n + 1, Kinds[w] = "decisions"
        PROVE  kept # Pair /\ kept \cap aside = {}
    BY <1>5 DEF MendedAlready
  <2>2. Pair # {}
    BY DEF Pair
  <2>3. CASE w = n + 1
    BY <2>1, <2>2, <2>3, <1>3 DEF OneChoice
  <2>4. CASE w # n + 1
    <3>1. w \in schema.rows
      BY <2>1, <2>4, <1>2
    <3>2. schema.kept # Pair /\ schema.kept \cap schema.aside = {}
      BY <3>1, <2>1 DEF SchemaInv, MendedAlready
    <3> QED  BY <3>2, <1>3 DEF OneChoice
  <2> QED  BY <2>3, <2>4
<1>9. PICK r : r = [stage |-> "begin", read |-> n + 1, draft |-> NoDraft]
  OBVIOUS
<1>10. r \in Rec /\ r.stage = "begin" /\ r.read = n + 1
  BY <1>9, IdleShape DEF Rec, ProgStages
<1>11. prog' = [prog EXCEPT ![p] = r]
  BY <1>2, <1>9 DEF Commit
<1>12. /\ prog' \in [Programs -> Rec] /\ prog'[p] = r
       /\ \A q \in Programs : q # p => prog'[q] = prog[q]
  BY <1>10, <1>11, ProgTyped
<1>13. ASSUME NEW q \in Programs
       PROVE  /\ prog'[q].stage \in {"begin", "in"} => prog'[q].read <= n + 1
              /\ prog'[q].stage = "done" => Knows[q] <= n + 1
              /\ prog'[q].stage # "in"
  <2>1. CASE q = p
    BY <2>1, <1>10, <1>12
  <2>2. CASE q # p
    <3>1. prog[q] \in Rec /\ prog[q].stage # "in" /\ prog'[q] = prog[q] /\ Knows[q] \in Nat
      BY <2>2, <1>2, <1>12, ProgTyped, TheTwo
    <3>2. prog[q].read \in Nat
      BY <3>1 DEF Rec
    <3> QED  BY <3>1, <3>2, <1>1 DEF SchemaInv
  <2> QED  BY <2>1, <2>2
<1>14. schema' \in [rows : {1 .. n + 1}, effects : {1 .. n + 1}, kept : SUBSET Pair, aside : SUBSET Pair]
  BY <1>5, <1>6
<1>15. schema'.kept = kept /\ schema'.aside = aside /\ n + 1 <= Len(Kinds)
  BY <1>2, <1>5
<1> QED  BY <1>7, <1>8, <1>12, <1>13, <1>14, <1>15 DEF SchemaInv, Rec

LEMMA SchemaStarts == Init => SchemaInv
<1> SUFFICES ASSUME Init PROVE SchemaInv
  OBVIOUS
<1>1. PICK n \in Nat, kept \in SUBSET Pair, aside \in SUBSET Pair :
          /\ schema = [rows |-> 1 .. n, effects |-> 1 .. n, kept |-> kept, aside |-> aside]
          /\ n <= Len(Kinds) /\ (MendedAlready => kept # Pair /\ kept \cap aside = {})
          /\ \A p \in Programs : prog[p].stage = "done" => Knows[p] <= n
          /\ \A p \in Programs : prog[p].stage \in {"off", "done"}
          /\ prog \in [Programs -> Rec]
  <2>1. CASE /\ schema = [rows |-> 1 .. Len(Kinds), effects |-> 1 .. Len(Kinds), kept |-> {}, aside |-> {}]
             /\ prog = [p \in Programs |-> IF p = "app" THEN Idle ELSE [Idle EXCEPT !.stage = "done"]]
    <3>1. {} # Pair
      BY DEF Pair
    <3>2. Idle \in Rec /\ Idle.stage = "off" /\ [Idle EXCEPT !.stage = "done"] \in Rec /\ [Idle EXCEPT !.stage = "done"].stage = "done"
      BY IdleShape, StageOnly DEF Rec, ProgStages
    <3>3. \A p \in Programs : prog[p].stage \in {"off", "done"} /\ prog[p] \in Rec
      BY <2>1, <3>2
    <3>4. prog \in [Programs -> Rec]
      BY <2>1, <3>2
    <3>5. \A p \in Programs : Knows[p] <= Len(Kinds)
      BY TheTwo
    <3>6. Len(Kinds) \in Nat /\ {} \in SUBSET Pair
      BY KindsCounted
    <3>7. PICK m, e : m = Len(Kinds) /\ e = {}
      OBVIOUS
    <3>8. schema = [rows |-> 1 .. m, effects |-> 1 .. m, kept |-> e, aside |-> e]
      BY <2>1, <3>7
    <3>9. /\ m \in Nat /\ e \in SUBSET Pair /\ m <= Len(Kinds)
          /\ (MendedAlready => e # Pair /\ e \cap e = {})
          /\ \A p \in Programs : prog[p].stage = "done" => Knows[p] <= m
          /\ \A p \in Programs : prog[p].stage \in {"off", "done"}
      BY <3>1, <3>3, <3>5, <3>6, <3>7
    <3> HIDE DEF MendedAlready
    <3> QED  BY <3>4, <3>8, <3>9
  <2>2. CASE /\ \E n \in 0 .. Knows["app"] - 1, kept, aside \in SUBSET Pair :
                    schema = [rows |-> 1 .. n, effects |-> 1 .. n, kept |-> kept, aside |-> aside]
             /\ MendedAlready => schema.kept # Pair /\ schema.kept \cap schema.aside = {}
             /\ prog = [p \in Programs |-> Idle]
    <3>1. PICK n \in 0 .. Knows["app"] - 1, kept \in SUBSET Pair, aside \in SUBSET Pair :
                    schema = [rows |-> 1 .. n, effects |-> 1 .. n, kept |-> kept, aside |-> aside]
      BY <2>2
    <3>2. n \in Nat /\ n <= Len(Kinds)
      BY <3>1, TheTwo, KindsCounted
    <3>3. MendedAlready => kept # Pair /\ kept \cap aside = {}
      BY <2>2, <3>1
    <3>4. \A p \in Programs : prog[p].stage = "off"
      BY <2>2, IdleShape
    <3>5. prog \in [Programs -> Rec]
      BY <2>2, IdleShape DEF Rec
    <3> QED  BY <3>1, <3>2, <3>3, <3>4, <3>5
  <2> QED  BY <2>1, <2>2 DEF Init
<1>2. Newest = n
  BY <1>1, Counting DEF Newest
<1>3. schema \in [rows : {1 .. n}, effects : {1 .. n}, kept : SUBSET Pair, aside : SUBSET Pair]
      /\ schema.kept = kept /\ schema.aside = aside
  BY <1>1
<1> QED  BY <1>1, <1>2, <1>3 DEF SchemaInv, Rec

\* Every step keeps the schema whole.
LEMMA SchemaGoesOn == SchemaInv /\ [Next]_vars => SchemaInv'
<1> SUFFICES ASSUME SchemaInv, [Next]_vars PROVE SchemaInv'
  OBVIOUS
<1>1. CASE UNCHANGED vars
  BY <1>1, SchemaStays DEF vars
<1>2. CASE Launch \/ Walk \/ Check \/ Compare \/ CompareCache \/ Recheck \/ CheckFiles \/ CheckCache \/ Probe \/ OpenDb \/ HasMoved
  BY <1>2, SchemaStays DEF Launch, Walk, Check, Compare, CompareCache, Recheck, CheckFiles, CheckCache, Probe, OpenDb, HasMoved, data
<1>3. CASE \/ AskForLock \/ WriteLock \/ OpenCache \/ Store \/ Mkdir \/ OpenMade \/ CheckMade \/ GiveUp \/ Look \/ Rmdir
           \/ OthersAct \/ OwnAct
  BY <1>3, SchemaStays DEF AskForLock, WriteLock, OpenCache, Store, Mkdir, OpenMade, CheckMade, GiveUp, Look, Rmdir, data, OthersAct, OwnAct
<1>4. CASE Setup
  <2>1. schema' = schema /\ (prog' = prog \/ prog' = [prog EXCEPT !["app"].stage = "read"])
    BY <1>4 DEF Setup
  <2> QED  BY <2>1, SchemaStays, TakesStage, TheTwo
<1>5. CASE ToolOpens
  BY <1>5, TakesStage, TheTwo DEF ToolOpens
<1>6. ASSUME NEW p \in Programs, Migrates(p) \/ Kill(p) PROVE SchemaInv'
  <2>1. CASE Kill(p)
    BY <2>1, TakesStage DEF Kill
  <2> QED  BY <2>1, <1>6, ReadsVersion, BeginsTransaction, CommitsRow DEF Migrates
<1> QED  BY <1>1, <1>2, <1>3, <1>4, <1>5, <1>6 DEF Next, AppStep

LEMMA FewerThanTwo == \A s \in SUBSET Pair : s # Pair => Cardinality(s) < 2
<1> SUFFICES ASSUME NEW s \in SUBSET Pair, s # Pair PROVE Cardinality(s) < 2
  OBVIOUS
<1>1. s = {} \/ s = {"one"} \/ s = {"two"}
  BY DEF Pair
<1>2. CASE s = {}
  BY <1>2, FS_EmptySet
<1>3. CASE s = {"one"} \/ s = {"two"}
  <2>1. Cardinality(s) = 1
    BY <1>3, FS_Singleton
  <2> QED  BY <2>1
<1> QED  BY <1>1, <1>2, <1>3

LEMMA WholeFromInv == SchemaInv => SchemaIsWhole
<1> SUFFICES ASSUME SchemaInv PROVE SchemaIsWhole
  OBVIOUS
<1>1. MendedAlready => Cardinality(schema.kept) < 2 /\ schema.kept \cap schema.aside = {}
  BY FewerThanTwo DEF SchemaInv
<1>2. \A p \in Programs : prog[p].stage = "done" => (1 .. Knows[p]) \subseteq schema.rows
  BY TheTwo DEF SchemaInv
<1>3. schema.rows = 1 .. Newest /\ schema.effects = schema.rows
  BY DEF SchemaInv
<1> QED  BY <1>1, <1>2, <1>3 DEF SchemaIsWhole

(* ------------------------------- the path ------------------------------ *)
LEMMA SmallPaths ==
    /\ "top" \in Folders /\ "made" \in Folders /\ "plain" \in Objects /\ Folders \subseteq Objects
    /\ NameAt[1] = "" /\ NameAt[2] = "up" /\ NameAt[3] = "data"
    /\ "none" \notin Folders /\ "link" \notin Folders
BY DEF Folders, Objects, Files, Beneath, NameAt

\* What is admitted leaves no room to another account.
LEMMA CheckBars ==
    ASSUME fact \in [Folders -> Fact], system \in {"macos", "linux", "windows"},
           NEW f \in Folders, NEW last \in BOOLEAN, check(f, last)
    PROVE  /\ ~Rules(f) /\ fact[f].who # "other" /\ check(f, FALSE)
           /\ fact[f].loose => fact[f].sticky /\ ~last
<1>1. fact[f] \in Fact
  OBVIOUS
<1>2. fact[f].vol = "kept"
  BY <1>1 DEF check, verdict, probe_file, MacVolume, LinuxVolume, WindowsVolume, Fact
<1>3. fact[f].list # "open" /\ fact[f].who # "other"
  BY DEF check, acl_check, MacList, LinuxList
<1>4. fact[f].loose => fact[f].sticky /\ ~last
  BY DEF check, Writable
<1>5. check(f, FALSE)
  BY <1>4 DEF check, Writable
<1> QED  BY <1>2, <1>3, <1>4, <1>5 DEF Rules

\* Others change a mode only where they rule, which no check allows.
SameRights ==
    /\ system' = system /\ fact' \in [Folders -> Fact]
    /\ \A f \in Folders :
        /\ fact'[f].who = fact[f].who /\ fact'[f].sticky = fact[f].sticky
        /\ fact'[f].list = fact[f].list /\ fact'[f].vol = fact[f].vol
        /\ Rules(f) \/ fact'[f].loose = fact[f].loose

LEMMA LooseOnly ==
    ASSUME fact \in [Folders -> Fact], NEW f \in Folders, fact' = [fact EXCEPT ![f].loose = ~@]
    PROVE  /\ fact' \in [Folders -> Fact]
           /\ \A g \in Folders : g # f => fact'[g] = fact[g]
           /\ fact'[f].who = fact[f].who /\ fact'[f].sticky = fact[f].sticky
           /\ fact'[f].list = fact[f].list /\ fact'[f].vol = fact[f].vol
<1>1. fact[f] \in Fact
  OBVIOUS
<1>2. PICK r : r = [fact[f] EXCEPT !.loose = ~@]
  OBVIOUS
<1>3. /\ r \in Fact /\ r.who = fact[f].who /\ r.sticky = fact[f].sticky
      /\ r.list = fact[f].list /\ r.vol = fact[f].vol
  BY <1>1, <1>2 DEF Fact
<1>4. fact' = [fact EXCEPT ![f] = r]
  BY <1>2
<1> QED  BY <1>3, <1>4

LEMMA OthersKeepRights ==
    ASSUME fact \in [Folders -> Fact], OthersAct PROVE SameRights
<1>1. CASE fact' = fact
  BY <1>1 DEF OthersAct, SameRights
<1>2. CASE \E f \in Folders : Rules(f) /\ fact' = [fact EXCEPT ![f].loose = ~@]
  <2>1. PICK f \in Folders : Rules(f) /\ fact' = [fact EXCEPT ![f].loose = ~@]
    BY <1>2
  <2> QED  BY <2>1, LooseOnly DEF OthersAct, SameRights
<1> QED  BY <1>1, <1>2 DEF OthersAct

LEMMA RightsStay ==
    ASSUME fact \in [Folders -> Fact], system \in {"macos", "linux", "windows"}, SameRights
    PROVE  \A f \in Folders :
              /\ Rules(f)' <=> Rules(f)
              /\ MayPut(f)' <=> MayPut(f)
              /\ \A o : Who(o)' = Who(o) /\ (MayTake(f, o)' <=> MayTake(f, o))
              /\ \A last \in BOOLEAN : check(f, last)' <=> check(f, last)
<1> SUFFICES ASSUME NEW f \in Folders
    PROVE  /\ Rules(f)' <=> Rules(f)
           /\ MayPut(f)' <=> MayPut(f)
           /\ \A o : Who(o)' = Who(o) /\ (MayTake(f, o)' <=> MayTake(f, o))
           /\ \A last \in BOOLEAN : check(f, last)' <=> check(f, last)
  OBVIOUS
<1>1. Rules(f)' <=> Rules(f)
  BY DEF Rules, SameRights
<1>2. \A o : Who(o)' = Who(o)
  BY DEF Who, SameRights
<1>3. (MayPut(f)' <=> MayPut(f)) /\ \A o : MayTake(f, o)' <=> MayTake(f, o)
  BY <1>1, <1>2 DEF MayPut, MayTake, SameRights
<1>4. ASSUME NEW last \in BOOLEAN PROVE check(f, last)' <=> check(f, last)
  <2>1. CASE Rules(f)
    <3>1. ~check(f, last)
      BY <2>1, CheckBars
    <3>2. fact' \in [Folders -> Fact] /\ system' \in {"macos", "linux", "windows"} /\ Rules(f)'
      BY <1>1, <2>1 DEF SameRights
    <3>3. ~check(f, last)'
      <4>1. SUFFICES ASSUME check(f, last)' PROVE FALSE
        OBVIOUS
      <4>2. fact'[f] \in Fact
        BY <3>2
      <4>3. fact'[f].vol = "kept"
        BY <4>1, <4>2, <3>2 DEF check, verdict, probe_file, MacVolume, LinuxVolume, WindowsVolume, Fact
      <4>4. fact'[f].list # "open" /\ fact'[f].who # "other"
        BY <4>1 DEF check, acl_check, MacList, LinuxList
      <4> QED  BY <3>2, <4>3, <4>4 DEF Rules
    <3> QED  BY <3>1, <3>3
  <2>2. CASE ~Rules(f)
    <3>1. /\ fact'[f].who = fact[f].who /\ fact'[f].sticky = fact[f].sticky /\ fact'[f].list = fact[f].list
          /\ fact'[f].vol = fact[f].vol /\ fact'[f].loose = fact[f].loose /\ system' = system
      BY <2>2 DEF SameRights
    <3>2. Writable(f, last)' <=> Writable(f, last)
      BY <3>1 DEF Writable
    <3>3. acl_check(f)' <=> acl_check(f)
      BY <3>1 DEF acl_check, MacList, LinuxList
    <3>4. verdict(probe_file(f))' <=> verdict(probe_file(f))
      BY <3>1 DEF verdict, probe_file, MacVolume, LinuxVolume, WindowsVolume
    <3> QED  BY <3>1, <3>2, <3>3, <3>4 DEF check
  <2> QED  BY <2>1, <2>2
<1> QED  BY <1>1, <1>2, <1>3, <1>4

LEMMA NothingChangesRights ==
    ASSUME fact \in [Folders -> Fact], fact' = fact, system' = system PROVE SameRights
BY DEF SameRights

\* The links of the chain, where the names of its levels are left alone.
LinkAt(k) == Below(chain[k], NameAt[k + 1])
LinksLeft == \A k \in 1 .. Len(chain) - 1 :
    LinkAt(k)' = LinkAt(k) \/ LinkAt(k) # chain[k + 1] \/ MayTake(chain[k], LinkAt(k))

LEMMA PathParts ==
    ASSUME PathInv
    PROVE  /\ ChainGrows /\ LinksHold /\ LevelsChecked /\ chain \in Seq(Folders) /\ Len(chain) \in Nat
           /\ app.stage \in AppStages /\ app.level \in 1 .. 3 /\ app.round \in 1 .. 4
BY DEF PathInv

AppType == [goal : {"use", "make"}, stage : AppStages, level : 1 .. 3, round : 1 .. 4]
LEMMA PathKeeps ==
    ASSUME PathInv, SameRights, at' \in [Slots -> Objects \cup {"none", "link"}],
           chain' = chain, LinksLeft, app' \in AppType, still' = still,
           Running' => Running, ChainGrows', LevelsChecked'
    PROVE  PathInv'
<1>1. LinksHold'
  <2> SUFFICES ASSUME Running', still', NEW k \in 1 .. Len(chain) - 1
      PROVE  LinkAt(k)' = chain[k + 1] \/ MayTake(chain[k], chain[k + 1])'
    BY DEF LinksHold, LinkAt
  <2>1. chain[k] \in Folders /\ chain[k + 1] \in Folders
    BY DEF PathInv
  <2>2. LinkAt(k) = chain[k + 1] \/ MayTake(chain[k], chain[k + 1])
    BY DEF PathInv, LinksHold, LinkAt
  <2>3. LinkAt(k)' = LinkAt(k) \/ LinkAt(k) # chain[k + 1] \/ MayTake(chain[k], LinkAt(k))
    BY DEF LinksLeft
  <2>4. MayTake(chain[k], chain[k + 1])' <=> MayTake(chain[k], chain[k + 1])
    <3>1. \A f \in Folders, o \in Folders : MayTake(f, o)' <=> MayTake(f, o)
      BY RightsStay DEF PathInv
    <3>2. PICK f \in Folders, o \in Folders : f = chain[k] /\ o = chain[k + 1]
      BY <2>1
    <3>3. chain'[k] = f /\ chain'[k + 1] = o
      BY <3>2
    <3> QED  BY <3>1, <3>2, <3>3 DEF MayTake, Rules, Who
  <2> QED  BY <2>2, <2>3, <2>4
<1>2. system' \in {"macos", "linux", "windows"} /\ fact' \in [Folders -> Fact]
  BY DEF SameRights, PathInv
<1> QED  BY <1>1, <1>2 DEF PathInv, AppType

\* The stages at which three levels are open and were all checked.
Opened == {"compare", "compare_cache", "recheck", "files", "check_cache", "probe", "sqlite", "moved", "journal", "migrating", "on", "lock", "cache", "has"}

LEMMA LevelsStay ==
    ASSUME PathInv, SameRights, chain' = chain
    PROVE  \A k \in 1 .. Len(chain) : \A last \in BOOLEAN : Checked(k, last)' <=> Checked(k, last)
<1> SUFFICES ASSUME NEW k \in 1 .. Len(chain), NEW last \in BOOLEAN
    PROVE  Checked(k, last)' <=> Checked(k, last)
  OBVIOUS
<1>1. PICK f \in Folders : f = chain[k]
  BY DEF PathInv
<1>2. check(f, last)' <=> check(f, last)
  BY RightsStay DEF PathInv
<1>3. chain'[k] = f
  BY <1>1
<1>4. Checked(k, last)' <=> check(f, last)'
  BY <1>3 DEF Checked, check, Writable, verdict, probe_file, MacVolume, LinuxVolume, WindowsVolume, acl_check, MacList, LinuxList
<1> QED  BY <1>1, <1>2, <1>4 DEF Checked

LEMMA StageGoes ==
    ASSUME PathInv, SameRights, at' \in [Slots -> Objects \cup {"none", "link"}],
           chain' = chain, LinksLeft, app' \in AppType, still' = still,
           \/ app' = app
           \/ app'.stage = "refused"
           \/ /\ app.stage \in Opened /\ app'.stage \in Opened
              /\ app'.stage = "recheck" => app'.level \in 1 .. 3
           \/ app.stage \in Opened \cup {"check_made", "look"} /\ app'.stage \in {"look", "rmdir"}
    PROVE  PathInv'
<1>1. Len(chain') = Len(chain) /\ Len(chain) \in Nat /\ app.stage \in AppStages /\ app.level \in 1 .. 3
  BY DEF PathInv
<1>2. \A k \in 1 .. Len(chain) : \A last \in BOOLEAN : Checked(k, last)' <=> Checked(k, last)
  BY LevelsStay
<1>3. CASE app' = app
  <2>1. ChainGrows' /\ (Running' <=> Running)
    BY <1>3 DEF ChainGrows, PathInv, Running, Wanted
  <2>2. LevelsChecked'
    <3>1. app.stage = "check" => app.level \in 1 .. Len(chain)
      BY DEF PathInv, ChainGrows
    <3>2. app.stage = "check_made" => \A k \in 1 .. 2 : k \in 1 .. Len(chain)
      <4>1. app.stage = "check_made" => Len(chain) = 3
        BY PathParts DEF ChainGrows, Running
      <4>2. \A n \in Nat : n = 3 => \A k \in 1 .. 2 : k \in 1 .. n
        OBVIOUS
      <4> QED  BY <4>1, <4>2, <1>1
    <3>3. \A k \in 1 .. Len(chain) : (k = Len(chain)) \in BOOLEAN
      OBVIOUS
    <3>4. Steady' <=> Steady
      BY <1>3 DEF Steady
    <3>5. still /\ app.stage = "check" => \A k \in 1 .. app.level - 1 : Checked(k, k = Len(chain))'
      <4> SUFFICES ASSUME still, app.stage = "check", NEW k \in 1 .. app.level - 1
          PROVE  Checked(k, k = Len(chain))'
        OBVIOUS
      <4>1. k \in 1 .. Len(chain)
        BY <3>1, <1>1
      <4>2. Checked(k, k = Len(chain))
        BY DEF PathInv, LevelsChecked
      <4> QED  BY <4>1, <4>2, <1>2
    <3>6. still /\ Steady /\ app.stage # "check_made" => \A k \in 1 .. Len(chain) : Checked(k, k = Len(chain))'
      BY <1>2, <3>3 DEF PathInv, LevelsChecked
    <3>7. still /\ app.stage = "check_made" => \A k \in 1 .. 2 : Checked(k, FALSE)'
      BY <1>2, <3>2 DEF PathInv, LevelsChecked
    <3> QED  BY <1>1, <1>3, <3>4, <3>5, <3>6, <3>7 DEF LevelsChecked, Checked
  <2> QED  BY <2>1, <2>2, PathKeeps
<1>4. CASE app'.stage = "refused"
  <2>1. ~Running' /\ ChainGrows'
    BY <1>4 DEF ChainGrows, Running
  <2>2. LevelsChecked'
    BY <1>4 DEF LevelsChecked, Steady
  <2> QED  BY <2>1, <2>2, PathKeeps
<1>5. CASE /\ app.stage \in Opened /\ app'.stage \in Opened
           /\ app'.stage = "recheck" => app'.level \in 1 .. 3
  <2>1. Running /\ Steady /\ app.stage \notin {"check_made", "walk", "check", "mkdir", "open_made"}
    BY <1>5 DEF Running, Steady, Opened, AppStages
  <2>2. Len(chain) = 3 /\ chain[1] = "top"
    BY <2>1, PathParts DEF ChainGrows
  <2>3. ChainGrows'
    BY <1>5, <2>2 DEF ChainGrows, Opened
  <2>4. still => \A k \in 1 .. Len(chain) : Checked(k, k = Len(chain))'
    BY <1>2, <2>1 DEF PathInv, LevelsChecked
  <2>5. LevelsChecked'
    BY <1>5, <1>1, <2>4 DEF LevelsChecked, Opened, Checked
  <2> QED  BY <2>1, <2>3, <2>5, PathKeeps
<1>6. CASE app.stage \in Opened \cup {"check_made", "look"} /\ app'.stage \in {"look", "rmdir"}
  <2>1. Running /\ app.stage \notin {"walk", "check", "mkdir", "open_made"}
    BY <1>6 DEF Running, Opened
  <2>2. Len(chain) = 3
    BY <2>1, PathParts DEF ChainGrows
  <2>9. chain[1] = "top"
    BY <2>1, <2>2, PathParts, 3 > 0 DEF ChainGrows
  <2>3. ChainGrows'
    BY <1>6, <2>2, <2>9 DEF ChainGrows
  <2>4. LevelsChecked'
    BY <1>6 DEF LevelsChecked, Steady
  <2> QED  BY <2>1, <2>3, <2>4, PathKeeps
<1> QED  BY <1>3, <1>4, <1>5, <1>6


LEMMA LinksAlone == ASSUME PathInv, at' = at, chain' = chain PROVE LinksLeft
BY DEF LinksLeft, LinkAt, Below
LEMMA NoMoreThanThree == ASSUME PathInv, Running PROVE Len(chain) \in 0 .. 3
<1>1. app.level \in 1 .. 3 /\ Wanted \in 2 .. 3 /\ Len(chain) \in Nat
  BY PathParts DEF Wanted
<1>2. CASE app.stage = "walk"
  <2>1. Len(chain) = app.level - 1
    BY <1>2, PathParts DEF ChainGrows
  <2>2. \A l \in 1 .. 3 : l - 1 \in 0 .. 3
    OBVIOUS
  <2> QED  BY <1>1, <2>1, <2>2
<1>3. CASE app.stage = "check"
  BY <1>1, <1>3, PathParts DEF ChainGrows
<1>4. CASE app.stage \notin {"walk", "check"}
  BY <1>1, <1>4, PathParts DEF ChainGrows
<1> QED  BY <1>2, <1>3, <1>4
LEMMA LevelsNamed ==
    ASSUME PathInv, Running, NEW k \in 1 .. Len(chain) - 1
    PROVE  /\ k \in 1 .. 2 /\ NameAt[k + 1] \in {"up", "data"} /\ (k = 1 => NameAt[k + 1] = "up")
           /\ chain[k] \in Folders /\ chain[k + 1] \in Folders
<1>1. PICK n \in 0 .. 3 : n = Len(chain)
  BY NoMoreThanThree
<1>2. k \in 1 .. n - 1
  BY <1>1
<1>3. k = 1 \/ k = 2
  BY <1>1, <1>2
<1>4. k \in 1 .. n /\ k + 1 \in 1 .. n
  BY <1>1, <1>2
<1>5. chain[k] \in Folders /\ chain[k + 1] \in Folders
  <2>1. \A j \in 1 .. Len(chain) : chain[j] \in Folders
    BY PathParts
  <2> QED  BY <1>1, <1>4, <2>1
<1>6. \A j : j = k + 1 => NameAt[j] \in {"up", "data"} /\ (k = 1 => NameAt[j] = "up")
  <2>1. \A j : j = k + 1 => (j = 2 \/ j = 3) /\ (k = 1 => j = 2)
    BY <1>3
  <2> QED  BY <2>1, SmallPaths
<1> QED  BY <1>3, <1>5, <1>6
LEMMA PairsDiffer == \A a, b, c, d : <<a, b>> = <<c, d>> <=> a = c /\ b = d
OBVIOUS

\* A name beside the database is no level of a path.
LEMMA AppearsBeside ==
    ASSUME PathInv, Running, chain' = chain, NEW n \in {"wal", "lock"}, Appears(n)
    PROVE  LinksLeft /\ at' \in [Slots -> Objects \cup {"none", "link"}]
<1>1. at' = at \/ \E f : <<f, n>> \in Slots /\ at' = [at EXCEPT ![<<f, n>>] = "plain"]
  BY DEF Appears
<1>2. CASE at' = at
  BY <1>2, LinksAlone DEF PathInv
<1>3. ASSUME NEW f, <<f, n>> \in Slots, at' = [at EXCEPT ![<<f, n>>] = "plain"]
      PROVE  LinksLeft /\ at' \in [Slots -> Objects \cup {"none", "link"}]
  <2>1. at' \in [Slots -> Objects \cup {"none", "link"}]
    BY <1>3, SmallPaths DEF PathInv
  <2>2. ASSUME NEW k \in 1 .. Len(chain) - 1 PROVE LinkAt(k)' = LinkAt(k)
    <3>1. PICK s : s = <<chain[k], NameAt[k + 1]>>
      OBVIOUS
    <3>2. s # <<f, n>>
      BY <3>1, LevelsNamed, PairsDiffer
    <3>3. s \in Slots => at'[s] = at[s]
      BY <1>3, <3>2 DEF PathInv
    <3> QED  BY <3>1, <3>3 DEF LinkAt, Below
  <2> QED  BY <2>1, <2>2 DEF LinksLeft
<1> QED  BY <1>1, <1>2, <1>3

LEMMA OthersKeepPath == ASSUME PathInv, OthersAct PROVE PathInv'
<1>1. SameRights /\ chain' = chain /\ app' = app /\ still' = still /\ app' \in AppType /\ Running
  BY OthersKeepRights DEF OthersAct, PathInv, calm, AppType
<1>2. CASE at' = at
  <2>1. LinksLeft /\ at' \in [Slots -> Objects \cup {"none", "link"}]
    BY <1>1, <1>2, LinksAlone DEF PathInv
  <2> QED  BY <1>1, <2>1, StageGoes
<1>3. CASE \E s \in Slots, o \in Objects \cup {"none", "link"} :
              /\ at[s] # "none" => MayTake(s[1], at[s])
              /\ at' = [at EXCEPT ![s] = o]
  <2>1. PICK s \in Slots, o \in Objects \cup {"none", "link"} :
              /\ at[s] # "none" => MayTake(s[1], at[s])
              /\ at' = [at EXCEPT ![s] = o]
    BY <1>3
  <2>3. at' \in [Slots -> Objects \cup {"none", "link"}]
    BY <2>1 DEF PathInv
  <2>4. ASSUME NEW k \in 1 .. Len(chain) - 1
        PROVE  LinkAt(k)' = LinkAt(k) \/ LinkAt(k) # chain[k + 1] \/ MayTake(chain[k], LinkAt(k))
    <3>1. PICK t : t = <<chain[k], NameAt[k + 1]>>
      OBVIOUS
    <3>2. CASE t # s
      <4>1. t \in Slots => at'[t] = at[t]
        BY <2>1, <3>2 DEF PathInv
      <4> QED  BY <1>1, <3>1, <4>1 DEF LinkAt, Below
    <3>3. CASE t = s
      <4>1. LinkAt(k) = at[s] /\ s[1] = chain[k]
        BY <3>1, <3>3 DEF LinkAt, Below
      <4>2. chain[k + 1] # "none"
        BY <1>1, LevelsNamed, SmallPaths
      <4> QED  BY <2>1, <4>1, <4>2
    <3> QED  BY <3>2, <3>3
  <2> QED  BY <1>1, <2>3, <2>4, StageGoes DEF LinksLeft
<1> QED  BY <1>2, <1>3 DEF OthersAct

LEMMA OwnKeepsPath == ASSUME PathInv, OwnAct PROVE PathInv'
<1>1. /\ system' = system /\ chain' = chain /\ app' = app /\ still' = FALSE
      /\ \/ at' = at \/ \E s \in Slots, o \in Objects \cup {"none", "link"} : at' = [at EXCEPT ![s] = o]
      /\ \/ fact' = fact \/ \E f \in Folders : fact' = [fact EXCEPT ![f].loose = ~@]
  BY DEF OwnAct
<1>2. fact' \in [Folders -> Fact]
  BY <1>1, LooseOnly DEF PathInv
<1>3. at' \in [Slots -> Objects \cup {"none", "link"}]
  BY <1>1 DEF PathInv, Objects
<1>4. ChainGrows' /\ LinksHold' /\ LevelsChecked'
  BY <1>1 DEF PathInv, ChainGrows, LinksHold, LevelsChecked, Wanted, Running
<1> QED  BY <1>1, <1>2, <1>3, <1>4 DEF PathInv

LEMMA AppTyped == PathInv => app \in AppType
BY DEF PathInv, AppType
LEMMA Turns ==
    ASSUME PathInv, NEW s \in AppStages
    PROVE  To(s) \in AppType /\ To(s).stage = s /\ To(s).level = app.level /\ To(s).goal = app.goal
BY AppTyped DEF To, AppType
LEMMA TurnsTo ==
    ASSUME PathInv, NEW s \in AppStages, NEW l \in 1 .. 3
    PROVE  /\ [app EXCEPT !.stage = s, !.level = l] \in AppType
           /\ [app EXCEPT !.stage = s, !.level = l].stage = s
           /\ [app EXCEPT !.stage = s, !.level = l].level = l
           /\ [app EXCEPT !.stage = s, !.level = l].goal = app.goal
           /\ [app EXCEPT !.level = l] \in AppType
           /\ [app EXCEPT !.level = l].stage = app.stage
           /\ [app EXCEPT !.level = l].level = l
           /\ [app EXCEPT !.level = l].goal = app.goal
BY AppTyped DEF AppType

LEMMA TurnsBack ==
    ASSUME PathInv
    PROVE  /\ [app EXCEPT !.stage = "recheck", !.level = 1] \in AppType
           /\ [app EXCEPT !.stage = "recheck", !.level = 1].stage = "recheck"
           /\ [app EXCEPT !.stage = "recheck", !.level = 1].level = 1
           /\ \A r \in 1 .. 4 :
                 /\ [app EXCEPT !.stage = "recheck", !.level = 1, !.round = r] \in AppType
                 /\ [app EXCEPT !.stage = "recheck", !.level = 1, !.round = r].stage = "recheck"
                 /\ [app EXCEPT !.stage = "recheck", !.level = 1, !.round = r].level = 1
<1>1. PICK t, l : t = "recheck" /\ l = 1
  OBVIOUS
<1>2. t \in AppStages /\ l \in 1 .. 3 /\ app.round \in 1 .. 4
  BY <1>1, PathParts DEF AppStages
<1>3. /\ [app EXCEPT !.stage = t, !.level = l] \in AppType
      /\ [app EXCEPT !.stage = t, !.level = l].stage = t
      /\ [app EXCEPT !.stage = t, !.level = l].level = l
  BY <1>2, TurnsTo
<1>4. ASSUME NEW r \in 1 .. 4
      PROVE  /\ [app EXCEPT !.stage = t, !.level = l, !.round = r] \in AppType
             /\ [app EXCEPT !.stage = t, !.level = l, !.round = r].stage = t
             /\ [app EXCEPT !.stage = t, !.level = l, !.round = r].level = l
  BY <1>2, <1>4, AppTyped DEF AppType
<1> QED  BY <1>1, <1>3, <1>4

\* The app gives up: nothing is claimed of its path any more.
LEMMA RefusesPath ==
    ASSUME PathInv, Refuse, system' = system, fact' = fact, still' = still, chain' \in Seq(Folders),
           at' \in [Slots -> Objects \cup {"none", "link"}]
    PROVE  PathInv'
<1>1. app' \in AppType /\ app'.stage = "refused"
  BY Turns DEF Refuse, AppStages
<1>2. ~Running'
  BY <1>1 DEF Running
<1>3. ChainGrows' /\ LinksHold' /\ LevelsChecked'
  BY <1>1, <1>2 DEF ChainGrows, LinksHold, LevelsChecked, Steady
<1> QED  BY <1>1, <1>3 DEF PathInv, AppType

\* From one stage with every level checked to the next.
LEMMA OpenedGoes ==
    ASSUME PathInv, app.stage \in Opened, fact' = fact, system' = system, chain' = chain, still' = still,
           at' \in [Slots -> Objects \cup {"none", "link"}], LinksLeft,
           \/ Refuse
           \/ \E s \in Opened \cup {"look"} : s # "recheck" /\ app' = To(s)
           \/ \E r \in 1 .. 4 : app' = [app EXCEPT !.stage = "recheck", !.level = 1, !.round = r]
           \/ app' = [app EXCEPT !.stage = "recheck", !.level = 1]
           \/ app.stage = "recheck" /\ \E l \in 1 .. 3 : app' = [app EXCEPT !.level = l]
    PROVE  PathInv'
<1>1. SameRights /\ Opened \subseteq AppStages /\ {"refused", "look", "recheck"} \subseteq AppStages /\ "recheck" \in Opened
  BY NothingChangesRights DEF PathInv, Opened, AppStages
<1>2. app.level \in 1 .. 3 /\ app.round \in 1 .. 4 /\ 1 \in 1 .. 3
  BY PathParts
<1>3. CASE Refuse
  BY <1>1, <1>3, Turns, StageGoes DEF Refuse
<1>4. ASSUME NEW s \in Opened \cup {"look"}, s # "recheck", app' = To(s) PROVE PathInv'
  BY <1>1, <1>4, Turns, StageGoes
<1>5. CASE \/ \E r \in 1 .. 4 : app' = [app EXCEPT !.stage = "recheck", !.level = 1, !.round = r]
           \/ app' = [app EXCEPT !.stage = "recheck", !.level = 1]
  <2>1. app' \in AppType /\ app'.stage = "recheck" /\ app'.level = 1
    <3>1. CASE app' = [app EXCEPT !.stage = "recheck", !.level = 1]
      BY <3>1, TurnsBack
    <3>2. ASSUME NEW r \in 1 .. 4, app' = [app EXCEPT !.stage = "recheck", !.level = 1, !.round = r]
          PROVE  app' \in AppType /\ app'.stage = "recheck" /\ app'.level = 1
      BY <3>2, TurnsBack
    <3> QED  BY <1>5, <3>1, <3>2
  <2> QED  BY <1>1, <1>2, <2>1, StageGoes
<1>6. ASSUME app.stage = "recheck", NEW l \in 1 .. 3, app' = [app EXCEPT !.level = l] PROVE PathInv'
  <2>1. app' \in AppType /\ app'.stage = "recheck" /\ app'.level = l
    BY <1>1, <1>2, <1>6, TurnsTo
  <2> QED  BY <1>1, <1>6, <2>1, StageGoes
<1> QED  BY <1>3, <1>4, <1>5, <1>6

\* The steps that look and the steps that write files of their own.
LEMMA LookingSteps ==
    ASSUME PathInv, Compare \/ CompareCache \/ CheckFiles \/ CheckCache \/ Probe \/ OpenDb \/ HasMoved \/ AskForLock \/ OpenCache \/ Store \/ GiveUp
    PROVE  PathInv'
<1>1. fact' = fact /\ system' = system /\ at' = at /\ chain' = chain /\ still' = still /\ app.stage \in Opened
  BY DEF Compare, CompareCache, CheckFiles, CheckCache, Probe, OpenDb, HasMoved, AskForLock, OpenCache, Store, GiveUp, SecondLook, Again, Refuse, world, calm, Opened
<1>2. LinksLeft /\ at' \in [Slots -> Objects \cup {"none", "link"}]
  BY <1>1, LinksAlone DEF PathInv
<1>3. After[app.round] \in {"check_cache", "sqlite", "journal", "lock"}
  <2>1. PICK r \in 1 .. 4 : r = app.round
    BY PathParts
  <2>2. r = 1 \/ r = 2 \/ r = 3 \/ r = 4
    BY <2>1
  <2> QED  BY <2>1, <2>2 DEF After
<1>4. {"compare_cache", "check_cache", "probe", "sqlite", "journal", "lock", "moved", "on", "cache"} \subseteq Opened /\ 2 \in 1 .. 4 /\ 3 \in 1 .. 4 /\ 4 \in 1 .. 4
  BY DEF Opened
<1>5. \/ Refuse
      \/ \E s \in {"compare_cache", "check_cache", "probe", "sqlite", "journal", "lock", "moved", "on", "cache", "look"} : app' = To(s)
      \/ \E r \in 1 .. 4 : app' = [app EXCEPT !.stage = "recheck", !.level = 1, !.round = r]
      \/ app' = [app EXCEPT !.stage = "recheck", !.level = 1]
  <2>1. CASE Compare \/ CompareCache \/ CheckCache \/ Store \/ GiveUp \/ OpenDb \/ OpenCache
    BY <2>1 DEF Compare, CompareCache, CheckCache, Store, GiveUp, OpenDb, OpenCache
  <2>2. CASE CheckFiles
    BY <1>3, <2>2 DEF CheckFiles
  <2>3. CASE Probe \/ HasMoved \/ AskForLock
    BY <1>4, <2>3 DEF Probe, HasMoved, AskForLock, SecondLook, Again
  <2> QED  BY <2>1, <2>2, <2>3
<1> QED  BY <1>1, <1>2, <1>4, <1>5, OpenedGoes

LEMMA WritingSteps == ASSUME PathInv, Setup \/ WriteLock PROVE PathInv'
<1>1. fact' = fact /\ system' = system /\ chain' = chain /\ still' = still /\ app.stage \in Opened /\ Running
  BY DEF Setup, WriteLock, calm, Opened, Running
<1>2. CASE Refuse /\ at' = at
  <2>1. LinksLeft /\ at' \in [Slots -> Objects \cup {"none", "link"}]
    BY <1>1, <1>2, LinksAlone DEF PathInv
  <2> QED  BY <1>1, <1>2, <2>1, OpenedGoes
<1>3. ASSUME NEW n \in {"wal", "lock"}, Appears(n), NEW s \in {"migrating", "on"}, app' = To(s) PROVE PathInv'
  BY <1>1, <1>3, AppearsBeside, OpenedGoes DEF Opened
<1> QED  BY <1>2, <1>3 DEF Setup, WriteLock

LEMMA RecheckStep == ASSUME PathInv, Recheck PROVE PathInv'
<1>1. /\ fact' = fact /\ system' = system /\ at' = at /\ chain' = chain /\ still' = still
      /\ app.stage = "recheck" /\ app.stage \in Opened /\ Running
  BY DEF Recheck, world, calm, Opened, Running
<1>2. LinksLeft /\ at' \in [Slots -> Objects \cup {"none", "link"}]
  BY <1>1, LinksAlone DEF PathInv
<1>3. Len(chain) = 3 /\ app.level \in 1 .. 3
  BY <1>1, PathParts DEF ChainGrows
<1>4. app.level < 3 => app.level + 1 \in 1 .. 3
  BY <1>3
<1>5. Refuse \/ app' = To("files") \/ \E l \in 1 .. 3 : app' = [app EXCEPT !.level = l]
  BY <1>3, <1>4 DEF Recheck, Last
<1> QED  BY <1>1, <1>2, <1>5, OpenedGoes DEF Opened

\* A level's check, one after the other.
LEMMA CheckStep == ASSUME PathInv, Check PROVE PathInv'
<1>1. /\ fact' = fact /\ system' = system /\ at' = at /\ chain' = chain /\ still' = still
      /\ app.stage = "check" /\ Running
  BY DEF Check, world, calm, Running
<1>2. LinksLeft /\ at' \in [Slots -> Objects \cup {"none", "link"}] /\ SameRights /\ chain' \in Seq(Folders)
  BY <1>1, LinksAlone, NothingChangesRights DEF PathInv
<1>3. PICK n \in 2 .. 3 : n = Wanted /\ Len(chain) = n /\ (app.goal = "use" => n = 3) /\ (app.goal # "use" => n = 2)
  BY <1>1, PathParts DEF ChainGrows, Wanted
<1>4. PICK l \in 1 .. n : l = app.level
  BY <1>1, <1>3, PathParts DEF ChainGrows
<1>5. CASE Refuse
  BY <1>1, <1>2, <1>5, RefusesPath
<1>6. chain[1] = "top" /\ Len(chain') = n
  BY <1>1, <1>3, PathParts DEF ChainGrows
<1>7. still => \A k \in 1 .. l - 1 : Checked(k, k = n)
  BY <1>1, <1>3, <1>4, PathParts DEF LevelsChecked
<1>8. \A k : \A last \in BOOLEAN : Checked(k, last)' <=> Checked(k, last)
  BY <1>1 DEF Checked, check, Writable, verdict, probe_file, MacVolume, LinuxVolume, WindowsVolume, acl_check, MacList, LinuxList
<1>9. CASE Checked(l, l = n) /\ l < n /\ app' = [app EXCEPT !.level = l + 1]
  <2>1. l + 1 \in 1 .. 3 /\ l + 1 \in 1 .. n
    BY <1>3, <1>4, <1>9
  <2>2. app' \in AppType /\ app'.stage = "check" /\ app'.level = l + 1 /\ app'.goal = app.goal
    BY <1>1, <1>9, <2>1, TurnsTo, PathParts
  <2>3. ChainGrows'
    BY <1>3, <1>6, <2>1, <2>2, <1>1 DEF ChainGrows, Wanted
  <2>4. \A k \in 1 .. (l + 1) - 1 : k \in 1 .. l - 1 \/ k = l
    BY <1>4
  <2>5. still' => \A k \in 1 .. app'.level - 1 : Checked(k, k = Len(chain))'
    BY <1>1, <1>6, <1>7, <1>8, <1>9, <2>2, <2>4
  <2>6. LevelsChecked'
    BY <2>2, <2>5 DEF LevelsChecked, Steady
  <2> QED  BY <1>1, <1>2, <2>2, <2>3, <2>6, PathKeeps
<1>10. CASE Checked(l, l = n) /\ l = n /\ app' = To(IF app.goal = "use" THEN "compare" ELSE "mkdir")
  <2>1. app' \in AppType /\ app'.stage = (IF n = 3 THEN "compare" ELSE "mkdir")
    <3>1. "compare" \in AppStages /\ "mkdir" \in AppStages
      BY DEF AppStages
    <3>2. CASE app.goal = "use"
      <4>1. n = 3 /\ app' = To("compare")
        BY <1>3, <1>10, <3>2
      <4> QED  BY <3>1, <4>1, Turns
    <3>3. CASE app.goal # "use"
      <4>1. n = 2 /\ app' = To("mkdir")
        BY <1>3, <1>10, <3>3
      <4> QED  BY <3>1, <4>1, Turns
    <3> QED  BY <3>2, <3>3
  <2>2. \A k \in 1 .. n : k \in 1 .. l - 1 \/ k = l
    BY <1>4, <1>10
  <2>3. still' => \A k \in 1 .. n : Checked(k, k = n)'
    <3> SUFFICES ASSUME still, NEW k \in 1 .. n PROVE Checked(k, k = n)'
      BY <1>1
    <3>1. Checked(k, k = n)
      BY <1>7, <1>10, <2>2
    <3> QED  BY <3>1, <1>8
  <2>4. LevelsChecked'
    BY <1>6, <2>1, <2>3 DEF LevelsChecked
  <2>5. ChainGrows'
    BY <1>1, <1>3, <1>6, <2>1 DEF ChainGrows
  <2> QED  BY <1>1, <1>2, <2>1, <2>4, <2>5, PathKeeps
<1>11. l < n \/ l = n
  BY <1>3, <1>4
<1>12. \/ Refuse
       \/ Checked(l, l = n) /\ app' = IF l < n THEN [app EXCEPT !.level = l + 1] ELSE To(IF app.goal = "use" THEN "compare" ELSE "mkdir")
  BY <1>3, <1>4 DEF Check, Last, Checked
<1>13. l = n => ~(l < n)
  BY <1>3, <1>4
<1> QED  BY <1>5, <1>9, <1>10, <1>11, <1>12, <1>13

\* The chain grows by what is opened from its end.
LEMMA Grows ==
    ASSUME NEW o \in Folders, NEW c \in Seq(Folders)
    PROVE  /\ Append(c, o) \in Seq(Folders) /\ Len(Append(c, o)) = Len(c) + 1
           /\ Append(c, o)[Len(c) + 1] = o /\ \A k \in 1 .. Len(c) : Append(c, o)[k] = c[k]
OBVIOUS

LEMMA OpensNext ==
    ASSUME PathInv, NEW o \in Folders, chain' = Append(chain, o), at' = at, fact' = fact, system' = system, still' = still,
           Len(chain) > 0 => o = Below(chain[Len(chain)], NameAt[Len(chain) + 1]), Running, Running',
           app' \in AppType, ChainGrows', LevelsChecked'
    PROVE  PathInv'
<1>1. PICK n \in Nat : n = Len(chain)
  BY PathParts
<1>2. /\ chain' \in Seq(Folders) /\ Len(chain') = n + 1 /\ chain'[n + 1] = o
      /\ \A k \in 1 .. n : chain'[k] = chain[k]
  BY <1>1, Grows, PathParts
<1>3. LinksHold'
  <2> SUFFICES ASSUME still, NEW k \in 1 .. n
      PROVE  Below(chain[k], NameAt[k + 1])' = chain'[k + 1] \/ MayTake(chain[k], chain[k + 1])'
    BY <1>2 DEF LinksHold
  <2>1. chain'[k] = chain[k]
    BY <1>2
  <2>2. \A f, name : Below(f, name)' = Below(f, name)
    BY DEF Below
  <2>3. \A f, g : MayTake(f, g)' <=> MayTake(f, g)
    BY DEF MayTake, Rules, Who
  <2>4. CASE k = n
    <3>1. chain'[k + 1] = Below(chain[k], NameAt[k + 1])
      BY <1>1, <1>2, <2>4
    <3>2. Below(chain[k], NameAt[k + 1])' = Below(chain[k], NameAt[k + 1])
      BY <2>1 DEF Below
    <3> QED  BY <3>1, <3>2
  <2>5. CASE k # n
    <3>1. k \in 1 .. n - 1 /\ k + 1 \in 1 .. n
      BY <2>5
    <3>2. chain'[k + 1] = chain[k + 1]
      BY <1>2, <3>1
    <3>3. Below(chain[k], NameAt[k + 1]) = chain[k + 1] \/ MayTake(chain[k], chain[k + 1])
      BY <1>1, <3>1, PathParts DEF LinksHold
    <3>4. Below(chain[k], NameAt[k + 1])' = Below(chain[k], NameAt[k + 1])
      BY <2>1 DEF Below
    <3>5. MayTake(chain[k], chain[k + 1])' <=> MayTake(chain[k], chain[k + 1])
      BY <2>1, <3>2 DEF MayTake, Rules, Who
    <3> QED  BY <3>2, <3>3, <3>4, <3>5
  <2> QED  BY <2>4, <2>5
<1> QED  BY <1>2, <1>3 DEF PathInv, AppType

LEMMA WalkStep == ASSUME PathInv, Walk PROVE PathInv'
<1>1. /\ fact' = fact /\ system' = system /\ at' = at /\ still' = still
      /\ app.stage = "walk" /\ Running
  BY DEF Walk, world, calm, Running
<1>2. PICK n \in 2 .. 3 : n = Wanted /\ (app.goal = "use" => n = 3) /\ (app.goal # "use" => n = 2)
  BY DEF Wanted
<1>3. PICK k \in 1 .. n : k = app.level /\ Len(chain) = k - 1
  BY <1>1, <1>2, PathParts DEF ChainGrows
<1>4. CASE Refuse /\ chain' = chain
  BY <1>1, <1>4, RefusesPath DEF PathInv
<1>5. ASSUME NEW o \in Folders, o = Child(k), chain' = Append(chain, o),
             app' = IF k = n THEN [app EXCEPT !.stage = "check", !.level = 1] ELSE [app EXCEPT !.level = k + 1]
      PROVE  PathInv'
  <2>1. Len(chain') = k /\ (k = 1 => chain'[1] = o) /\ (k > 1 => chain'[1] = chain[1])
    <3>1. Len(Append(chain, o)) = (k - 1) + 1 /\ Append(chain, o)[(k - 1) + 1] = o /\ \A j \in 1 .. k - 1 : Append(chain, o)[j] = chain[j]
      BY <1>3, Grows, PathParts
    <3>2. (k - 1) + 1 = k /\ (k > 1 => 1 \in 1 .. k - 1)
      BY <1>3
    <3> QED  BY <1>5, <3>1, <3>2
  <2>2. chain'[1] = "top"
    <3>1. CASE k = 1
      BY <1>5, <2>1, <3>1 DEF Child
    <3>2. CASE k > 1
      <4>1. Len(chain) > 0
        BY <1>3, <3>2
      <4> QED  BY <1>1, <2>1, <3>2, <4>1, PathParts DEF ChainGrows
    <3> QED  BY <1>3, <3>1, <3>2
  <2>3. Len(chain) > 0 => o = Below(chain[Len(chain)], NameAt[Len(chain) + 1])
    <3>1. SUFFICES ASSUME k - 1 > 0 PROVE o = Below(chain[k - 1], NameAt[(k - 1) + 1])
      BY <1>3
    <3>2. k # 1 /\ (k - 1) + 1 = k
      BY <1>3, <3>1
    <3> QED  BY <1>5, <3>2 DEF Child
  <2>4. CASE k = n
    <3>1. app' \in AppType /\ app'.stage = "check" /\ app'.level = 1 /\ app'.goal = app.goal
      BY <1>5, <2>4, TurnsTo, PathParts DEF AppStages
    <3>2. ChainGrows' /\ Running'
      BY <1>2, <2>1, <2>2, <2>4, <3>1 DEF ChainGrows, Wanted, Running
    <3>3. LevelsChecked'
      BY <3>1 DEF LevelsChecked, Steady
    <3> QED  BY <1>1, <1>5, <2>3, <3>1, <3>2, <3>3, OpensNext
  <2>5. CASE k # n
    <3>1. k + 1 \in 1 .. 3 /\ k + 1 <= n /\ (k + 1) - 1 = k
      BY <1>2, <1>3, <2>5
    <3>2. app' \in AppType /\ app'.stage = "walk" /\ app'.level = k + 1 /\ app'.goal = app.goal
      BY <1>1, <1>5, <2>5, <3>1, TurnsTo, PathParts
    <3>3. ChainGrows' /\ Running'
      BY <1>2, <2>1, <2>2, <3>1, <3>2 DEF ChainGrows, Wanted, Running
    <3>4. LevelsChecked'
      BY <3>2 DEF LevelsChecked, Steady
    <3> QED  BY <1>1, <1>5, <2>3, <3>2, <3>3, <3>4, OpensNext
  <2> QED  BY <2>4, <2>5
<1> QED  BY <1>2, <1>3, <1>4, <1>5 DEF Walk, Wanted

LEMMA SameChecks ==
    ASSUME fact' = fact, system' = system
    PROVE  \A f, last : check(f, last)' <=> check(f, last)
BY DEF check, Writable, verdict, probe_file, MacVolume, LinuxVolume, WindowsVolume, acl_check, MacList, LinuxList

LEMMA MkdirStep == ASSUME PathInv, Mkdir PROVE PathInv'
<1>1. /\ fact' = fact /\ system' = system /\ chain' = chain /\ still' = still
      /\ app.stage = "mkdir" /\ Running
  BY DEF Mkdir, calm, Running
<1>2. SameRights /\ chain' \in Seq(Folders) /\ Len(chain) = 2 /\ chain[1] = "top"
  <2>1. Len(chain) = 2
    BY <1>1, PathParts DEF ChainGrows
  <2> QED  BY <1>1, <2>1, PathParts, NothingChangesRights, 2 > 0 DEF PathInv, ChainGrows
<1>3. CASE Refuse /\ at' = at
  BY <1>1, <1>2, <1>3, RefusesPath DEF PathInv
<1>4. CASE /\ <<chain[2], "data">> \in Slots /\ app' = To("open_made")
           /\ at' = [at EXCEPT ![<<chain[2], "data">>] = "made"]
  <2>1. at' \in [Slots -> Objects \cup {"none", "link"}]
    BY <1>4, SmallPaths DEF PathInv
  <2>2. ASSUME NEW k \in 1 .. Len(chain) - 1 PROVE LinkAt(k)' = LinkAt(k)
    <3>1. PICK s : s = <<chain[k], NameAt[k + 1]>>
      OBVIOUS
    <3>2. k = 1
      BY <1>2
    <3>3. NameAt[k + 1] = "up"
      BY <1>1, <3>2, LevelsNamed
    <3>4. s # <<chain[2], "data">>
      BY <3>1, <3>3, PairsDiffer
    <3>5. s \in Slots => at'[s] = at[s]
      BY <1>4, <3>4 DEF PathInv
    <3> QED  BY <1>1, <3>1, <3>5 DEF LinkAt, Below
  <2>3. app' \in AppType /\ app'.stage = "open_made"
    BY <1>4, Turns DEF AppStages
  <2>4. ChainGrows'
    BY <1>1, <1>2, <2>3 DEF ChainGrows
  <2>5. still => \A k \in 1 .. 2 : Checked(k, k = 2)
    BY <1>1, <1>2, PathParts DEF LevelsChecked, Steady
  <2>6. still' => \A k \in 1 .. Len(chain') : Checked(k, k = Len(chain))'
    BY <1>1, <1>2, <2>5, SameChecks DEF Checked
  <2>7. LevelsChecked'
    BY <2>3, <2>6 DEF LevelsChecked
  <2> QED  BY <1>1, <1>2, <2>1, <2>2, <2>3, <2>4, <2>7, PathKeeps DEF LinksLeft
<1> QED  BY <1>3, <1>4 DEF Mkdir

\* A third level on top of two.
LEMMA Third ==
    ASSUME NEW c \in Seq(Folders), NEW o \in Folders, NEW d, d = Append(c, o)
    PROVE  Len(c) = 2 => Len(d) = 3 /\ d[1] = c[1] /\ d[2] = c[2] /\ d[3] = o
<1>1. Len(d) = Len(c) + 1 /\ d[Len(c) + 1] = o /\ \A k \in 1 .. Len(c) : d[k] = c[k]
  BY Grows
<1>2. ASSUME Len(c) = 2 PROVE Len(d) = 3 /\ d[1] = c[1] /\ d[2] = c[2] /\ d[3] = o
  <2>1. Len(c) + 1 = 3 /\ 1 \in 1 .. Len(c) /\ 2 \in 1 .. Len(c)
    BY <1>2
  <2> QED  BY <1>1, <2>1
<1> QED  BY <1>2

LEMMA OpenMadeStep == ASSUME PathInv, OpenMade PROVE PathInv'
<1>1. /\ fact' = fact /\ system' = system /\ at' = at /\ still' = still
      /\ app.stage = "open_made" /\ Running
  BY DEF OpenMade, world, calm, Running
<1>2. chain \in Seq(Folders) /\ Len(chain) = 2 /\ chain[1] = "top"
  <2>1. Len(chain) = 2
    BY <1>1, PathParts DEF ChainGrows
  <2> QED  BY <1>1, <2>1, PathParts, 2 > 0 DEF ChainGrows
<1>3. CASE Refuse /\ chain' = chain
  BY <1>1, <1>3, RefusesPath DEF PathInv
<1>4. ASSUME NEW o \in Folders, o = Below(chain[2], "data"), chain' = Append(chain, o), app' = To("check_made")
      PROVE  PathInv'
  <2>1. Len(chain') = 3 /\ chain'[1] = chain[1] /\ chain'[2] = chain[2] /\ chain'[3] = o
    BY <1>2, <1>4, Third
  <2>2. app' \in AppType /\ app'.stage = "check_made" /\ Running'
    <3>1. app' \in AppType /\ app'.stage = "check_made"
      BY <1>4, Turns DEF AppStages
    <3> QED  BY <3>1 DEF Running
  <2>3. ChainGrows'
    BY <1>2, <2>1, <2>2 DEF ChainGrows
  <2>4. still => \A k \in 1 .. 2 : Checked(k, k = 2)
    BY <1>1, <1>2, PathParts DEF LevelsChecked, Steady
  <2>5. ASSUME still, NEW k \in 1 .. 2 PROVE Checked(k, FALSE)'
    <3>1. k \in 1 .. Len(chain) /\ (k = 2) \in BOOLEAN
      BY <1>2
    <3>2. chain[k] \in Folders /\ check(chain[k], k = 2)
      BY <1>2, <2>4, <2>5, <3>1 DEF Checked
    <3>3. check(chain[k], FALSE)
      BY <3>1, <3>2, CheckBars DEF PathInv
    <3>4. chain'[k] = chain[k]
      BY <2>1
    <3> QED  BY <1>1, <3>3, <3>4, SameChecks DEF Checked
  <2>6. LevelsChecked'
    BY <1>1, <2>2, <2>5 DEF LevelsChecked
  <2>7. Len(chain) > 0 => o = Below(chain[Len(chain)], NameAt[Len(chain) + 1])
    <3>1. Len(chain) + 1 = 3
      BY <1>2
    <3>2. NameAt[Len(chain) + 1] = "data"
      BY <3>1, SmallPaths
    <3> QED  BY <1>2, <1>4, <3>2
  <2> QED  BY <1>1, <1>4, <2>2, <2>3, <2>6, <2>7, OpensNext
<1> QED  BY <1>3, <1>4 DEF OpenMade

LEMMA CheckMadeStep == ASSUME PathInv, CheckMade PROVE PathInv'
<1>1. /\ fact' = fact /\ system' = system /\ at' = at /\ still' = still /\ chain' = chain
      /\ app.stage = "check_made" /\ Running
  BY DEF CheckMade, world, calm, Running
<1>2. /\ SameRights /\ LinksLeft /\ at' \in [Slots -> Objects \cup {"none", "link"}]
  BY <1>1, NothingChangesRights, LinksAlone DEF PathInv
<1>3. Len(chain) = 3 /\ chain[1] = "top" /\ chain[3] \in Folders
  <2>1. Len(chain) = 3
    BY <1>1, PathParts DEF ChainGrows
  <2>2. chain[1] = "top"
    BY <1>1, <2>1, PathParts, 3 > 0 DEF ChainGrows
  <2>3. \A k \in 1 .. Len(chain) : chain[k] \in Folders
    BY PathParts
  <2> QED  BY <2>1, <2>2, <2>3
<1>4. CASE app' = To("look")
  <2>1. app' \in AppType /\ app'.stage = "look"
    BY <1>4, Turns DEF AppStages
  <2> QED  BY <1>1, <1>2, <2>1, StageGoes
<1>5. CASE app' = To("has") /\ check(chain[3], TRUE)
  <2>1. app' \in AppType /\ app'.stage = "has"
    BY <1>5, Turns DEF AppStages
  <2>2. ChainGrows'
    BY <1>1, <1>3, <2>1 DEF ChainGrows
  <2>3. still => \A k \in 1 .. 2 : Checked(k, FALSE)
    BY <1>1, PathParts DEF LevelsChecked
  <2>4. ASSUME still, NEW k \in 1 .. 3 PROVE Checked(k, k = 3)'
    <3>1. CASE k = 3
      BY <1>1, <1>5, <3>1, SameChecks DEF Checked
    <3>2. CASE k # 3
      <4>1. k \in 1 .. 2 /\ (k = 3) = FALSE
        BY <3>2
      <4> QED  BY <1>1, <2>3, <2>4, <4>1, SameChecks DEF Checked
    <3> QED  BY <3>1, <3>2
  <2>5. LevelsChecked'
    BY <1>1, <1>3, <2>1, <2>4 DEF LevelsChecked
  <2> QED  BY <1>1, <1>2, <2>1, <2>2, <2>5, PathKeeps
<1> QED  BY <1>4, <1>5 DEF CheckMade

LEMMA LookStep == ASSUME PathInv, Look \/ Rmdir PROVE PathInv'
<1>1. fact' = fact /\ system' = system /\ still' = still /\ chain' = chain /\ chain' \in Seq(Folders)
  BY PathParts DEF Look, Rmdir, world, calm
<1>2. CASE Look
  <2>1. LinksLeft /\ at' = at /\ at' \in [Slots -> Objects \cup {"none", "link"}] /\ SameRights /\ app.stage = "look"
    BY <1>1, <1>2, LinksAlone, NothingChangesRights DEF PathInv, Look, world
  <2>2. CASE Refuse
    BY <1>1, <2>1, <2>2, RefusesPath
  <2>3. CASE app' = To("rmdir")
    <3>1. app' \in AppType /\ app'.stage = "rmdir"
      BY <2>3, Turns DEF AppStages
    <3> QED  BY <1>1, <2>1, <3>1, StageGoes
  <2> QED  BY <1>2, <2>2, <2>3 DEF Look
<1>3. CASE Rmdir
  <2>1. at' = at \/ \E s : at' = [at EXCEPT ![s] = "none"]
    BY <1>3 DEF Rmdir
  <2>2. at' \in [Slots -> Objects \cup {"none", "link"}]
    BY <2>1 DEF PathInv
  <2> QED  BY <1>1, <1>3, <2>2, RefusesPath DEF Rmdir
<1> QED  BY <1>2, <1>3

LEMMA Restarts ==
    ASSUME PathInv, Launch \/ (Kill("app"))
    PROVE  PathInv'
<1>1. /\ fact' = fact /\ system' = system /\ at' = at /\ chain' \in Seq(Folders) /\ still' \in BOOLEAN
      /\ app' \in AppType /\ app'.stage \in {"off", "walk", "refused"}
      /\ app'.stage = "walk" => app'.level = 1 /\ chain' = <<>>
  <2>1. CASE Launch
    <3>1. \A s \in {"walk", "refused"} : App(app.goal, s, 1, 1) \in AppType /\ App(app.goal, s, 1, 1).stage = s /\ App(app.goal, s, 1, 1).level = 1
      BY DEF App, AppType, AppStages, PathInv
    <3>2. <<>> \in Seq(Folders)
      OBVIOUS
    <3> QED  BY <2>1, <3>1, <3>2 DEF Launch, world
  <2>2. CASE Kill("app")
    <3>1. App("use", "off", 1, 1) \in AppType /\ App("use", "off", 1, 1).stage = "off"
      BY DEF App, AppType, AppStages
    <3> QED  BY <2>2, <3>1 DEF Kill, world, calm, PathInv
  <2> QED  BY <2>1, <2>2
<1>2. Len(<<>>) = 0
  OBVIOUS
<1>3. app'.stage = "walk" => Len(chain') = 0 /\ app'.level = 1
  BY <1>1, <1>2
<1>4. ChainGrows'
  BY <1>1, <1>3 DEF ChainGrows, Running, Wanted
<1>5. LinksHold'
  BY <1>1, <1>3 DEF LinksHold, Running
<1>6. LevelsChecked'
  BY <1>1 DEF LevelsChecked, Steady
<1> QED  BY <1>1, <1>4, <1>5, <1>6 DEF PathInv, AppType

LEMMA MigratingGoesOn == SchemaInv /\ PathInv /\ AppMigrates /\ [Next]_vars => AppMigrates'
<1> SUFFICES ASSUME SchemaInv, PathInv, AppMigrates, [Next]_vars PROVE AppMigrates'
  OBVIOUS
<1>1. prog \in [Programs -> Rec] /\ "app" \in Programs /\ "tool" \in Programs /\ "app" # "tool"
  BY ProgTyped, TheTwo
<1>2. CASE UNCHANGED vars \/ OthersAct \/ OwnAct
  BY <1>2 DEF vars, OthersAct, OwnAct, data, AppMigrates
<1>3. CASE Launch \/ Walk \/ Check \/ Compare \/ CompareCache \/ Recheck \/ CheckFiles \/ CheckCache \/ Probe \/ OpenDb \/ HasMoved
  <2>1. app.stage # "migrating" /\ prog' = prog
    BY <1>3 DEF Launch, Walk, Check, Compare, CompareCache, Recheck, CheckFiles, CheckCache, Probe, OpenDb, HasMoved, data
  <2> QED  BY <2>1 DEF AppMigrates
<1>4. CASE AskForLock \/ WriteLock \/ OpenCache \/ Store \/ Mkdir \/ OpenMade \/ CheckMade \/ GiveUp \/ Look \/ Rmdir
  <2>1. app.stage # "migrating" /\ prog' = prog
    BY <1>4 DEF AskForLock, WriteLock, OpenCache, Store, Mkdir, OpenMade, CheckMade, GiveUp, Look, Rmdir, data
  <2> QED  BY <2>1 DEF AppMigrates
<1>5. CASE Setup
  <2>1. \/ prog' = prog /\ app.stage # "migrating"
        \/ app' = To("migrating")
    BY <1>5 DEF Setup
  <2>2. CASE app' = To("migrating")
    <3>1. To("migrating").stage = "migrating"
      BY AppTyped DEF To, AppType
    <3> QED  BY <2>2, <3>1 DEF AppMigrates
  <2> QED  BY <2>1, <2>2 DEF AppMigrates
<1>6. CASE ToolOpens
  <2>1. prog'["app"] = prog["app"] /\ app' = app
    BY <1>1, <1>6 DEF ToolOpens
  <2> QED  BY <2>1 DEF AppMigrates
<1>7. ASSUME NEW p \in Programs, Migrates(p) \/ Kill(p) PROVE AppMigrates'
  <2>1. CASE p # "app"
    <3>1. app' = app /\ prog'["app"] = prog["app"]
      BY <1>1, <1>7, <2>1 DEF Migrates, ReadVersion, Begin, Commit, Kill, Ends, Fails
    <3> QED  BY <3>1 DEF AppMigrates
  <2>2. CASE p = "app"
    <3>1. CASE ReadVersion("app") \/ Commit("app")
      BY <3>1 DEF ReadVersion, Commit, AppMigrates
    <3>2. CASE Kill("app")
      <4>1. prog'["app"] = Idle
        BY <1>1, <3>2 DEF Kill
      <4> QED  BY <4>1, IdleShape DEF AppMigrates
    <3>3. CASE Begin("app")
      <4>1. (app' = app /\ prog["app"].stage = "begin") \/ prog'["app"].stage \in {"done", "failed"}
        BY <1>1, <3>3, IdleShape DEF Begin, Fails, Idle, Rec
      <4> QED  BY <4>1 DEF AppMigrates
    <3> QED  BY <1>7, <2>2, <3>1, <3>2, <3>3 DEF Migrates
  <2> QED  BY <2>1, <2>2
<1> QED  BY <1>2, <1>3, <1>4, <1>5, <1>6, <1>7 DEF Next, AppStep

LEMMA PathGoesOn == PathInv /\ AppMigrates /\ [Next]_vars => PathInv'
<1> SUFFICES ASSUME PathInv, AppMigrates, [Next]_vars PROVE PathInv'
  OBVIOUS
<1>1. ASSUME fact' = fact, system' = system, at' = at, chain' = chain, still' = still, app' = app PROVE PathInv'
  BY <1>1, NothingChangesRights, LinksAlone, StageGoes, AppTyped DEF PathInv
<1>2. CASE UNCHANGED vars
  BY <1>1, <1>2 DEF vars
<1>3. CASE AppStep
  BY <1>3, Restarts, WalkStep, CheckStep, LookingSteps, RecheckStep, WritingSteps, MkdirStep, OpenMadeStep, CheckMadeStep, LookStep DEF AppStep
<1>4. CASE ToolOpens
  BY <1>1, <1>4 DEF ToolOpens, world, calm
<1>5. ASSUME NEW p \in Programs, Migrates(p) \/ Kill(p) PROVE PathInv'
  <2>1. CASE Kill(p)
    <3>1. CASE p = "app"
      BY <2>1, <3>1, Restarts
    <3>2. CASE p # "app"
      BY <1>1, <2>1, <3>2 DEF Kill, world, calm
    <3> QED  BY <3>1, <3>2
  <2>2. CASE ReadVersion(p) \/ Commit(p)
    BY <1>1, <2>2 DEF ReadVersion, Commit, world, calm
  <2>3. CASE Begin(p)
    <3>1. /\ fact' = fact /\ system' = system /\ at' = at /\ chain' = chain /\ still' = still
          /\ app' = app \/ Refuse \/ app' = To("on")
      BY <2>3 DEF Begin, world, calm, Fails, Ends
    <3>2. CASE app' = app
      BY <1>1, <3>1, <3>2
    <3>3. CASE Refuse
      BY <3>1, <3>3, RefusesPath DEF PathInv
    <3>4. CASE app' = To("on")
      <4>1. CASE p = "app"
        <5>1. app.stage = "migrating"
          BY <2>3, <4>1 DEF AppMigrates, Begin
        <5>2. LinksLeft /\ at' \in [Slots -> Objects \cup {"none", "link"}]
          BY <3>1, LinksAlone DEF PathInv
        <5> QED  BY <3>1, <3>4, <5>1, <5>2, OpenedGoes DEF Opened
      <4>2. CASE p # "app"
        <5>1. app' = app
          BY <2>3, <4>2 DEF Begin, Ends, Fails
        <5> QED  BY <1>1, <3>1, <5>1
      <4> QED  BY <4>1, <4>2
    <3> QED  BY <3>1, <3>2, <3>3, <3>4
  <2> QED  BY <1>5, <2>1, <2>2, <2>3 DEF Migrates
<1>6. CASE OthersAct \/ OwnAct
  BY <1>6, OthersKeepPath, OwnKeepsPath
<1> QED  BY <1>2, <1>3, <1>4, <1>5, <1>6 DEF Next

LEMMA PathStarts == Init => PathInv /\ AppMigrates
<1> SUFFICES ASSUME Init PROVE PathInv /\ AppMigrates
  OBVIOUS
<1>1. PICK w \in Worlds : fact = [f \in Folders |->
           CASE f = "top" -> w[1] [] f = "up" -> w[2] [] f = "data" -> w[3]
             [] f \in {"up2", "bare"} -> [Closed EXCEPT !.who = "other"] [] OTHER -> Closed]
  BY DEF Init
<1>2. w[1] \in Fact /\ w[2] \in Fact /\ w[3] \in Fact
  BY WorldAssumption
<1>3. Closed \in Fact /\ [Closed EXCEPT !.who = "other"] \in Fact
  BY DEF Closed, Fact
<1>4. fact \in [Folders -> Fact]
  <2>1. ASSUME NEW f \in Folders
        PROVE  (CASE f = "top" -> w[1] [] f = "up" -> w[2] [] f = "data" -> w[3]
             [] f \in {"up2", "bare"} -> [Closed EXCEPT !.who = "other"] [] OTHER -> Closed) \in Fact
    BY <1>2, <1>3
  <2> QED  BY <1>1, <2>1
<1>5. PICK goal \in {"use", "make"}, db \in {"db", "reborn"} :
           /\ app = App(goal, "off", 1, 1)
           /\ at = [s \in Slots |->
                  CASE s = <<"top", "up">> -> "up"
                    [] s = <<"up", "data">> -> IF goal = "use" THEN "data" ELSE "none"
                    [] s = <<"up2", "data">> -> "data2"
                    [] s = <<"data", "db">> -> db [] s = <<"data2", "db">> -> "copy"
                    [] s = <<"data", "thumbs">> -> "thumbs"
                    [] OTHER -> "none"]
  BY DEF Init
<1>6. {"up", "data", "none", "data2", "db", "reborn", "copy", "thumbs"} \subseteq Objects \cup {"none", "link"}
  BY DEF Objects, Folders, Files, Databases
<1>7. at \in [Slots -> Objects \cup {"none", "link"}]
  <2>1. ASSUME NEW s \in Slots
        PROVE  (CASE s = <<"top", "up">> -> "up"
                    [] s = <<"up", "data">> -> IF goal = "use" THEN "data" ELSE "none"
                    [] s = <<"up2", "data">> -> "data2"
                    [] s = <<"data", "db">> -> db [] s = <<"data2", "db">> -> "copy"
                    [] s = <<"data", "thumbs">> -> "thumbs"
                    [] OTHER -> "none") \in Objects \cup {"none", "link"}
    BY <1>6
  <2> QED  BY <1>5, <2>1
<1>8. app \in AppType /\ app.stage = "off"
  BY <1>5 DEF App, AppType, AppStages
<1>9. chain = <<>> /\ chain \in Seq(Folders) /\ still = TRUE /\ system \in {"macos", "linux", "windows"}
  BY FolderAssumption DEF Init
<1>10. ChainGrows /\ LinksHold /\ LevelsChecked
  BY <1>8 DEF ChainGrows, LinksHold, LevelsChecked, Steady, Running
<1>11. AppMigrates
  <2>1. prog["app"] = Idle
    BY TheTwo DEF Init
  <2> QED  BY <2>1, IdleShape DEF AppMigrates
<1> QED  BY <1>4, <1>7, <1>8, <1>9, <1>10, <1>11 DEF PathInv, AppType

\* What a path leads to, level by level.
LEMMA LeadsByLevel ==
    /\ Leads[1] = "top" /\ Leads[2] = Below(Leads[1], "up") /\ Leads[3] = Below(Leads[2], "data")
<1> DEFINE g1 == "top"
           g2 == Below(g1, "up")
           g3 == Below(g2, "data")
           g == [k \in 1 .. 3 |-> CASE k = 1 -> g1 [] k = 2 -> g2 [] OTHER -> g3]
           P(h) == h = [k \in 1 .. 3 |-> IF k = 1 THEN "top" ELSE Below(h[k - 1], NameAt[k])]
<1>1. P(g)
  <2> SUFFICES ASSUME NEW k \in 1 .. 3
      PROVE  g[k] = IF k = 1 THEN "top" ELSE Below(g[k - 1], NameAt[k])
    OBVIOUS
  <2>1. k = 1 \/ k = 2 \/ k = 3
    OBVIOUS
  <2>2. g[1] = g1 /\ g[2] = g2 /\ g[3] = g3
    OBVIOUS
  <2> HIDE DEF g, g1, g2, g3
  <2>3. CASE k = 1
    BY <2>2, <2>3 DEF g1
  <2>4. CASE k = 2
    <3>1. k - 1 = 1
      BY <2>4
    <3> QED  BY <2>2, <2>4, <3>1, SmallPaths DEF g2
  <2>5. CASE k = 3
    <3>1. k - 1 = 2
      BY <2>5
    <3> QED  BY <2>2, <2>5, <3>1, SmallPaths DEF g3
  <2> QED  BY <2>1, <2>3, <2>4, <2>5
<1> HIDE DEF g
<1>2. P(Leads)
  BY <1>1 DEF Leads
<1>3. /\ Leads[1] = "top"
      /\ Leads[2] = Below(Leads[2 - 1], NameAt[2])
      /\ Leads[3] = Below(Leads[3 - 1], NameAt[3])
  BY <1>2, 1 \in 1 .. 3, 2 \in 1 .. 3, 3 \in 1 .. 3
<1>4. 2 - 1 = 1 /\ 3 - 1 = 2
  OBVIOUS
<1> QED  BY <1>3, <1>4, SmallPaths

\* A checked level holds what stands in it against every other account.
LEMMA CheckedHolds ==
    ASSUME PathInv, NEW f \in Folders, NEW o \in Folders, check(f, FALSE), check(o, FALSE)
    PROVE  ~MayTake(f, o)
<1>1. ~Rules(f) /\ (fact[f].loose => fact[f].sticky) /\ fact[o].who # "other"
  BY CheckBars DEF PathInv
<1> QED  BY <1>1 DEF MayTake, Who

LEMMA StandsFromInv == PathInv => PathStands
<1> SUFFICES ASSUME PathInv, Admitted, still PROVE PathStands!2
  BY DEF PathStands
<1>1. app.stage \notin {"off", "refused", "walk", "check", "look", "rmdir", "open_made", "check_made"} /\ app.stage \in AppStages
  BY PathParts DEF Admitted
<1>2. Running /\ Steady
  BY <1>1 DEF Running, Steady
<1>3. PICK n \in 2 .. 3 : n = Len(chain)
  <2>1. Len(chain) = 2 \/ Len(chain) = 3
    BY <1>1, <1>2, PathParts DEF ChainGrows
  <2> QED  BY <2>1
<1>4. chain[1] = "top"
  BY <1>2, <1>3, PathParts DEF ChainGrows
<1>5. \A k \in 1 .. n : chain[k] \in Folders /\ check(chain[k], k = n) /\ check(chain[k], FALSE)
  <2> SUFFICES ASSUME NEW k \in 1 .. n PROVE chain[k] \in Folders /\ check(chain[k], k = n) /\ check(chain[k], FALSE)
    OBVIOUS
  <2>1. chain[k] \in Folders
    BY <1>3, PathParts
  <2>2. check(chain[k], k = n)
    BY <1>1, <1>2, <1>3, PathParts DEF LevelsChecked, Checked
  <2> QED  BY <2>1, <2>2, CheckBars DEF PathInv
<1>6. ~MayPut(chain[n])
  <2>1. PICK k \in 1 .. n : k = n
    BY <1>3
  <2>2. (k = n) = TRUE
    BY <2>1
  <2>3. check(chain[k], k = n)
    BY <1>5
  <2>4. check(chain[k], TRUE) /\ chain[k] \in Folders
    BY <1>5, <2>2, <2>3 DEF check, Writable
  <2> QED  BY <2>1, <2>4, CheckBars DEF PathInv, MayPut
<1>7. ASSUME NEW k \in 1 .. n - 1
      PROVE  ~MayTake(chain[k], chain[k + 1]) /\ Below(chain[k], NameAt[k + 1]) = chain[k + 1]
  <2>1. k \in 1 .. n /\ k + 1 \in 1 .. n
    BY <1>3
  <2>2. ~MayTake(chain[k], chain[k + 1])
    BY <1>5, <2>1, CheckedHolds
  <2> QED  BY <1>2, <1>3, <2>2, PathParts DEF LinksHold
<1>8. Leads[1] = chain[1]
  BY <1>4, LeadsByLevel
<1>9. Leads[2] = chain[2]
  <2>1. 1 \in 1 .. n - 1 /\ 1 + 1 = 2
    BY <1>3
  <2> QED  BY <1>7, <1>8, <2>1, LeadsByLevel, SmallPaths
<1>10. n = 3 => Leads[3] = chain[3]
  <2>1. n = 3 => 2 \in 1 .. n - 1 /\ 2 + 1 = 3
    BY <1>3
  <2> QED  BY <1>7, <1>9, <2>1, LeadsByLevel, SmallPaths
<1>11. \A k \in 1 .. n : Leads[k] = chain[k]
  <2>1. \A k \in 1 .. n : k = 1 \/ k = 2 \/ (k = 3 /\ n = 3)
    BY <1>3
  <2> QED  BY <1>8, <1>9, <1>10, <2>1
<1> QED  BY <1>3, <1>6, <1>7, <1>11 DEF Last

LEMMA Invariance == Spec => [](SchemaInv /\ PathInv /\ AppMigrates)
<1>1. Init => SchemaInv /\ PathInv /\ AppMigrates
  BY SchemaStarts, PathStarts
<1>2. SchemaInv /\ PathInv /\ AppMigrates /\ [Next]_vars => (SchemaInv /\ PathInv /\ AppMigrates)'
  BY SchemaGoesOn, PathGoesOn, MigratingGoesOn
<1> QED  BY <1>1, <1>2, PTL DEF Spec

(* ------------------------ what is written where ------------------------ *)
LEMMA SlotsThere ==
    /\ <<"top", "up">> \in Slots /\ <<"up", "data">> \in Slots /\ <<"data", "db">> \in Slots
    /\ <<"data", "wal">> \in Slots /\ <<"data", "lock">> \in Slots /\ <<"data2", "db">> \in Slots
    /\ <<"data", "thumbs">> \in Slots
BY DEF Slots
LEMMA PathNames ==
    /\ Path[1] = "top" /\ Path[2] = "up" /\ Path[3] = "data" /\ Len(Path) = 3
    /\ \A k \in 1 .. 3 : Path[k] \in Folders
<1>1. Path[1] = "top" /\ Path[2] = "up" /\ Path[3] = "data" /\ Len(Path) = 3
  BY DEF Path
<1>2. \A k \in 1 .. 3 : k = 1 \/ k = 2 \/ k = 3
  OBVIOUS
<1> QED  BY <1>1, <1>2 DEF Folders

LEMMA BelowThere ==
    /\ Below("top", "up") = at[<<"top", "up">>] /\ Below("up", "data") = at[<<"up", "data">>]
    /\ \A n \in {"db", "wal", "lock", "thumbs"} : Below("data", n) = at[<<"data", n>>]
BY DEF Below, Slots

\* A firm path leads to the folders proven; a path that is not lost does.
LEMMA FoundLeads == ~Lost => Leads[3] = "data"
BY LeadsByLevel, BelowThere DEF Lost
LEMMA FirmLevels ==
    ASSUME NEW n \in 0 .. 3, Firm(n)
    PROVE  /\ \A k \in 1 .. n : check(Path[k], k = 3) /\ Linked(k)
           /\ n = 3 => /\ check("top", FALSE) /\ check("up", FALSE) /\ check("data", TRUE)
                       /\ at[<<"top", "up">>] = "up" /\ at[<<"up", "data">>] = "data" /\ ~Lost
                       /\ Leads[3] = "data"
<1>1. \A k \in 1 .. n : check(Path[k], k = 3) /\ Linked(k)
  BY DEF Firm
<1>2. CASE n = 3
  <2>1. /\ check(Path[1], 1 = 3) /\ check(Path[2], 2 = 3) /\ check(Path[3], 3 = 3)
        /\ Linked(2) /\ Linked(3)
    BY <1>1, <1>2, 1 \in 1 .. 3, 2 \in 1 .. 3, 3 \in 1 .. 3
  <2>2. (1 = 3) = FALSE /\ (2 = 3) = FALSE /\ (3 = 3) = TRUE /\ 2 - 1 = 1 /\ 3 - 1 = 2 /\ 2 > 1 /\ 3 > 1
    OBVIOUS
  <2>3. check("top", FALSE) /\ check("up", FALSE) /\ check("data", TRUE)
    BY <2>1, <2>2, PathNames DEF check, Writable
  <2>4. at[<<"top", "up">>] = "up" /\ at[<<"up", "data">>] = "data"
    <3>1. \A k, j \in Nat : k > 1 /\ k - 1 = j /\ Linked(k) => Below(Path[j], NameAt[k]) = Path[k]
      BY DEF Linked
    <3>2. Below(Path[1], NameAt[2]) = Path[2] /\ Below(Path[2], NameAt[3]) = Path[3]
      BY <2>1, <2>2, <3>1
    <3> QED  BY <3>2, PathNames, SmallPaths, BelowThere
  <2> QED  BY <1>1, <2>3, <2>4, FoundLeads DEF Lost
<1> QED  BY <1>1, <1>2

\* Steps that leave the names alone.
Quietly == fact' = fact /\ system' = system /\ at' = at /\ own' = own
LEMMA NamesSame ==
    ASSUME Quietly
    PROVE  /\ \A n : Firm(n)' <=> Firm(n)
           /\ Lost' <=> Lost
           /\ Spent' <=> Spent
           /\ Exposed' <=> Exposed
           /\ Strayed' <=> Strayed
           /\ \A f, last : check(f, last)' <=> check(f, last)
           /\ held'.db = held.db => (Held' <=> Held)
<1>1. \A f, last : check(f, last)' <=> check(f, last)
  BY SameChecks DEF Quietly
<1>2. \A k : Linked(k)' <=> Linked(k)
  BY DEF Quietly, Linked, Below
<1>3. \A n : Firm(n)' <=> Firm(n)
  BY <1>1, <1>2 DEF Firm
<1>4. Exposed' <=> Exposed
  BY <1>1 DEF Exposed
<1> QED  BY <1>1, <1>3, <1>4 DEF Quietly, Lost, Spent, Strayed, Held

UsedSoFar == chain = Path /\ held.db = "db"
LEMMA UseParts ==
    ASSUME UseInv, app.stage \in Uses
    PROVE  /\ UsedSoFar /\ (app.stage # "compare_cache" => held.thumbs = "thumbs")
           /\ app.stage = "moved" => held.sqlite = "db" \/ Strayed
           /\ app.stage \in {"recheck", "files"} /\ app.round = 3 => held.sqlite = "db" \/ (Strayed /\ quiet)
           /\ app.stage = "journal" => held.sqlite = "db"
           /\ quiet /\ app.stage = "recheck" => Firm(app.level - 1)
           /\ quiet /\ app.stage \in {"files", "check_cache", "probe", "sqlite", "journal", "lock"} => Firm(3)
           /\ quiet /\ app.stage \in {"check_cache", "probe", "sqlite", "journal", "lock"} => Held
BY DEF UseInv, UsedSoFar

LEMMA NothingFirm == Firm(1 - 1)'
BY DEF Firm

\* At a stage that does not use the path, or with nothing changed.
LEMMA NotUsed == ASSUME app'.stage \notin Uses PROVE UseInv'
BY DEF UseInv
LEMMA UseSame ==
    ASSUME UseInv, Quietly, app' = app, chain' = chain, held' = held, quiet' = quiet
    PROVE  UseInv'
<1>1. CASE app.stage \notin Uses
  BY <1>1, NotUsed
<1>2. CASE app.stage \in Uses
  BY <1>2, NamesSame, UseParts DEF UseInv, UsedSoFar
<1> QED  BY <1>1, <1>2

\* A new round of checks: nothing is known firm yet.
LEMMA NewRound ==
    ASSUME PathInv, UseInv, Quietly, app.stage \in Uses, app.stage # "compare_cache",
           chain' = chain, held' = held, quiet' = TRUE, NEW r \in {2, 4},
           app' = [app EXCEPT !.stage = "recheck", !.level = 1, !.round = r]
    PROVE  UseInv'
<1>1. app'.stage = "recheck" /\ app'.level = 1 /\ app'.round = r
  BY AppTyped DEF AppType
<1>2. chain' = Path /\ held'.thumbs = "thumbs" /\ held'.db = "db"
  BY UseParts DEF UsedSoFar
<1>3. Firm(1 - 1)'
  BY NothingFirm
<1>4. r # 3
  OBVIOUS
<1> QED  BY <1>1, <1>2, <1>3, <1>4 DEF UseInv

LEMMA UseHasMoved ==
    ASSUME PathInv, UseInv, HasMoved PROVE UseInv'
<1>1. Quietly /\ chain' = chain /\ held' = held /\ app.stage = "moved"
  BY DEF HasMoved, Quietly, world, acts
<1>2. CASE Refuse
  BY <1>2, Turns, NotUsed DEF Refuse, AppStages, Uses
<1>3. CASE Again(3)
  <2>1. app'.stage = "recheck" /\ app'.level = 1 /\ app'.round = 3 /\ quiet' = TRUE
    BY <1>3, AppTyped DEF AppType, Again
  <2>2. chain' = Path /\ held'.thumbs = "thumbs" /\ held'.db = "db" /\ (held'.sqlite = "db" \/ Strayed')
    BY <1>1, UseParts, NamesSame DEF UsedSoFar, Uses
  <2>3. Firm(1 - 1)'
    BY NothingFirm
  <2> QED  BY <2>1, <2>2, <2>3 DEF UseInv
<1> QED  BY <1>2, <1>3 DEF HasMoved, SecondLook

\* A wrong object can be held only when the one act is spent.
LEMMA OwnSpent == ASSUME ActsInv, MaxOwn <= 1, ~quiet \/ ~still PROVE Spent
<1>1. MaxOwn \in Nat /\ own \in 0 .. MaxOwn /\ own > 0
  BY FolderAssumption DEF ActsInv
<1> QED  BY <1>1 DEF Spent

LEMMA UseCompare == ASSUME PathInv, ActsInv, Compare PROVE UseInv'
<1>1. Quietly /\ chain' = chain /\ app.stage = "compare"
  BY DEF Compare, Quietly, world, acts
<1>2. CASE Refuse
  BY <1>2, Turns, NotUsed DEF Refuse, AppStages, Uses
<1>3. CASE /\ chain = Path /\ inode(Below("data", "db")) = "recorded" /\ generation
           /\ held' = [held EXCEPT !.db = Below("data", "db")] /\ app' = To("compare_cache")
  <2>1. app'.stage = "compare_cache"
    BY <1>3, AppTyped DEF AppType, To
  <2>2. Below("data", "db") = "db"
    <3>1. \A o : inode(o) = "recorded" => o \in {"db", "reborn"}
      BY DEF inode
    <3>2. \A o : read_generation(o) = "recorded" => o \in {"db", "copy"}
      BY DEF read_generation
    <3>3. Below("data", "db") \in {"db", "reborn"} /\ Below("data", "db") \in {"db", "copy"}
      BY <1>3, <3>1, <3>2 DEF generation
    <3> QED  BY <3>3
  <2>3. held'.db = "db"
    BY <1>3, <2>2 DEF ActsInv
  <2> QED  BY <1>1, <1>3, <2>1, <2>3 DEF UseInv
<1> QED  BY <1>2, <1>3 DEF Compare

LEMMA UseCompareCache == ASSUME PathInv, ActsInv, UseInv, CompareCache PROVE UseInv'
<1>1. Quietly /\ chain' = chain /\ app.stage = "compare_cache" /\ app.stage \in Uses
  BY DEF CompareCache, Quietly, world, acts, Uses
<1>2. CASE Refuse
  BY <1>2, Turns, NotUsed DEF Refuse, AppStages, Uses
<1>3. CASE /\ held' = [held EXCEPT !.thumbs = "thumbs"]
           /\ app' = [app EXCEPT !.stage = "recheck", !.level = 1] /\ quiet' = TRUE
  <2>1. app'.stage = "recheck" /\ app'.level = 1 /\ app'.round = app.round
    BY <1>3, AppTyped DEF AppType
  <2>2. app'.round = 1
    BY <1>1, <2>1 DEF ActsInv
  <2>3. held'.db = held.db /\ held'.thumbs = "thumbs"
    BY <1>3 DEF ActsInv
  <2>4. chain = Path /\ held.db = "db"
    BY <1>1, UseParts DEF UsedSoFar
  <2> QED  BY <1>1, <2>1, <2>2, <2>3, <2>4, NothingFirm DEF UseInv
<1> QED  BY <1>2, <1>3 DEF CompareCache

LEMMA UseRecheck == ASSUME PathInv, UseInv, Recheck PROVE UseInv'
<1>1. Quietly /\ chain' = chain /\ held' = held /\ quiet' = quiet /\ app.stage = "recheck" /\ app.stage \in Uses
  BY DEF Recheck, Quietly, world, acts, calm, Uses
<1>2. chain = Path /\ UsedSoFar
  BY <1>1, UseParts DEF UsedSoFar
<1>3. PICK k \in 1 .. 3 : k = app.level
  BY PathParts
<1>4. CASE Refuse
  BY <1>4, Turns, NotUsed DEF Refuse, AppStages, Uses
<1>5. CASE /\ Child(k) = chain[k] /\ check(Child(k), k = Last)
           /\ app' = IF k < Last THEN [app EXCEPT !.level = k + 1] ELSE To("files")
  <2>1. Last = 3
    BY <1>2, PathNames DEF Last
  <2>2. check(Path[k], k = 3)
    BY <1>2, <1>5, <2>1
  <2>3. Linked(k)
    BY <1>2, <1>5 DEF Linked, Child
  <2>4. quiet => Firm(k)
    <3>1. quiet => Firm(k - 1)
      BY <1>1, <1>3, UseParts
    <3>2. \A j \in 1 .. k : j \in 1 .. k - 1 \/ j = k
      OBVIOUS
    <3> QED  BY <2>2, <2>3, <3>1, <3>2 DEF Firm
  <2>5. \/ /\ k < 3 /\ app'.stage = "recheck" /\ app'.level = k + 1
        \/ /\ k = 3 /\ app'.stage = "files"
    <3>1. CASE k < 3
      BY <1>1, <1>5, <2>1, <3>1, AppTyped DEF AppType
    <3>2. CASE k = 3
      BY <1>5, <2>1, <3>2, AppTyped DEF AppType, To
    <3> QED  BY <3>1, <3>2
  <2>6. app'.round = app.round
    BY <1>5, AppTyped DEF AppType, To
  <2>7. quiet => (app'.stage = "recheck" => Firm(app'.level - 1)) /\ (app'.stage = "files" => Firm(3))
    <3>1. CASE k = 3 /\ app'.stage = "files"
      BY <2>4, <3>1
    <3>2. CASE k < 3 /\ app'.stage = "recheck" /\ app'.level = k + 1
      <4>1. (k + 1) - 1 = k
        OBVIOUS
      <4> QED  BY <2>4, <3>2, <4>1
    <3> QED  BY <2>5, <3>1, <3>2
  <2>8. quiet' => (app'.stage = "recheck" => Firm(app.level - 1)') /\ (app'.stage = "files" => Firm(3)')
    <3>1. \A n : Firm(n)' <=> Firm(n)
      BY <1>1, NamesSame
    <3>2. PICK m : m = app'.level - 1
      OBVIOUS
    <3>3. Firm(app.level - 1)' <=> Firm(m)'
      BY <3>2 DEF Firm
    <3> QED  BY <1>1, <2>7, <3>1, <3>2, <3>3
  <2>9. held'.db = "db"
    BY <1>1, <1>2 DEF UsedSoFar
  <2>10. app.round = 3 => held'.sqlite = "db" \/ (Strayed' /\ quiet')
    BY <1>1, UseParts, NamesSame
  <2>11. chain' = Path /\ held'.thumbs = "thumbs"
    BY <1>1, <1>2, UseParts
  <2>12. app'.stage \in {"recheck", "files"}
    BY <2>5
  <2> QED  BY <2>6, <2>8, <2>9, <2>10, <2>11, <2>12 DEF UseInv
<1> QED  BY <1>2, <1>3, <1>4, <1>5 DEF Recheck

LEMMA FilesSeen ==
    ASSUME PathInv, ActsInv, UseInv, CheckFiles, Confirmed
    PROVE  /\ held.db = "db" /\ (app.round = 3 => held.sqlite = "db")
           /\ quiet => Held
<1>1. app.stage = "files" /\ app.stage \in Uses
  BY DEF CheckFiles, Uses
<1>2. quiet => Firm(3)
  BY <1>1, UseParts
<1>3. quiet => ~Lost /\ ~Exposed
  <2>1. Firm(3) => ~Exposed
    BY FirmLevels, 3 \in 0 .. 3 DEF Exposed
  <2> QED  BY <1>2, <2>1, FirmLevels, 3 \in 0 .. 3
<1>4. held.db = "db"
  BY <1>1, UseParts DEF UsedSoFar
<1>5. at[<<"data", "db">>] = held.db
  BY BelowThere DEF Confirmed
<1>6. app.round = 3 => held.sqlite = "db"
  BY <1>1, <1>3, <1>4, <1>5, UseParts DEF Strayed
<1>7. at[<<"data", "wal">>] \in {"none", "plain"} /\ at[<<"data", "lock">>] \in {"none", "plain", "shared"}
  <2>1. at[<<"data", "wal">>] \in {"none", "plain"} \cup Databases /\ at[<<"data", "lock">>] \in {"none", "plain", "shared"} \cup Databases
    BY BelowThere DEF Confirmed, check_file_at
  <2>2. at[<<"data", "wal">>] \in Beneath \cup {"none", "link"} /\ at[<<"data", "lock">>] \in Beneath \cup {"none", "link"}
    BY SlotsThere DEF ActsInv, SlotKinds
  <2> QED  BY <2>1, <2>2 DEF Beneath, Databases
<1> QED  BY <1>4, <1>5, <1>6, <1>7 DEF Held

LEMMA UseFiles == ASSUME PathInv, ActsInv, UseInv, CheckFiles PROVE UseInv'
<1>1. Quietly /\ chain' = chain /\ held' = held /\ quiet' = quiet /\ app.stage = "files" /\ app.stage \in Uses
  BY DEF CheckFiles, Quietly, world, acts, calm, Uses
<1>2. CASE Refuse
  BY <1>2, Turns, NotUsed DEF Refuse, AppStages, Uses
<1>3. CASE Confirmed /\ app' = To(After[app.round])
  <2>1. PICK r \in 1 .. 4 : r = app.round
    BY PathParts
  <2>2. After[r] \in {"check_cache", "sqlite", "journal", "lock"} /\ (After[r] = "journal" => r = 3)
    <3>1. r = 1 \/ r = 2 \/ r = 3 \/ r = 4
      OBVIOUS
    <3> QED  BY <3>1 DEF After
  <2>3. app'.stage = After[r]
    BY <1>3, <2>1, AppTyped DEF To, AppType
  <2>4. held.db = "db" /\ (app.round = 3 => held.sqlite = "db") /\ (quiet => Held)
    BY <1>3, FilesSeen
  <2>5. quiet => Firm(3)
    BY <1>1, UseParts
  <2>6. quiet' => Firm(3)' /\ Held'
    BY <1>1, <2>4, <2>5, NamesSame
  <2>7. chain' = Path /\ held'.thumbs = "thumbs" /\ held'.db = "db" /\ (app'.stage = "journal" => held'.sqlite = "db")
    BY <1>1, <2>1, <2>2, <2>3, <2>4, UseParts DEF UsedSoFar
  <2> QED  BY <2>2, <2>3, <2>6, <2>7 DEF UseInv
<1> QED  BY <1>2, <1>3 DEF CheckFiles

LEMMA UseCheckCache == ASSUME PathInv, UseInv, CheckCache PROVE UseInv'
<1>1. Quietly /\ chain' = chain /\ held' = held /\ quiet' = quiet /\ app.stage = "check_cache" /\ app.stage \in Uses
  BY DEF CheckCache, Quietly, world, acts, calm, Uses
<1>2. CASE Refuse
  BY <1>2, Turns, NotUsed DEF Refuse, AppStages, Uses
<1>3. CASE app' = To("probe")
  <2>1. app'.stage = "probe"
    BY <1>3, AppTyped DEF To, AppType
  <2>2. quiet => Firm(3) /\ Held
    BY <1>1, UseParts
  <2>3. quiet' => Firm(3)' /\ Held'
    BY <1>1, <2>2, NamesSame
  <2>4. chain' = Path /\ held'.thumbs = "thumbs" /\ held'.db = "db"
    BY <1>1, UseParts DEF UsedSoFar
  <2> QED  BY <2>1, <2>3, <2>4 DEF UseInv
<1> QED  BY <1>2, <1>3 DEF CheckCache

LEMMA UseProbe == ASSUME PathInv, UseInv, Probe \/ AskForLock PROVE UseInv'
<1>1. Quietly /\ chain' = chain /\ held' = held /\ app.stage \in {"probe", "on"} /\ app.stage \in Uses
  BY DEF Probe, AskForLock, Quietly, world, acts, Uses
<1>2. CASE Refuse
  BY <1>2, Turns, NotUsed DEF Refuse, AppStages, Uses
<1>3. ASSUME NEW r \in {2, 4}, Again(r) PROVE UseInv'
  BY <1>1, <1>3, NewRound DEF Again
<1> QED  BY <1>2, <1>3 DEF Probe, AskForLock

LEMMA UseOpenDb == ASSUME PathInv, ActsInv, UseInv, MaxOwn <= 1, OpenDb PROVE UseInv'
<1>1. Quietly /\ chain' = chain /\ quiet' = quiet /\ app.stage = "sqlite" /\ app.stage \in Uses
  BY DEF OpenDb, Quietly, world, acts, calm, Uses
<1>2. CASE Refuse
  BY <1>2, Turns, NotUsed DEF Refuse, AppStages, Uses
<1>3. CASE held' = [held EXCEPT !.sqlite = AtPath("db")] /\ app' = To("moved")
  <2>1. held'.sqlite = AtPath("db") /\ held'.db = held.db /\ held'.thumbs = held.thumbs
    BY <1>3 DEF ActsInv
  <2>2. app'.stage = "moved"
    BY <1>3, AppTyped DEF To, AppType
  <2>3. held.db = "db" /\ chain = Path /\ held.thumbs = "thumbs"
    BY <1>1, UseParts DEF UsedSoFar
  <2>4. AtPath("db") = "db" \/ Strayed
    <3>1. CASE quiet
      <4>1. Firm(3) /\ Held
        BY <1>1, <3>1, UseParts
      <4>2. Leads[3] = "data"
        BY <4>1, FirmLevels, 3 \in 0 .. 3
      <4> QED  BY <2>3, <4>1, <4>2, BelowThere DEF AtPath, Held
    <3>2. CASE ~quiet
      <4>1. Spent
        BY <3>2, OwnSpent
      <4>2. ~Lost => AtPath("db") = at[<<"data", "db">>]
        BY FoundLeads, BelowThere DEF AtPath
      <4> QED  BY <4>1, <4>2 DEF Strayed
    <3> QED  BY <3>1, <3>2
  <2>5. held'.sqlite = "db" \/ Strayed'
    BY <1>1, <2>1, <2>4, NamesSame
  <2> QED  BY <1>1, <2>1, <2>2, <2>3, <2>5 DEF UseInv
<1> QED  BY <1>2, <1>3 DEF OpenDb

\* The later stages, where nothing but the objects held matters.
LEMMA UseLater ==
    ASSUME PathInv, UseInv, app.stage \in Uses \ {"compare_cache"}, chain' = chain,
           held'.db = held.db, held'.thumbs = held.thumbs, NEW s \in {"migrating", "on", "cache"}, app' = To(s)
    PROVE  UseInv'
<1>1. app'.stage = s
  BY AppTyped DEF To, AppType
<1>2. chain' = Path /\ held'.thumbs = "thumbs" /\ held'.db = "db"
  BY UseParts DEF UsedSoFar
<1> QED  BY <1>1, <1>2 DEF UseInv

LEMMA UseWrites ==
    ASSUME PathInv, ActsInv, UseInv, Setup \/ WriteLock \/ OpenCache \/ Store PROVE UseInv'
<1>1. chain' = chain /\ held'.db = held.db /\ held'.thumbs = held.thumbs /\ app.stage \in Uses \ {"compare_cache"}
  <2>1. CASE OpenCache
    BY <2>1 DEF OpenCache, ActsInv, Uses
  <2> QED  BY <2>1 DEF Setup, WriteLock, Store, Uses
<1>2. CASE Refuse
  BY <1>2, Turns, NotUsed DEF Refuse, AppStages, Uses
<1>3. \/ Refuse
      \/ \E s \in {"migrating", "on", "cache"} : app' = To(s)
  BY DEF Setup, WriteLock, OpenCache, Store
<1> QED  BY <1>1, <1>2, <1>3, UseLater

\* What another account does to a name it has the right to, and with what it has.
LEMMA OthersPut ==
    ASSUME PathInv, OthersAct
    PROVE  \A s \in Slots :
              \/ at'[s] = at[s]
              \/ /\ IF at[s] = "none" THEN MayPut(s[1]) ELSE MayTake(s[1], at[s])
                 /\ at'[s] \in Theirs \/ <<s, at'[s]>> \in away
<1>1. CASE at' = at
  BY <1>1
<1>2. ASSUME NEW s \in Slots, NEW o, at' = [at EXCEPT ![s] = o], o \in Theirs \/ <<s, o>> \in away,
             IF at[s] = "none" THEN MayPut(s[1]) ELSE MayTake(s[1], at[s])
      PROVE  \A t \in Slots :
                \/ at'[t] = at[t]
                \/ /\ IF at[t] = "none" THEN MayPut(t[1]) ELSE MayTake(t[1], at[t])
                   /\ at'[t] \in Theirs \/ <<t, at'[t]>> \in away
  <2>1. \A t \in Slots : at'[t] = IF t = s THEN o ELSE at[t]
    BY <1>2 DEF PathInv
  <2> QED  BY <1>2, <2>1
<1>3. \/ at' = at
      \/ \E s \in Slots, o \in Objects \cup {"none", "link"} :
            /\ o \in Theirs \/ <<s, o>> \in away
            /\ at' = [at EXCEPT ![s] = o]
            /\ IF at[s] = "none" THEN MayPut(s[1]) ELSE MayTake(s[1], at[s])
  BY DEF OthersAct
<1> QED  BY <1>1, <1>2, <1>3

\* What another account cannot do: what is checked holds what stands in it.
LEMMA FirmStays ==
    ASSUME PathInv, OthersAct, NEW n \in 0 .. 3, Firm(n)
    PROVE  Firm(n)' /\ (n = 3 => \A x \in {"db", "wal", "lock"} : at'[<<"data", x>>] = at[<<"data", x>>])
<1>1. SameRights
  BY OthersKeepRights DEF PathInv
<1>2. \A k \in 1 .. n : Path[k] \in Folders /\ check(Path[k], k = 3) /\ Linked(k)
  <2>1. \A k \in 1 .. n : k \in 1 .. 3
    OBVIOUS
  <2> QED  BY <2>1, FirmLevels, PathNames
<1>3. \A f \in Folders : \A last \in BOOLEAN : check(f, last)' <=> check(f, last)
  BY <1>1, RightsStay DEF PathInv
<1>4. \A s \in Slots : at'[s] = at[s] \/ (IF at[s] = "none" THEN MayPut(s[1]) ELSE MayTake(s[1], at[s]))
  BY OthersPut
<1>5. ASSUME NEW k \in 1 .. n PROVE check(Path[k], k = 3)' /\ Linked(k)'
  <2>1. check(Path[k], k = 3)'
    <3>1. (k = 3) \in BOOLEAN
      OBVIOUS
    <3> QED  BY <1>2, <1>3, <3>1
  <2>2. CASE k > 1
    <3>1. PICK j \in 1 .. n : j = k - 1
      BY <2>2
    <3>2. check(Path[j], FALSE) /\ check(Path[k], FALSE) /\ Path[j] \in Folders /\ Path[k] \in Folders
      BY <1>2, CheckBars DEF PathInv
    <3>3. ~MayTake(Path[j], Path[k])
      BY <3>2, CheckedHolds
    <3>4. PICK s : s = <<Path[j], NameAt[k]>>
      OBVIOUS
    <3>5. Below(Path[j], NameAt[k]) = Path[k] /\ Path[k] # "none"
      BY <1>2, <2>2, <3>1, <3>2, SmallPaths DEF Linked
    <3>6. s \in Slots /\ at[s] = Path[k] /\ s[1] = Path[j]
      BY <3>4, <3>5 DEF Below
    <3>7. at'[s] = at[s]
      BY <1>4, <3>3, <3>5, <3>6
    <3> QED  BY <2>1, <3>1, <3>4, <3>6, <3>7 DEF Linked, Below
  <2>3. CASE ~(k > 1)
    BY <2>1, <2>3 DEF Linked
  <2> QED  BY <2>2, <2>3
<1>6. Firm(n)'
  BY <1>5 DEF Firm
<1>7. ASSUME n = 3, NEW x \in {"db", "wal", "lock"} PROVE at'[<<"data", x>>] = at[<<"data", x>>]
  <2>1. check("data", TRUE)
    BY <1>7, FirmLevels
  <2>2. "data" \in Folders
    BY DEF Folders
  <2>3. ~Rules("data") /\ ~fact["data"].loose
    BY <2>1, <2>2, CheckBars DEF PathInv
  <2>4. ~MayPut("data") /\ \A o : ~MayTake("data", o)
    BY <2>3 DEF MayPut, MayTake
  <2>5. PICK s \in Slots : s = <<"data", x>> /\ s[1] = "data"
    BY SlotsThere
  <2> QED  BY <1>4, <2>4, <2>5
<1> QED  BY <1>6, <1>7

\* A name lost on a checked path stays lost: what was taken from it could be
\* taken whatever the mode, and no check lets that pass.
LEMMA StaysTaken ==
    ASSUME PathInv, AwayInv, OthersAct, NEW f \in Folders, NEW o \in Folders \cup {"db"}, NEW s \in Slots, s[1] = f,
           check(f, FALSE), o \in Folders => check(o, FALSE), o = "db" => check(f, TRUE),
           o \notin Theirs, at[s] # o
    PROVE  at'[s] # o
<1> SUFFICES ASSUME at'[s] = o PROVE FALSE
  OBVIOUS
<1>1. /\ IF at[s] = "none" THEN MayPut(f) ELSE MayTake(f, at[s])
      /\ <<s, o>> \in away
  <2>1. at'[s] # at[s]
    OBVIOUS
  <2> QED  BY <2>1, OthersPut
<1>2. ~Rules(f) /\ (fact[f].loose => fact[f].sticky)
  BY CheckBars DEF PathInv
<1>3. fact[f].loose
  BY <1>1, <1>2 DEF MayPut, MayTake
<1>4. o # "db"
  <2>1. check(f, TRUE) => ~fact[f].loose
    BY CheckBars DEF PathInv
  <2> QED  BY <1>3, <2>1
<1>5. o \in Folders /\ fact[o].who # "other"
  BY <1>4, CheckBars DEF PathInv
<1>6. PICK p \in away : p = <<s, o>>
  BY <1>1
<1>7. p[1] = s /\ p[2] = o
  BY <1>6
<1>8. Rules(f) \/ ~fact[f].sticky \/ Who(o) = "other"
  BY <1>6, <1>7 DEF AwayInv
<1>9. Who(o) = fact[o].who
  BY <1>5 DEF Who
<1> QED  BY <1>2, <1>3, <1>5, <1>8, <1>9

LEMMA LostStays ==
    ASSUME PathInv, AwayInv, OthersAct PROVE (Strayed => Strayed') /\ (Spent' <=> Spent)
<1>1. own' = own
  BY DEF OthersAct
<1>2. Exposed => Exposed'
  <2>1. \A f \in Folders : \A last \in BOOLEAN : check(f, last)' <=> check(f, last)
    BY OthersKeepRights, RightsStay DEF PathInv
  <2>2. ASSUME NEW k \in 1 .. 3, ~check(Path[k], k = 3) PROVE ~check(Path[k], k = 3)'
    <3>1. (k = 3) \in BOOLEAN /\ Path[k] \in Folders
      BY PathNames
    <3> QED  BY <2>1, <2>2, <3>1
  <2> QED  BY <2>2 DEF Exposed
<1>3. ASSUME ~Exposed PROVE (Lost => Lost') /\ (at[<<"data", "db">>] # "db" => at'[<<"data", "db">>] # "db")
  <2>1. check(Path[1], 1 = 3) /\ check(Path[2], 2 = 3) /\ check(Path[3], 3 = 3)
    BY <1>3, 1 \in 1 .. 3, 2 \in 1 .. 3, 3 \in 1 .. 3 DEF Exposed
  <2>2. (1 = 3) = FALSE /\ (2 = 3) = FALSE /\ (3 = 3) = TRUE
    OBVIOUS
  <2>3. check("top", FALSE) /\ check("up", FALSE) /\ check("data", TRUE)
    BY <2>1, <2>2, PathNames DEF check, Writable
  <2>4. "top" \in Folders /\ "up" \in Folders /\ "data" \in Folders
    BY DEF Folders
  <2>5. check("data", FALSE)
    BY <2>3, <2>4, CheckBars DEF PathInv
  <2>6. "up" \notin Theirs /\ "data" \notin Theirs /\ "db" \notin Theirs /\ "db" \notin Folders
    BY DEF Theirs, Folders
  <2>7. at[<<"top", "up">>] # "up" => at'[<<"top", "up">>] # "up"
    <3>1. PICK s \in Slots : s = <<"top", "up">> /\ s[1] = "top"
      BY SlotsThere
    <3> QED  BY <2>3, <2>4, <2>6, <3>1, StaysTaken
  <2>8. at[<<"up", "data">>] # "data" => at'[<<"up", "data">>] # "data"
    <3>1. PICK s \in Slots : s = <<"up", "data">> /\ s[1] = "up"
      BY SlotsThere
    <3> QED  BY <2>3, <2>4, <2>5, <2>6, <3>1, StaysTaken
  <2>9. at[<<"data", "db">>] # "db" => at'[<<"data", "db">>] # "db"
    <3>1. PICK s \in Slots : s = <<"data", "db">> /\ s[1] = "data"
      BY SlotsThere
    <3> QED  BY <2>3, <2>4, <2>5, <2>6, <3>1, StaysTaken
  <2> QED  BY <2>7, <2>8, <2>9 DEF Lost
<1> QED  BY <1>1, <1>2, <1>3 DEF Strayed, Spent

LEMMA UseOthers == ASSUME PathInv, AwayInv, UseInv, OthersAct PROVE UseInv'
<1>1. app' = app /\ chain' = chain /\ held' = held /\ quiet' = quiet
  BY DEF OthersAct, calm
<1>2. CASE app.stage \notin Uses
  BY <1>1, <1>2, NotUsed
<1>3. CASE app.stage \in Uses
  <2>1. chain' = Path /\ held'.db = "db" /\ (app'.stage # "compare_cache" => held'.thumbs = "thumbs")
    BY <1>1, <1>3, UseParts DEF UsedSoFar
  <2>2. /\ app'.stage = "moved" => held'.sqlite = "db" \/ Strayed'
        /\ app'.stage \in {"recheck", "files"} /\ app'.round = 3 => held'.sqlite = "db" \/ (Strayed' /\ quiet')
        /\ app'.stage = "journal" => held'.sqlite = "db"
    BY <1>1, <1>3, UseParts, LostStays
  <2>3. quiet /\ app.stage = "recheck" => Firm(app.level - 1)'
    <3>1. PICK n \in 0 .. 3 : n = app.level - 1
      BY PathParts
    <3>2. Firm(n) => Firm(n)'
      BY FirmStays
    <3>3. Firm(app.level - 1)' <=> Firm(n)'
      BY <1>1, <3>1 DEF Firm
    <3> QED  BY <1>3, <3>1, <3>2, <3>3, UseParts
  <2>4. quiet /\ app.stage \in {"files", "check_cache", "probe", "sqlite", "journal", "lock"} => Firm(3)'
    BY <1>3, UseParts, FirmStays, 3 \in 0 .. 3
  <2>5. quiet /\ app.stage \in {"check_cache", "probe", "sqlite", "journal", "lock"} => Held'
    <3>1. SUFFICES ASSUME quiet /\ app.stage \in {"check_cache", "probe", "sqlite", "journal", "lock"} PROVE Held'
      OBVIOUS
    <3>2. Firm(3) /\ Held
      BY <1>3, <3>1, UseParts
    <3>3. \A x \in {"db", "wal", "lock"} : at'[<<"data", x>>] = at[<<"data", x>>]
      BY <3>2, FirmStays, 3 \in 0 .. 3
    <3> QED  BY <1>1, <3>2, <3>3 DEF Held
  <2> QED  BY <1>1, <2>1, <2>2, <2>3, <2>4, <2>5 DEF UseInv
<1> QED  BY <1>2, <1>3

LEMMA OwnOnce == ASSUME ActsInv, MaxOwn <= 1, OwnAct PROVE own = 0 /\ own' = 1 /\ Spent' /\ quiet /\ still
<1>1. MaxOwn \in Nat /\ own \in 0 .. MaxOwn /\ own < MaxOwn /\ own' = own + 1
  BY FolderAssumption DEF ActsInv, OwnAct
<1>2. own = 0 /\ MaxOwn = 1
  BY <1>1
<1> QED  BY <1>1, <1>2 DEF ActsInv, Spent

LEMMA UseOwn == ASSUME PathInv, ActsInv, UseInv, MaxOwn <= 1, OwnAct PROVE UseInv'
<1>1. app' = app /\ chain' = chain /\ held' = held /\ quiet' = FALSE /\ ~Spent
  <2>1. own = 0 /\ own < MaxOwn
    BY OwnOnce DEF OwnAct
  <2>2. own # MaxOwn
    BY <2>1, FolderAssumption
  <2> QED  BY <2>2 DEF OwnAct, Spent
<1>2. CASE app.stage \notin Uses
  BY <1>1, <1>2, NotUsed
<1>3. CASE app.stage \in Uses
  <2>1. chain' = Path /\ held'.db = "db" /\ (app'.stage # "compare_cache" => held'.thumbs = "thumbs")
    BY <1>1, <1>3, UseParts DEF UsedSoFar
  <2>2. /\ app'.stage = "moved" => held'.sqlite = "db"
        /\ app'.stage \in {"recheck", "files"} /\ app'.round = 3 => held'.sqlite = "db"
        /\ app'.stage = "journal" => held'.sqlite = "db"
    BY <1>1, <1>3, UseParts DEF Strayed
  <2> QED  BY <1>1, <2>1, <2>2 DEF UseInv
<1> QED  BY <1>2, <1>3

LEMMA UseGoesOn ==
    ASSUME PathInv, AppMigrates, ActsInv, UseInv, MaxOwn <= 1, [Next]_vars PROVE UseInv'
<1>1. CASE Quietly /\ app' = app /\ chain' = chain /\ held' = held /\ quiet' = quiet
  BY <1>1, UseSame
<1>2. CASE UNCHANGED vars \/ ToolOpens
  BY <1>1, <1>2 DEF vars, ToolOpens, Quietly, world, acts, calm
<1>3. CASE Launch \/ Walk \/ Check \/ Mkdir \/ OpenMade \/ CheckMade \/ GiveUp \/ Look \/ Rmdir
  <2>1. app'.stage \notin Uses
    <3>1. CASE Launch
      BY <3>1 DEF Launch, App, Uses
    <3>2. CASE Walk
      <4>1. app.stage = "walk" /\ (Refuse \/ app' = [app EXCEPT !.stage = "check", !.level = 1] \/ app' = [app EXCEPT !.level = app.level + 1])
        BY <3>2 DEF Walk
      <4> QED  BY <4>1, AppTyped DEF Refuse, To, AppType, Uses
    <3>3. CASE Check
      <4>1. app.stage = "check" /\ (Refuse \/ app' = [app EXCEPT !.level = @ + 1] \/ app' = To("compare") \/ app' = To("mkdir"))
        BY <3>3 DEF Check
      <4> QED  BY <4>1, AppTyped DEF Refuse, To, AppType, Uses
    <3>4. CASE Mkdir \/ OpenMade \/ CheckMade \/ GiveUp \/ Look \/ Rmdir
      <4>1. \E s \in {"refused", "open_made", "check_made", "has", "look", "rmdir"} : app' = To(s)
        BY <3>4 DEF Mkdir, OpenMade, CheckMade, GiveUp, Look, Rmdir, Refuse
      <4> QED  BY <4>1, AppTyped DEF To, AppType, Uses
    <3> QED  BY <1>3, <3>1, <3>2, <3>3, <3>4
  <2> QED  BY <2>1, NotUsed
<1>4. CASE Compare \/ CompareCache \/ Recheck \/ CheckFiles \/ CheckCache \/ Probe \/ OpenDb \/ HasMoved \/ Setup \/ AskForLock \/ WriteLock \/ OpenCache \/ Store
  BY <1>4, UseCompare, UseCompareCache, UseRecheck, UseFiles, UseCheckCache, UseProbe, UseOpenDb, UseHasMoved, UseWrites
<1>5. CASE OthersAct \/ OwnAct
  BY <1>5, UseOthers, UseOwn DEF ActsInv
<1>6. ASSUME NEW p \in Programs, Migrates(p) \/ Kill(p) PROVE UseInv'
  <2>1. CASE Kill(p)
    <3>1. CASE p = "app"
      BY <2>1, <3>1, NotUsed DEF Kill, App, Uses
    <3>2. CASE p # "app"
      BY <1>1, <2>1, <3>2 DEF Kill, Quietly, world, calm
    <3> QED  BY <3>1, <3>2
  <2>2. CASE ReadVersion(p) \/ Commit(p)
    BY <1>1, <2>2 DEF ReadVersion, Commit, Quietly, world, acts, calm
  <2>3. CASE Begin(p)
    <3>1. /\ Quietly /\ chain' = chain /\ held' = held /\ quiet' = quiet
          /\ p # "app" => app' = app
          /\ p = "app" => app.stage = "migrating"
          /\ app' = app \/ Refuse \/ app' = To("on")
      BY <2>3 DEF Begin, Quietly, world, acts, calm, Fails, Ends, AppMigrates
    <3>2. CASE Refuse
      BY <3>2, Turns, NotUsed DEF Refuse, AppStages, Uses
    <3>3. CASE app' = To("on") /\ p = "app"
      BY <3>1, <3>3, UseLater DEF Uses
    <3> QED  BY <1>1, <3>1, <3>2, <3>3
  <2> QED  BY <1>6, <2>1, <2>2, <2>3 DEF Migrates
<1> QED  BY <1>2, <1>3, <1>4, <1>5, <1>6 DEF Next, AppStep

(* Who acted, and what stands where. *)
LEMMA KindsOfThings ==
    /\ "plain" \in Beneath /\ Beneath \subseteq Standing /\ Folders \subseteq Standing /\ Files \subseteq Standing
    /\ "none" \in Standing /\ "link" \in Standing /\ "thumbs" \in Standing
BY DEF Beneath, Standing, Objects, Files, Folders

LEMMA SlotKindsStay ==
    ASSUME PathInv, SlotKinds, NEW s \in Slots, NEW o, at' = [at EXCEPT ![s] = o],
           \/ Fits(s, o)
           \/ s[2] \in {"wal", "lock"} /\ o = "plain"
           \/ s[2] = "data"
    PROVE  SlotKinds'
<1>1. s[2] \in {"wal", "lock"} => o \in Beneath \cup {"none", "link"}
  BY KindsOfThings DEF Fits
<1>2. \A t \in Slots : at'[t] = IF t = s THEN o ELSE at[t]
  BY DEF PathInv
<1> QED  BY <1>1, <1>2 DEF SlotKinds

LEMMA AppChanges ==
    ASSUME PathInv, ActsInv, fact' = fact, own' = own, away' = away, quiet' \in {quiet, TRUE}, still' \in {still, TRUE},
           held' \in [db : Standing, thumbs : Standing, sqlite : Standing, cache : Standing],
           app'.stage \in {"walk", "check", "compare", "compare_cache"} => app'.round = 1,
           \/ at' = at
           \/ \E s \in Slots, o \in {"plain", "made", "none"} :
                                  /\ at' = [at EXCEPT ![s] = o]
                                  /\ \/ s[2] \in {"wal", "lock"} /\ o = "plain"
                                     \/ s[2] = "data" /\ o \in {"made", "none"}
    PROVE  ActsInv'
<1>1. SlotKinds'
  <2>1. CASE at' = at
    BY <2>1 DEF ActsInv, SlotKinds
  <2>2. ASSUME NEW s \in Slots, NEW o, at' = [at EXCEPT ![s] = o],
               \/ s[2] \in {"wal", "lock"} /\ o = "plain"
               \/ s[2] = "data"
        PROVE  SlotKinds'
    BY <2>2, SlotKindsStay DEF ActsInv
  <2> QED  BY <2>1, <2>2
<1>2. AwayInv'
  BY DEF ActsInv, AwayInv, Rules, Who
<1>3. quiet' \in BOOLEAN /\ (~quiet' \/ ~still' => own' > 0) /\ own' \in 0 .. MaxOwn
  BY DEF ActsInv, PathInv
<1> QED  BY <1>1, <1>2, <1>3 DEF ActsInv

LEMMA HeldTyped == ActsInv => held \in [db : Standing, thumbs : Standing, sqlite : Standing, cache : Standing]
BY DEF ActsInv
LEMMA AtTyped == ASSUME PathInv, NEW f, NEW n PROVE Below(f, n) \in Standing
BY KindsOfThings DEF Below, PathInv, Standing

LEMMA SlotNames == \A s \in Slots : s[1] \in Folders
BY DEF Slots, Folders

\* What another account takes it could take whatever the mode, or the owner of
\* the folder lets anybody take anything.
LEMMA AwayOthers == ASSUME PathInv, AwayInv, OthersAct PROVE AwayInv'
<1>1. \A f \in Folders : /\ Rules(f)' <=> Rules(f)
                         /\ fact'[f].sticky = fact[f].sticky
                         /\ \A o : Who(o)' = Who(o)
  BY OthersKeepRights, RightsStay DEF PathInv, SameRights
<1>2. ASSUME NEW s \in Slots, NEW o, Rules(s[1]) \/ ~fact[s[1]].sticky \/ Who(o) = "other"
      PROVE  Rules(s[1])' \/ ~fact'[s[1]].sticky \/ Who(o)' = "other"
  <2>1. PICK f \in Folders : f = s[1]
    BY SlotNames
  <2>2. /\ Rules(f)' <=> Rules(f)
        /\ fact'[f].sticky = fact[f].sticky
        /\ Who(o)' = Who(o)
    BY <1>1
  <2>3. Rules(f)' \/ ~fact'[f].sticky \/ Who(o)' = "other"
    BY <1>2, <2>1, <2>2
  <2> QED  BY <2>1, <2>3 DEF Rules
<1>3. \A p \in away : p[1] \in Slots /\ (Rules(p[1][1])' \/ ~fact'[p[1][1]].sticky \/ Who(p[2])' = "other")
  <2> SUFFICES ASSUME NEW p \in away
      PROVE  p[1] \in Slots /\ (Rules(p[1][1])' \/ ~fact'[p[1][1]].sticky \/ Who(p[2])' = "other")
    OBVIOUS
  <2>1. p[1] \in Slots /\ (Rules(p[1][1]) \/ ~fact[p[1][1]].sticky \/ Who(p[2]) = "other")
    BY DEF AwayInv
  <2>2. PICK s, o : s = p[1] /\ o = p[2]
    OBVIOUS
  <2>3. Rules(s[1])' \/ ~fact'[s[1]].sticky \/ Who(o)' = "other"
    BY <1>2, <2>1, <2>2
  <2> QED  BY <2>1, <2>2, <2>3 DEF Rules, Who
<1>4. \/ away' = away
      \/ \E s \in Slots : MayTake(s[1], at[s]) /\ away' = away \cup {<<s, at[s]>>}
  BY DEF OthersAct
<1>5. ASSUME NEW s \in Slots, MayTake(s[1], at[s]), away' = away \cup {<<s, at[s]>>} PROVE AwayInv'
  <2>1. PICK p, o : p = <<s, o>> /\ o = at[s]
    OBVIOUS
  <2>2. Rules(s[1]) \/ ~fact[s[1]].sticky \/ Who(o) = "other"
    BY <1>5, <2>1 DEF MayTake
  <2>3. p[1] = s /\ p[2] = o
    BY <2>1
  <2>4. p[1] \in Slots /\ (Rules(p[1][1])' \/ ~fact'[p[1][1]].sticky \/ Who(p[2])' = "other")
    <3>1. Rules(s[1])' \/ ~fact'[s[1]].sticky \/ Who(o)' = "other"
      BY <1>2, <2>2
    <3> QED  BY <2>3, <3>1 DEF Rules, Who
  <2>5. away' = away \cup {p}
    BY <1>5, <2>1
  <2> QED  BY <1>3, <2>4, <2>5 DEF AwayInv
<1>6. CASE away' = away
  BY <1>3, <1>6 DEF AwayInv
<1> QED  BY <1>4, <1>5, <1>6

LEMMA ActsOthers == ASSUME PathInv, ActsInv, OthersAct PROVE ActsInv'
<1>1. /\ app' = app /\ held' = held /\ quiet' = quiet /\ still' = still /\ own' = own
  BY DEF OthersAct, calm
<1>2. SlotKinds'
  <2>1. CASE at' = at
    BY <2>1 DEF ActsInv, SlotKinds
  <2>2. ASSUME NEW s \in Slots, NEW o, Fits(s, o), at' = [at EXCEPT ![s] = o] PROVE SlotKinds'
    BY <2>2, SlotKindsStay DEF ActsInv
  <2> QED  BY <2>1, <2>2 DEF OthersAct
<1>3. AwayInv'
  BY AwayOthers DEF ActsInv
<1> QED  BY <1>1, <1>2, <1>3 DEF ActsInv

LEMMA ActsOwn == ASSUME PathInv, ActsInv, MaxOwn <= 1, OwnAct PROVE ActsInv'
<1>1. own' = 1 /\ own' \in 0 .. MaxOwn /\ own' # 0 /\ own' > 0
  <2>1. own' = 1 /\ Spent'
    BY OwnOnce
  <2> QED  BY <2>1, FolderAssumption DEF Spent
<1>2. quiet' = FALSE /\ app' = app /\ held' = held /\ away' = away
  BY DEF OwnAct
<1>3. SlotKinds'
  <2>1. CASE at' = at
    BY <2>1 DEF ActsInv, SlotKinds
  <2>2. ASSUME NEW s \in Slots, NEW o, Fits(s, o), at' = [at EXCEPT ![s] = o] PROVE SlotKinds'
    BY <2>2, SlotKindsStay DEF ActsInv
  <2> QED  BY <2>1, <2>2 DEF OwnAct
<1>4. AwayInv'
  <2>1. CASE fact' = fact
    BY <1>2, <2>1 DEF ActsInv, AwayInv, Rules, Who
  <2>2. ASSUME NEW f \in Folders, fact' = [fact EXCEPT ![f].loose = ~@] PROVE AwayInv'
    <3>1. \A g \in Folders : /\ fact'[g].who = fact[g].who /\ fact'[g].list = fact[g].list
                             /\ fact'[g].vol = fact[g].vol /\ fact'[g].sticky = fact[g].sticky
      BY <2>2, LooseOnly DEF PathInv
    <3>2. (\A g \in Folders : Rules(g)' <=> Rules(g)) /\ \A o : Who(o)' = Who(o)
      BY <3>1 DEF Rules, Who
    <3> SUFFICES ASSUME NEW p \in away
        PROVE  p[1] \in Slots /\ (Rules(p[1][1])' \/ ~fact'[p[1][1]].sticky \/ Who(p[2])' = "other")
      BY <1>2 DEF AwayInv
    <3>3. p[1] \in Slots /\ (Rules(p[1][1]) \/ ~fact[p[1][1]].sticky \/ Who(p[2]) = "other")
      BY DEF ActsInv, AwayInv
    <3>4. PICK g, o : g = p[1][1] /\ o = p[2] /\ g \in Folders
      BY <3>3, SlotNames
    <3>5. Rules(g)' \/ ~fact'[g].sticky \/ Who(o)' = "other"
      BY <3>1, <3>2, <3>3, <3>4
    <3> QED  BY <3>3, <3>4, <3>5 DEF Rules, Who
  <2> QED  BY <2>1, <2>2 DEF OwnAct
<1> QED  BY <1>1, <1>2, <1>3, <1>4 DEF ActsInv

\* The names the app touches itself.
NamesTouched ==
    \/ at' = at
    \/ \E s \in Slots, o \in {"plain", "made", "none"} :
          /\ at' = [at EXCEPT ![s] = o]
          /\ \/ s[2] \in {"wal", "lock"} /\ o = "plain"
             \/ s[2] = "data" /\ o \in {"made", "none"}
LEMMA AppNames == ASSUME PathInv, AppStep PROVE NamesTouched
<1>1. CASE at' = at
  BY <1>1 DEF NamesTouched
<1>2. CASE Launch \/ Walk \/ Check \/ Compare \/ CompareCache \/ Recheck \/ CheckFiles \/ CheckCache \/ Probe \/ OpenDb \/ HasMoved
  BY <1>1, <1>2 DEF Launch, Walk, Check, Compare, CompareCache, Recheck, CheckFiles, CheckCache, Probe, OpenDb, HasMoved, world
<1>3. CASE AskForLock \/ OpenCache \/ Store \/ OpenMade \/ CheckMade \/ GiveUp \/ Look
  BY <1>1, <1>3 DEF AskForLock, OpenCache, Store, OpenMade, CheckMade, GiveUp, Look, world
<1>4. ASSUME NEW n \in {"wal", "lock"}, Appears(n) PROVE NamesTouched
  <2>1. PICK s : s = <<Leads[3], n>>
    OBVIOUS
  <2>2. s[2] = n
    BY <2>1
  <2> QED  BY <1>4, <2>1, <2>2 DEF Appears, NamesTouched
<1>5. CASE Setup \/ WriteLock
  BY <1>1, <1>4, <1>5 DEF Setup, WriteLock
<1>6. CASE Mkdir \/ Rmdir
  <2>1. PICK s : s = <<chain[2], "data">>
    OBVIOUS
  <2>2. at' = at \/ at' = [at EXCEPT ![s] = "made"] \/ at' = [at EXCEPT ![s] = "none"]
    BY <1>6, <2>1 DEF Mkdir, Rmdir
  <2>3. s \in Slots \/ at' = at
    <3>1. Below(chain[2], "data") \in Folders => s \in Slots
      BY <2>1, SmallPaths DEF Below
    <3> QED  BY <1>6, <2>1, <3>1 DEF Mkdir, Rmdir
  <2>4. s[2] = "data"
    BY <2>1
  <2> QED  BY <2>2, <2>3, <2>4 DEF NamesTouched
<1> QED  BY <1>2, <1>3, <1>5, <1>6 DEF AppStep

LEMMA ActsGoesOn ==
    ASSUME PathInv, ActsInv, MaxOwn <= 1, [Next]_vars PROVE ActsInv'
<1> DEFINE Calmly == fact' = fact /\ own' = own /\ away' = away /\ quiet' \in {quiet, TRUE} /\ still' \in {still, TRUE}
           Early == app'.stage \in {"walk", "check", "compare", "compare_cache"} => app'.round = 1
           Holds(h) == h \in [db : Standing, thumbs : Standing, sqlite : Standing, cache : Standing]
<1>1. CASE fact' = fact /\ own' = own /\ away' = away /\ quiet' = quiet /\ still' = still /\ held' = held /\ app' = app /\ at' = at
  BY <1>1, AppChanges, HeldTyped DEF ActsInv
<1>2. CASE UNCHANGED vars \/ ToolOpens
  BY <1>1, <1>2 DEF vars, ToolOpens, world, acts, calm
<1>3. \A s \in AppStages : To(s).stage = s /\ To(s).round = app.round
  BY AppTyped DEF To, AppType
<1>4. ASSUME Refuse PROVE Early
  BY <1>3, <1>4 DEF Refuse, AppStages
<1>5. CASE Launch
  <2>1. Calmly /\ at' = at /\ held' = NoHold
    BY <1>5 DEF Launch, world, acts
  <2>2. Holds(NoHold)
    BY KindsOfThings DEF NoHold
  <2>3. Early
    BY <1>5 DEF Launch, App
  <2> QED  BY <2>1, <2>2, <2>3, AppChanges
<1>6. CASE Walk \/ Check
  <2>1. Calmly /\ at' = at /\ held' = held
    BY <1>6 DEF Walk, Check, world, acts, calm
  <2>2. \/ Refuse
        \/ app.round = 1 /\ app'.round = app.round
    <3>1. app.round = 1
      BY <1>6 DEF Walk, Check, ActsInv
    <3>2. CASE Walk
      <4>1. Refuse \/ app' = [app EXCEPT !.stage = "check", !.level = 1] \/ app' = [app EXCEPT !.level = app.level + 1]
        BY <3>2 DEF Walk
      <4> QED  BY <3>1, <4>1, AppTyped DEF AppType
    <3>3. CASE Check
      <4>1. Refuse \/ app' = [app EXCEPT !.level = @ + 1] \/ app' = To("compare") \/ app' = To("mkdir")
        BY <3>3 DEF Check
      <4> QED  BY <3>1, <4>1, AppTyped DEF AppType, To
    <3> QED  BY <1>6, <3>2, <3>3
  <2>3. Early
    BY <1>4, <2>2
  <2> QED  BY <2>1, <2>3, AppChanges, HeldTyped
<1>7. CASE Compare \/ CompareCache \/ OpenDb \/ OpenCache
  <2>1. Calmly /\ at' = at
    BY <1>7 DEF Compare, CompareCache, OpenDb, OpenCache, world, acts, calm
  <2>2. Holds(held')
    <3>1. held \in [db : Standing, thumbs : Standing, sqlite : Standing, cache : Standing]
      BY HeldTyped
    <3>2. PICK d, t : d = Below("data", "db") /\ t = AtPath("db")
      OBVIOUS
    <3>3. d \in Standing /\ t \in Standing /\ AtPath("thumbs") \in Standing /\ "thumbs" \in Standing
      BY <3>2, AtTyped, KindsOfThings DEF AtPath
    <3>4. CASE Compare
      BY <3>1, <3>2, <3>3, <3>4 DEF Compare
    <3>5. CASE OpenDb
      BY <3>1, <3>2, <3>3, <3>5 DEF OpenDb
    <3>6. CASE OpenCache
      BY <3>1, <3>3, <3>6 DEF OpenCache
    <3>7. CASE CompareCache
      BY <3>1, <3>3, <3>7 DEF CompareCache
    <3> QED  BY <1>7, <3>4, <3>5, <3>6, <3>7
  <2>3. Early
    <3>1. CASE Compare
      <4>1. app.round = 1 /\ (Refuse \/ app' = To("compare_cache"))
        BY <3>1 DEF Compare, ActsInv
      <4> QED  BY <1>3, <1>4, <4>1 DEF AppStages
    <3>2. CASE CompareCache \/ OpenDb \/ OpenCache
      <4>1. Refuse \/ app' = To("moved") \/ app' = To("cache") \/ app' = [app EXCEPT !.stage = "recheck", !.level = 1]
        BY <3>2 DEF CompareCache, OpenDb, OpenCache
      <4> QED  BY <1>3, <1>4, <4>1, AppTyped DEF AppType, AppStages
    <3> QED  BY <1>7, <3>1, <3>2
  <2> QED  BY <2>1, <2>2, <2>3, AppChanges
<1>8. CASE Recheck \/ CheckFiles \/ CheckCache \/ Probe \/ HasMoved \/ AskForLock \/ Store \/ OpenMade \/ CheckMade \/ GiveUp \/ Look
  <2>1. Calmly /\ at' = at /\ held' = held
    BY <1>8 DEF Recheck, CheckFiles, CheckCache, Probe, HasMoved, AskForLock, Store, OpenMade, CheckMade, GiveUp, Look, Again, SecondLook, world, acts, calm
  <2>2. Early
    <3>1. CASE Recheck \/ Probe \/ HasMoved \/ AskForLock
      <4>1. CASE Recheck
        <5>1. \/ Refuse
              \/ app' = To("files")
              \/ app.stage = "recheck" /\ app' = [app EXCEPT !.level = app.level + 1]
          BY <4>1 DEF Recheck
        <5> QED  BY <5>1, AppTyped DEF AppType, To, Refuse
      <4>2. CASE Probe \/ HasMoved \/ AskForLock
        <5>1. \/ Refuse
              \/ \E r \in {2, 3, 4} : app' = [app EXCEPT !.stage = "recheck", !.level = 1, !.round = r]
          BY <4>2 DEF Probe, HasMoved, AskForLock, Again, SecondLook
        <5> QED  BY <5>1, AppTyped DEF AppType, To, Refuse
      <4> QED  BY <3>1, <4>1, <4>2
    <3>2. CASE CheckFiles
      <4>1. PICK r \in 1 .. 4 : r = app.round
        BY PathParts
      <4>2. r = 1 \/ r = 2 \/ r = 3 \/ r = 4
        OBVIOUS
      <4>3. After[r] \in {"check_cache", "sqlite", "journal", "lock"}
        BY <4>2 DEF After
      <4>4. Refuse \/ app' = To(After[r])
        BY <3>2, <4>1 DEF CheckFiles
      <4> QED  BY <1>3, <1>4, <4>3, <4>4 DEF AppStages
    <3>3. CASE CheckCache \/ Store \/ OpenMade \/ CheckMade \/ GiveUp \/ Look
      <4>1. Refuse \/ \E s \in {"probe", "on", "check_made", "has", "look", "rmdir"} : app' = To(s)
        BY <3>3 DEF CheckCache, Store, OpenMade, CheckMade, GiveUp, Look
      <4> QED  BY <1>3, <1>4, <4>1 DEF AppStages
    <3> QED  BY <1>8, <3>1, <3>2, <3>3
  <2> QED  BY <2>1, <2>2, AppChanges, HeldTyped
<1>9. CASE Setup \/ WriteLock \/ Mkdir \/ Rmdir
  <2>1. Calmly /\ held' = held
    BY <1>9 DEF Setup, WriteLock, Mkdir, Rmdir, acts, calm
  <2>2. Early
    <3>1. Refuse \/ \E s \in {"migrating", "on", "open_made"} : app' = To(s)
      BY <1>9 DEF Setup, WriteLock, Mkdir, Rmdir
    <3> QED  BY <1>3, <1>4, <3>1 DEF AppStages
  <2>3. NamesTouched
    BY <1>9, AppNames DEF AppStep
  <2> QED  BY <2>1, <2>2, <2>3, AppChanges, HeldTyped DEF NamesTouched
<1>10. CASE OthersAct \/ OwnAct
  BY <1>10, ActsOthers, ActsOwn
<1>11. ASSUME NEW p \in Programs, Migrates(p) \/ Kill(p) PROVE ActsInv'
  <2>1. /\ Calmly /\ at' = at /\ held' = held
        /\ app' = app \/ Refuse \/ app' = To("on") \/ app' = App("use", "off", 1, 1)
    BY <1>11 DEF Migrates, ReadVersion, Begin, Commit, Kill, Ends, Fails, world, acts, calm
  <2>2. CASE app' = app
    BY <2>1, <2>2, AppChanges, HeldTyped DEF ActsInv
  <2>3. CASE app' # app
    <3>1. Early
      BY <1>3, <1>4, <2>1, <2>3 DEF AppStages, App
    <3> QED  BY <2>1, <3>1, AppChanges, HeldTyped
  <2> QED  BY <2>2, <2>3
<1> QED  BY <1>2, <1>5, <1>6, <1>7, <1>8, <1>9, <1>10, <1>11 DEF Next, AppStep

(* The folder a new one is made in. *)
Closes == app.stage \in Makes /\ still => ~MayPut(chain[2])
Looked == app.stage = "rmdir" /\ (quiet \/ still) => Below(chain[2], "data") = chain[3] \/ MayTake(chain[2], chain[3])
LEMMA MakeParts == MakeInv <=> Closes /\ Looked
BY DEF MakeInv, Closes, Looked

LEMMA MakeChain ==
    ASSUME PathInv, app.stage \in Makes
    PROVE  /\ Len(chain) \in Nat /\ Len(chain) > 1 /\ chain[2] \in Folders
           /\ app.stage = "rmdir" => Len(chain) = 3 /\ chain[3] \in Folders
           /\ app.stage = "mkdir" => Len(chain) = 2
<1>1. Len(chain) \in {2, 3} /\ (app.stage = "rmdir" => Len(chain) = 3) /\ (app.stage = "mkdir" => Len(chain) = 2)
  BY PathParts DEF ChainGrows, Running, Makes
<1>2. \A k \in 1 .. Len(chain) : chain[k] \in Folders
  BY PathParts
<1> QED  BY <1>1, <1>2

\* With nothing but the stage changed, a stage of the making comes from itself.
LEMMA MakeFrames ==
    ASSUME MakeInv, at' = at, fact' = fact, chain' = chain, quiet' = quiet, still' = still,
           app'.stage \in Makes => app'.stage = app.stage
    PROVE  MakeInv'
BY DEF MakeInv, Makes, MayPut, MayTake, Rules, Who, Below

LEMMA NotMaking == ASSUME app'.stage \notin Makes PROVE MakeInv'
BY DEF MakeInv, Makes

LEMMA MakeOthers == ASSUME PathInv, MakeInv, OthersAct PROVE MakeInv'
<1>1. app' = app /\ chain' = chain /\ quiet' = quiet /\ still' = still
  BY DEF OthersAct, calm
<1>2. CASE app.stage \notin Makes
  BY <1>1, <1>2, NotMaking
<1>3. CASE app.stage \in Makes
  <2>1. PICK f \in Folders : f = chain[2]
    BY <1>3, MakeChain
  <2>2. (MayPut(f)' <=> MayPut(f)) /\ \A o : MayTake(f, o)' <=> MayTake(f, o)
    BY OthersKeepRights, RightsStay DEF PathInv
  <2>3. Closes'
    BY <1>1, <2>1, <2>2, MakeParts DEF Closes, MayPut, Rules
  <2>4. Looked'
    <3>1. SUFFICES ASSUME app.stage = "rmdir", quiet \/ still, ~MayTake(f, chain[3])
                   PROVE  Below(f, "data")' = chain[3]
      BY <1>1, <2>1, <2>2 DEF Looked, MayTake, Rules, Who
    <3>2. Below(f, "data") = chain[3] /\ chain[3] \in Folders
      BY <2>1, <3>1, MakeParts, MakeChain DEF Looked, Makes
    <3>0. PICK s : s = <<f, "data">>
      OBVIOUS
    <3>3. s = <<f, "data">> /\ s[1] = f
      BY <3>0
    <3>4. s \in Slots /\ at[s] = chain[3] /\ at[s] # "none"
      BY <3>2, <3>3, SmallPaths DEF Below
    <3>5. at'[s] = at[s]
      BY <3>1, <3>3, <3>4, OthersPut
    <3> QED  BY <3>3, <3>4, <3>5 DEF Below
  <2> QED  BY <2>3, <2>4 DEF MakeInv, Closes, Looked
<1> QED  BY <1>2, <1>3

LEMMA MakeOwn == ASSUME OwnAct PROVE MakeInv'
BY DEF OwnAct, MakeInv

\* Where the app is after a step that uses a path.
UseStep == Compare \/ CompareCache \/ Recheck \/ CheckFiles \/ CheckCache \/ Probe \/ OpenDb \/ HasMoved \/ Setup \/ AskForLock \/ WriteLock \/ OpenCache \/ Store
LEMMA UseTurns == ASSUME PathInv, UseStep PROVE app'.stage \notin Makes
<1>1. \A s \in AppStages : To(s).stage = s
  BY AppTyped DEF To, AppType
<1>2. CASE Recheck
  <2>1. \/ Refuse
        \/ app' = To("files")
        \/ app.stage = "recheck" /\ app' = [app EXCEPT !.level = app.level + 1]
    BY <1>2 DEF Recheck
  <2> QED  BY <2>1, AppTyped DEF AppType, To, Refuse, Makes
<1>3. CASE CompareCache \/ Probe \/ HasMoved \/ AskForLock
  <2>1. \/ Refuse
        \/ app' = [app EXCEPT !.stage = "recheck", !.level = 1]
        \/ \E r \in {2, 3, 4} : app' = [app EXCEPT !.stage = "recheck", !.level = 1, !.round = r]
    BY <1>3 DEF CompareCache, Probe, HasMoved, AskForLock, Again, SecondLook
  <2> QED  BY <2>1, AppTyped DEF AppType, To, Refuse, Makes
<1>4. CASE CheckFiles
  <2>1. PICK r \in 1 .. 4 : r = app.round
    BY PathParts
  <2>2. r = 1 \/ r = 2 \/ r = 3 \/ r = 4
    OBVIOUS
  <2>3. After[r] \in {"check_cache", "sqlite", "journal", "lock"}
    BY <2>2 DEF After
  <2>4. app' = To("refused") \/ app' = To(After[r])
    BY <1>4, <2>1 DEF CheckFiles, Refuse
  <2> QED  BY <1>1, <2>3, <2>4 DEF AppStages, Makes
<1>5. CASE Compare \/ CheckCache \/ OpenDb \/ Setup \/ WriteLock \/ OpenCache \/ Store
  <2>1. \E s \in {"refused", "compare_cache", "probe", "moved", "migrating", "on", "cache"} : app' = To(s)
    BY <1>5 DEF Compare, CheckCache, OpenDb, Setup, WriteLock, OpenCache, Store, Refuse
  <2> QED  BY <1>1, <2>1 DEF AppStages, Makes
<1> QED  BY <1>2, <1>3, <1>4, <1>5 DEF UseStep

LEMMA MakeWalk == ASSUME PathInv, Launch \/ Walk PROVE app'.stage \notin Makes
<1>1. CASE Launch
  BY <1>1 DEF Launch, App, Makes
<1>2. CASE Walk
  <2>1. app.stage = "walk" /\ (Refuse \/ app' = [app EXCEPT !.stage = "check", !.level = 1] \/ app' = [app EXCEPT !.level = app.level + 1])
    BY <1>2 DEF Walk
  <2> QED  BY <2>1, AppTyped DEF Refuse, To, AppType, Makes
<1> QED  BY <1>1, <1>2

\* The last level is checked last, and what passes leaves no room to others.
LEMMA MakeCheck == ASSUME PathInv, Check PROVE MakeInv'
<1>1. at' = at /\ fact' = fact /\ chain' = chain /\ app.stage = "check" /\ Running
  BY DEF Check, world, Running
<1>2. Refuse \/ app' = [app EXCEPT !.level = @ + 1] \/ app' = To("compare") \/ app' = To("mkdir")
  BY DEF Check
<1>3. app'.stage \in {"refused", "check", "compare", "mkdir"}
  BY <1>1, <1>2, AppTyped DEF AppType, To, Refuse
<1>4. CASE app'.stage # "mkdir"
  BY <1>3, <1>4, NotMaking DEF Makes
<1>5. CASE app'.stage = "mkdir"
  <2>1. PathInv' /\ app'.stage \in Makes
    BY <1>5, CheckStep DEF Makes
  <2>2. Len(chain) = 2 /\ chain[2] \in Folders
    <3>1. Len(chain') = 2
      BY <1>5, <2>1 DEF PathInv, ChainGrows
    <3>2. \A k \in 1 .. Len(chain) : chain[k] \in Folders
      BY PathParts
    <3> QED  BY <1>1, <3>1, <3>2
  <2>3. check(chain[app.level], app.level = Last) /\ ~(app.level < Last) /\ app.level \in 1 .. Len(chain)
    <3>1. "refused" # "mkdir"
      OBVIOUS
    <3> QED  BY <1>1, <1>5, AppTyped, PathParts DEF Check, Refuse, To, AppType, ChainGrows
  <2>4. app.level = 2 /\ Last = 2
    BY <2>2, <2>3 DEF Last
  <2>5. check(chain[2], TRUE)
    BY <2>3, <2>4 DEF check, Writable
  <2>6. ~MayPut(chain[2])
    BY <2>2, <2>5, CheckBars DEF PathInv, MayPut
  <2> QED  BY <1>1, <1>5, <2>6 DEF MakeInv, MayPut, Rules
<1> QED  BY <1>4, <1>5

LEMMA MakeSteps ==
    ASSUME PathInv, MakeInv, Mkdir \/ OpenMade \/ CheckMade \/ GiveUp \/ Look \/ Rmdir
    PROVE  MakeInv'
<1>1. app.stage \in Makes /\ fact' = fact /\ still' = still
  BY DEF Mkdir, OpenMade, CheckMade, GiveUp, Look, Rmdir, world, calm, Makes
<1>2. chain'[2] = chain[2]
  <2>1. CASE OpenMade /\ chain' # chain
    <3>1. PICK o \in Folders : chain' = Append(chain, o)
      BY <2>1 DEF OpenMade
    <3>2. Len(chain) = 2
      BY <2>1, PathParts DEF OpenMade, ChainGrows
    <3> QED  BY <3>1, <3>2, PathParts, Third
  <2> QED  BY <2>1 DEF Mkdir, OpenMade, CheckMade, GiveUp, Look, Rmdir
<1>3. Closes'
  BY <1>1, <1>2, MakeParts DEF Closes, MayPut, Rules
<1>4. CASE Look
  <2>1. (HoldsIt /\ at' = at /\ chain' = chain) \/ app' = To("refused")
    BY <1>4 DEF Look, Refuse, world
  <2>2. app'.stage = "rmdir" => HoldsIt /\ at' = at /\ chain' = chain
    BY <2>1, AppTyped DEF To, AppType
  <2>3. Looked'
    BY <2>2 DEF Looked, HoldsIt, Below
  <2> QED  BY <1>3, <2>3 DEF MakeInv, Closes, Looked
<1>5. CASE Mkdir \/ OpenMade \/ CheckMade \/ GiveUp \/ Rmdir
  <2>1. \E s \in {"refused", "open_made", "check_made", "has", "look"} : app' = To(s)
    BY <1>5 DEF Mkdir, OpenMade, CheckMade, GiveUp, Rmdir, Refuse
  <2>2. app'.stage # "rmdir"
    BY <2>1, AppTyped DEF To, AppType
  <2> QED  BY <1>3, <2>2 DEF MakeInv, Closes
<1> QED  BY <1>4, <1>5

LEMMA MakeGoesOn ==
    ASSUME PathInv, MakeInv, [Next]_vars PROVE MakeInv'
<1>1. CASE at' = at /\ fact' = fact /\ chain' = chain /\ quiet' = quiet /\ still' = still /\ app' = app
  BY <1>1, MakeFrames
<1>2. CASE UNCHANGED vars \/ ToolOpens
  BY <1>1, <1>2 DEF vars, ToolOpens, world, acts, calm
<1>3. CASE AppStep
  BY <1>3, MakeWalk, MakeCheck, UseTurns, NotMaking, MakeSteps DEF AppStep, UseStep
<1>4. CASE OthersAct \/ OwnAct
  BY <1>4, MakeOthers, MakeOwn
<1>5. ASSUME NEW p \in Programs, Migrates(p) \/ Kill(p) PROVE MakeInv'
  <2>1. at' = at /\ fact' = fact /\ chain' = chain /\ quiet' = quiet /\ still' = still
    BY <1>5 DEF Migrates, ReadVersion, Begin, Commit, Kill, world, acts, calm
  <2>2. app' = app \/ app' = App("use", "off", 1, 1) \/ app' = To("refused") \/ app' = To("on")
    BY <1>5 DEF Migrates, ReadVersion, Begin, Commit, Kill, Ends, Fails, Refuse
  <2>3. CASE app' = app
    BY <1>1, <2>1, <2>3
  <2>4. CASE app' # app
    <3>1. app'.stage \in {"off", "refused", "on"}
      BY <2>2, <2>4, AppTyped DEF App, To, AppType
    <3> QED  BY <3>1, NotMaking DEF Makes
  <2> QED  BY <2>3, <2>4
<1> QED  BY <1>2, <1>3, <1>4, <1>5 DEF Next

(* What is written. *)
Right(w) ==
    /\ w.what = "db" => w.obj = "db"
    /\ w.what = "thumb" => w.obj = "thumbs"
    /\ w.quiet /\ w.what = "wal" => w.obj = "plain"
    /\ w.quiet /\ w.what = "lock" => w.obj \in {"plain", "shared"}
    /\ w.quiet /\ w.what = "removed" => w.obj = "made"
LEMMA AllRight == OnlyTheProven <=> \A w \in landed : Right(w)
BY DEF OnlyTheProven, Right
LEMMA WroteWhat == \A x, o : Wrote(x, o).what = x /\ Wrote(x, o).obj = o /\ Wrote(x, o).quiet = quiet
BY DEF Wrote

\* What a firm path finds beside the database.
LEMMA BesideHeld ==
    ASSUME Firm(3), Held
    PROVE  Beside("wal") = "plain" /\ Beside("lock") \in {"plain", "shared"}
<1>1. Leads[3] = "data"
  BY FirmLevels, 3 \in 0 .. 3
<1>2. AtPath("wal") = at[<<"data", "wal">>] /\ AtPath("lock") = at[<<"data", "lock">>]
  BY <1>1, BelowThere DEF AtPath
<1> QED  BY <1>2 DEF Held, Beside

LEMMA SetupRight ==
    ASSUME ActsInv, UseInv, Setup PROVE landed' = landed \/ \E w1, w2 : Right(w1) /\ Right(w2) /\ landed' = landed \cup {w1, w2}
<1>1. app.stage = "journal" /\ app.stage \in Uses
  BY DEF Setup, Uses
<1>2. held.sqlite = "db" /\ (quiet => Beside("wal") = "plain")
  BY <1>1, UseParts, BesideHeld
<1>3. PICK w1 : w1 = Wrote("db", held.sqlite)
  OBVIOUS
<1>4. PICK w2 : w2 = Wrote("wal", Beside("wal"))
  OBVIOUS
<1>5. Right(w1)
  BY <1>2, <1>3, WroteWhat DEF Right
<1>6. Right(w2)
  BY <1>2, <1>4, WroteWhat DEF Right
<1> QED  BY <1>3, <1>4, <1>5, <1>6 DEF Setup

LEMMA LockRight ==
    ASSUME ActsInv, UseInv, WriteLock PROVE landed' = landed \/ \E w : Right(w) /\ landed' = landed \cup {w}
<1>1. app.stage = "lock" /\ app.stage \in Uses
  BY DEF WriteLock, Uses
<1>2. quiet => Beside("lock") \in {"plain", "shared"}
  BY <1>1, UseParts, BesideHeld
<1>3. PICK w : w = Wrote("lock", Beside("lock"))
  OBVIOUS
<1>4. Right(w)
  BY <1>2, <1>3, WroteWhat DEF Right
<1> QED  BY <1>3, <1>4 DEF WriteLock

LEMMA StoreRight ==
    ASSUME UseInv, Store PROVE landed' = landed \/ \E w : Right(w) /\ landed' = landed \cup {w}
<1>1. app.stage = "cache" /\ app.stage \in Uses
  BY DEF Store, Uses
<1>2. held.thumbs = "thumbs"
  BY <1>1, UseParts
<1>3. PICK w : w = Wrote("thumb", held.cache)
  OBVIOUS
<1>4. CASE check_thumbnail_folder
  <2>1. held.cache = "thumbs"
    BY <1>2, <1>4 DEF check_thumbnail_folder, thumbnails
  <2>2. Right(w)
    BY <1>3, <2>1, WroteWhat DEF Right
  <2> QED  BY <1>3, <1>4, <2>2 DEF Store
<1> QED  BY <1>4 DEF Store

LEMMA RmdirRight ==
    ASSUME PathInv, MakeInv, Rmdir PROVE landed' = landed \/ \E w : Right(w) /\ landed' = landed \cup {w}
<1>1. app.stage = "rmdir" /\ app.stage \in Makes
  BY DEF Rmdir, Makes
<1>2. PICK o : o = Below(chain[2], "data")
  OBVIOUS
<1>3. CASE o \in Folders /\ IsEmpty(o)
  <2>1. PICK w : w = Removed(o)
    OBVIOUS
  <2>2. /\ w.what = "removed" /\ (w.quiet <=> Untouched)
        /\ w.obj = IF o = chain[3] THEN "made" ELSE o
    BY <2>1 DEF Removed
  <2>3. Untouched => ~MayTake(chain[2], chain[3]) /\ (quiet \/ still)
    BY <1>1, MakeParts DEF Untouched, Closes, MayPut, MayTake
  <2>4. Untouched => o = chain[3]
    BY <1>1, <1>2, <2>3, MakeParts DEF Looked
  <2>5. Right(w)
    BY <2>2, <2>4 DEF Right
  <2>6. landed' = landed \cup {w}
    BY <1>2, <1>3, <2>1 DEF Rmdir
  <2> QED  BY <2>5, <2>6
<1>4. CASE ~(o \in Folders /\ IsEmpty(o))
  BY <1>2, <1>4 DEF Rmdir
<1> QED  BY <1>3, <1>4

LEMMA LandsRight ==
    ASSUME PathInv, ActsInv, UseInv, MakeInv, OnlyTheProven, [Next]_vars PROVE OnlyTheProven'
<1>1. CASE landed' = landed
  BY <1>1 DEF OnlyTheProven
<1>2. CASE UNCHANGED vars \/ ToolOpens \/ OthersAct \/ OwnAct
  BY <1>1, <1>2 DEF vars, ToolOpens, OthersAct, OwnAct
<1>3. CASE \E w1, w2 : Right(w1) /\ Right(w2) /\ landed' = landed \cup {w1, w2}
  <2>1. PICK w1, w2 : Right(w1) /\ Right(w2) /\ landed' = landed \cup {w1, w2}
    BY <1>3
  <2>2. \A w \in landed' : Right(w)
    BY <2>1, AllRight
  <2> QED  BY <2>2 DEF OnlyTheProven, Right
<1>4. CASE Setup
  BY <1>1, <1>3, <1>4, SetupRight
<1>5. CASE WriteLock \/ Store \/ Rmdir
  <2>1. landed' = landed \/ \E w : Right(w) /\ landed' = landed \cup {w}
    BY <1>5, LockRight, StoreRight, RmdirRight
  <2>2. \A w : {w, w} = {w}
    OBVIOUS
  <2> QED  BY <1>1, <1>3, <2>1, <2>2
<1>6. CASE Launch \/ Walk \/ Check \/ Compare \/ CompareCache \/ Recheck \/ CheckFiles \/ CheckCache \/ Probe \/ OpenDb \/ HasMoved
  BY <1>1, <1>6 DEF Launch, Walk, Check, Compare, CompareCache, Recheck, CheckFiles, CheckCache, Probe, OpenDb, HasMoved
<1>7. CASE AskForLock \/ OpenCache \/ Mkdir \/ OpenMade \/ CheckMade \/ GiveUp \/ Look
  BY <1>1, <1>7 DEF AskForLock, OpenCache, Mkdir, OpenMade, CheckMade, GiveUp, Look
<1>8. ASSUME NEW p \in Programs, Migrates(p) \/ Kill(p) PROVE OnlyTheProven'
  BY <1>1, <1>8 DEF Migrates, ReadVersion, Begin, Commit, Kill
<1> QED  BY <1>2, <1>4, <1>5, <1>6, <1>7, <1>8 DEF Next, AppStep

LEMMA NotMakingNow == ASSUME app.stage \notin Makes PROVE MakeInv
BY DEF MakeInv, Makes

LEMMA OwnStarts == Init => ActsInv /\ UseInv /\ MakeInv /\ OnlyTheProven
<1> SUFFICES ASSUME Init PROVE ActsInv /\ UseInv /\ MakeInv /\ OnlyTheProven
  OBVIOUS
<1>1. PICK w \in Worlds : fact = [f \in Folders |->
           CASE f = "top" -> w[1] [] f = "up" -> w[2] [] f = "data" -> w[3]
             [] f \in {"up2", "bare"} -> [Closed EXCEPT !.who = "other"] [] OTHER -> Closed]
  BY DEF Init
<1>2. PICK goal \in {"use", "make"}, db \in {"db", "reborn"} :
           /\ app = App(goal, "off", 1, 1)
           /\ at = [s \in Slots |->
                  CASE s = <<"top", "up">> -> "up"
                    [] s = <<"up", "data">> -> IF goal = "use" THEN "data" ELSE "none"
                    [] s = <<"up2", "data">> -> "data2"
                    [] s = <<"data", "db">> -> db [] s = <<"data2", "db">> -> "copy"
                    [] s = <<"data", "thumbs">> -> "thumbs"
                    [] OTHER -> "none"]
  BY DEF Init
<1>3. app.goal = goal /\ app.stage = "off" /\ "off" \notin Uses /\ "off" \notin Makes
  BY <1>2 DEF App, Uses, Makes
<1>6. \A s \in Slots : at[s] = CASE s = <<"top", "up">> -> "up"
                    [] s = <<"up", "data">> -> IF goal = "use" THEN "data" ELSE "none"
                    [] s = <<"up2", "data">> -> "data2"
                    [] s = <<"data", "db">> -> db [] s = <<"data2", "db">> -> "copy"
                    [] s = <<"data", "thumbs">> -> "thumbs"
                    [] OTHER -> "none"
  BY <1>2
<1>9. SlotKinds
  <2> SUFFICES ASSUME NEW s \in Slots, s[2] \in {"wal", "lock"} PROVE at[s] = "none"
    BY DEF SlotKinds
  <2>1. PICK f, n : s = <<f, n>> /\ s[1] = f /\ s[2] = n
    BY DEF Slots
  <2> QED  BY <1>6, <2>1
<1>10. held \in [db : Standing, thumbs : Standing, sqlite : Standing, cache : Standing]
  BY DEF Init, NoHold, Standing
<1>11. own \in 0 .. MaxOwn /\ quiet = TRUE /\ still = TRUE
  <2>1. own = 0 \/ own = MaxOwn
    BY DEF Init
  <2> QED  BY <2>1, FolderAssumption DEF Init
<1>12. app.round = 1
  BY <1>2 DEF App
<1>13. ActsInv
  <2>1. AwayInv
    BY DEF Init, AwayInv
  <2> QED  BY <1>9, <1>10, <1>11, <1>12, <2>1 DEF ActsInv
<1>14. UseInv
  BY <1>3 DEF UseInv
<1>16. MakeInv
  BY <1>3, NotMakingNow
<1>17. OnlyTheProven
  BY DEF Init, OnlyTheProven
<1> QED  BY <1>13, <1>14, <1>16, <1>17

(* ------------------------------ the theorems --------------------------- *)
\* However many programs migrate at once and whoever is killed, the version
\* rows are those of the first migrations with their whole effects, an opened
\* program finds all it knows, and mended decisions stay mended (schema.rs).
THEOREM SchemaStaysWhole == Spec => []SchemaIsWhole
BY Invariance, WholeFromInv, PTL

\* Once admitted and while the user's own programs leave it alone, a path leads
\* to the folders that were checked and nobody else may put anything in the last
\* of them, whatever the folders were like and however often others try.
THEOREM PathStaysPut == Spec => []PathStands
BY Invariance, StandsFromInv, PTL

\* While the user's own programs act at most once, whenever that is, and however
\* often other accounts act and the app is killed, it writes no database but the
\* one it recorded and no cache but its own; in a round of checks no program of
\* the user disturbs, what is opened by name beside the database is the user's own
\* file; and what is removed is the folder opened after it was made, unless since
\* the admission a program of the user acted and another empty folder came to its
\* name in the instant before rmdir: by that program, or by an account it let in
\* (binding.rs, storage.rs, namespace.rs).
THEOREM OnlyTheProvenWritten == ASSUME MaxOwn <= 1 PROVE Spec => []OnlyTheProven
<1> DEFINE Inv == SchemaInv /\ PathInv /\ AppMigrates /\ ActsInv /\ UseInv /\ MakeInv /\ OnlyTheProven
<1>1. Init => Inv
  BY SchemaStarts, PathStarts, OwnStarts
<1>2. Inv /\ [Next]_vars => Inv'
  <2> SUFFICES ASSUME Inv, [Next]_vars PROVE Inv'
    OBVIOUS
  <2>1. SchemaInv' /\ PathInv' /\ AppMigrates'
    BY SchemaGoesOn, PathGoesOn, MigratingGoesOn
  <2>2. ActsInv' /\ UseInv' /\ MakeInv' /\ OnlyTheProven'
    BY ActsGoesOn, UseGoesOn, MakeGoesOn, LandsRight
  <2> QED  BY <2>1, <2>2
<1> QED  BY <1>1, <1>2, PTL DEF Spec

=============================================================================

-------------------------- MODULE QuarantineProofs --------------------------
(***************************************************************************)
(* For every unit, every number of strangers and every bound.  UnitMove    *)
(* keeps its types, holds nothing off the record, and implements           *)
(* EntryPromise.  EntryPurge: what a purge deleted is never offered for    *)
(* undo nor carried back in part, and what it closes as purged is gone,    *)
(* whatever else is done to the unit.                                      *)
(***************************************************************************)
EXTENDS EntryPurge, TLAPS

USE LastAssumption, BoundsAssumption, StrangersAssumption, NoneAssumption
    DEF Members, Objects

------------------------------------------------------------------------------
(* Names and renames.                                                        *)

\* The two names of a member are its own.
LEMMA NamesDiffer ==
    \A m, n \in Members :
        /\ Src(m) # Dst(n) /\ Src(m) # Away /\ Dst(m) # Away
        /\ Dst(m) = Dst(n) => m = n
        /\ Src(m) = Src(n) => m = n
        /\ Src(m) \in Places /\ Dst(m) \in Places
BY DEF Src, Dst, Away, Places, Names

\* A move goes from one name of a member to its other name.
LEMMA WaysDiffer ==
    ASSUME NEW m \in Members, TypeOK
    PROVE  /\ way = "forward" => From(m) = Src(m) /\ To(m) = Dst(m)
           /\ way = "back" => From(m) = Dst(m) /\ To(m) = Src(m)
           /\ From(m) \in Places \ {Away} /\ To(m) \in Places \ {Away}
BY NamesDiffer DEF From, To, TypeOK

\* A rename moves one object from one name to the other, which was free.
LEMMA RenameMovesOne ==
    ASSUME TypeOK, NEW a \in Places, NEW b \in Places, Rename(a, b)
    PROVE  \E o \in Objects :
              /\ at[o] = a /\ at'[o] = b /\ mover'[o] = "tool"
              /\ \A p \in Objects \ {o} : at'[p] = at[p] /\ mover'[p] = mover[p]
              /\ \A p \in Objects : at[p] # b
BY DEF Rename, TypeOK, Bears, Free

LEMMA RenameType ==
    ASSUME TypeOK, NEW a \in Places, NEW b \in Places, Rename(a, b)
    PROVE  /\ at' \in [Objects -> Places]
           /\ mover' \in [Objects -> {"nobody", "tool", "other"}]
           /\ UNCHANGED <<changed, path, late, handled, others>>
BY DEF Rename, TypeOK

LEMMA RenameOneName ==
    ASSUME TypeOK, OneUnderAName, NEW a \in Places, NEW b \in Places, Rename(a, b)
    PROVE  OneUnderAName'
BY RenameMovesOne DEF OneUnderAName

\* Only the object renamed can become or cease to be held.
LEMMA RenameHolds ==
    ASSUME TypeOK, OneUnderAName, NEW a \in Places \ {Away}, NEW b \in Places, Rename(a, b),
           NEW m \in Members
    PROVE  /\ Held(m)' => Held(m) \/ b = Dst(m)
           /\ Held(m)' /\ b # Dst(m) => a # Dst(m)
<1>1. m \in Objects
  OBVIOUS
<1>2. PICK o \in Objects :
              /\ at[o] = a /\ at'[o] = b /\ mover'[o] = "tool"
              /\ \A p \in Objects \ {o} : at'[p] = at[p] /\ mover'[p] = mover[p]
              /\ \A p \in Objects : at[p] # b
  BY RenameMovesOne
<1>3. CASE o = m
  BY <1>2, <1>3 DEF Held
<1>4. CASE o # m
  BY <1>1, <1>2, <1>4 DEF Held, OneUnderAName
<1> QED  BY <1>3, <1>4

------------------------------------------------------------------------------
(* Types.                                                                    *)

LEMMA InitTypeOK == Init => TypeOK
<1> SUFFICES ASSUME Init PROVE TypeOK
  OBVIOUS
<1>1. at \in [Objects -> Places]
  BY NamesDiffer DEF Init, Places, Away
<1>2. others \in 0 .. MaxOther /\ faults \in 0 .. MaxFaults
  BY DEF Init
<1>3. bad \in Refusal \cup {None} /\ pc \in Phases
  BY DEF Init, Phases
<1>4. /\ path \in [{"src", "dst"} -> BOOLEAN] /\ into \in [Members -> BOOLEAN]
      /\ mover \in [Objects -> {"nobody", "tool", "other"}]
      /\ look \in [Members -> {"record", "moved"}]
  BY DEF Init
<1> QED  BY <1>1, <1>2, <1>3, <1>4 DEF Init, TypeOK

LEMMA NextTypeOK == TypeOK /\ [Next]_vars => TypeOK'
<1> SUFFICES ASSUME TypeOK, [Next]_vars PROVE TypeOK'
  OBVIOUS
<1> USE DEF Phases, world, journal, steps, Works, Fault
<1>1. CASE Begin
  BY <1>1 DEF TypeOK, Begin, StartUnit
<1>2. CASE Undo \/ Reconcile
  <2>1. Taken \subseteq Members
    BY DEF Taken
  <2> QED  BY <1>2, <2>1 DEF TypeOK, Undo, Reconcile, Recover, StartUnit
<1>3. CASE Bind
  BY <1>3 DEF TypeOK, Bind
<1>4. ASSUME NEW m \in Members, Check(m) PROVE TypeOK'
  <2>1. [member |-> m, object |-> m, back |-> TRUE] \in Refusal
    BY DEF Refusal
  <2>2. into' \in [Members -> BOOLEAN]
    BY <1>4 DEF TypeOK, Check, DestinationFolder
  <2>3. bad' \in Refusal \cup {None} /\ moved' \in BOOLEAN
    BY <1>4, <2>1 DEF TypeOK, Check, DestinationFolder
  <2>4. faults' \in 0 .. MaxFaults /\ pc' \in Phases
    BY <1>4 DEF TypeOK, Check, DestinationFolder
  <2> QED  BY <1>4, <2>2, <2>3, <2>4 DEF TypeOK, Check, DestinationFolder
<1>5. ASSUME NEW m \in Members, RenameMember(m) PROVE TypeOK'
  <2>1. CASE Rename(From(m), Goal(m))
    <3>1. /\ at' \in [Objects -> Places]
          /\ mover' \in [Objects -> {"nobody", "tool", "other"}]
          /\ UNCHANGED <<changed, path, late, handled, others>>
      BY <2>1, WaysDiffer, RenameType DEF Goal
    <3> QED  BY <1>5, <3>1 DEF TypeOK, RenameMember
  <2>2. CASE UNCHANGED world
    BY <1>5, <2>2 DEF TypeOK, RenameMember
  <2> QED  BY <1>5, <2>1, <2>2 DEF RenameMember
<1>6. ASSUME NEW m \in Members, Verify(m) PROVE TypeOK'
  <2>1. bad' \in Refusal \cup {None}
    <3>1. ASSUME NEW found \in Objects \cup {None}
          PROVE  [member |-> m, object |-> found, back |-> FALSE] \in Refusal
      BY DEF Refusal
    <3> QED  BY <1>6, <3>1 DEF TypeOK, Verify
  <2>2. arrived' \subseteq Members /\ pc' \in Phases
    BY <1>6 DEF TypeOK, Verify
  <2>3. moved' \in BOOLEAN
    BY <1>6 DEF TypeOK, Verify
  <2> QED  BY <1>6, <2>1, <2>2, <2>3 DEF TypeOK, Verify
<1>7. ASSUME NEW m \in Members, Return(m) PROVE TypeOK'
  <2>1. CASE Rename(To(m), From(m)) /\ Works /\ bad' = [bad EXCEPT !.back = TRUE] /\ UNCHANGED kept
    <3>1. bad' \in Refusal \cup {None}
      <4>1. bad \in Refusal
        BY <1>7 DEF TypeOK, Return
      <4> QED  BY <2>1, <4>1 DEF Refusal
    <3>2. /\ at' \in [Objects -> Places]
          /\ mover' \in [Objects -> {"nobody", "tool", "other"}]
          /\ UNCHANGED <<changed, path, late, handled, others>>
      BY <2>1, WaysDiffer, RenameType
    <3> QED  BY <1>7, <2>1, <3>1, <3>2 DEF TypeOK, Return
  <2>2. CASE kept' = (bad.object = m) /\ UNCHANGED <<world, bad>>
    BY <1>7, <2>2 DEF TypeOK, Return
  <2> QED  BY <1>7, <2>1, <2>2 DEF Return
<1>8. CASE GiveBack
  BY <1>8 DEF TypeOK, GiveBack, NowTried
<1>9. ASSUME NEW m \in Members, PutBack(m) PROVE TypeOK'
  <2>1. CASE Works /\ Rename(To(m), From(m)) /\ returned' = returned \cup {m} /\ UNCHANGED kept
    <3>1. /\ at' \in [Objects -> Places]
          /\ mover' \in [Objects -> {"nobody", "tool", "other"}]
          /\ UNCHANGED <<changed, path, late, handled, others>>
      BY <2>1, WaysDiffer, RenameType
    <3> QED  BY <1>9, <2>1, <3>1 DEF TypeOK, PutBack
  <2>2. CASE kept' = TRUE /\ UNCHANGED <<world, returned>>
    <3>1. tried' \subseteq Members /\ faults' \in 0 .. MaxFaults
      BY <1>9 DEF TypeOK, PutBack
    <3> QED  BY <1>9, <2>2, <3>1 DEF TypeOK, PutBack
  <2> QED  BY <1>9, <2>1, <2>2 DEF PutBack
<1>10. ASSUME NEW m \in Members, Ask(m) PROVE TypeOK'
  BY <1>10 DEF TypeOK, Ask
<1>11. CASE Record
  BY <1>11 DEF TypeOK, Record, IndexFirst
<1>12. CASE Index
  BY <1>12 DEF TypeOK, Index, InQuarantine
<1>13. CASE Close
  <2>1. /\ row' \in {"none", "pending", "done", "failed", "undone"}
        /\ run' \in {"on", "stopped"} /\ faults' \in 0 .. MaxFaults
    BY <1>13 DEF TypeOK, Close, Status
  <2>2. located' \subseteq Members
    <3>1. Touched \subseteq Members
      <4>1. bad # None => bad.member \in Members
        BY DEF TypeOK, Refusal
      <4> QED  BY <4>1 DEF TypeOK, Touched
    <3>2. ToldHeld \subseteq Members
      BY <3>1 DEF TypeOK, ToldHeld, Told
    <3> QED  BY <1>13, <3>2 DEF TypeOK, Close
  <2>3. look' \in [Members -> {"record", "moved"}]
    BY <1>13 DEF TypeOK, Close
  <2> QED  BY <1>13, <2>1, <2>2, <2>3 DEF TypeOK, Close
<1>14. CASE Crash
  BY <1>14 DEF TypeOK, Crash
<1>15. CASE OtherProgram
  <2>1. UNCHANGED <<into, faults, journal, pc, way, steps, run>>
    BY <1>15 DEF OtherProgram
  <2>2. ASSUME NEW o \in Objects, NEW place \in Places, OtherMoves(o, place)
        PROVE  TypeOK'
    BY <2>1, <2>2 DEF TypeOK, OtherMoves, Other
  <2>3. ASSUME NEW m \in Members, OtherChanges(m)
        PROVE  TypeOK'
    BY <2>1, <2>3 DEF TypeOK, OtherChanges, Other
  <2>4. ASSUME NEW f \in {"src", "dst"}, OtherMovesFolder(f)
        PROVE  TypeOK'
    <3>1. path' \in [{"src", "dst"} -> BOOLEAN]
      BY <2>4 DEF TypeOK, OtherMovesFolder
    <3> QED  BY <2>1, <2>4, <3>1 DEF TypeOK, OtherMovesFolder, Other
  <2> QED  BY <1>15, <2>2, <2>3, <2>4 DEF OtherProgram
<1>16. CASE UNCHANGED vars
  BY <1>16 DEF TypeOK, vars
<1> QED
  BY <1>1, <1>2, <1>3, <1>4, <1>5, <1>6, <1>7, <1>8, <1>9, <1>10, <1>11, <1>12, <1>13,
     <1>14, <1>15, <1>16 DEF Next, Tool

\* Every variable keeps its type, for every unit and every bound.
THEOREM TypeCorrect == Spec => []TypeOK
BY InitTypeOK, NextTypeOK, PTL DEF Spec
------------------------------------------------------------------------------
(* Who is held.                                                              *)

LEMMA HeldSame ==
    ASSUME UNCHANGED <<at, mover>>
    PROVE  \A m \in Members : Held(m)' = Held(m)
BY DEF Held

LEMMA NamesSame ==
    ASSUME UNCHANGED at, OneUnderAName
    PROVE  OneUnderAName'
BY DEF OneUnderAName

\* A member under its source name, or under nobody's, is not held.
LEMMA HomeNotHeld ==
    \A m \in Members : at[m] = Src(m) => ~Held(m)
BY NamesDiffer DEF Held

\* There is one next member.
LEMMA NextIsOne ==
    ASSUME TypeOK, NEW m \in Members, NEW n \in Members, IsNext(m), IsNext(n)
    PROVE  m = n
BY DEF IsNext, TypeOK

LEMMA InitIndInv == Init => IndInv
<1> SUFFICES ASSUME Init PROVE IndInv
  OBVIOUS
<1>1. TypeOK
  BY InitTypeOK
<1>2. OneUnderAName
  BY NamesDiffer DEF Init, OneUnderAName
<1>3. \A m \in Members : ~Held(m)
  BY DEF Init, Held
<1> QED
  BY <1>1, <1>2, <1>3
     DEF Init, IndInv, RowOfOperation, IndexIsExplained, Steps, WhoIsHeld, HeldIsOnRecord

LEMMA BeginIndInv ==
    ASSUME IndInv, TypeOK', Begin
    PROVE  IndInv'
<1>1. \A m \in Members : ~Held(m)'
  BY HeldSame DEF Begin, world, IndInv, HeldIsOnRecord
<1>2. OneUnderAName'
  BY NamesSame DEF Begin, world, IndInv
<1>3. RowOfOperation' /\ Steps'
  BY DEF Begin, StartUnit, IndInv, RowOfOperation, IndexIsExplained, Steps
<1> QED  BY <1>1, <1>2, <1>3 DEF IndInv, WhoIsHeld, HeldForward, HeldBack, HeldIsOnRecord

LEMMA RecoverIndInv ==
    ASSUME IndInv, TypeOK', Undo \/ Reconcile
    PROVE  IndInv'
<1> USE DEF Undo, Reconcile, Recover
<1>1. \A m \in Members : Held(m)' = Held(m)
  BY HeldSame
<1>2. OneUnderAName'
  BY NamesSame DEF IndInv
<1>3. \A m \in Members : m \notin Taken => ~Held(m)
  BY HomeNotHeld DEF Accounted, Taken, IsHome, HomeHere, Proven, Bears
<1>4. RowOfOperation' /\ Steps'
  BY DEF StartUnit, journal, IndInv, RowOfOperation, IndexIsExplained, Steps
<1>5. WhoIsHeld'
  BY <1>1, <1>3 DEF StartUnit, WhoIsHeld, HeldBack
<1>6. HeldIsOnRecord'
  BY <1>1 DEF IndInv, HeldIsOnRecord, journal
<1> QED  BY <1>2, <1>4, <1>5, <1>6 DEF IndInv

LEMMA BindIndInv ==
    ASSUME IndInv, TypeOK', Bind
    PROVE  IndInv'
<1> USE DEF Bind, world, journal, steps
<1>1. \A m \in Members : Held(m)' = Held(m)
  BY HeldSame
<1>2. OneUnderAName'
  BY NamesSame DEF IndInv
<1>3. RowOfOperation' /\ Steps'
  BY DEF IndInv, RowOfOperation, IndexIsExplained, Steps
<1>4. WhoIsHeld'
  BY <1>1 DEF IndInv, WhoIsHeld, HeldForward, HeldBack, Steps
<1>5. HeldIsOnRecord'
  BY <1>1 DEF IndInv, HeldIsOnRecord
<1> QED  BY <1>2, <1>3, <1>4, <1>5 DEF IndInv

LEMMA CheckIndInv ==
    ASSUME IndInv, TypeOK', NEW k \in Members, Check(k)
    PROVE  IndInv'
<1> USE DEF Check, DestinationFolder, world, journal
<1>1. \A m \in Members : Held(m)' = Held(m)
  BY HeldSame
<1>2. OneUnderAName'
  BY NamesSame DEF IndInv
<1>3. RowOfOperation' /\ Steps'
  BY DEF IndInv, RowOfOperation, IndexIsExplained, Steps
<1>4. WhoIsHeld'
  BY <1>1 DEF IndInv, WhoIsHeld, HeldForward, HeldBack, Steps
<1>5. HeldIsOnRecord'
  BY <1>1 DEF IndInv, HeldIsOnRecord
<1> QED  BY <1>2, <1>3, <1>4, <1>5 DEF IndInv

LEMMA RenameMemberIndInv ==
    ASSUME IndInv, TypeOK', NEW k \in Members, RenameMember(k)
    PROVE  IndInv'
<1> USE DEF journal, steps, world
<1> TypeOK /\ way \in {"forward", "back"}
  BY DEF IndInv, TypeOK
<1>1. CASE Rename(From(k), To(k)) /\ pc' = "verify"
  <2>1. OneUnderAName'
    BY <1>1, WaysDiffer, RenameOneName DEF IndInv
  <2>2. ASSUME NEW m \in Members, Held(m)'
        PROVE  Held(m) \/ (way = "forward" /\ m = k)
    BY <1>1, <2>2, WaysDiffer, RenameHolds, NamesDiffer DEF IndInv
  <2>3. UNCHANGED <<row, index, way, unit, arrived, tried, bad, kept>> /\ pc = "rename" /\ IsNext(k)
    BY DEF RenameMember
  <2>4. RowOfOperation' /\ Steps'
    BY <1>1, <2>3 DEF IndInv, RowOfOperation, IndexIsExplained, Steps
  <2>5. IsNext(k)'
    BY <2>3 DEF IsNext
  <2>6. WhoIsHeld'
    BY <1>1, <2>2, <2>3, <2>5 DEF IndInv, WhoIsHeld, HeldForward, HeldBack
  <2>7. HeldIsOnRecord'
    BY <2>3 DEF IndInv, HeldIsOnRecord, RowOfOperation
  <2> QED  BY <2>1, <2>4, <2>6, <2>7 DEF IndInv
<1>2. CASE UNCHANGED world /\ pc' = "giveback"
  <2>1. \A m \in Members : Held(m)' = Held(m)
    BY <1>2, HeldSame
  <2>2. OneUnderAName'
    BY <1>2, NamesSame DEF IndInv
  <2>3. RowOfOperation' /\ Steps'
    BY <1>2 DEF RenameMember, IndInv, RowOfOperation, IndexIsExplained, Steps
  <2>4. WhoIsHeld'
    BY <1>2, <2>1 DEF RenameMember, IndInv, WhoIsHeld, HeldForward, HeldBack, Steps
  <2>5. HeldIsOnRecord'
    BY <2>1 DEF RenameMember, IndInv, HeldIsOnRecord
  <2> QED  BY <2>2, <2>3, <2>4, <2>5 DEF IndInv
<1> QED  BY <1>1, <1>2 DEF RenameMember, Goal
LEMMA VerifyIndInv ==
    ASSUME IndInv, TypeOK', NEW k \in Members, Verify(k)
    PROVE  IndInv'
<1> USE DEF Verify, world, journal
<1> TypeOK /\ way \in {"forward", "back"}
  BY DEF IndInv, TypeOK
<1>1. \A m \in Members : Held(m)' = Held(m)
  BY HeldSame
<1>2. OneUnderAName'
  BY NamesSame DEF IndInv
<1>3. HeldIsOnRecord'
  BY <1>1 DEF IndInv, HeldIsOnRecord
<1>4. CASE Proven(k, To(k)) /\ FromLeads(k) /\ ToLeads(k)
  <2>1. way = "back" => ~Held(k)
    BY <1>4, WaysDiffer, HomeNotHeld DEF Proven, Bears
  <2>2. RowOfOperation' /\ Steps'
    BY <1>4 DEF IndInv, RowOfOperation, IndexIsExplained, Steps, IsNext
  <2>3. \A m \in Members : IsNext(m) => m = k
    BY NextIsOne
  <2>4. WhoIsHeld'
    BY <1>1, <1>4, <2>1, <2>3 DEF IndInv, WhoIsHeld, HeldForward, HeldBack
  <2> QED  BY <1>2, <1>3, <2>2, <2>4 DEF IndInv
<1>5. CASE ~(Proven(k, To(k)) /\ FromLeads(k) /\ ToLeads(k))
  <2>1. PICK found \in Objects \cup {None} :
           /\ IF found = None THEN Free(To(k)) ELSE Bears(found, To(k))
           /\ bad' = [member |-> k, object |-> found, back |-> FALSE]
    BY <1>5
  <2>2. bad' \in Refusal /\ bad'.member = k /\ bad'.object = found
    BY <2>1 DEF Refusal
  <2>3. way = "forward" /\ found # k => ~Held(k)
    BY <2>1, WaysDiffer DEF IndInv, OneUnderAName, Held, Free, Bears
  <2>4. UNCHANGED <<row, index, way, unit, arrived, tried, kept>> /\ pc' = "return"
        /\ pc = "verify" /\ IsNext(k)
    BY <1>5
  <2>5. \A m \in Members : IsNext(m)' = IsNext(m)
    BY <2>4 DEF IsNext
  <2> QED  BY <1>1, <1>2, <1>3, <2>2, <2>3, <2>4, <2>5
              DEF IndInv, RowOfOperation, IndexIsExplained, Steps, WhoIsHeld, HeldForward, HeldBack
<1> QED  BY <1>4, <1>5


LEMMA GiveBackIndInv ==
    ASSUME IndInv, TypeOK', GiveBack
    PROVE  IndInv'
<1> USE DEF GiveBack, world, journal, Works, NowTried
<1>1. \A m \in Members : Held(m)' = Held(m)
  BY HeldSame
<1>2. OneUnderAName'
  BY NamesSame DEF IndInv
<1>3. RowOfOperation' /\ Steps'
  BY <1>1 DEF IndInv, RowOfOperation, IndexIsExplained, Steps
<1>4. WhoIsHeld'
  BY <1>1 DEF IndInv, WhoIsHeld, HeldForward, HeldBack, Steps, IsNewest
<1>5. HeldIsOnRecord'
  BY <1>1 DEF IndInv, HeldIsOnRecord
<1> QED  BY <1>2, <1>3, <1>4, <1>5 DEF IndInv

LEMMA AskIndInv ==
    ASSUME IndInv, TypeOK', NEW k \in Members, Ask(k)
    PROVE  IndInv'
<1> USE DEF Ask, journal
<1>1. \A m \in Members : Held(m)' = Held(m)
  BY HeldSame
<1>2. OneUnderAName'
  BY NamesSame DEF IndInv
<1>3. RowOfOperation' /\ Steps'
  BY <1>1 DEF IndInv, RowOfOperation, IndexIsExplained, Steps
<1>4. WhoIsHeld'
  BY <1>1 DEF IndInv, WhoIsHeld, HeldForward, HeldBack, Steps
<1>5. HeldIsOnRecord'
  BY <1>1 DEF IndInv, HeldIsOnRecord
<1> QED  BY <1>2, <1>3, <1>4, <1>5 DEF IndInv

LEMMA RecordIndInv ==
    ASSUME IndInv, TypeOK', Record
    PROVE  IndInv'
<1> USE DEF Record, world, steps, IndexFirst
<1>1. \A m \in Members : Held(m)' = Held(m)
  BY HeldSame
<1>2. OneUnderAName'
  BY NamesSame DEF IndInv
<1>3. RowOfOperation' /\ Steps'
  BY <1>1 DEF IndInv, RowOfOperation, IndexIsExplained, Steps
<1>4. WhoIsHeld'
  BY <1>1 DEF IndInv, WhoIsHeld, HeldForward, HeldBack, Steps
<1>5. HeldIsOnRecord'
  BY <1>1 DEF IndInv, HeldIsOnRecord
<1> QED  BY <1>2, <1>3, <1>4, <1>5 DEF IndInv

LEMMA IndexIndInv ==
    ASSUME IndInv, TypeOK', Index
    PROVE  IndInv'
<1> USE DEF Index, world, steps, InQuarantine
<1>1. \A m \in Members : Held(m)' = Held(m)
  BY HeldSame
<1>2. OneUnderAName'
  BY NamesSame DEF IndInv
<1>3. RowOfOperation' /\ Steps'
  BY <1>1 DEF IndInv, RowOfOperation, IndexIsExplained, Steps
<1>4. WhoIsHeld'
  BY <1>1 DEF IndInv, WhoIsHeld, HeldForward, HeldBack, Steps
<1>5. HeldIsOnRecord'
  BY <1>1 DEF IndInv, TypeOK, HeldIsOnRecord, RowOfOperation, Steps, WhoIsHeld,
              HeldForward, HeldBack
<1> QED  BY <1>2, <1>3, <1>4, <1>5 DEF IndInv

LEMMA CloseIndInv ==
    ASSUME IndInv, TypeOK', Close
    PROVE  IndInv'
<1> USE DEF Close, world, steps, Status
<1>1. \A m \in Members : Held(m)' = Held(m)
  BY HeldSame
<1>2. OneUnderAName'
  BY NamesSame DEF IndInv
<1>3. RowOfOperation' /\ Steps'
  BY <1>1 DEF IndInv, RowOfOperation, IndexIsExplained, Steps
<1>4. WhoIsHeld'
  BY <1>1 DEF IndInv, WhoIsHeld, HeldForward, HeldBack, Steps
<1>5. HeldIsOnRecord'
  BY <1>1 DEF IndInv, TypeOK, HeldIsOnRecord, RowOfOperation, Steps, WhoIsHeld,
              HeldForward, HeldBack
<1> QED  BY <1>2, <1>3, <1>4, <1>5 DEF IndInv

LEMMA CrashIndInv ==
    ASSUME IndInv, TypeOK', Crash
    PROVE  IndInv'
<1> USE DEF Crash, world, steps, journal
<1>1. \A m \in Members : Held(m)' = Held(m)
  BY HeldSame
<1>2. OneUnderAName'
  BY NamesSame DEF IndInv
<1>3. RowOfOperation' /\ Steps'
  BY <1>1 DEF IndInv, RowOfOperation, IndexIsExplained, Steps
<1>4. WhoIsHeld'
  BY <1>1 DEF IndInv, WhoIsHeld, HeldForward, HeldBack, Steps
<1>5. HeldIsOnRecord'
  BY <1>1 DEF IndInv, HeldIsOnRecord
<1> QED  BY <1>2, <1>3, <1>4, <1>5 DEF IndInv
\* Put back by name: whoever bore the later name left it.
LEMMA PutBackHolds ==
    ASSUME IndInv, NEW k \in Members, Rename(To(k), From(k)), NEW m \in Members, Held(m)'
    PROVE  /\ Held(m) \/ (way = "back" /\ m = k)
           /\ way = "forward" => m # k
<1> TypeOK /\ way \in {"forward", "back"}
  BY DEF IndInv, TypeOK
<1> QED  BY WaysDiffer, RenameHolds, NamesDiffer DEF IndInv

LEMMA ReturnIndInv ==
    ASSUME IndInv, TypeOK', NEW k \in Members, Return(k)
    PROVE  IndInv'
<1> USE DEF journal, steps, world
<1> TypeOK /\ way \in {"forward", "back"}
  BY DEF IndInv, TypeOK
<1>1. /\ UNCHANGED <<row, index, way, unit, arrived, tried>>
      /\ pc = "return" /\ pc' = "giveback" /\ bad.member = k
  BY DEF Return
<1>2. IsNext(k) /\ tried = {} /\ (way = "forward" /\ bad.object # k => ~Held(k))
      /\ k \in unit
  BY <1>1 DEF IndInv, Steps, IsNext
<1>3. RowOfOperation' /\ Steps'
  BY <1>1 DEF IndInv, RowOfOperation, IndexIsExplained, Steps
<1>4. CASE Rename(To(k), From(k))
  <2>1. OneUnderAName'
    BY <1>4, WaysDiffer, RenameOneName DEF IndInv
  <2>2. \A m \in Members : IsNext(m) => m = k
    BY <1>2, NextIsOne
  <2>3. WhoIsHeld'
    BY <1>1, <1>2, <1>4, <2>2, PutBackHolds DEF IndInv, WhoIsHeld, HeldForward, HeldBack
  <2>4. HeldIsOnRecord'
    BY <1>1 DEF IndInv, HeldIsOnRecord, RowOfOperation
  <2> QED  BY <1>3, <2>1, <2>3, <2>4 DEF IndInv
<1>5. CASE kept' = (bad.object = k) /\ UNCHANGED <<world, bad>>
  <2>1. \A m \in Members : Held(m)' = Held(m)
    BY <1>5, HeldSame
  <2>2. OneUnderAName'
    BY <1>5, NamesSame DEF IndInv
  <2>3. \A m \in Members : IsNext(m) => m = k
    BY <1>2, NextIsOne
  <2>4. WhoIsHeld'
    BY <1>1, <1>2, <1>5, <2>1, <2>3 DEF IndInv, WhoIsHeld, HeldForward, HeldBack
  <2>5. HeldIsOnRecord'
    BY <1>1, <2>1 DEF IndInv, HeldIsOnRecord
  <2> QED  BY <1>3, <2>2, <2>4, <2>5 DEF IndInv
<1> QED  BY <1>1, <1>4, <1>5 DEF Return

LEMMA PutBackIndInv ==
    ASSUME IndInv, TypeOK', NEW k \in Members, PutBack(k)
    PROVE  IndInv'
<1> USE DEF journal, steps, world
<1> TypeOK /\ way \in {"forward", "back"}
  BY DEF IndInv, TypeOK
<1>1. /\ UNCHANGED <<row, index, way, unit, arrived>>
      /\ tried' = tried \cup {k} /\ k \in arrived
      /\ pc = "putback" /\ pc' = "giveback"
  BY DEF PutBack, IsNewest
<1>2. RowOfOperation' /\ Steps'
  BY <1>1 DEF IndInv, RowOfOperation, IndexIsExplained, Steps
<1>3. CASE Rename(To(k), From(k)) /\ UNCHANGED kept
  <2>1. OneUnderAName'
    BY <1>3, WaysDiffer, RenameOneName DEF IndInv
  <2>2. k \in unit
    BY <1>1 DEF IndInv, Steps
  <2>3. WhoIsHeld'
    BY <1>1, <1>3, <2>2, PutBackHolds DEF IndInv, WhoIsHeld, HeldForward, HeldBack
  <2>4. HeldIsOnRecord'
    BY <1>1 DEF IndInv, HeldIsOnRecord, RowOfOperation
  <2> QED  BY <1>2, <2>1, <2>3, <2>4 DEF IndInv
<1>4. CASE kept' = TRUE /\ UNCHANGED world
  <2>1. \A m \in Members : Held(m)' = Held(m)
    BY <1>4, HeldSame
  <2>2. OneUnderAName'
    BY <1>4, NamesSame DEF IndInv
  <2>3. WhoIsHeld'
    BY <1>1, <1>4, <2>1 DEF IndInv, WhoIsHeld, HeldForward, HeldBack
  <2>4. HeldIsOnRecord'
    BY <1>1, <2>1 DEF IndInv, HeldIsOnRecord
  <2> QED  BY <1>2, <2>2, <2>3, <2>4 DEF IndInv
<1> QED  BY <1>3, <1>4 DEF PutBack

LEMMA OtherProgramIndInv ==
    ASSUME IndInv, TypeOK', OtherProgram
    PROVE  IndInv'
<1> USE DEF journal, steps
<1> TypeOK
  BY DEF IndInv
<1>1. UNCHANGED <<journal, pc, way, steps>>
  BY DEF OtherProgram
<1>2. OneUnderAName' /\ \A m \in Members : Held(m)' => Held(m)
  <2>1. CASE UNCHANGED <<at, mover>>
    BY <2>1, HeldSame, NamesSame DEF IndInv
  <2>2. ASSUME NEW o \in Objects, NEW place \in Places, OtherMoves(o, place)
        PROVE  OneUnderAName' /\ \A m \in Members : Held(m)' => Held(m)
    <3>1. /\ at' = [at EXCEPT ![o] = place] /\ mover' = [mover EXCEPT ![o] = "other"]
          /\ place = Away \/ Free(place)
      BY <2>2 DEF OtherMoves
    <3>2. OneUnderAName'
      BY <3>1 DEF IndInv, OneUnderAName, TypeOK, Free
    <3>3. \A m \in Members : Held(m)' => Held(m)
      BY <3>1 DEF Held, TypeOK
    <3> QED  BY <3>2, <3>3
  <2> QED  BY <2>1, <2>2 DEF OtherProgram, OtherChanges, OtherMovesFolder
<1>3. \A m \in Members : IsNext(m)' = IsNext(m)
  BY <1>1 DEF IsNext
<1>4. RowOfOperation' /\ Steps'
  BY <1>1, <1>2, <1>3 DEF IndInv, RowOfOperation, IndexIsExplained, Steps, TypeOK, Refusal
<1>5. WhoIsHeld'
  BY <1>1, <1>2, <1>3 DEF IndInv, WhoIsHeld, HeldForward, HeldBack
<1>6. HeldIsOnRecord'
  BY <1>1, <1>2 DEF IndInv, HeldIsOnRecord
<1> QED  BY <1>2, <1>4, <1>5, <1>6 DEF IndInv

LEMMA StutterIndInv ==
    ASSUME IndInv, TypeOK', UNCHANGED vars
    PROVE  IndInv'
<1> USE DEF vars, world, journal, steps
<1>1. \A m \in Members : Held(m)' = Held(m) /\ IsNext(m)' = IsNext(m)
  BY HeldSame DEF IsNext
<1>2. OneUnderAName'
  BY NamesSame DEF IndInv
<1>3. RowOfOperation' /\ Steps'
  BY <1>1 DEF IndInv, RowOfOperation, IndexIsExplained, Steps, Refusal
<1>4. WhoIsHeld' /\ HeldIsOnRecord'
  BY <1>1 DEF IndInv, WhoIsHeld, HeldForward, HeldBack, HeldIsOnRecord
<1> QED  BY <1>2, <1>3, <1>4 DEF IndInv

LEMMA NextIndInv == IndInv /\ [Next]_vars => IndInv'
<1> SUFFICES ASSUME IndInv, [Next]_vars PROVE IndInv'
  OBVIOUS
<1>1. TypeOK'
  BY NextTypeOK DEF IndInv
<1>2. CASE Tool
  BY <1>1, <1>2, BindIndInv, CheckIndInv, RenameMemberIndInv, VerifyIndInv, ReturnIndInv,
     GiveBackIndInv, PutBackIndInv, AskIndInv, RecordIndInv, IndexIndInv, CloseIndInv
     DEF Tool
<1>3. CASE UNCHANGED vars
  BY <1>1, <1>3, StutterIndInv
<1> QED  BY <1>1, <1>2, <1>3, BeginIndInv, RecoverIndInv, CrashIndInv, OtherProgramIndInv DEF Next

\* The invariant the rest follows from, for every unit and every bound.
THEOREM Invariance == Spec => []IndInv
BY InitIndInv, NextIndInv, PTL DEF Spec

\* Whatever is refused, killed or moved by another program in between, what the
\* tool put into quarantine is on an open or a done row.
THEOREM HeldStaysOnRecord == Spec => []HeldIsOnRecord
<1>1. IndInv => HeldIsOnRecord
  BY DEF IndInv
<1> QED  BY Invariance, <1>1, PTL

\* The index hides a photograph only while a done row explains it.
THEOREM IndexStaysExplained == Spec => []IndexIsExplained
<1>1. IndInv => IndexIsExplained
  BY DEF IndInv, RowOfOperation
<1> QED  BY Invariance, <1>1, PTL
------------------------------------------------------------------------------
(* UnitMove implements EntryPromise.                                         *)

HeldNow == {m \in Members : Held(m)}

LEMMA InitPromise == Init => Promise!Init
BY DEF Init, Promise!Init, Held

\* A step that changes who is held, and neither the row nor the index.
LEMMA HeldStep ==
    ASSUME UNCHANGED <<row, index>>, NEW o \in Objects,
           \A m \in Members \ {o} : Held(m)' = Held(m),
           (o \in Members /\ Held(o)') => Held(o) \/ row \in {"pending", "done"}
    PROVE  [Promise!Next]_Promise!vars
<1> USE DEF Promise!Next, Promise!vars
<1>1. CASE o \in Members /\ Held(o)' /\ row \in {"pending", "done"}
  <2>1. HeldNow' = HeldNow \cup {o}
    BY <1>1 DEF HeldNow
  <2> QED  BY <1>1, <2>1 DEF Promise!Take, HeldNow
<1>2. CASE o \in Members /\ ~Held(o)'
  <2>1. HeldNow' = HeldNow \ {o}
    BY <1>2 DEF HeldNow
  <2> QED  BY <1>2, <2>1 DEF Promise!Release, HeldNow
<1>3. CASE o \notin Members \/ (Held(o)' /\ Held(o))
  <2>1. HeldNow' = HeldNow
    BY <1>3 DEF HeldNow
  <2> QED  BY <2>1 DEF HeldNow
<1> QED  BY <1>1, <1>2, <1>3

\* A rename by the tool changes who is held by one member at most.
LEMMA RenamePromise ==
    ASSUME IndInv, NEW a \in Places, NEW b \in Places, Rename(a, b),
           pc # "idle", UNCHANGED <<row, index>>
    PROVE  [Promise!Next]_Promise!vars
<1> TypeOK
  BY DEF IndInv
<1>1. PICK o \in Objects :
              /\ at[o] = a /\ at'[o] = b /\ mover'[o] = "tool"
              /\ \A p \in Objects \ {o} : at'[p] = at[p] /\ mover'[p] = mover[p]
              /\ \A p \in Objects : at[p] # b
  BY RenameMovesOne
<1>2. \A m \in Members \ {o} : Held(m)' = Held(m)
  BY <1>1 DEF Held
<1>3. row \in {"pending", "done"}
  BY DEF IndInv, RowOfOperation
<1> QED  BY <1>2, <1>3, HeldStep

\* Nothing of what the promise speaks of changes.
LEMMA SamePromise ==
    ASSUME UNCHANGED <<row, index, at, mover>>
    PROVE  [Promise!Next]_Promise!vars
BY HeldSame DEF Promise!vars

\* When the record of a unit walked back is written, nothing of it is held; nor
\* when the row of a refused unit is closed.
LEMMA NothingHeldAtRecord ==
    ASSUME IndInv, way = "back", pc \in {"record", "index"}
    PROVE  \A m \in Members : ~Held(m)
BY DEF IndInv, WhoIsHeld, HeldBack, Steps

LEMMA NothingHeldAtClose ==
    ASSUME IndInv, way = "forward", pc = "close", ~kept
    PROVE  \A m \in Members : ~Held(m)
BY DEF IndInv, WhoIsHeld, HeldForward

LEMMA NextPromise == IndInv /\ [Next]_vars => [Promise!Next]_Promise!vars
<1> SUFFICES ASSUME IndInv, [Next]_vars PROVE [Promise!Next]_Promise!vars
  OBVIOUS
<1> USE DEF world, journal, steps
<1> TypeOK /\ way \in {"forward", "back"}
  BY DEF IndInv, TypeOK
<1>1. CASE Begin
  <2>1. HeldNow' = HeldNow
    BY <1>1, HeldSame DEF Begin, HeldNow
  <2> QED  BY <1>1, <2>1 DEF Begin, Promise!Next, Promise!Open, HeldNow
<1>2. CASE Undo \/ Reconcile
  BY <1>2, SamePromise DEF Undo, Reconcile, Recover
<1>3. CASE Bind \/ GiveBack \/ Crash \/ UNCHANGED vars
  BY <1>3, SamePromise DEF Bind, GiveBack, Crash, vars
<1>4. ASSUME NEW m \in Members, Check(m) \/ Verify(m) \/ Ask(m)
      PROVE  [Promise!Next]_Promise!vars
  BY <1>4, SamePromise DEF Check, DestinationFolder, Verify, Ask
<1>5. ASSUME NEW m \in Members, RenameMember(m)
      PROVE  [Promise!Next]_Promise!vars
  BY <1>5, WaysDiffer, RenamePromise, SamePromise DEF RenameMember, Goal
<1>6. ASSUME NEW m \in Members, Return(m) \/ PutBack(m)
      PROVE  [Promise!Next]_Promise!vars
  BY <1>6, WaysDiffer, RenamePromise, SamePromise DEF Return, PutBack
<1>7. CASE Record
  <2>1. HeldNow' = HeldNow
    BY <1>7, HeldSame DEF Record, HeldNow
  <2>2. way = "back" => HeldNow = {}
    BY <1>7, NothingHeldAtRecord DEF Record, HeldNow
  <2>3. row \in {"pending", "done"} /\ (way = "forward" => row = "pending")
    BY <1>7 DEF Record, IndInv, RowOfOperation
  <2> QED  BY <1>7, <2>1, <2>2, <2>3
              DEF Record, IndexFirst, Promise!Next, Promise!Finish, Promise!Show,
                  Promise!vars, HeldNow
<1>8. CASE Index
  <2>1. HeldNow' = HeldNow
    BY <1>8, HeldSame DEF Index, HeldNow
  <2>2. way = "back" => HeldNow = {} /\ index = "present"
    BY <1>8, NothingHeldAtRecord DEF Index, HeldNow, IndInv, RowOfOperation
  <2>3. row \in {"pending", "done"} /\ (way = "forward" => row = "done")
    BY <1>8 DEF Index, IndInv, RowOfOperation
  <2> QED  BY <1>8, <2>1, <2>2, <2>3
              DEF Index, InQuarantine, Promise!Next, Promise!Hide, Promise!Close,
                  Promise!vars, HeldNow
<1>9. CASE Close
  <2>1. HeldNow' = HeldNow
    BY <1>9, HeldSame DEF Close, HeldNow
  <2>2. CASE way = "forward" /\ ~kept
    <3>1. HeldNow = {} /\ row = "pending" /\ index = "present"
      BY <1>9, <2>2, NothingHeldAtClose
         DEF Close, HeldNow, IndInv, RowOfOperation, IndexIsExplained, TypeOK
    <3> QED  BY <1>9, <2>1, <2>2, <3>1
                DEF Close, Status, Promise!Next, Promise!Close, Promise!vars, HeldNow
  <2>3. CASE ~(way = "forward" /\ ~kept)
    BY <1>9, <2>1, <2>3 DEF Close, Status, Promise!vars, HeldNow
  <2> QED  BY <2>2, <2>3
<1>10. CASE OtherProgram
  <2>1. UNCHANGED <<row, index>>
    BY <1>10 DEF OtherProgram
  <2>2. ASSUME NEW o \in Objects, NEW place \in Places, OtherMoves(o, place)
        PROVE  [Promise!Next]_Promise!vars
    <3>1. at' = [at EXCEPT ![o] = place] /\ mover' = [mover EXCEPT ![o] = "other"]
      BY <2>2 DEF OtherMoves
    <3>2. /\ \A m \in Members \ {o} : Held(m)' = Held(m)
          /\ o \in Members => ~Held(o)'
      BY <3>1 DEF Held, TypeOK
    <3> QED  BY <2>1, <3>2, HeldStep
  <2>3. CASE UNCHANGED <<at, mover>>
    BY <2>1, <2>3, SamePromise
  <2> QED  BY <1>10, <2>2, <2>3 DEF OtherProgram, OtherChanges, OtherMovesFolder
<1> QED  BY <1>1, <1>2, <1>3, <1>4, <1>5, <1>6, <1>7, <1>8, <1>9, <1>10 DEF Next, Tool

\* A unit, however it is moved, keeps what its journal row promises.
THEOREM Implementation == Spec => KeepsPromise
BY InitPromise, NextPromise, Invariance, PTL DEF Spec, KeepsPromise, Promise!Spec
------------------------------------------------------------------------------
(* What the row says of the unit is so.                                      *)

\* A rename between the two names of one member takes no untouched member
\* anywhere else.
LEMMA RenameWhere ==
    ASSUME TypeOK, WhereItBelongs, NEW k \in Members,
           NEW a \in {Src(k), Dst(k)}, NEW b \in {Src(k), Dst(k)}, Rename(a, b)
    PROVE  WhereItBelongs'
<1>1. a \in Places /\ b \in Places
  BY NamesDiffer
<1>2. PICK o \in Objects :
              /\ at[o] = a /\ at'[o] = b /\ mover'[o] = "tool"
              /\ \A p \in Objects \ {o} : at'[p] = at[p] /\ mover'[p] = mover[p]
              /\ \A p \in Objects : at[p] # b
  BY <1>1, RenameMovesOne
<1>3. handled' = handled
  BY DEF Rename
<1>4. ASSUME NEW m \in Members, m \notin handled PROVE at'[m] \in {Src(m), Dst(m)}
  <2>1. at[m] \in {Src(m), Dst(m)}
    BY <1>4 DEF WhereItBelongs
  <2>2. CASE o = m
    <3>1. k = m
      BY <1>2, <2>1, <2>2, NamesDiffer
    <3> QED  BY <1>2, <2>2, <3>1
  <2>3. CASE o # m
    BY <1>2, <2>1, <2>3
  <2> QED  BY <2>2, <2>3
<1> QED  BY <1>3, <1>4 DEF WhereItBelongs

\* A rename of the way back, either direction, disturbs no member that was not
\* its business: what was home is, and what others took is accounted to them.
LEMMA RenameLeavesOthers ==
    ASSUME TypeOK, NEW k \in Members, NEW a \in {Src(k), Dst(k)},
           NEW b \in {Src(k), Dst(k)}, Rename(a, b), NEW m \in Members, m # k,
           at[m] = Src(m) \/ m \in late
    PROVE  at'[m] = Src(m) \/ m \in late'
<1>1. a \in Places /\ b \in Places
  BY NamesDiffer
<1>2. PICK o \in Objects :
              /\ at[o] = a /\ at'[o] = b /\ mover'[o] = "tool"
              /\ \A p \in Objects \ {o} : at'[p] = at[p] /\ mover'[p] = mover[p]
              /\ \A p \in Objects : at[p] # b
  BY <1>1, RenameMovesOne
<1>3. late' = late
  BY DEF Rename
<1>4. at[m] = Src(m) => o # m
  BY <1>2, NamesDiffer
<1> QED  BY <1>2, <1>3, <1>4

\* While an operation is under way its row is neither undone nor failed, and a
\* forward one is done only once the record is written.
LEMMA RowMeanwhile ==
    ASSUME IndInv, pc # "idle"
    PROVE  /\ row \notin {"none", "undone", "failed"}
           /\ way = "forward" /\ pc # "index" => row # "done"
BY DEF IndInv, RowOfOperation

LEMMA InitRecordInv == Init => RecordInv
<1> SUFFICES ASSUME Init PROVE RecordInv
  OBVIOUS
<1>1. WhereItBelongs
  BY DEF Init, WhereItBelongs
<1>2. AskedBeforeRecord /\ ToolTrail
  BY DEF Init, AskedBeforeRecord, ToolTrail
<1>3. DoneMeansMoved /\ UndoneMeansHome /\ ContinueOnlyWhole
  BY DEF Init, DoneMeansMoved, UndoneMeansHome, ContinueOnlyWhole
<1> QED  BY <1>1, <1>2, <1>3 DEF RecordInv

LEMMA BeginRecordInv ==
    ASSUME IndInv, RecordInv, Begin
    PROVE  RecordInv'
<1> USE DEF Begin, world, StartUnit
<1>1. WhereItBelongs'
  BY DEF RecordInv, WhereItBelongs
<1>2. AskedBeforeRecord'
  BY DEF AskedBeforeRecord
<1>3. ToolTrail'
  BY DEF RecordInv, ToolTrail
<1>4. DoneMeansMoved' /\ UndoneMeansHome' /\ ContinueOnlyWhole'
  BY DEF DoneMeansMoved, UndoneMeansHome, ContinueOnlyWhole
<1> QED  BY <1>1, <1>2, <1>3, <1>4 DEF RecordInv

LEMMA RecoverRecordInv ==
    ASSUME IndInv, RecordInv, Undo \/ Reconcile
    PROVE  RecordInv'
<1> USE DEF Undo, Reconcile, Recover, StartUnit, journal
<1>1. WhereItBelongs'
  BY DEF RecordInv, WhereItBelongs
<1>2. \A m \in Members \ Taken : at[m] = Src(m)
  BY DEF Accounted, Taken, IsHome, HomeHere, Proven, Bears
<1>3. AskedBeforeRecord'
  BY <1>2 DEF AskedBeforeRecord, Settled, To
<1>4. ToolTrail'
  BY DEF ToolTrail
<1>5. DoneMeansMoved' /\ UndoneMeansHome' /\ ContinueOnlyWhole'
  BY DEF DoneMeansMoved, UndoneMeansHome, ContinueOnlyWhole
<1> QED  BY <1>1, <1>3, <1>4, <1>5 DEF RecordInv

\* A step that moves nothing, and neither starts nor closes an operation.
LEMMA QuietRecord ==
    ASSUME IndInv, RecordInv, UNCHANGED <<at, mover, late, handled, row, way, unit>>,
           pc # "idle", pc' # "idle"
    PROVE  /\ WhereItBelongs' /\ DoneMeansMoved' /\ UndoneMeansHome' /\ ContinueOnlyWhole'
           /\ \A m \in Members : Settled(m)' = Settled(m)
           /\ \A o \in Objects : AtHome(o)' = AtHome(o)
BY RowMeanwhile
   DEF RecordInv, WhereItBelongs, DoneMeansMoved, UndoneMeansHome, ContinueOnlyWhole,
       Settled, To, AtHome

LEMMA BindRecordInv ==
    ASSUME IndInv, RecordInv, Bind
    PROVE  RecordInv'
<1> USE DEF Bind, world, journal, steps
<1>1. /\ WhereItBelongs' /\ DoneMeansMoved' /\ UndoneMeansHome' /\ ContinueOnlyWhole'
      /\ \A m \in Members : Settled(m)' = Settled(m)
      /\ \A o \in Objects : AtHome(o)' = AtHome(o)
  BY QuietRecord
<1>2. AskedBeforeRecord'
  BY <1>1 DEF RecordInv, AskedBeforeRecord
<1>3. ToolTrail'
  BY <1>1 DEF RecordInv, ToolTrail, OnItsWay
<1> QED  BY <1>1, <1>2, <1>3 DEF RecordInv

LEMMA CheckRecordInv ==
    ASSUME IndInv, RecordInv, NEW k \in Members, Check(k)
    PROVE  RecordInv'
<1> USE DEF Check, DestinationFolder, world, journal
<1>1. /\ WhereItBelongs' /\ DoneMeansMoved' /\ UndoneMeansHome' /\ ContinueOnlyWhole'
      /\ \A m \in Members : Settled(m)' = Settled(m)
      /\ \A o \in Objects : AtHome(o)' = AtHome(o)
  BY QuietRecord
<1>2. AskedBeforeRecord'
  BY <1>1 DEF RecordInv, AskedBeforeRecord
<1>3. bad = None
  BY DEF RecordInv, ToolTrail
<1>4. \A o \in Objects : OnItsWay(o) => OnItsWay(o)'
  BY <1>3 DEF OnItsWay
<1>5. ToolTrail'
  BY <1>1, <1>4 DEF RecordInv, ToolTrail
<1> QED  BY <1>1, <1>2, <1>5 DEF RecordInv

\* While an operation renames, the row says neither done nor undone of where
\* things are, nor is the run asked to go on.
LEMMA RenameRecord ==
    ASSUME IndInv, pc # "idle", pc' # "idle", way = "back" \/ pc # "index",
           UNCHANGED <<row, way>>
    PROVE  DoneMeansMoved' /\ UndoneMeansHome' /\ ContinueOnlyWhole'
BY RowMeanwhile DEF DoneMeansMoved, UndoneMeansHome, ContinueOnlyWhole

LEMMA RenameMemberRecordInv ==
    ASSUME IndInv, RecordInv, NEW k \in Members, RenameMember(k)
    PROVE  RecordInv'
<1> USE DEF journal, steps, world
<1> TypeOK /\ way \in {"forward", "back"}
  BY DEF IndInv, TypeOK
<1>1. /\ UNCHANGED <<row, way, unit, arrived, asked, bad, moved>>
      /\ pc = "rename" /\ pc' \in {"verify", "giveback"}
      /\ IsNext(k) /\ k \in unit /\ bad = None
  BY DEF RenameMember, IsNext, RecordInv, ToolTrail
<1>2. CASE Rename(From(k), To(k)) /\ pc' = "verify"
  <2>1. From(k) \in {Src(k), Dst(k)} /\ To(k) \in {Src(k), Dst(k)}
    BY DEF From, To
  <2>2. WhereItBelongs'
    BY <1>2, <2>1, RenameWhere DEF RecordInv
  <2>3. AskedBeforeRecord'
    <3>1. CASE way = "back"
      <4>1. \A m \in Members \ unit : at[m] = Src(m) \/ m \in late
        BY <1>1, <3>1 DEF RecordInv, AskedBeforeRecord, Settled, To
      <4>2. \A m \in Members \ unit : at'[m] = Src(m) \/ m \in late'
        BY <1>1, <1>2, <2>1, <4>1, RenameLeavesOthers
      <4> QED  BY <1>1, <1>2, <3>1, <4>2 DEF RecordInv, AskedBeforeRecord, Settled, To
    <3>2. CASE way = "forward"
      BY <1>1, <1>2, <3>2 DEF RecordInv, AskedBeforeRecord
    <3> QED  BY <3>1, <3>2
  <2>4. ToolTrail'
    <3>1. row # "none"
      BY <1>1, RowMeanwhile
    <3>2. CASE way = "forward"
      <4>1. From(k) = Src(k) /\ To(k) = Dst(k)
        BY <3>2 DEF From, To
      <4>2. PICK o \in Objects :
              /\ at[o] = Src(k) /\ at'[o] = Dst(k) /\ mover'[o] = "tool"
              /\ \A p \in Objects \ {o} : at'[p] = at[p] /\ mover'[p] = mover[p]
              /\ \A p \in Objects : at[p] # Dst(k)
        BY <1>2, <4>1, NamesDiffer, RenameMovesOne
      <4>3. IsNext(k)'
        BY <1>1 DEF IsNext
      <4>4. OnItsWay(o)'
        BY <1>2, <4>2, <4>3 DEF OnItsWay
      <4>5. ASSUME NEW p \in Objects \ {o}, mover'[p] = "tool"
            PROVE  AtHome(p)' \/ OnItsWay(p)'
        <5>1. AtHome(p) \/ OnItsWay(p)
          BY <1>1, <3>2, <4>2, <4>5 DEF RecordInv, ToolTrail
        <5>2. AtHome(p) => AtHome(p)'
          BY <4>2, <4>5 DEF AtHome
        <5>3. OnItsWay(p) => OnItsWay(p)'
          BY <1>1 DEF OnItsWay
        <5> QED  BY <5>1, <5>2, <5>3
      <4> QED  BY <1>1, <3>1, <4>4, <4>5 DEF ToolTrail
    <3>3. CASE way = "back"
      BY <1>1, <3>1, <3>3 DEF ToolTrail
    <3> QED  BY <3>2, <3>3
  <2>5. DoneMeansMoved' /\ UndoneMeansHome' /\ ContinueOnlyWhole'
    BY <1>1, RenameRecord
  <2> QED  BY <2>2, <2>3, <2>4, <2>5 DEF RecordInv
<1>3. CASE UNCHANGED world /\ pc' = "giveback"
  <2>1. /\ WhereItBelongs' /\ DoneMeansMoved' /\ UndoneMeansHome' /\ ContinueOnlyWhole'
        /\ \A m \in Members : Settled(m)' = Settled(m)
        /\ \A o \in Objects : AtHome(o)' = AtHome(o)
    BY <1>1, <1>3, QuietRecord
  <2>2. AskedBeforeRecord'
    BY <1>1, <1>3, <2>1 DEF RecordInv, AskedBeforeRecord
  <2>3. \A o \in Objects : OnItsWay(o) => OnItsWay(o)'
    BY <1>1 DEF OnItsWay
  <2>4. ToolTrail'
    BY <1>1, <1>3, <2>1, <2>3 DEF RecordInv, ToolTrail
  <2> QED  BY <2>1, <2>2, <2>4 DEF RecordInv
<1> QED  BY <1>2, <1>3 DEF RenameMember, Goal

LEMMA VerifyRecordInv ==
    ASSUME IndInv, RecordInv, NEW k \in Members, Verify(k)
    PROVE  RecordInv'
<1> USE DEF world, journal
<1> TypeOK /\ OneUnderAName
  BY DEF IndInv
<1>1. /\ UNCHANGED <<at, mover, late, handled, row, way, unit, asked>>
      /\ pc = "verify" /\ pc' \in {"check", "ask", "return"} /\ IsNext(k)
      /\ bad = None
  BY DEF Verify, RecordInv, ToolTrail
<1>2. /\ WhereItBelongs' /\ DoneMeansMoved' /\ UndoneMeansHome' /\ ContinueOnlyWhole'
      /\ \A m \in Members : Settled(m)' = Settled(m)
      /\ \A o \in Objects : AtHome(o)' = AtHome(o)
  BY <1>1, QuietRecord
<1>3. AskedBeforeRecord'
  BY <1>1, <1>2 DEF Verify, RecordInv, AskedBeforeRecord
<1>4. row # "none"
  BY <1>1, RowMeanwhile
<1>5. ASSUME way = "forward", NEW o \in Objects, OnItsWay(o) PROVE OnItsWay(o)'
  <2>1. o \in arrived \/ at[o] = Dst(k)
    BY <1>1, <1>5, NextIsOne DEF OnItsWay
  <2>2. To(k) = Dst(k)
    BY <1>5 DEF To
  <2>3. arrived \subseteq arrived'
    BY DEF Verify
  <2>4. CASE at[o] = Dst(k)
    <3>1. CASE Proven(k, To(k)) /\ FromLeads(k) /\ ToLeads(k)
      <4>1. o = k
        BY <2>2, <2>4, <3>1, NamesDiffer DEF Proven, Bears, OneUnderAName
      <4> QED  BY <3>1, <4>1 DEF Verify, OnItsWay
    <3>2. CASE ~(Proven(k, To(k)) /\ FromLeads(k) /\ ToLeads(k))
      <4>1. PICK found \in Objects \cup {None} :
               /\ IF found = None THEN Free(To(k)) ELSE Bears(found, To(k))
               /\ bad' = [member |-> k, object |-> found, back |-> FALSE]
        BY <3>2 DEF Verify
      <4>2. found = o
        BY <2>2, <2>4, <4>1, NamesDiffer DEF Free, Bears, OneUnderAName
      <4>3. bad' # None /\ bad'.object = o /\ ~bad'.back /\ bad'.member = k
        <5>1. bad' \in Refusal
          BY <4>1 DEF Refusal
        <5> QED  BY <4>1, <4>2, <5>1
      <4> QED  BY <1>1, <2>4, <4>3 DEF OnItsWay
    <3> QED  BY <3>1, <3>2
  <2> QED  BY <2>1, <2>3, <2>4 DEF OnItsWay
<1>6. ToolTrail'
  <2>1. pc' \in {"check", "ask"} => bad' = None
    BY <1>1 DEF Verify
  <2> QED  BY <1>1, <1>2, <1>4, <1>5, <2>1 DEF RecordInv, ToolTrail
<1> QED  BY <1>2, <1>3, <1>6 DEF RecordInv

\* What is put back by name lands at home, forward, and disturbs nobody else.
LEMMA BackByName ==
    ASSUME IndInv, RecordInv, pc \in {"return", "putback"}, pc' = "giveback",
           UNCHANGED <<row, way, unit>>,
           NEW k \in unit, k \in Members, Rename(To(k), From(k)),
           \A o \in Objects : OnItsWay(o) /\ at[o] # To(k) => OnItsWay(o)' \/ AtHome(o)
    PROVE  RecordInv'
<1> TypeOK /\ way \in {"forward", "back"}
  BY DEF IndInv, TypeOK
<1>1. From(k) \in {Src(k), Dst(k)} /\ To(k) \in {Src(k), Dst(k)}
  BY DEF From, To
<1>2. WhereItBelongs'
  BY <1>1, RenameWhere DEF RecordInv
<1>3. AskedBeforeRecord'
  <2>1. CASE way = "back"
    <3>1. \A m \in Members \ unit : at[m] = Src(m) \/ m \in late
      BY <2>1 DEF RecordInv, AskedBeforeRecord, Settled, To
    <3>2. \A m \in Members \ unit : at'[m] = Src(m) \/ m \in late'
      BY <1>1, <3>1, RenameLeavesOthers
    <3> QED  BY <2>1, <3>2 DEF RecordInv, AskedBeforeRecord, Settled, To
  <2>2. CASE way = "forward"
    BY <2>2 DEF RecordInv, AskedBeforeRecord
  <2> QED  BY <2>1, <2>2
<1>4. row # "none"
  BY RowMeanwhile
<1>5. CASE way = "back"
  <2>1. ToolTrail'
    BY <1>4, <1>5 DEF ToolTrail
  <2> QED  BY <1>2, <1>3, <2>1, RenameRecord DEF RecordInv
<1>6. CASE way = "forward"
  <2>1. From(k) = Src(k) /\ To(k) = Dst(k)
    BY <1>6 DEF From, To
  <2>2. PICK o \in Objects :
              /\ at[o] = Dst(k) /\ at'[o] = Src(k) /\ mover'[o] = "tool"
              /\ \A p \in Objects \ {o} : at'[p] = at[p] /\ mover'[p] = mover[p]
              /\ \A p \in Objects : at[p] # Src(k)
    BY <2>1, NamesDiffer, RenameMovesOne
  <2>3. AtHome(o)'
    BY <2>2 DEF AtHome
  <2>4. ASSUME NEW p \in Objects \ {o}, mover'[p] = "tool"
        PROVE  AtHome(p)' \/ OnItsWay(p)'
    <3>1. AtHome(p) \/ OnItsWay(p)
      BY <1>6, <2>2, <2>4 DEF RecordInv, ToolTrail
    <3>2. AtHome(p) => AtHome(p)'
      BY <2>2, <2>4 DEF AtHome
    <3>3. at[p] # Dst(k)
      BY <2>2, <2>4, NamesDiffer DEF IndInv, OneUnderAName
    <3> QED  BY <2>1, <3>1, <3>2, <3>3
  <2>5. ToolTrail'
    BY <1>4, <2>3, <2>4 DEF ToolTrail
  <2> QED  BY <1>2, <1>3, <1>6, <2>5, RenameRecord DEF RecordInv
<1> QED  BY <1>5, <1>6

\* A step within an operation that moves nothing and asks nothing.
LEMMA UnmovedRecord ==
    ASSUME IndInv, RecordInv, UNCHANGED <<at, mover, late, handled, row, way, unit>>,
           pc \in {"return", "giveback", "putback"}, pc' \in {"giveback", "putback", "close"},
           \A o \in Objects : OnItsWay(o) => OnItsWay(o)'
    PROVE  RecordInv'
<1>1. /\ WhereItBelongs' /\ DoneMeansMoved' /\ UndoneMeansHome' /\ ContinueOnlyWhole'
      /\ \A m \in Members : Settled(m)' = Settled(m)
      /\ \A o \in Objects : AtHome(o)' = AtHome(o)
  BY QuietRecord
<1>2. AskedBeforeRecord'
  BY <1>1 DEF RecordInv, AskedBeforeRecord
<1>3. row # "none"
  BY RowMeanwhile
<1>4. ToolTrail'
  BY <1>1, <1>3 DEF RecordInv, ToolTrail
<1> QED  BY <1>1, <1>2, <1>4 DEF RecordInv

LEMMA ReturnRecordInv ==
    ASSUME IndInv, RecordInv, NEW k \in Members, Return(k)
    PROVE  RecordInv'
<1> USE DEF journal, steps
<1>1. /\ UNCHANGED <<row, way, unit, arrived>>
      /\ pc = "return" /\ pc' = "giveback" /\ bad # None /\ bad.member = k
  BY DEF Return
<1>2. k \in unit
  BY <1>1 DEF IndInv, Steps, IsNext
<1>3. CASE Rename(To(k), From(k)) /\ bad' = [bad EXCEPT !.back = TRUE]
  <2>1. CASE way = "forward"
    <3>1. \A o \in Objects : OnItsWay(o) /\ at[o] # To(k) => OnItsWay(o)'
      BY <1>1, <2>1 DEF OnItsWay, To
    <3> QED  BY <1>1, <1>2, <1>3, <3>1, BackByName
  <2>2. CASE way # "forward"
    <3>1. ASSUME NEW o \in Objects, OnItsWay(o), at[o] # To(k)
          PROVE  OnItsWay(o)' \/ AtHome(o)
      <4>1. way = "back" /\ To(k) = Src(k) /\ From(k) = Dst(k)
        BY <2>2 DEF IndInv, TypeOK, To, From
      <4>2. Free(Dst(k))
        BY <1>3, <4>1 DEF Rename
      <4> QED  BY <1>1, <3>1, <4>2 DEF OnItsWay, Free
    <3> QED  BY <1>1, <1>2, <1>3, <3>1, BackByName
  <2> QED  BY <2>1, <2>2
<1>4. CASE UNCHANGED <<world, bad>>
  <2>1. \A o \in Objects : OnItsWay(o) => OnItsWay(o)'
    BY <1>1, <1>4 DEF OnItsWay, world
  <2> QED  BY <1>1, <1>4, <2>1, UnmovedRecord DEF world
<1> QED  BY <1>3, <1>4 DEF Return

LEMMA GiveBackRecordInv ==
    ASSUME IndInv, RecordInv, GiveBack
    PROVE  RecordInv'
<1> USE DEF GiveBack, world, journal
<1>1. \A o \in Objects : OnItsWay(o) => OnItsWay(o)'
  BY DEF OnItsWay
<1> QED  BY <1>1, UnmovedRecord

LEMMA PutBackRecordInv ==
    ASSUME IndInv, RecordInv, NEW k \in Members, PutBack(k)
    PROVE  RecordInv'
<1> USE DEF journal
<1>1. /\ UNCHANGED <<row, way, unit, arrived, bad>>
      /\ pc = "putback" /\ pc' = "giveback" /\ k \in arrived
  BY DEF PutBack, IsNewest
<1>2. k \in unit
  BY <1>1 DEF IndInv, Steps
<1>3. CASE Rename(To(k), From(k))
  <2>1. ASSUME NEW o \in Objects, OnItsWay(o), at[o] # To(k)
        PROVE  OnItsWay(o)' \/ AtHome(o)
    <3>1. CASE o \in arrived
      BY <1>1, <3>1 DEF OnItsWay
    <3>2. CASE o \notin arrived
      <4>1. bad # None /\ bad.object = o /\ ~bad.back /\ at[o] = Dst(bad.member)
        BY <1>1, <2>1, <3>2 DEF OnItsWay
      <4>2. at'[o] = at[o]
        BY <1>3, <2>1 DEF Rename, Bears, IndInv, TypeOK
      <4> QED  BY <1>1, <4>1, <4>2 DEF OnItsWay
    <3> QED  BY <3>1, <3>2
  <2> QED  BY <1>1, <1>2, <1>3, <2>1, BackByName
<1>4. CASE UNCHANGED world
  <2>1. \A o \in Objects : OnItsWay(o) => OnItsWay(o)'
    BY <1>1, <1>4 DEF OnItsWay, world
  <2> QED  BY <1>1, <1>4, <2>1, UnmovedRecord DEF world
<1> QED  BY <1>3, <1>4 DEF PutBack

LEMMA AskRecordInv ==
    ASSUME IndInv, RecordInv, NEW k \in Members, Ask(k)
    PROVE  RecordInv'
<1> USE DEF Ask, journal
<1> TypeOK /\ way \in {"forward", "back"}
  BY DEF IndInv, TypeOK
<1>1. \A m \in Members : at'[m] = at[m] /\ (m # k /\ m \in late => m \in late')
  OBVIOUS
<1>2. WhereItBelongs'
  BY DEF RecordInv, WhereItBelongs
<1>3. AskedBeforeRecord'
  <2>1. ASSUME NEW m \in Members, m # k, Settled(m) PROVE Settled(m)'
    BY <1>1, <2>1 DEF Settled, To
  <2>2. ~moved' => Settled(k)'
    BY DEF Sure, Bears, Settled, To
  <2>3. ~moved' => \A m \in asked' : Settled(m)'
    BY <2>1, <2>2 DEF RecordInv, AskedBeforeRecord, TypeOK
  <2>4. pc' = "record" => \A m \in unit' : Settled(m)'
    BY <2>3
  <2>5. way = "back" => \A m \in Members \ unit : Settled(m)'
    BY <2>1 DEF RecordInv, AskedBeforeRecord
  <2>6. way = "forward" => unit' = Members
    BY DEF RecordInv, AskedBeforeRecord
  <2>7. pc' \in {"ask", "giveback", "record"} /\ UNCHANGED <<unit, way>>
    OBVIOUS
  <2> QED  BY <2>3, <2>4, <2>5, <2>6, <2>7 DEF AskedBeforeRecord
<1>4. ToolTrail'
  <2>1. row # "none" /\ bad = None
    BY RowMeanwhile DEF RecordInv, ToolTrail
  <2>2. \A o \in Objects : AtHome(o)' = AtHome(o) /\ (OnItsWay(o) => OnItsWay(o)')
    BY <2>1 DEF AtHome, OnItsWay
  <2> QED  BY <2>1, <2>2 DEF RecordInv, ToolTrail
<1>5. DoneMeansMoved' /\ UndoneMeansHome' /\ ContinueOnlyWhole'
  BY RowMeanwhile DEF DoneMeansMoved, UndoneMeansHome, ContinueOnlyWhole
<1> QED  BY <1>2, <1>3, <1>4, <1>5 DEF RecordInv

LEMMA RecordRecordInv ==
    ASSUME IndInv, RecordInv, Record
    PROVE  RecordInv'
<1> USE DEF Record, world, steps, IndexFirst
<1> way \in {"forward", "back"} /\ row # "none" /\ bad = None
  BY RowMeanwhile DEF IndInv, TypeOK, RecordInv, ToolTrail
<1>1. WhereItBelongs'
  BY DEF RecordInv, WhereItBelongs
<1>2. \A m \in Members : Settled(m)' = Settled(m)
  BY DEF Settled, To
<1>3. \A m \in unit : Settled(m)
  BY DEF RecordInv, AskedBeforeRecord
<1>4. AskedBeforeRecord'
  BY <1>2, <1>3 DEF RecordInv, AskedBeforeRecord, IndInv, TypeOK
<1>5. \A o \in Objects : AtHome(o)' = AtHome(o) /\ (OnItsWay(o) => OnItsWay(o)')
  BY DEF AtHome, OnItsWay
<1>6. ToolTrail'
  BY <1>5 DEF RecordInv, ToolTrail
<1>7. DoneMeansMoved'
  <2>1. CASE way = "forward"
    <3>1. \A m \in Members : at[m] = Dst(m) \/ m \in late
      BY <1>3, <2>1 DEF RecordInv, AskedBeforeRecord, Settled, To
    <3> QED  BY <3>1 DEF DoneMeansMoved
  <2>2. CASE way = "back"
    BY <2>2 DEF DoneMeansMoved
  <2> QED  BY <2>1, <2>2
<1>8. UndoneMeansHome' /\ ContinueOnlyWhole'
  BY RowMeanwhile DEF UndoneMeansHome, ContinueOnlyWhole
<1> QED  BY <1>1, <1>4, <1>6, <1>7, <1>8 DEF RecordInv

LEMMA IndexRecordInv ==
    ASSUME IndInv, RecordInv, Index
    PROVE  RecordInv'
<1> USE DEF Index, world, steps
<1> way \in {"forward", "back"} /\ row \in {"pending", "done"} /\ bad = None
  BY DEF IndInv, RowOfOperation, TypeOK, RecordInv, ToolTrail
<1>1. WhereItBelongs'
  BY DEF RecordInv, WhereItBelongs
<1>2. AskedBeforeRecord'
  BY DEF AskedBeforeRecord
<1>3. ToolTrail'
  BY DEF RecordInv, ToolTrail
<1>4. DoneMeansMoved' /\ ContinueOnlyWhole'
  BY DEF RecordInv, DoneMeansMoved, ContinueOnlyWhole
<1>5. UndoneMeansHome'
  <2>1. CASE way = "back"
    <3>1. \A m \in Members : at[m] = Src(m) \/ m \in late
      BY <2>1 DEF RecordInv, AskedBeforeRecord, Settled, To
    <3> QED  BY <3>1 DEF UndoneMeansHome
  <2>2. CASE way = "forward"
    BY <2>2 DEF UndoneMeansHome
  <2> QED  BY <2>1, <2>2
<1> QED  BY <1>1, <1>2, <1>3, <1>4, <1>5 DEF RecordInv

\* A unit is refused as whole only if nothing the tool renamed is on its way.
LEMMA WholeIsHome ==
    ASSUME IndInv, RecordInv, way = "forward", pc = "close", Whole,
           NEW o \in Objects, mover[o] = "tool"
    PROVE  at[o] \in {Src(m) : m \in Members}
<1>1. AtHome(o) \/ OnItsWay(o)
  BY DEF RecordInv, ToolTrail
<1>2. CASE AtHome(o)
  BY <1>2 DEF AtHome
<1>3. CASE o \in arrived
  <2>1. o \in Members
    BY <1>3 DEF IndInv, TypeOK
  <2> QED  BY <1>3, <2>1 DEF Whole, Bears, From
<1>4. CASE OnItsWay(o) /\ o \notin arrived
  BY <1>4 DEF OnItsWay, Whole
<1> QED  BY <1>1, <1>2, <1>3, <1>4

LEMMA CloseRecordInv ==
    ASSUME IndInv, RecordInv, Close
    PROVE  RecordInv'
<1> USE DEF Close, world, steps
<1> way \in {"forward", "back"} /\ row \in {"pending", "done"}
  BY DEF IndInv, RowOfOperation, TypeOK
<1>1. WhereItBelongs'
  BY DEF RecordInv, WhereItBelongs
<1>2. AskedBeforeRecord'
  BY DEF AskedBeforeRecord
<1>3. row' \in {row, "failed"} /\ (row' = "failed" => way = "forward")
  BY DEF Status
<1>4. ToolTrail'
  BY <1>3 DEF ToolTrail
<1>5. DoneMeansMoved' /\ UndoneMeansHome'
  BY <1>3 DEF RecordInv, DoneMeansMoved, UndoneMeansHome
<1>6. ContinueOnlyWhole'
  <2>1. CASE way = "forward" /\ Whole
    <3>1. \A o \in Objects : mover[o] = "tool" => at[o] \in {Src(m) : m \in Members}
      BY <2>1, WholeIsHome
    <3> QED  BY <3>1 DEF ContinueOnlyWhole
  <2>2. CASE ~(way = "forward" /\ Whole)
    BY <1>3, <2>2 DEF ContinueOnlyWhole, GoesOn
  <2> QED  BY <2>1, <2>2
<1> QED  BY <1>1, <1>2, <1>4, <1>5, <1>6 DEF RecordInv

LEMMA CrashRecordInv ==
    ASSUME IndInv, RecordInv, Crash
    PROVE  RecordInv'
<1> USE DEF Crash, world, steps, journal
<1>1. WhereItBelongs'
  BY DEF RecordInv, WhereItBelongs
<1>2. AskedBeforeRecord' /\ ToolTrail'
  BY DEF RecordInv, AskedBeforeRecord, ToolTrail
<1>3. DoneMeansMoved' /\ UndoneMeansHome' /\ ContinueOnlyWhole'
  BY DEF RecordInv, DoneMeansMoved, UndoneMeansHome, ContinueOnlyWhole
<1> QED  BY <1>1, <1>2, <1>3 DEF RecordInv

LEMMA OtherProgramRecordInv ==
    ASSUME IndInv, RecordInv, OtherProgram
    PROVE  RecordInv'
<1> USE DEF journal, steps
<1> TypeOK
  BY DEF IndInv
<1>1. /\ UNCHANGED <<row, pc, way, run, unit, arrived, asked, bad, moved>>
      /\ \A m \in Members : IsNext(m)' = IsNext(m)
  BY DEF OtherProgram, IsNext
\* What others move is theirs from then on.
<1>2. /\ \A o \in Objects : at'[o] = at[o] \/ (o \in late' /\ o \in handled' /\ mover'[o] = "other")
      /\ late \subseteq late' /\ handled \subseteq handled'
      /\ \A o \in Objects : mover'[o] = "tool" => mover[o] = "tool" /\ at'[o] = at[o]
  <2>1. CASE UNCHANGED <<at, mover, late, handled>>
    BY <2>1
  <2>2. ASSUME NEW o \in Objects, NEW place \in Places, OtherMoves(o, place)
        PROVE  /\ \A p \in Objects : at'[p] = at[p] \/ (p \in late' /\ p \in handled' /\ mover'[p] = "other")
               /\ late \subseteq late' /\ handled \subseteq handled'
               /\ \A p \in Objects : mover'[p] = "tool" => mover[p] = "tool" /\ at'[p] = at[p]
    BY <2>2 DEF OtherMoves, TypeOK
  <2> QED  BY <2>1, <2>2 DEF OtherProgram, OtherChanges, OtherMovesFolder
<1>3. WhereItBelongs'
  BY <1>2 DEF RecordInv, WhereItBelongs
<1>4. \A m \in Members : Settled(m) => Settled(m)'
  BY <1>1, <1>2 DEF Settled, To
<1>5. AskedBeforeRecord'
  <2>1. asked \subseteq Members /\ unit \subseteq Members
    BY DEF TypeOK
  <2> QED  BY <1>1, <1>4, <2>1 DEF RecordInv, AskedBeforeRecord
<1>6. ToolTrail'
  <2>1. ASSUME NEW o \in Objects, mover'[o] = "tool"
        PROVE  (AtHome(o) => AtHome(o)') /\ (OnItsWay(o) => OnItsWay(o)')
    BY <1>1, <1>2, <2>1 DEF AtHome, OnItsWay
  <2> QED  BY <1>1, <1>2, <2>1 DEF RecordInv, ToolTrail
<1>7. DoneMeansMoved' /\ UndoneMeansHome'
  BY <1>1, <1>2 DEF RecordInv, DoneMeansMoved, UndoneMeansHome
<1>8. ContinueOnlyWhole'
  BY <1>1, <1>2 DEF RecordInv, ContinueOnlyWhole
<1> QED  BY <1>3, <1>5, <1>6, <1>7, <1>8 DEF RecordInv

LEMMA StutterRecordInv ==
    ASSUME IndInv, RecordInv, UNCHANGED vars
    PROVE  RecordInv'
<1> USE DEF vars, world, journal, steps
<1>1. \A m \in Members : Settled(m)' = Settled(m) /\ IsNext(m)' = IsNext(m)
  BY DEF Settled, To, IsNext
<1>2. \A o \in Objects : AtHome(o)' = AtHome(o) /\ (OnItsWay(o) => OnItsWay(o)')
  BY <1>1 DEF AtHome, OnItsWay
<1>3. WhereItBelongs' /\ DoneMeansMoved' /\ UndoneMeansHome' /\ ContinueOnlyWhole'
  BY DEF RecordInv, WhereItBelongs, DoneMeansMoved, UndoneMeansHome, ContinueOnlyWhole
<1>4. AskedBeforeRecord'
  BY <1>1 DEF RecordInv, AskedBeforeRecord, IndInv, TypeOK
<1>5. ToolTrail'
  BY <1>2 DEF RecordInv, ToolTrail
<1> QED  BY <1>3, <1>4, <1>5 DEF RecordInv

LEMMA NextRecordInv == IndInv /\ RecordInv /\ [Next]_vars => RecordInv'
<1> SUFFICES ASSUME IndInv, RecordInv, [Next]_vars PROVE RecordInv'
  OBVIOUS
<1>1. CASE Tool
  BY <1>1, BindRecordInv, CheckRecordInv, RenameMemberRecordInv, VerifyRecordInv,
     ReturnRecordInv, GiveBackRecordInv, PutBackRecordInv, AskRecordInv, RecordRecordInv,
     IndexRecordInv, CloseRecordInv DEF Tool
<1>2. CASE UNCHANGED vars
  BY <1>2, StutterRecordInv
<1> QED  BY <1>1, <1>2, BeginRecordInv, RecoverRecordInv, CrashRecordInv,
            OtherProgramRecordInv DEF Next

\* A member left alone is under the one of its two names that leads somewhere.
LEMMA UntouchedIsAccounted ==
    ASSUME TypeOK, WhereItBelongs, NEW m \in Members, Untouched(m)
    PROVE  IsMoved(m) \/ IsHome(m)
<1>1. at[m] \in {Src(m), Dst(m)} /\ path["src"] /\ QuarantineLeads(m) /\ m \notin changed
  BY DEF WhereItBelongs, Untouched, QuarantineLeads
<1>2. \A o \in Objects \ {m} : at[o] \notin {Src(m), Dst(m)}
  BY DEF Untouched
<1>3. CASE at[m] = Src(m)
  <2>1. Free(Dst(m))
    BY <1>2, <1>3, NamesDiffer DEF Free
  <2> QED  BY <1>1, <1>3, <2>1 DEF IsHome, HeldNone, HomeHere, Proven, Bears
<1>4. CASE at[m] = Dst(m)
  <2>1. Free(Src(m))
    BY <1>2, <1>4, NamesDiffer DEF Free
  <2> QED  BY <1>1, <1>4, <2>1 DEF IsMoved, HeldHere, HomeNone, Proven, Bears
<1> QED  BY <1>1, <1>3, <1>4

\* Closed as done or undone, refused and gone on, or killed on the way: what the
\* row and the run say of the unit is so, whatever was refused and whatever other
\* programs did meanwhile.
THEOREM RecordStaysTrue == Spec => []RecordIsTrue
<1>1. IndInv /\ RecordInv => RecordIsTrue
  <2> SUFFICES ASSUME IndInv, RecordInv PROVE RecordIsTrue
    OBVIOUS
  <2>1. KilledIsAccountedFor
    BY UntouchedIsAccounted DEF KilledIsAccountedFor, IndInv, RecordInv
  <2> QED  BY <2>1 DEF RecordIsTrue, RecordInv
<1> QED  BY Invariance, InitRecordInv, NextRecordInv, <1>1, PTL DEF Spec

------------------------------------------------------------------------------
(* The purge of a unit.                                                     *)

\* The operations of UnitMove.
Operation == Begin \/ Undo \/ Reconcile \/ Tool \/ Crash

------------------------------------------------------------------------------
(* What an operation of UnitMove can do to a unit a purge has been at.       *)

\* No name of a member is Away.
LEMMA NamesAreNotAway ==
    ASSUME NEW m \in Members
    PROVE  /\ Src(m) # Away /\ Dst(m) # Away
           /\ From(m) # Away /\ To(m) # Away
           /\ From(m) \in Places /\ To(m) \in Places
BY DEF Src, Dst, Away, From, To, Places, Names

\* An operation moves one object that is under some name, or none at all: it
\* never brings back what is gone.
LEMMA OperationMoves ==
    ASSUME Operation
    PROVE  \/ UNCHANGED at
           \/ \E o \in Objects, place \in Places :
                 at[o] # Away /\ Free(place) /\ at' = [at EXCEPT ![o] = place]
<1>1. CASE Begin
  BY <1>1 DEF Begin, world
<1>2. CASE Undo
  BY <1>2 DEF Undo, Recover
<1>3. CASE Reconcile
  BY <1>3 DEF Reconcile, Recover
<1>4. CASE Crash
  BY <1>4 DEF Crash, world
<1>5. CASE Bind
  BY <1>5 DEF Bind, world
<1>6. CASE GiveBack
  BY <1>6 DEF GiveBack, world
<1>7. CASE Record
  BY <1>7 DEF Record, world
<1>8. CASE Index
  BY <1>8 DEF Index, world
<1>9. CASE Close
  BY <1>9 DEF Close, world
<1>10. ASSUME NEW m \in Members, Check(m) \/ Verify(m) \/ Ask(m)
       PROVE  UNCHANGED at
  BY <1>10 DEF Check, DestinationFolder, Verify, Ask, world
<1>11. ASSUME NEW m \in Members, RenameMember(m) \/ Return(m) \/ PutBack(m)
       PROVE  \/ UNCHANGED at
              \/ \E o \in Objects, place \in Places :
                    at[o] # Away /\ Free(place) /\ at' = [at EXCEPT ![o] = place]
  <2>1. ASSUME NEW a \in Places \ {Away}, NEW b \in Places, Rename(a, b)
        PROVE  \E o \in Objects, place \in Places :
                  at[o] # Away /\ Free(place) /\ at' = [at EXCEPT ![o] = place]
    BY <2>1 DEF Rename, Bears
  <2>2. \/ UNCHANGED at \/ Rename(From(m), To(m)) \/ Rename(To(m), From(m))
    BY <1>11 DEF RenameMember, Return, PutBack, Goal, world
  <2>3. QED
    BY <2>1, <2>2, NamesAreNotAway
<1>12. QED
  BY <1>1, <1>2, <1>3, <1>4, <1>5, <1>6, <1>7, <1>8, <1>9, <1>10, <1>11
     DEF Operation, Tool

\* Nothing is left to do for an operation once a member was deleted or the row
\* was closed as purged: a member that is gone is accounted for nowhere.
LEMMA OperationIsOver ==
    ASSUME PurgeInv, Operation
    PROVE  row # "purged" /\ erased \cap Members = {}
<1>1. Tool \/ Crash => pc # "idle"
  BY DEF Tool, Crash, Bind, GiveBack, Record, Index, Close, Check, DestinationFolder, RenameMember,
         Verify, Return, PutBack, Ask
<1>2. Begin \/ Undo \/ Reconcile => row \in {"none", "done", "pending"}
  BY DEF Begin, Undo, Reconcile, Recover
<1>3. row # "purged"
  BY <1>1, <1>2 DEF Operation, PurgeInv, RowOfPurge
<1>4. ASSUME NEW m \in erased \cap Members
      PROVE  FALSE
  <2>1. at[m] = Away
    BY <1>4 DEF PurgeInv, GoneIsAway
  <2>2. ~IsMoved(m) /\ ~IsHome(m)
    BY <2>1, NamesAreNotAway DEF IsMoved, IsHome, HeldHere, HomeHere, Proven, Bears
  <2>3. ~Undo /\ ~Reconcile
    BY <2>2 DEF Undo, Reconcile, Recover, Accounted
  <2>4. pc = "idle" /\ row \in {"pending", "purged"}
    BY <1>4 DEF PurgeInv, DeletedIsNotDone, HalfNeverReturns
  <2>5. ~Begin
    BY <2>4 DEF Begin
  <2>6. QED
    BY <1>1, <2>3, <2>4, <2>5 DEF Operation
<1>5. QED
  BY <1>3, <1>4

\* And none closes a row as purged.
LEMMA OperationNeverPurges ==
    ASSUME PurgeInv, Operation
    PROVE  row' # "purged" /\ index' # "purged"
<1>1. row # "purged" /\ index # "purged"
  BY OperationIsOver DEF PurgeInv
<1>2. CASE Begin
  BY <1>1, <1>2 DEF Begin
<1>3. CASE Undo \/ Reconcile
  BY <1>1, <1>3 DEF Undo, Reconcile, Recover, journal
<1>4. CASE Crash \/ Bind \/ GiveBack
  BY <1>1, <1>4 DEF Crash, Bind, GiveBack, journal
<1>5. CASE Record
  BY <1>1, <1>5 DEF Record, IndexFirst
<1>6. CASE Index
  BY <1>1, <1>6 DEF Index, InQuarantine
<1>7. CASE Close
  BY <1>1, <1>7 DEF Close, Status
<1>8. ASSUME NEW m \in Members,
             Check(m) \/ RenameMember(m) \/ Verify(m) \/ Return(m) \/ PutBack(m) \/ Ask(m)
      PROVE  UNCHANGED <<row, index>>
  BY <1>8 DEF Check, DestinationFolder, RenameMember, Verify, Return, PutBack, Ask, journal
<1>9. QED
  BY <1>1, <1>2, <1>3, <1>4, <1>5, <1>6, <1>7, <1>8 DEF Operation, Tool

------------------------------------------------------------------------------
(* Every step keeps the invariant.                                           *)

LEMMA OperationKeepsInv ==
    ASSUME PurgeInv, ByOperation(Operation)
    PROVE  PurgeInv'
<1>1. step = "no" /\ Operation /\ UNCHANGED purge
  BY DEF ByOperation
<1>2. row' # "purged" /\ index' # "purged" /\ erased \cap Members = {}
  BY <1>1, OperationIsOver, OperationNeverPurges
<1>3. /\ step' = "no" /\ gone' = gone /\ erased' = erased
      /\ proved' = proved /\ counted' = counted /\ strange' = strange
  BY <1>1 DEF purge, work, fate
<1>4. GoneIsAway'
  <2>1. CASE UNCHANGED at
    BY <2>1, <1>3 DEF PurgeInv, GoneIsAway
  <2>2. ASSUME NEW o \in Objects, NEW place \in Places,
               at[o] # Away, at' = [at EXCEPT ![o] = place]
        PROVE  GoneIsAway'
    BY <2>2, <1>3 DEF PurgeInv, GoneIsAway
  <2>3. QED
    BY <1>1, <2>1, <2>2, OperationMoves
<1>5. RowOfPurge' /\ Progress'
  BY <1>2, <1>3 DEF PurgeInv, RowOfPurge, Progress
<1>6. DeletedIsNotDone' /\ HalfNeverReturns' /\ PurgedMeansGone'
  BY <1>2, <1>3 DEF DeletedIsNotDone, HalfNeverReturns, PurgedMeansGone
<1>7. QED
  BY <1>2, <1>4, <1>5, <1>6 DEF PurgeInv

\* Other programs bring nothing back and write nothing of the journal.
LEMMA OthersKeepInv ==
    ASSUME PurgeInv,
           \/ ByOthers
           \/ \E m \in Members, new \in Strangers \cup {None} : OtherRemoves(m, new)
    PROVE  PurgeInv'
<1>1. /\ UNCHANGED <<row, index, pc, step, proved, counted, strange, erased>>
      /\ gone \subseteq gone'
  BY DEF ByOthers, OtherRemoves, OtherProgram, journal, rest, work
<1>2. GoneIsAway'
  <2>1. CASE ByOthers
    <3>1. at' \in [Objects -> Places]
      BY <2>1 DEF ByOthers, OtherProgram, OtherMoves, OtherChanges, OtherMovesFolder,
                  PurgeInv, GoneIsAway
    <3>2. QED
      BY <2>1, <3>1 DEF ByOthers, PurgeInv, GoneIsAway
  <2>2. ASSUME NEW m \in Members, NEW new \in Strangers \cup {None}, OtherRemoves(m, new)
        PROVE  GoneIsAway'
    <3>1. at' \in [Objects -> Places]
      BY <2>2 DEF OtherRemoves, PurgeInv, GoneIsAway, Places
    <3>2. gone' = gone \cup {m} /\ at'[m] = Away
      BY <2>2 DEF OtherRemoves
    <3>3. \A o \in gone : at'[o] = Away
      BY <2>2 DEF OtherRemoves, PurgeInv, GoneIsAway
    <3>4. QED
      BY <1>1, <3>1, <3>2, <3>3 DEF PurgeInv, GoneIsAway
  <2>3. QED
    BY <2>1, <2>2
<1>3. RowOfPurge' /\ Progress'
  BY <1>1 DEF PurgeInv, RowOfPurge, Progress
<1>4. DeletedIsNotDone' /\ HalfNeverReturns' /\ PurgedMeansGone'
  BY <1>1 DEF PurgeInv, DeletedIsNotDone, HalfNeverReturns, PurgedMeansGone
<1>5. QED
  BY <1>1, <1>2, <1>3, <1>4 DEF PurgeInv

\* A purge, step by step.
LEMMA PurgeKeepsInv ==
    ASSUME PurgeInv, StartPurge \/ Purge \/ KillPurge
    PROVE  PurgeInv'
<1> USE DEF PurgeInv, RowOfPurge, Progress, DeletedIsNotDone, HalfNeverReturns,
            PurgedMeansGone, world, rest, work, fate
<1>1. CASE StartPurge
  BY <1>1 DEF StartPurge, GoneIsAway
<1>2. CASE KillPurge
  BY <1>2 DEF KillPurge, GoneIsAway
<1>3. ASSUME NEW m \in Members, Prove(m)
      PROVE  PurgeInv'
  BY <1>3 DEF Prove, AllProven, GoneIsAway
<1>4. CASE BeginPurge
  <2>1. /\ step = "begin" /\ pc = "idle" /\ row = "done" /\ erased \cap Members = {}
        /\ UNCHANGED <<index, pc, at, proved, counted, strange, gone, erased>>
    BY <1>4 DEF BeginPurge
  <2>2. \/ row' = "pending" /\ step' = "compare"
        \/ row' = row /\ step' = "no"
    BY <1>4 DEF BeginPurge, Reopened
  <2>3. QED
    BY <2>1, <2>2 DEF GoneIsAway
<1>5. ASSUME NEW m \in Members, Compare(m)
      PROVE  PurgeInv'
  BY <1>5 DEF Compare, Stopped, GoneIsAway
<1>6. ASSUME NEW m \in Members, Unlink(m)
      PROVE  PurgeInv'
  <2>1. row = "pending" /\ pc = "idle" /\ row' = row /\ index' = index /\ pc' = pc
    BY <1>6 DEF Unlink, Stopped
  <2>2. /\ step' \in {"count", "no"} /\ gone \subseteq gone'
        /\ UNCHANGED <<proved, counted, strange>>
    BY <1>6 DEF Unlink, Stopped
  <2>3. GoneIsAway'
    <3>1. ASSUME NEW o \in Objects, at' = [at EXCEPT ![o] = Away],
                 gone' = gone \cup {o}, erased' = erased \cup {o}
          PROVE  GoneIsAway'
      BY <3>1 DEF GoneIsAway, Places
    <3>2. CASE UNCHANGED <<at, gone, erased>>
      BY <3>2 DEF GoneIsAway
    <3>3. QED
      BY <1>6, <3>1, <3>2 DEF Unlink, Stopped
  <2>4. QED
    BY <1>6, <2>1, <2>2, <2>3 DEF Unlink, Stopped
<1>7. ASSUME NEW m \in Members, Count(m)
      PROVE  PurgeInv'
  <2>1. row = "pending" /\ pc = "idle" /\ proved = Members
        /\ UNCHANGED <<row, index, pc, at, proved, gone, erased>>
    BY <1>7 DEF Count, Stopped
  <2>2. counted' \subseteq gone
    BY <1>7 DEF Count, Stopped, LostALink
  <2>3. step' \in {"compare", "close", "no"}
    BY <1>7 DEF Count, Stopped
  <2>4. step' = "close" => Members \subseteq counted'
    BY <1>7, <2>1 DEF Count, Stopped, LostALink, Remaining, NoStranger
  <2>5. QED
    BY <2>1, <2>2, <2>3, <2>4 DEF GoneIsAway
<1>8. CASE ClosePurge
  BY <1>8 DEF ClosePurge, GoneIsAway
<1>9. CASE IndexPurged
  BY <1>9 DEF IndexPurged, GoneIsAway
<1>10. QED
  BY <1>1, <1>2, <1>3, <1>4, <1>5, <1>6, <1>7, <1>8, <1>9 DEF Purge

------------------------------------------------------------------------------
(* The theorems.                                                             *)

\* The inductive invariant of a unit that may be purged: what is gone stays gone,
\* the row is open from before the first deletion to after the last.
THEOREM PurgeInvariance == PurgeSpec => []PurgeInv
<1>1. PurgeInit => PurgeInv
  <2>1. ASSUME PurgeInit
        PROVE  GoneIsAway
    BY <2>1 DEF PurgeInit, Init, GoneIsAway, Places, Names, Src
  <2>2. QED
    BY <2>1 DEF PurgeInit, Init, PurgeInv, RowOfPurge, Progress, DeletedIsNotDone,
                HalfNeverReturns, PurgedMeansGone
<1>2. ASSUME PurgeInv, [PurgeNext]_allVars
      PROVE  PurgeInv'
  <2>1. CASE StartPurge \/ Purge \/ KillPurge
    BY <1>2, <2>1, PurgeKeepsInv
  <2>2. CASE ByOperation(Operation)
    BY <1>2, <2>2, OperationKeepsInv
  <2>3. CASE \/ ByOthers
             \/ \E m \in Members, new \in Strangers \cup {None} : OtherRemoves(m, new)
    BY <1>2, <2>3, OthersKeepInv
  <2>4. CASE UNCHANGED allVars
    BY <1>2, <2>4
       DEF allVars, vars, purge, world, journal, steps, work, fate, PurgeInv, GoneIsAway,
           RowOfPurge, Progress, DeletedIsNotDone, HalfNeverReturns, PurgedMeansGone
  <2>5. QED
    BY <1>2, <2>1, <2>2, <2>3, <2>4 DEF PurgeNext, ByOperation, Operation
<1>3. QED
  BY <1>1, <1>2, PTL DEF PurgeSpec

\* The row and the index say of a purge what is so: a unit that lost a member is never
\* taken for one that is only in quarantine, and one closed as purged is gone, whatever
\* was refused or killed (purge.rs, recovery.rs).
THEOREM PurgeStaysTold == PurgeSpec => []PurgeIsTold
<1>1. PurgeInv => PurgeIsTold
  BY DEF PurgeInv, PurgeIsTold
<1>2. QED
  BY <1>1, PurgeInvariance, PTL

------------------------------------------------------------------------------
(* What a deletion takes: the last comparison, and the instant after it.     *)

\* The member that goes next is one: they go in the order of the list.
LEMMA OneGoesNext ==
    ASSUME NEW m \in Members, NEW n \in Members, GoesNext(m), GoesNext(n)
    PROVE  m = n
BY DEF GoesNext

\* One object under a name, whatever the tool and the others rename.
LEMMA NamesStayApart ==
    ASSUME PurgeInv, OneUnderAName, [PurgeNext]_allVars
    PROVE  OneUnderAName'
<1> USE DEF OneUnderAName
<1>1. at \in [Objects -> Places]
  BY DEF PurgeInv, GoneIsAway
<1>2. CASE UNCHANGED at
  BY <1>2
<1>3. ASSUME NEW o \in Objects, NEW place \in Places, place = Away \/ Free(place),
             at' = [at EXCEPT ![o] = place]
      PROVE  OneUnderAName'
  BY <1>1, <1>3 DEF Free
<1>4. CASE ByOperation(Operation)
  BY <1>2, <1>3, <1>4, OperationMoves DEF ByOperation
<1>5. CASE ByOthers
  BY <1>2, <1>3, <1>5 DEF ByOthers, OtherProgram, OtherMoves, OtherChanges, OtherMovesFolder
<1>6. ASSUME NEW m \in Members, NEW new \in Strangers \cup {None}, OtherRemoves(m, new)
      PROVE  OneUnderAName'
  BY <1>1, <1>6 DEF OtherRemoves
<1>7. ASSUME NEW m \in Members, Unlink(m)
      PROVE  OneUnderAName'
  BY <1>2, <1>3, <1>7 DEF Unlink, Away, Places
<1>8. ASSUME NEW m \in Members, Prove(m) \/ Compare(m) \/ Count(m)
      PROVE  UNCHANGED at
  BY <1>8 DEF Prove, Compare, Count, world
<1>9. CASE StartPurge \/ KillPurge \/ BeginPurge \/ ClosePurge \/ IndexPurged
  BY <1>2, <1>9 DEF StartPurge, KillPurge, BeginPurge, ClosePurge, IndexPurged, world
<1>10. CASE UNCHANGED allVars
  BY <1>2, <1>10 DEF allVars, vars, world
<1>11. QED
  BY <1>2, <1>4, <1>5, <1>6, <1>7, <1>8, <1>9, <1>10
     DEF PurgeNext, Purge, ByOperation, Operation

\* What was compared last is what bears the name, or another program came between.
LEMMA LookStays ==
    ASSUME PurgeInv, LookInv, [PurgeNext]_allVars
    PROVE  LastLook'
<1>1. at \in [Objects -> Places]
  BY DEF PurgeInv, GoneIsAway
<1>2. CASE step' # "unlink"
  BY <1>2 DEF LastLook
<1>3. ASSUME NEW m \in Members, Compare(m), step' = "unlink"
      PROVE  LastLook'
  <2>1. /\ GoesNext(m) /\ at[m] = Dst(m) /\ m \notin changed
        /\ UNCHANGED <<at, changed, proved, counted, strange>>
    BY <1>3 DEF Compare, StillProven, Proven, Bears, Stopped, world, work
  <2>2. \A o \in Objects : at[o] = Dst(m) => o = m
    BY <2>1, NamesAreNotAway DEF LookInv, OneUnderAName
  <2>3. ASSUME NEW n \in Members, GoesNext(n)'
        PROVE  n = m
    BY <2>1, <2>3, OneGoesNext DEF GoesNext, Remaining
  <2>4. QED
    BY <2>1, <2>2, <2>3 DEF LastLook
<1>4. ASSUME step = "unlink", step' = "unlink", UNCHANGED <<proved, counted, strange>>,
             touched \subseteq touched',
             \A o \in Objects : at'[o] = at[o] \/ at'[o] = Away \/ o \in touched',
             changed' \subseteq changed \cup touched'
      PROVE  LastLook'
  <2>1. \A m \in Members : GoesNext(m)' <=> GoesNext(m)
    BY <1>4 DEF GoesNext, Remaining
  <2>2. QED
    BY <1>4, <2>1, NamesAreNotAway DEF LastLook, LookInv
<1>5. CASE ByOthers
  <2>1. /\ UNCHANGED <<step, proved, counted, strange>> /\ touched \subseteq touched'
        /\ \A o \in Objects : at'[o] = at[o] \/ o \in touched'
        /\ changed' \subseteq changed \cup touched'
    BY <1>5 DEF ByOthers, work
  <2>2. QED
    BY <1>2, <1>4, <2>1
<1>6. ASSUME NEW m \in Members, NEW new \in Strangers \cup {None}, OtherRemoves(m, new)
      PROVE  LastLook'
  <2>1. /\ UNCHANGED <<step, proved, counted, strange, changed>>
        /\ touched' = touched \cup ({m, new} \ {None})
        /\ at' = [o \in Objects |-> IF o = m THEN Away ELSE IF o = new THEN at[m] ELSE at[o]]
    BY <1>6 DEF OtherRemoves, work
  <2>2. \A o \in Objects : at'[o] = at[o] \/ at'[o] = Away \/ o \in touched'
    BY <2>1
  <2>3. QED
    BY <1>2, <1>4, <2>1, <2>2
<1>7. CASE UNCHANGED allVars
  BY <1>2, <1>4, <1>7 DEF allVars, vars, world, purge, work, fate
<1>8. CASE ByOperation(Operation)
  BY <1>2, <1>8 DEF ByOperation, purge
<1>9. ASSUME NEW m \in Members, Prove(m) \/ Unlink(m) \/ Count(m)
      PROVE  step' # "unlink"
  BY <1>9 DEF Prove, Unlink, Count, Stopped
<1>10. CASE StartPurge \/ KillPurge \/ BeginPurge \/ ClosePurge \/ IndexPurged
  BY <1>2, <1>10 DEF StartPurge, KillPurge, BeginPurge, ClosePurge, IndexPurged
<1>11. QED
  BY <1>2, <1>3, <1>5, <1>6, <1>7, <1>8, <1>9, <1>10
     DEF PurgeNext, Purge, ByOperation, Operation

\* What a purge deletes was proven, the whole unit before the first of it, and is what
\* was compared last, save in the instant before the call.
THEOREM OnlyProvenGoes == PurgeSpec => OnlyTheProvenGoes
<1> DEFINE Honest == /\ proved = Members
                     /\ \A o \in erased' \ erased :
                           (o \in proved /\ o \notin changed) \/ o \in touched
<1>1. PurgeInit => LookInv
  BY DEF PurgeInit, Init, LookInv, LastLook, OneUnderAName, Src, Away
<1>2. PurgeInv /\ LookInv /\ [PurgeNext]_allVars => LookInv'
  BY NamesStayApart, LookStays DEF LookInv
<1>3. PurgeSpec => [](PurgeInv /\ LookInv)
  BY <1>1, <1>2, PurgeInvariance, PTL DEF PurgeSpec
<1>4. ASSUME PurgeInv, LookInv, [PurgeNext]_allVars
      PROVE  [erased' # erased => Honest]_allVars
  <2>1. ASSUME erased' # erased
        PROVE  \E m \in Members : Unlink(m)
    BY <1>4, <2>1 DEF PurgeNext, StartPurge, Purge, KillPurge, BeginPurge, ClosePurge,
       IndexPurged, Prove, Compare, Count, ByOperation, ByOthers, OtherRemoves,
       allVars, purge, fate
  <2>2. ASSUME NEW m \in Members, Unlink(m)
        PROVE  Honest
    <3>1. step = "unlink" /\ GoesNext(m) /\ proved = Members
      BY <1>4, <2>2 DEF Unlink, PurgeInv, Progress
    <3>2. ASSUME NEW o \in erased' \ erased
          PROVE  (o \in proved /\ o \notin changed) \/ o \in touched
      <4>1. o \in Objects /\ at[o] = Dst(m)
        BY <2>2, <3>2 DEF Unlink, Bears
      <4>2. QED
        BY <1>4, <3>1, <4>1 DEF LookInv, LastLook
    <3>3. QED
      BY <3>1, <3>2
  <2>3. QED
    BY <2>1, <2>2
<1>5. QED
  BY <1>3, <1>4, PTL DEF PurgeSpec, OnlyTheProvenGoes
=============================================================================

---------------------------- MODULE ArchiveChoice ----------------------------
(***************************************************************************)
(* What a move of the app's data promises: the archive the app is told to  *)
(* open changes only because somebody recorded something in it, never      *)
(* because it was moved. A move changes the place and nothing else.        *)
(***************************************************************************)
EXTENDS Naturals

VARIABLES
    place,    \* which folder the bootstrap names: 0 the old one, n the copy of run n
    content   \* how many records the archive there holds

vars == <<place, content>>

Init == place = 0 /\ content = 0

Record == content' = content + 1 /\ UNCHANGED place
Switch == place' \in Nat /\ place' # place /\ UNCHANGED content

Next == Record \/ Switch

Spec == Init /\ [][Next]_vars
==============================================================================

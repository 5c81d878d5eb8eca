---------------------------- MODULE MCDataFolder ----------------------------
(* An instance of DataFolder: folders of every kind a check tells apart, one *)
(* unusual folder at a time or an open folder with a sticky bit above one;   *)
(* three migrations, of which the second program knows two.                  *)
EXTENDS DataFolder, TLC

Root == [Closed EXCEPT !.who = "root"]
Tmp == [Root EXCEPT !.loose = TRUE, !.sticky = TRUE]
Odd == {Closed, Root, Tmp, [Closed EXCEPT !.loose = TRUE], [Closed EXCEPT !.who = "other"],
        [Closed EXCEPT !.list = "harmless"], [Closed EXCEPT !.list = "open"],
        [Closed EXCEPT !.vol = "unowned"], [Closed EXCEPT !.vol = "strange"]}
MCWorlds == {<<f, Closed, Closed>> : f \in Odd} \cup {<<Tmp, f, Closed>> : f \in Odd} \cup {<<Tmp, Closed, f>> : f \in Odd}
MCKinds == <<"tables", "columns", "decisions">>
MCKnows == ("app" :> 3) @@ ("tool" :> 2)
=============================================================================

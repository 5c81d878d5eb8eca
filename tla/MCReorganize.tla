---------------------------- MODULE MCReorganize ----------------------------
(* An instance of Reorganize: one frame already lies in the folder of its   *)
(* evening; a folder outside the tree holds another of the same name, taken *)
(* later that evening, with its raw half, their sidecar and a service file. *)
(* With the short gap the evening is two events, with the long one it is    *)
(* one, and the newcomers have to take another name.                        *)
EXTENDS Reorganize, TLC

ExtOf == <<"jpg", "jpg", "raw", "xmp", "litter">>
MCStart ==
    [o \in 1..5 |->
      CASE o = 1 -> [dir |-> <<"event", 1, 0>>, stem |-> <<1>>, ext |-> "jpg"]
        [] o = 5 -> [dir |-> Folder(1), stem |-> <<5>>, ext |-> "litter"]
        [] OTHER -> [dir |-> Folder(1), stem |-> <<1>>, ext |-> ExtOf[o]]]
MCTaken == <<33, 44, 44>>
MCWritten == <<50, 50, 50>>
MCFolderMonth == <<0>>
MCStrays == {<<2, [dir |-> <<"event", 1, 20>>, stem |-> <<1>>, ext |-> "jpg"]>>,
             <<1, MCStart[2]>>}
MCEntries == (0 :> 3) @@ (1 :> 2)
=============================================================================

---------------------------- MODULE MCThumbnails ----------------------------
(* An instance of Thumbnails: a server with a job and a viewer, and a       *)
(* viewer of another server over the same data folder; one of the two files *)
(* may be written anew.                                                     *)
EXTENDS Thumbnails, TLC

MCProcOf == ("job" :> "server") @@ ("page" :> "server") @@ ("other" :> "second")
CONSTANTS photoA, photoB
MCVersion == (photoA :> 2) @@ (photoB :> 1)
=============================================================================

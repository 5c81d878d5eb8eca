------------------------ MODULE MCGatheredQuarantine ------------------------
(* An instance of GatheredQuarantine: two mount points share their last     *)
(* name, a third has another; the two programs first see the volume under   *)
(* mount points of different labels.                                        *)
EXTENDS GatheredQuarantine, TLC

MCLabelOf == ("a/disk" :> "disk") @@ ("b/disk" :> "disk") @@ ("photos" :> "photos")
MCSees == ("server" :> "a/disk") @@ ("cli" :> "photos")
MCRows == ("server" :> 2) @@ ("cli" :> 1)
CONSTANTS photoA, photoB
=============================================================================

------------------------------ MODULE MCGroups ------------------------------
(* An instance of Groups: two frames, two raw files that share a preview.    *)
EXTENDS Groups

RawA == [frame |-> 1, bytes |-> 1, proxy |-> TRUE]
RawB == [frame |-> 1, bytes |-> 2, proxy |-> TRUE]
Scan == [frame |-> 2, bytes |-> 3, proxy |-> FALSE]

MCFile == 1..3
MCWorth == <<30, 20, 10>>
MCDir == <<1, 2, 2>>
MCPictures == {RawA, RawB, Scan}
MCFirst == <<RawA, RawA, Scan>>
MCShots == {{}, {{1, 3}}}
MCBursts == {{1, 2, 3}}
MCWrites == {<<1, RawB>>, <<3, RawA>>}
MCRequests ==
    {[scope |-> "all", roles |-> {"copy"}, catalogue |-> FALSE],
     [scope |-> "reviewed", roles |-> {"copy"}, catalogue |-> FALSE],
     [scope |-> "marked", roles |-> {"copy", "version"}, catalogue |-> TRUE]}
=============================================================================

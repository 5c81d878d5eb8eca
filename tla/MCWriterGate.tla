---------------------------- MODULE MCWriterGate ----------------------------
(* An instance of WriterGate: two servers on one database.  The servers are *)
(* alike, so it is the one that starts the second job that is called A.     *)
EXTENDS WriterGate

CONSTANTS A, B
MCStarts == [s \in Servers |-> IF s = A THEN Jobs ELSE {1}]
=============================================================================

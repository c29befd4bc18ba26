--------------------------- MODULE MCStreamCreation ---------------------------
(* StreamCreation with two keys and two files, one that repeats its row.   *)
EXTENDS StreamCreation

CONSTANTS r1, r2

MCKeys == {"k1", "k2"}
MCRows == {r1, r2}
MCFiles == {<<r1, r1>>, <<r2>>}
=============================================================================

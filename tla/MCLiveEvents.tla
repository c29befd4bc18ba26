---------------------------- MODULE MCLiveEvents ----------------------------
(* LiveEvents with two connections, each on any of the three routes.       *)
EXTENDS LiveEvents

CONSTANTS c1, c2, p1
=============================================================================

-------------------------- MODULE MCEscrowPrograms --------------------------
(***************************************************************************)
(* Model checking of EscrowPrograms: a roster of two equal shares, and one *)
(* of three that do not divide the deposit and list one account twice.     *)
(***************************************************************************)
EXTENDS EscrowPrograms

CONSTANTS s1, r1, r2

Share(who, weight) == [recipient |-> who, weight |-> weight]

MCRosters == {<<Share(r1, 1), Share(r2, 1)>>,
              <<Share(r1, 1), Share(r2, 1), Share(r1, 1)>>}
=============================================================================

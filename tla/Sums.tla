-------------------------------- MODULE Sums --------------------------------
(***************************************************************************)
(* Sums over rows numbered from 1, as the contract's loops add them up.    *)
(***************************************************************************)
EXTENDS Integers

(* v[1] + ... + v[n] *)
SumUpTo(v, n) ==
    LET sum[i \in 0..n] == IF i = 0 THEN 0 ELSE sum[i - 1] + v[i]
    IN  sum[n]
=============================================================================

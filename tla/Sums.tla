-------------------------------- MODULE Sums --------------------------------
(* What numbers kept by a number from 1 upwards come to in all. *)
EXTENDS Integers

Sum(f, n) ==
    LET sum[k \in 0 .. n] == IF k = 0 THEN 0 ELSE sum[k - 1] + f[k]
    IN  sum[n]
=============================================================================

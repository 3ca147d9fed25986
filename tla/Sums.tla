--------------------------------- MODULE Sums ---------------------------------
(***************************************************************************)
(* Sums over stretches of a function on the integers: reports, durations,   *)
(* histograms.  Written as a recursive function, of which the prover can    *)
(* follow what it computes.                                                 *)
(***************************************************************************)
EXTENDS Integers

(* f[a + 1] + f[a + 2] + ... + f[b]                                         *)
SumBetween(f, a, b) ==
    LET sum[k \in a .. b] == IF k = a THEN 0 ELSE sum[k - 1] + f[k] IN sum[b]
=============================================================================

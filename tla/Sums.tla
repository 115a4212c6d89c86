-------------------------------- MODULE Sums --------------------------------
(***************************************************************************)
(* Sums and powers, by recursive functions rather than by folds, so that a *)
(* proof can unfold them.                                                  *)
(***************************************************************************)
EXTENDS Integers

\* f[1] + ... + f[k] for the k up to n.
PrefixSums(f, n) ==
    LET sum[k \in 0 .. n] == IF k = 0 THEN 0 ELSE sum[k - 1] + f[k]
    IN  sum

SumTo(f, n) == PrefixSums(f, n)[n]

\* base to the powers up to n.
Powers(base, n) ==
    LET power[k \in 0 .. n] == IF k = 0 THEN 1 ELSE power[k - 1] * base
    IN  power

Power(base, n) == Powers(base, n)[n]
=============================================================================

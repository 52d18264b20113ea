-------------------------------- MODULE Sums --------------------------------
(***************************************************************************)
(* Finite sums of integers, as the accounting modules use them: over an    *)
(* initial segment 1 .. n of the naturals.                                 *)
(***************************************************************************)
EXTENDS Integers

\* The partial sums 0, f[1], f[1] + f[2], ... up to n terms.
PartialSums(f, n) ==
    LET partial[i \in 0 .. n] == IF i = 0 THEN 0 ELSE partial[i - 1] + f[i]
    IN  partial

\* f[1] + ... + f[n]
Sum(f, n) == PartialSums(f, n)[n]

=============================================================================

-------------------------------- MODULE Sums --------------------------------
(***************************************************************************)
(* Sums of an integer-valued function over 1..n, written as a recursive    *)
(* function so that their laws can be proved (CapacityEnvelopeProofs).     *)
(***************************************************************************)
EXTENDS Integers

\* f[1] + ... + f[n], for a function f whose domain includes 1..n.
SumTo(f, n) ==
  LET partial[i \in 0..n] == IF i = 0 THEN 0 ELSE partial[i - 1] + f[i]
  IN  partial[n]

=============================================================================

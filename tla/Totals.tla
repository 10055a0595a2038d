------------------------------- MODULE Totals -------------------------------
(***************************************************************************)
(* The sum of a function whose values are natural numbers, defined without *)
(* recursion: a value n stands for n distinct units, and the sum is the    *)
(* number of units.  The definition computes in TLC and is within reach of *)
(* the finite-set theorems in proofs.                                      *)
(***************************************************************************)
EXTENDS Integers, FiniteSets

\* One unit per index x and per number in 1..f[x].
Units(f) == UNION {{x} \X (1..f[x]) : x \in DOMAIN f}

Total(f) == Cardinality(Units(f))
=============================================================================

----------------------------- MODULE MCConsole ------------------------------
(***************************************************************************)
(* A user with two coverages and one call at a time, and one with a single *)
(* coverage and two calls; both type and click while calls are in flight.  *)
(* Coverages are only compared with each other, so their permutations are  *)
(* symmetric.                                                              *)
(***************************************************************************)
EXTENDS Console, TLC

CONSTANTS kettle, lamp

Singles == {{coverage} : coverage \in Coverages}
MCMaxCalls == [some \in Singles \cup {Coverages} |-> IF some = Coverages THEN 1 ELSE 2]

CoverageSymmetry == Permutations(Coverages)
=============================================================================

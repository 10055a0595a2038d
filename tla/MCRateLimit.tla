----------------------------- MODULE MCRateLimit -----------------------------
(***************************************************************************)
(* An instance of RateLimit for TLC: four keys compete for three buckets.  *)
(***************************************************************************)
EXTENDS RateLimit, TLC

CONSTANTS client, claim1, claim2, global

MCmax == [k \in {client, claim1, claim2, global} |-> IF k = client THEN 1 ELSE 2]

ClaimSymmetry == Permutations(Claims)
=============================================================================

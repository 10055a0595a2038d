--------------------------- MODULE MCEvidenceStore --------------------------
(***************************************************************************)
(* Instances of EvidenceStore for TLC: c3 reuses the hash of c1, so two    *)
(* calls contend for it, and there is room for two of the three hashes.    *)
(* Two reads let one come while the other, or a write, loads the file.     *)
(***************************************************************************)
EXTENDS EvidenceStoreRefinement, TLC

CONSTANTS c1, c2, c3, c4, h1, h2, h3, p1, p2, p3, p4, r1, r2

MCHashOf == (c1 :> h1) @@ (c2 :> h2) @@ (c3 :> h1) @@ (c4 :> h3)
MCClaimOf == (p1 :> c1) @@ (p2 :> c2) @@ (p3 :> c3) @@ (p4 :> c4)
=============================================================================

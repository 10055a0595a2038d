------------------------- MODULE MCWarrantyReserve --------------------------
(***************************************************************************)
(* An instance of WarrantyReserve for TLC.  The seller and the buyer are   *)
(* contracts: both may call back while they receive value, and the buyer,  *)
(* once paid, may become a merchant itself.                                *)
(***************************************************************************)
EXTENDS WarrantyReserveRefinement

CONSTANTS seller, buyer, zero, empty, nil, h1, evaluator, outsider

MCDecision(signer, chain, verifier, k, c, who, h, v, r, e, n) ==
  [signer |-> signer, chainId |-> chain, verifier |-> verifier,
   claimId |-> k, coverageId |-> c, claimant |-> who, evidenceHash |-> h,
   amount |-> v, result |-> r, expiry |-> e, nonce |-> n]

\* Decisions the evaluator may sign: every amount, a nonce per claim (as the
\* server chooses it) or a shared one, wrong coverages and wrong hashes.
Signed(Ids, Ns, Vs, Es) ==
  {MCDecision(evaluator, 1, 1, k, c, buyer, h, v, r, e, n) :
     k \in Ids, c \in Ids, h \in {empty, h1}, v \in Vs,
     r \in {"Approve", "Reject"}, e \in Es, n \in Ns}

\* Decisions that must not count: other signer, chain or verifier.
Foreign ==
  {MCDecision(outsider, 1, 1, 1, 1, buyer, h1, 1, "Approve", 2, 1),
   MCDecision(evaluator, 2, 1, 1, 1, buyer, h1, 1, "Approve", 2, 1),
   MCDecision(evaluator, 1, 2, 1, 1, buyer, h1, 1, "Approve", 2, 1),
   MCDecision(evaluator, 1, 1, 1, 1, seller, h1, 1, "Approve", 2, 1),
   MCDecision(evaluator, 1, 1, 1, 1, buyer, h1, 1, "None", 2, 1),
   MCDecision(evaluator, 1, 1, 1, 1, buyer, h1, 0, "Unknown", 2, 1)}

MCDecisions == Signed(1..2, 1..2, 0..2, {0, 1}) \cup Foreign
MCEndowment == [a \in Accounts |-> IF a = buyer THEN 0 ELSE 2]
=============================================================================

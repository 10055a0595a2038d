---------------------------- MODULE MCSettlement ----------------------------
(***************************************************************************)
(* An instance of Settlement for TLC: two coverages of one merchant and    *)
(* one buyer, for two pieces of one product.  A content is right for the   *)
(* first, and asks for less than its maximum; another is right for the     *)
(* second, but dated later.                                                *)
(***************************************************************************)
EXTENDS Settlement, TLC

CONSTANTS seller, buyer, stranger, h1, h2, j1, j2

MCCoverage(receipt) ==
  [merchant |-> seller, claimant |-> buyer, product |-> "lamp", receipt |-> receipt,
   maxPayout |-> 2, expiry |-> 1]
MCCoverages == <<MCCoverage("first"), MCCoverage("second")>>

MCContent(receipt, requested, at) ==
  [product |-> "lamp", receipt |-> receipt, damageEligible |-> TRUE,
   evidenceComplete |-> TRUE, fileIntegrityOk |-> TRUE,
   requestedAmount |-> requested, issuedAt |-> at]
MCContents == (h1 :> MCContent("first", 1, 0)) @@ (h2 :> MCContent("second", 2, 2))

MCAnswers == {Approval(Wei(2)), Approval(PaddedZero), reject("POLICY_UNCERTAIN")}

JobSymmetry == Permutations(Jobs)
=============================================================================

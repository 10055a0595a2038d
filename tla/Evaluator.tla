------------------------------ MODULE Evaluator -----------------------------
(***************************************************************************)
(* The bounded evaluator: web/lib/evaluator.server.ts, its copy under      *)
(* scripts/evaluator, and web/lib/groqBrain.ts.  The policy maps typed     *)
(* facts to a verdict; a model provider may only weaken an approval of the *)
(* policy; what is signed has passed the decision schema and the cap.      *)
(* Free text, model versions and confidence bands decide nothing and are   *)
(* left out.                                                               *)
(***************************************************************************)
EXTENDS Integers, FiniteSetsExt

CONSTANTS
  StalenessWindow,   \* 30 days
  FutureGrace,       \* 300 seconds
  DecisionTtl        \* DECISION_TTL, 3600 seconds

ASSUME WindowsAssumption ==
  /\ StalenessWindow \in Nat
  /\ FutureGrace \in Nat
  /\ DecisionTtl \in Nat

\* The reject reasons, in the order in which the policy looks for them.
ReasonOrder ==
  <<"CORRUPTED_FILE", "MISSING_EVIDENCE", "DUPLICATE_EVIDENCE", "STALE_CLAIM",
    "PRODUCT_MISMATCH", "INELIGIBLE_CONDITION", "AMOUNT_EXCEEDS_CAP",
    "POLICY_UNCERTAIN">>
RejectReasons == {ReasonOrder[i] : i \in 1..8}

\* A decimal string of wei; zero written "00" is not the string "0".
Wei(n) == [value |-> n, padded |-> FALSE]
PaddedZero == [value |-> 0, padded |-> TRUE]

Approval(w) == [decision |-> "APPROVE", approvedAmount |-> w,
                reasonCode |-> "ELIGIBLE_DAMAGE_VERIFIED"]
reject(reason) == [decision |-> "REJECT", approvedAmount |-> Wei(0),
                   reasonCode |-> reason]

\* The provider failed, or what it said is no decision object.
Failure == [decision |-> "none", approvedAmount |-> Wei(0), reasonCode |-> "none"]

ValidAnyApproval(d) ==                                                 \* mutant
  /\ d.decision \in {"APPROVE", "REJECT"}
  /\ d.decision = "REJECT" => d.approvedAmount = Wei(0)
  /\ d.reasonCode \in RejectReasons <=> d.decision = "REJECT"

\* ModelDecisionSchema.
Valid(d) ==
  /\ d.decision \in {"APPROVE", "REJECT"}
  /\ d.decision = "REJECT" <=> d.approvedAmount = Wei(0)
  /\ d.decision = "APPROVE" <=> d.reasonCode = "ELIGIBLE_DAMAGE_VERIFIED"
  /\ d.decision = "REJECT" => d.reasonCode \in RejectReasons

-----------------------------------------------------------------------------
(***************************************************************************)
(* The policy, on evidence e in a context of the coverage's maxPayout, the *)
(* time asOf and the hashes seen, attested for other claims.               *)
(***************************************************************************)

Fails(reason, e, ctx) ==
  CASE reason = "CORRUPTED_FILE" -> ~e.fileIntegrityOk
    [] reason = "MISSING_EVIDENCE" -> ~e.evidenceComplete
    [] reason = "DUPLICATE_EVIDENCE" -> e.evidenceHash \in ctx.seen
    [] reason = "STALE_CLAIM" -> \/ e.issuedAt > ctx.asOf + FutureGrace
                                 \/ ctx.asOf > e.issuedAt + StalenessWindow
    [] reason = "PRODUCT_MISMATCH" -> ~e.productMatches
    [] reason = "INELIGIBLE_CONDITION" -> ~e.damageEligible
    [] reason = "AMOUNT_EXCEEDS_CAP" -> e.requestedAmount > ctx.maxPayout
    [] reason = "POLICY_UNCERTAIN" -> e.requestedAmount = 0

evaluate(e, ctx) ==
  LET failed == {i \in 1..8 : Fails(ReasonOrder[i], e, ctx)} IN
  IF failed = {} THEN Approval(Wei(e.requestedAmount))
  ELSE reject(ReasonOrder[Min(failed)])

-----------------------------------------------------------------------------
(***************************************************************************)
(* The model provider between the policy and the signature.                *)
(***************************************************************************)

clampAmount(w, requested, cap) ==
  Wei(CASE w.value > requested -> requested
        [] w.value <= requested /\ w.value > cap -> cap
        [] OTHER -> w.value)

groqOverruling(e, ctx, answer) ==                                      \* mutant
  CASE ~Valid(answer) -> evaluate(e, ctx)
    [] answer.decision = "APPROVE" ->
         Approval(clampAmount(answer.approvedAmount, e.requestedAmount, ctx.maxPayout))
    [] OTHER -> reject(answer.reasonCode)

\* A rejection by the policy is final; the provider's approval is clamped.
groqBrain(e, ctx, answer) ==
  LET gate == evaluate(e, ctx) IN
  CASE gate.decision = "REJECT" -> gate
    [] gate.decision = "APPROVE" /\ ~Valid(answer) -> Failure
    [] gate.decision = "APPROVE" /\ Valid(answer) /\ answer.decision = "APPROVE" ->
         Approval(clampAmount(answer.approvedAmount, e.requestedAmount, ctx.maxPayout))
    [] OTHER -> reject(answer.reasonCode)

\* evaluateAndSign refuses (with no signature) or binds the output to the claim.
Refused == [result |-> "None"]

evaluateAndSign(e, binding, output) ==
  IF \/ e.evidenceHash # binding.evidenceHash
     \/ ~Valid(output)
     \/ output.decision = "APPROVE" /\ output.approvedAmount.value > binding.maxPayout
  THEN Refused
  ELSE [claimId |-> binding.claimId, coverageId |-> binding.coverageId,
        claimant |-> binding.claimant, evidenceHash |-> binding.evidenceHash,
        amount |-> output.approvedAmount.value,
        result |-> IF output.decision = "APPROVE" THEN "Approve" ELSE "Reject",
        expiry |-> binding.asOf + DecisionTtl, nonce |-> binding.nonce]
=============================================================================

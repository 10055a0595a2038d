--------------------------- MODULE EvaluatorCases ---------------------------
(***************************************************************************)
(* One evaluation of any evidence, with any answer of the provider, by the *)
(* policy alone and through the provider, against a definition that knows  *)
(* neither the order of the checks nor the clamping.                       *)
(***************************************************************************)
EXTENDS Evaluator

CONSTANTS
  EvidenceHashes,
  Times,     \* of the evidence and of the evaluation
  Wealth     \* amounts requested, capped or answered

ASSUME CasesAssumption == Times \subseteq Nat /\ Wealth \subseteq Nat

VARIABLES evidence, context, answer, byPolicy, byProvider

caseVars == <<evidence, context, answer, byPolicy, byProvider>>

Evidence ==
  [productMatches: BOOLEAN, damageEligible: BOOLEAN, evidenceComplete: BOOLEAN,
   fileIntegrityOk: BOOLEAN, issuedAt: Times, requestedAmount: Wealth,
   evidenceHash: EvidenceHashes]

Contexts == [maxPayout: Wealth \ {0}, asOf: Times, seen: SUBSET EvidenceHashes]

\* What the provider may say: sound and unsound objects, and nothing at all.
SpokenAnswers ==
  {Failure}
    \cup {Approval(w) : w \in {Wei(n) : n \in Wealth} \cup {PaddedZero}}
    \cup {reject("POLICY_UNCERTAIN"), reject("ELIGIBLE_DAMAGE_VERIFIED"),
          [reject("STALE_CLAIM") EXCEPT !.approvedAmount = PaddedZero]}

CaseInit ==
  /\ evidence \in Evidence
  /\ context \in Contexts
  /\ answer \in SpokenAnswers
  /\ byPolicy = Refused
  /\ byProvider = Refused

Binding ==
  [claimId |-> 1, coverageId |-> 1, claimant |-> "claimant",
   evidenceHash |-> evidence.evidenceHash, nonce |-> 1,
   maxPayout |-> context.maxPayout, asOf |-> context.asOf]

Sign ==
  /\ byPolicy = Refused
  /\ byPolicy' = evaluateAndSign(evidence, Binding, evaluate(evidence, context))
  /\ byProvider' = evaluateAndSign(evidence, Binding, groqBrain(evidence, context, answer))
  /\ UNCHANGED <<evidence, context, answer>>

CaseNext == Sign

CaseSpec == CaseInit /\ [][CaseNext]_caseVars

-----------------------------------------------------------------------------
\* Every typed signal passes, and the request is fresh and within the cap.
Eligible ==
  /\ evidence.productMatches /\ evidence.damageEligible
  /\ evidence.evidenceComplete /\ evidence.fileIntegrityOk
  /\ evidence.evidenceHash \notin context.seen
  /\ evidence.issuedAt <= context.asOf + FutureGrace
  /\ context.asOf - evidence.issuedAt <= StalenessWindow
  /\ evidence.requestedAmount \in 1..context.maxPayout

\* An approval is signed only for eligible evidence, for a positive amount the
\* contract accepts and the claimant asked for, whatever the provider answered.
ApprovalIsEarned ==
  \A d \in {byPolicy, byProvider} :
    d.result = "Approve" =>
      /\ Eligible
      /\ d.amount \in 1..evidence.requestedAmount
      /\ d.amount <= context.maxPayout

\* The provider cannot change a rejection of the policy nor raise an amount; at
\* worst there is no signature (groqBrain.ts, lines 163-170 and 177-179).
ProviderOnlyWeakens ==
  /\ byPolicy.result = "Reject" => byProvider = byPolicy
  /\ byPolicy.result = "Approve" =>
       /\ byProvider.result = "Approve" => byProvider.amount <= byPolicy.amount
       /\ ~Valid(answer) => byProvider = Refused
=============================================================================

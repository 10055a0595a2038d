--------------------------- MODULE SettlementProofs --------------------------
(***************************************************************************)
(* Why every payment is owed, for any coverages, contents, accounts,       *)
(* requests, answers of the provider and moments of suspension.            *)
(*                                                                         *)
(* What is signed has passed the policy, whatever the provider says.  A    *)
(* request decides on a snapshot, but all of it stays true: claims keep    *)
(* their coverage and their hash, and records are never replaced.          *)
(***************************************************************************)
EXTENDS Settlement, EvaluatorCases, SequenceTheorems, TLAPS

-----------------------------------------------------------------------------
(***************************************************************************)
(* The evaluator.                                                          *)
(***************************************************************************)

Sound(e) ==
  /\ {e.requestedAmount, e.issuedAt} \subseteq Nat
  /\ {e.productMatches, e.damageEligible, e.evidenceComplete, e.fileIntegrityOk}
       \subseteq BOOLEAN

SoundContext(ctx) == ctx.maxPayout \in Nat /\ ctx.asOf \in Nat

\* What the policy asks for, in no order.
Passes(e, ctx) ==
  /\ e.productMatches /\ e.damageEligible /\ e.evidenceComplete /\ e.fileIntegrityOk
  /\ e.evidenceHash \notin ctx.seen
  /\ e.issuedAt <= ctx.asOf + FutureGrace
  /\ ctx.asOf <= e.issuedAt + StalenessWindow
  /\ e.requestedAmount \in 1..ctx.maxPayout

\* A set of ranks has a first one.
LEMMA FirstRank ==
  ASSUME NEW S \in SUBSET (1..8), S # {}
  PROVE  Min(S) \in S
<1>1. \/ 1 \in S
      \/ 1 \notin S /\ 2 \in S
      \/ {1, 2} \cap S = {} /\ 3 \in S
      \/ {1, 2, 3} \cap S = {} /\ 4 \in S
      \/ {1, 2, 3, 4} \cap S = {} /\ 5 \in S
      \/ {1, 2, 3, 4, 5} \cap S = {} /\ 6 \in S
      \/ {1, 2, 3, 4, 5, 6} \cap S = {} /\ 7 \in S
      \/ {1, 2, 3, 4, 5, 6, 7} \cap S = {} /\ 8 \in S
  <2>1. PICK x \in S : x \in 1..8
    OBVIOUS
  <2>2. x \in {1, 2, 3, 4, 5, 6, 7, 8}
    BY <2>1
  <2> QED BY <2>1, <2>2, Zenon
<1>2. \E x \in S : \A y \in S : x =< y
  <2>1. ASSUME NEW x \in S, \A n \in 1..(x - 1) : n \notin S
        PROVE  \A y \in S : x =< y
    BY <2>1
  <2>2. /\ \A n \in 1..(1 - 1) : n \notin S
        /\ 1 \notin S => \A n \in 1..(2 - 1) : n \notin S
        /\ {1, 2} \cap S = {} => \A n \in 1..(3 - 1) : n \notin S
        /\ {1, 2, 3} \cap S = {} => \A n \in 1..(4 - 1) : n \notin S
        /\ {1, 2, 3, 4} \cap S = {} => \A n \in 1..(5 - 1) : n \notin S
        /\ {1, 2, 3, 4, 5} \cap S = {} => \A n \in 1..(6 - 1) : n \notin S
        /\ {1, 2, 3, 4, 5, 6} \cap S = {} => \A n \in 1..(7 - 1) : n \notin S
        /\ {1, 2, 3, 4, 5, 6, 7} \cap S = {} => \A n \in 1..(8 - 1) : n \notin S
    OBVIOUS
  <2> QED BY <1>1, <2>1, <2>2, Zenon
<1> QED BY <1>2 DEF Min

\* The policy approves what passes, in full, and rejects the rest for a reason.
LEMMA PolicyVerdict ==
  ASSUME NEW e, Sound(e), NEW ctx, SoundContext(ctx)
  PROVE  \/ Passes(e, ctx) /\ evaluate(e, ctx) = Approval(Wei(e.requestedAmount))
         \/ ~Passes(e, ctx) /\ \E r \in RejectReasons : evaluate(e, ctx) = reject(r)
<1> DEFINE failed == {i \in 1..8 : Fails(ReasonOrder[i], e, ctx)}
<1>1. failed = {} <=> Passes(e, ctx)
  <2>1. failed = {} <=> \A i \in 1..8 : ~Fails(ReasonOrder[i], e, ctx)
    OBVIOUS
  <2>2. (\A i \in 1..8 : ~Fails(ReasonOrder[i], e, ctx)) <=>
          /\ ~Fails("CORRUPTED_FILE", e, ctx) /\ ~Fails("MISSING_EVIDENCE", e, ctx)
          /\ ~Fails("DUPLICATE_EVIDENCE", e, ctx) /\ ~Fails("STALE_CLAIM", e, ctx)
          /\ ~Fails("PRODUCT_MISMATCH", e, ctx) /\ ~Fails("INELIGIBLE_CONDITION", e, ctx)
          /\ ~Fails("AMOUNT_EXCEEDS_CAP", e, ctx) /\ ~Fails("POLICY_UNCERTAIN", e, ctx)
    <3>1. /\ ReasonOrder[1] = "CORRUPTED_FILE" /\ ReasonOrder[2] = "MISSING_EVIDENCE"
          /\ ReasonOrder[3] = "DUPLICATE_EVIDENCE" /\ ReasonOrder[4] = "STALE_CLAIM"
          /\ ReasonOrder[5] = "PRODUCT_MISMATCH" /\ ReasonOrder[6] = "INELIGIBLE_CONDITION"
          /\ ReasonOrder[7] = "AMOUNT_EXCEEDS_CAP" /\ ReasonOrder[8] = "POLICY_UNCERTAIN"
      BY DEF ReasonOrder
    <3>2. \A i : i \in 1..8 <=> i \in {1, 2, 3, 4, 5, 6, 7, 8}
      OBVIOUS
    <3> QED BY <3>1, <3>2, Zenon
  <2>3. /\ Fails("CORRUPTED_FILE", e, ctx) <=> ~e.fileIntegrityOk
        /\ Fails("MISSING_EVIDENCE", e, ctx) <=> ~e.evidenceComplete
        /\ Fails("DUPLICATE_EVIDENCE", e, ctx) <=> e.evidenceHash \in ctx.seen
        /\ Fails("STALE_CLAIM", e, ctx) <=>
             (e.issuedAt > ctx.asOf + FutureGrace \/ ctx.asOf > e.issuedAt + StalenessWindow)
        /\ Fails("PRODUCT_MISMATCH", e, ctx) <=> ~e.productMatches
        /\ Fails("INELIGIBLE_CONDITION", e, ctx) <=> ~e.damageEligible
        /\ Fails("AMOUNT_EXCEEDS_CAP", e, ctx) <=> e.requestedAmount > ctx.maxPayout
        /\ Fails("POLICY_UNCERTAIN", e, ctx) <=> e.requestedAmount = 0
    BY DEF Fails
  <2> QED BY <2>1, <2>2, <2>3, WindowsAssumption DEF Passes, Sound, SoundContext
<1>2. CASE failed = {}
  BY <1>1, <1>2 DEF evaluate
<1>3. CASE failed # {}
  <2>1. Min(failed) \in 1..8
    BY <1>3, FirstRank
  <2>2. ReasonOrder[Min(failed)] \in RejectReasons
    BY <2>1 DEF RejectReasons
  <2> QED BY <1>1, <1>3, <2>2 DEF evaluate
<1> QED BY <1>2, <1>3

\* What the provider makes of it: the same rejection, or of an approval nothing,
\* a rejection, or an approval of no more.
LEMMA ProviderVerdict ==
  ASSUME NEW e, Sound(e), NEW ctx, SoundContext(ctx), NEW reply, reply.approvedAmount.value \in Nat
  PROVE  \/ ~Passes(e, ctx) /\ groqBrain(e, ctx, reply) = evaluate(e, ctx)
         \/ Passes(e, ctx) /\ ~Valid(reply) /\ groqBrain(e, ctx, reply) = Failure
         \/ /\ Passes(e, ctx) /\ Valid(reply)
            /\ \E n \in 0..e.requestedAmount :
                 n <= ctx.maxPayout /\ groqBrain(e, ctx, reply) = Approval(Wei(n))
         \/ /\ Passes(e, ctx) /\ Valid(reply)
            /\ \E r \in RejectReasons : groqBrain(e, ctx, reply) = reject(r)
<1>1. CASE ~Passes(e, ctx)
  <2>1. evaluate(e, ctx).decision = "REJECT"
    BY <1>1, PolicyVerdict DEF reject
  <2> QED BY <1>1, <2>1 DEF groqBrain
<1>2. CASE Passes(e, ctx)
  <2>1. evaluate(e, ctx).decision = "APPROVE"
    BY <1>2, PolicyVerdict DEF Approval
  <2>2. CASE ~Valid(reply)
    BY <1>2, <2>1, <2>2 DEF groqBrain
  <2>3. CASE Valid(reply) /\ reply.decision = "APPROVE"
    <3> DEFINE w == reply.approvedAmount
               n == CASE w.value > e.requestedAmount -> e.requestedAmount
                      [] w.value <= e.requestedAmount /\ w.value > ctx.maxPayout -> ctx.maxPayout
                      [] OTHER -> w.value
    <3>1. w.value \in Nat
      OBVIOUS
    <3>2. n \in 0..e.requestedAmount /\ n <= ctx.maxPayout
      <4>1. /\ e.requestedAmount \in Nat /\ ctx.maxPayout \in Nat
            /\ e.requestedAmount <= ctx.maxPayout
        BY <1>2 DEF Sound, SoundContext, Passes
      <4> QED BY <3>1, <4>1
    <3>3. groqBrain(e, ctx, reply) = Approval(Wei(n))
      BY <2>1, <2>3 DEF groqBrain, clampAmount
    <3> QED BY <1>2, <2>3, <3>2, <3>3
  <2>4. CASE Valid(reply) /\ reply.decision # "APPROVE"
    BY <1>2, <2>1, <2>4 DEF groqBrain, Valid
  <2> QED BY <2>2, <2>3, <2>4
<1> QED BY <1>1, <1>2

-----------------------------------------------------------------------------
(***************************************************************************)
(* The signature.                                                          *)
(***************************************************************************)

\* A decision on the claim of binding b.
Signed(b, amount, result) ==
  [claimId |-> b.claimId, coverageId |-> b.coverageId, claimant |-> b.claimant,
   evidenceHash |-> b.evidenceHash, amount |-> amount, result |-> result,
   expiry |-> b.asOf + DecisionTtl, nonce |-> b.nonce]

LEMMA SignRejection ==
  ASSUME NEW e, NEW b, e.evidenceHash = b.evidenceHash, NEW r \in RejectReasons
  PROVE  evaluateAndSign(e, b, reject(r)) = Signed(b, 0, "Reject")
<1>1. r # "ELIGIBLE_DAMAGE_VERIFIED"
  BY DEF RejectReasons, ReasonOrder
<1> QED BY <1>1 DEF evaluateAndSign, reject, Valid, Wei, Signed

LEMMA SignApproval ==
  ASSUME NEW e, NEW b, e.evidenceHash = b.evidenceHash, b.maxPayout \in Nat, NEW n \in Nat
  PROVE  evaluateAndSign(e, b, Approval(Wei(n))) =
           IF n \in 1..b.maxPayout THEN Signed(b, n, "Approve") ELSE Refused
<1>1. Valid(Approval(Wei(n))) <=> n # 0
  BY DEF Valid, Approval, Wei
<1> QED BY <1>1 DEF evaluateAndSign, Approval, Wei, Signed

LEMMA SignNothing ==
  ASSUME NEW e, NEW b
  PROVE  evaluateAndSign(e, b, Failure) = Refused
BY DEF evaluateAndSign, Failure, Valid

\* What is signed for the policy alone and through the provider: a rejection of
\* the policy in both cases, or else a full approval of what passes and no more.
LEMMA SignedVerdicts ==
  ASSUME NEW e, Sound(e), NEW ctx, SoundContext(ctx), NEW reply, reply.approvedAmount.value \in Nat,
         NEW b, e.evidenceHash = b.evidenceHash, b.maxPayout = ctx.maxPayout,
         NEW p, p = evaluateAndSign(e, b, evaluate(e, ctx)),
         NEW g, g = evaluateAndSign(e, b, groqBrain(e, ctx, reply))
  PROVE  \/ ~Passes(e, ctx) /\ p = Signed(b, 0, "Reject") /\ g = p
         \/ /\ Passes(e, ctx) /\ p = Signed(b, e.requestedAmount, "Approve")
            /\ \/ g = Refused
               \/ Valid(reply) /\ g = Signed(b, 0, "Reject")
               \/ Valid(reply) /\ \E n \in 1..e.requestedAmount :
                    n <= ctx.maxPayout /\ g = Signed(b, n, "Approve")
<1>1. CASE ~Passes(e, ctx)
  <2>1. PICK r \in RejectReasons : evaluate(e, ctx) = reject(r)
    BY <1>1, PolicyVerdict
  <2>2. groqBrain(e, ctx, reply) = evaluate(e, ctx)
    BY <1>1, ProviderVerdict
  <2> QED BY <1>1, <2>1, <2>2, SignRejection
<1>2. CASE Passes(e, ctx)
  <2>1. e.requestedAmount \in Nat /\ e.requestedAmount \in 1..ctx.maxPayout /\ ctx.maxPayout \in Nat
    BY <1>2 DEF Passes, Sound, SoundContext
  <2>2. p = Signed(b, e.requestedAmount, "Approve")
    <3>1. evaluate(e, ctx) = Approval(Wei(e.requestedAmount))
      BY <1>2, PolicyVerdict
    <3> QED BY <2>1, <3>1, SignApproval
  <2>3. CASE groqBrain(e, ctx, reply) = Failure
    BY <1>2, <2>2, <2>3, SignNothing
  <2>4. ASSUME Valid(reply), NEW n \in 0..e.requestedAmount, n <= ctx.maxPayout,
               groqBrain(e, ctx, reply) = Approval(Wei(n))
        PROVE  \/ g = Refused
               \/ n \in 1..e.requestedAmount /\ g = Signed(b, n, "Approve")
    <3>1. n \in Nat
      BY <2>1
    <3>2. g = IF n \in 1..b.maxPayout THEN Signed(b, n, "Approve") ELSE Refused
      BY <2>1, <2>4, <3>1, SignApproval
    <3> QED BY <2>1, <3>1, <3>2
  <2>5. ASSUME NEW r \in RejectReasons, groqBrain(e, ctx, reply) = reject(r)
        PROVE  g = Signed(b, 0, "Reject")
    BY <2>5, SignRejection
  <2> QED BY <1>2, <2>2, <2>3, <2>4, <2>5, ProviderVerdict
<1> QED BY <1>1, <1>2

-----------------------------------------------------------------------------
(***************************************************************************)
(* Every case of the evaluator.                                            *)
(***************************************************************************)

\* Once something is signed, it is what the functions make of the case.
CaseInv ==
  /\ evidence \in Evidence
  /\ context \in Contexts
  /\ answer \in SpokenAnswers
  /\ \/ byPolicy = Refused /\ byProvider = Refused
     \/ /\ byPolicy = evaluateAndSign(evidence, Binding, evaluate(evidence, context))
        /\ byProvider = evaluateAndSign(evidence, Binding, groqBrain(evidence, context, answer))

LEMMA CaseInvariant == CaseSpec => []CaseInv
<1>1. CaseInit => CaseInv
  BY DEF CaseInit, CaseInv
<1>2. CaseInv /\ [CaseNext]_caseVars => CaseInv'
  BY DEF CaseInv, CaseNext, Sign, caseVars, Binding
<1> QED BY <1>1, <1>2, PTL DEF CaseSpec

\* The cases are within the lemmas' reach.
LEMMA CaseIsSound ==
  ASSUME CaseInv
  PROVE  /\ Sound(evidence) /\ SoundContext(context) /\ answer.approvedAmount.value \in Nat
         /\ evidence.evidenceHash = Binding.evidenceHash
         /\ Binding.maxPayout = context.maxPayout
<1>1. Sound(evidence) /\ SoundContext(context)
  BY CasesAssumption DEF CaseInv, Evidence, Contexts, Sound, SoundContext
<1>2. answer.approvedAmount.value \in Nat
  <2>1. Failure.approvedAmount.value \in Nat
    BY DEF Failure, Wei
  <2>2. ASSUME NEW w \in {Wei(n) : n \in Wealth} \cup {PaddedZero}
        PROVE  Approval(w).approvedAmount.value \in Nat
    <3>1. w.value \in Nat
      BY CasesAssumption DEF Wei, PaddedZero
    <3> QED BY <3>1 DEF Approval
  <2>3. ASSUME NEW r
        PROVE  reject(r).approvedAmount.value \in Nat
    BY DEF reject, Wei
  <2>4. [reject("STALE_CLAIM") EXCEPT !.approvedAmount = PaddedZero].approvedAmount.value \in Nat
    BY DEF reject, Wei, PaddedZero
  <2> QED BY <2>1, <2>2, <2>3, <2>4, Zenon DEF CaseInv, SpokenAnswers
<1> QED BY <1>1, <1>2 DEF Binding

\* An approval is signed only for evidence that passes every check of the policy,
\* whatever the provider answered (evaluator.server.ts, evaluate and
\* evaluateAndSign; groqBrain.ts): no order of the checks and no clamped answer
\* lets more through.
THEOREM ApprovalIsEarnedHolds == CaseSpec => []ApprovalIsEarned
<1>1. CaseInv => ApprovalIsEarned
  <2> SUFFICES ASSUME CaseInv PROVE ApprovalIsEarned
    OBVIOUS
  <2>1. CASE byPolicy = Refused /\ byProvider = Refused
    BY <2>1 DEF ApprovalIsEarned, Refused
  <2>2. CASE /\ byPolicy = evaluateAndSign(evidence, Binding, evaluate(evidence, context))
             /\ byProvider = evaluateAndSign(evidence, Binding,
                                             groqBrain(evidence, context, answer))
    <3>1. Passes(evidence, context) => Eligible
      BY CaseIsSound, WindowsAssumption DEF Passes, Eligible, Sound, SoundContext
    <3>2. Passes(evidence, context) => evidence.requestedAmount \in 1..context.maxPayout
      BY DEF Passes
    <3>3. CASE ~Passes(evidence, context)
      <4>1. byPolicy = Signed(Binding, 0, "Reject") /\ byProvider = byPolicy
        BY <2>2, <3>3, CaseIsSound, SignedVerdicts
      <4> QED BY <4>1 DEF ApprovalIsEarned, Signed
    <3>4. CASE Passes(evidence, context)
      <4>1. /\ byPolicy = Signed(Binding, evidence.requestedAmount, "Approve")
            /\ \/ byProvider = Refused
               \/ byProvider = Signed(Binding, 0, "Reject")
               \/ \E n \in 1..evidence.requestedAmount :
                    n <= context.maxPayout /\ byProvider = Signed(Binding, n, "Approve")
        BY <2>2, <3>4, CaseIsSound, SignedVerdicts
      <4>2. ASSUME NEW n \in 1..evidence.requestedAmount, n <= context.maxPayout,
                   NEW d, d = Signed(Binding, n, "Approve")
            PROVE  /\ d.amount \in 1..evidence.requestedAmount
                   /\ d.amount <= context.maxPayout
        BY <4>2 DEF Signed
      <4>3. evidence.requestedAmount \in 1..evidence.requestedAmount
        BY <3>2, <3>4, CaseIsSound DEF Sound, SoundContext
      <4>4. /\ Refused.result # "Approve"
            /\ Signed(Binding, 0, "Reject").result # "Approve"
        BY DEF Refused, Signed
      <4>5. /\ byPolicy.amount \in 1..evidence.requestedAmount
            /\ byPolicy.amount <= context.maxPayout
        BY <3>2, <3>4, <4>1, <4>2, <4>3
      <4>6. byProvider.result = "Approve" =>
              /\ byProvider.amount \in 1..evidence.requestedAmount
              /\ byProvider.amount <= context.maxPayout
        BY <4>1, <4>2, <4>4
      <4> QED BY <3>1, <3>4, <4>5, <4>6 DEF ApprovalIsEarned
    <3> QED BY <3>3, <3>4
  <2> QED BY <2>1, <2>2 DEF CaseInv
<1> QED BY <1>1, CaseInvariant, PTL

\* A provider only weakens the policy (groqBrain.ts, lines 163-179): of a
\* rejection it changes nothing, of an approval it never raises the amount, and an
\* answer that is no valid decision leaves no signature.
THEOREM ProviderOnlyWeakensHolds == CaseSpec => []ProviderOnlyWeakens
<1>1. CaseInv => ProviderOnlyWeakens
  <2> SUFFICES ASSUME CaseInv PROVE ProviderOnlyWeakens
    OBVIOUS
  <2>1. CASE byPolicy = Refused /\ byProvider = Refused
    BY <2>1 DEF ProviderOnlyWeakens, Refused
  <2>2. CASE /\ byPolicy = evaluateAndSign(evidence, Binding, evaluate(evidence, context))
             /\ byProvider = evaluateAndSign(evidence, Binding,
                                             groqBrain(evidence, context, answer))
    <3>1. CASE byPolicy = Signed(Binding, 0, "Reject") /\ byProvider = byPolicy
      BY <3>1 DEF ProviderOnlyWeakens, Signed
    <3>2. CASE /\ byPolicy = Signed(Binding, evidence.requestedAmount, "Approve")
               /\ \/ byProvider = Refused
                  \/ Valid(answer) /\ byProvider = Signed(Binding, 0, "Reject")
                  \/ Valid(answer) /\ \E n \in 1..evidence.requestedAmount :
                       byProvider = Signed(Binding, n, "Approve")
      BY <3>2 DEF ProviderOnlyWeakens, Signed, Refused
    <3> QED BY <2>2, <3>1, <3>2, CaseIsSound, SignedVerdicts
  <2> QED BY <2>1, <2>2 DEF CaseInv
<1> QED BY <1>1, CaseInvariant, PTL

-----------------------------------------------------------------------------
(***************************************************************************)
(* The routes: the inductive invariant.                                    *)
(***************************************************************************)

\* A record belongs to the claim that committed to its hash: it was attested by a
\* party to that claim, and its verdict is on that claim's coverage.
RecordBound(h) ==
  LET r == records[h] IN
  /\ h \in DOMAIN Contents
  /\ r.claimId \in DOMAIN claim
  /\ claim[r.claimId].evidenceHash = h
  /\ claim[r.claimId].coverageId = r.coverageId
  /\ r.matches = Matches(r.coverageId, h)
  /\ r.submittedBy \in Parties(r.coverageId)

RecordsBound == \A h \in Hashes : records[h] # NoRecord => RecordBound(h)

\* What a suspended request has read is still so.
JobBound(j) ==
  /\ job[j].stage = "attest" => Hash(j) \in DOMAIN Contents
  /\ job[j].stage \in {"compare", "decide"} =>
       records[Hash(j)] # NoRecord /\ BoundToClaim(j) /\ job[j].asOf <= now

JobsBound == \A j \in Jobs : JobBound(j)

ClocksClose == now <= blockTime + Skew /\ blockTime <= now + Skew

NoncesMatch == usedNonce = {k \in DOMAIN claim : claim[k].status # "Open"}

\* What may be paid on hash h under coverage c.
Owed(c, h, amount) ==
  /\ Matches(c, h)
  /\ Contents[h].damageEligible /\ Contents[h].evidenceComplete /\ Contents[h].fileIntegrityOk
  /\ amount \in 1..Contents[h].requestedAmount
  /\ amount <= Coverages[c].maxPayout

\* A decision is on its claim, on a record of that claim, and dated.
DecisionEarned(d) ==
  /\ d.claimId \in DOMAIN claim
  /\ d.nonce = d.claimId
  /\ d.coverageId = claim[d.claimId].coverageId
  /\ d.evidenceHash = claim[d.claimId].evidenceHash
  /\ d.claimant = Coverages[d.coverageId].claimant
  /\ d.evidenceHash \in DOMAIN Contents
  /\ records[d.evidenceHash] # NoRecord
  /\ records[d.evidenceHash].claimId = d.claimId
  /\ d.result \in {"Approve", "Reject"}
  /\ d.expiry \in Nat
  /\ d.result = "Reject" => d.amount = 0
  /\ d.result = "Approve" =>
       /\ Owed(d.coverageId, d.evidenceHash, d.amount)
       /\ Contents[d.evidenceHash].issuedAt <= now + FutureGrace
       /\ d.expiry <= Contents[d.evidenceHash].issuedAt + StalenessWindow + DecisionTtl

DecisionsEarned == \A d \in issued : DecisionEarned(d)

IInv ==
  /\ TypeOK
  /\ RecordsBound
  /\ JobsBound
  /\ ClocksClose
  /\ NoncesMatch
  /\ DecisionsEarned
  /\ PaidIsOwed

\* What no step undoes: a claim's coverage and hash, a record, the time passed.
Kept ==
  /\ \A k \in DOMAIN claim :
       /\ k \in DOMAIN claim'
       /\ claim'[k].coverageId = claim[k].coverageId
       /\ claim'[k].evidenceHash = claim[k].evidenceHash
  /\ \A h \in Hashes : records[h] # NoRecord => records'[h] = records[h]
  /\ now' \in Nat /\ now <= now'

-----------------------------------------------------------------------------
(***************************************************************************)
(* Types, and the two steps that change the chain.                         *)
(***************************************************************************)

LEMMA ClaimTyped ==
  ASSUME TypeOK
  PROVE  /\ Len(claim) \in Nat /\ DOMAIN claim = 1..Len(claim)
         /\ \A k \in DOMAIN claim :
              claim[k].coverageId \in CoverageIds /\ claim[k].evidenceHash \in Hashes
<1>1. claim \in Seq(Claim)
  BY DEF TypeOK
<1>2. Len(claim) \in Nat /\ DOMAIN claim = 1..Len(claim)
  BY <1>1, LenProperties
<1>3. \A k \in 1..Len(claim) : claim[k] \in Claim
  BY <1>1, ElementOfSeq
<1> QED BY <1>2, <1>3 DEF Claim

\* A claim is appended, and it is open.
LEMMA Opened ==
  ASSUME TypeOK, NEW c \in CoverageIds, NEW h \in Hashes, openClaim(c, h)
  PROVE  /\ claim' \in Seq(Claim)
         /\ DOMAIN claim' = DOMAIN claim \cup {Len(claim) + 1}
         /\ Len(claim) + 1 \notin DOMAIN claim
         /\ \A k \in DOMAIN claim : claim'[k] = claim[k]
         /\ claim'[Len(claim) + 1].status = "Open"
<1> DEFINE new == [coverageId |-> c, evidenceHash |-> h,
                   status |-> "Open", paid |-> 0, settledAt |-> 0]
<1>1. new \in Claim
  BY BoundsAssumption DEF Claim
<1>2. claim \in Seq(Claim) /\ claim' = Append(claim, new)
  BY DEF TypeOK, openClaim
<1> HIDE DEF new
<1>3. /\ claim' \in Seq(Claim)
      /\ Len(claim') = Len(claim) + 1
      /\ \A k \in 1..Len(claim) : claim'[k] = claim[k]
      /\ claim'[Len(claim) + 1] = new
  BY <1>1, <1>2, AppendProperties
<1>4. /\ DOMAIN claim' = 1..Len(claim')
      /\ Len(claim) \in Nat /\ DOMAIN claim = 1..Len(claim)
  BY <1>3, ClaimTyped, LenProperties
<1>5. DOMAIN claim' = DOMAIN claim \cup {Len(claim) + 1} /\ Len(claim) + 1 \notin DOMAIN claim
  BY <1>3, <1>4
<1> QED BY <1>3, <1>4, <1>5 DEF new

\* The claim of the decision is settled as it says, and no other.
LEMMA Resolved ==
  ASSUME TypeOK, DecisionsEarned, NEW d \in issued, resolveClaim(d)
  PROVE  /\ claim' \in Seq(Claim)
         /\ DOMAIN claim' = DOMAIN claim
         /\ \A k \in DOMAIN claim \ {d.claimId} : claim'[k] = claim[k]
         /\ claim'[d.claimId].coverageId = claim[d.claimId].coverageId
         /\ claim'[d.claimId].evidenceHash = claim[d.claimId].evidenceHash
         /\ claim'[d.claimId].status = d.result
         /\ claim'[d.claimId].paid = d.amount
         /\ claim'[d.claimId].settledAt = blockTime
<1> DEFINE old == claim[d.claimId]
           settled == [old EXCEPT !.status = d.result, !.paid = d.amount,
                               !.settledAt = blockTime]
<1>1. claim \in Seq(Claim) /\ d.claimId \in 1..Len(claim)
  BY ClaimTyped DEF TypeOK, resolveClaim, Acceptable, Open
<1>2. old \in Claim
  BY <1>1, ElementOfSeq
<1>3. /\ d.result \in {"Approve", "Reject"}
      /\ d.amount \in Nat
  <2>1. DecisionEarned(d)
    BY DEF DecisionsEarned
  <2>2. d.coverageId \in CoverageIds
    BY <2>1, ClaimTyped DEF DecisionEarned
  <2>3. Coverages[d.coverageId].maxPayout \in Nat
    BY <2>2, InputsAssumption
  <2> QED BY <2>1, <2>3 DEF DecisionEarned, resolveClaim, Acceptable
<1>4. settled \in Claim
  <2>1. blockTime \in Nat
    BY BoundsAssumption DEF TypeOK
  <2> QED BY <1>2, <1>3, <2>1 DEF Claim
<1>5. /\ settled.coverageId = old.coverageId
      /\ settled.evidenceHash = old.evidenceHash
      /\ settled.status = d.result
      /\ settled.paid = d.amount
      /\ settled.settledAt = blockTime
  BY <1>2 DEF Claim
<1>6. claim' = [claim EXCEPT ![d.claimId] = settled]
  BY <1>1, <1>2, LenProperties DEF resolveClaim, Claim
<1> HIDE DEF settled
<1>7. /\ claim' \in Seq(Claim)
      /\ Len(claim') = Len(claim)
      /\ \A k \in 1..Len(claim) : claim'[k] = IF k = d.claimId THEN settled ELSE claim[k]
  BY <1>1, <1>4, <1>6, ExceptSeq
<1>8. DOMAIN claim' = 1..Len(claim') /\ DOMAIN claim = 1..Len(claim)
  BY <1>7, ClaimTyped, LenProperties
<1> QED BY <1>1, <1>5, <1>7, <1>8

\* The steps of a request leave the chain and the clock alone.
RequestStep(j) ==
  \/ \E k \in ClaimIds, c \in CoverageIds, signer \in Accounts :
       IntakeRead(j, k, c, signer) \/ EvaluateRead(j, k, c, signer)
  \/ IntakeStore(j)
  \/ LoadRecord(j)
  \/ LoadSeen(j)
  \/ \E reply \in Answers : Decide(j, reply)
  \/ Fail(j)

LEMMA StepKinds ==
  ASSUME [Next]_vars
  PROVE  \/ UNCHANGED vars
         \/ Tick
         \/ \E c \in CoverageIds, h \in Hashes : openClaim(c, h)
         \/ \E d \in issued : resolveClaim(d)
         \/ \E j \in Jobs : RequestStep(j)
BY DEF Next, RequestStep

LEMMA RequestsOffChain ==
  ASSUME NEW j \in Jobs, RequestStep(j)
  PROVE  /\ claim' = claim /\ usedNonce' = usedNonce
         /\ now' = now /\ blockTime' = blockTime
         /\ IntakeStore(j) \/ records' = records
         /\ (\E reply \in Answers : Decide(j, reply)) \/ issued' = issued
BY DEF RequestStep, IntakeRead, EvaluateRead, IntakeStore, LoadRecord, LoadSeen, Decide,
       Fail, chain, clocks

\* The five fields, in the only combinations a step leaves.
LEMMA JobMoves ==
  ASSUME TypeOK, NEW j \in Jobs, RequestStep(j)
  PROVE  /\ \A i \in Jobs \ {j} : job'[i] = job[i]
         /\ job'[j] \in Job
         /\ \/ job'[j].stage = "idle"
            \/ /\ job'[j].stage = "attest"
               /\ Open(job'[j].claimId)
               /\ claim[job'[j].claimId].evidenceHash \in DOMAIN Contents
            \/ /\ job'[j].stage = "authorize"
               /\ Open(job'[j].claimId)
            \/ /\ job'[j].stage = "compare" /\ job[j].stage = "authorize"
               /\ job'[j].claimId = job[j].claimId
               /\ records[Hash(j)] # NoRecord /\ BoundToClaim(j)
               /\ job'[j].asOf = now
            \/ /\ job'[j].stage = "decide" /\ job[j].stage = "compare"
               /\ job'[j].claimId = job[j].claimId
               /\ job'[j].asOf = job[j].asOf
         /\ job' \in [Jobs -> Job]
<1>1. job \in [Jobs -> Job] /\ now \in 0..MaxTime /\ job[j] \in Job
  BY DEF TypeOK
<1>2. Idle \in Job
  BY BoundsAssumption DEF Idle, Job
<1>3. CASE Reply(j)
  BY <1>1, <1>2, <1>3 DEF Reply, Idle
<1>4. ASSUME NEW stage \in {"attest", "authorize"}, NEW k \in ClaimIds,
             NEW signer \in Accounts, Await(j, stage, k, signer)
      PROVE  /\ \A i \in Jobs \ {j} : job'[i] = job[i]
             /\ job' \in [Jobs -> Job]
             /\ job'[j] \in Job
             /\ job'[j].stage = stage /\ job'[j].claimId = k
  <2> DEFINE new == [Idle EXCEPT !.stage = stage, !.claimId = k, !.signer = signer]
  <2>1. k \in Nat
    BY DEF ClaimIds
  <2>2. new \in Job /\ new.stage = stage /\ new.claimId = k
    BY <1>2, <2>1 DEF Idle, Job
  <2>3. job' = [job EXCEPT ![j] = new]
    BY <1>4 DEF Await
  <2> HIDE DEF new
  <2> QED BY <1>1, <2>2, <2>3
<1>5. ASSUME NEW k \in ClaimIds, NEW c \in CoverageIds, NEW signer \in Accounts,
             IntakeRead(j, k, c, signer)
      PROVE  /\ Await(j, "attest", k, signer) /\ Open(k)
             /\ claim[k].evidenceHash \in DOMAIN Contents
  BY <1>5 DEF IntakeRead
<1>6. ASSUME NEW k \in ClaimIds, NEW c \in CoverageIds, NEW signer \in Accounts,
             EvaluateRead(j, k, c, signer)
      PROVE  Await(j, "authorize", k, signer) /\ Open(k)
  BY <1>6 DEF EvaluateRead
<1>7. ASSUME LoadRecord(j), ~Reply(j)
      PROVE  /\ \A i \in Jobs \ {j} : job'[i] = job[i]
             /\ job' \in [Jobs -> Job]
             /\ job'[j].stage = "compare" /\ job[j].stage = "authorize"
             /\ job'[j].claimId = job[j].claimId
             /\ records[Hash(j)] # NoRecord /\ BoundToClaim(j)
             /\ job'[j].asOf = now
  <2>1. /\ job' = [job EXCEPT ![j].stage = "compare", ![j].asOf = now]
        /\ job[j].stage = "authorize"
        /\ records[Hash(j)] # NoRecord /\ BoundToClaim(j)
    BY <1>7 DEF LoadRecord
  <2> HIDE DEF Hash, BoundToClaim
  <2> QED BY <1>1, <2>1 DEF Job
<1>8. ASSUME LoadSeen(j)
      PROVE  /\ \A i \in Jobs \ {j} : job'[i] = job[i]
             /\ job' \in [Jobs -> Job]
             /\ job'[j].stage = "decide" /\ job[j].stage = "compare"
             /\ job'[j].claimId = job[j].claimId
             /\ job'[j].asOf = job[j].asOf
  <2>1. seenEvidenceHashes(job[j].claimId) \in SUBSET Hashes
    BY DEF seenEvidenceHashes
  <2> QED BY <1>1, <1>8, <2>1 DEF LoadSeen, Job
<1>9. CASE IntakeStore(j) \/ Fail(j) \/ \E reply \in Answers : Decide(j, reply)
  BY <1>3, <1>9 DEF IntakeStore, Fail, Decide
<1> QED BY <1>1, <1>3, <1>4, <1>5, <1>6, <1>7, <1>8, <1>9 DEF RequestStep

-----------------------------------------------------------------------------
(***************************************************************************)
(* The step: what is kept.                                                 *)
(***************************************************************************)

LEMMA NothingIsUndone ==
  ASSUME TypeOK, DecisionsEarned, [Next]_vars
  PROVE  Kept
<1>1. now \in Nat
  BY BoundsAssumption DEF TypeOK
<1>2. CASE UNCHANGED vars
  BY <1>1, <1>2 DEF vars, chain, clocks, Kept
<1>3. CASE Tick
  BY <1>1, <1>3 DEF Tick, chain, Kept
<1>4. ASSUME NEW c \in CoverageIds, NEW h \in Hashes, openClaim(c, h)
      PROVE  Kept
  <2>1. UNCHANGED <<records, now>>
    BY <1>4 DEF openClaim, clocks
  <2> QED BY <1>1, <1>4, <2>1, Opened DEF Kept
<1>5. ASSUME NEW d \in issued, resolveClaim(d)
      PROVE  Kept
  <2>1. UNCHANGED <<records, now>>
    BY <1>5 DEF resolveClaim, clocks
  <2> QED BY <1>1, <1>5, <2>1, Resolved DEF Kept
<1>6. ASSUME NEW j \in Jobs, RequestStep(j)
      PROVE  Kept
  <2>1. claim' = claim /\ now' = now
    BY <1>6, RequestsOffChain
  <2>2. CASE records' = records
    BY <1>1, <2>1, <2>2 DEF Kept
  <2>3. CASE IntakeStore(j)
    <3>1. \A h \in Hashes : records[h] # NoRecord => records'[h] = records[h]
      BY <2>3 DEF IntakeStore, TypeOK
    <3> QED BY <1>1, <2>1, <3>1 DEF Kept
  <2> QED BY <1>6, <2>2, <2>3, RequestsOffChain
<1> QED BY <1>2, <1>3, <1>4, <1>5, <1>6, StepKinds

-----------------------------------------------------------------------------
(***************************************************************************)
(* The step, one conjunct of the invariant at a time.                      *)
(***************************************************************************)

\* A request that waits waits for a claim that exists.
LEMMA JobHasClaim ==
  ASSUME TypeOK, NEW j \in Jobs, job[j].stage # "idle"
  PROVE  /\ job[j].claimId \in DOMAIN claim
         /\ Coverage(j) \in CoverageIds /\ Hash(j) \in Hashes
BY ClaimTyped DEF TypeOK, Coverage, Hash

LEMMA NewRecord ==
  ASSUME TypeOK, JobsBound, NEW j \in Jobs, IntakeStore(j)
  PROVE  \/ records' = records
         \/ /\ job[j].stage = "attest"
            /\ Hash(j) \in DOMAIN Contents
            /\ job[j].signer \in Parties(Coverage(j))
            /\ records' = [records EXCEPT ![Hash(j)] =
                              [claimId |-> job[j].claimId, coverageId |-> Coverage(j),
                               matches |-> Matches(Coverage(j), Hash(j)),
                               submittedBy |-> job[j].signer]]
BY DEF IntakeStore, Authorized, JobsBound, JobBound

LEMMA TypeStep ==
  ASSUME TypeOK, JobsBound, DecisionsEarned, [Next]_vars
  PROVE  TypeOK'
<1>0. Kept
  BY NothingIsUndone
<1>1. CASE UNCHANGED vars
  BY <1>1 DEF vars, chain, clocks, TypeOK
<1>2. CASE Tick
  <2>1. now' \in 0..MaxTime /\ blockTime' \in 0..(MaxTime + Skew)
    BY <1>2, BoundsAssumption DEF Tick, TypeOK
  <2> QED BY <1>2, <2>1 DEF Tick, chain, TypeOK
<1>3. ASSUME UNCHANGED <<records, job, now, blockTime>>, claim' \in Seq(Claim), usedNonce' \subseteq Nat
      PROVE  TypeOK'
  <2>1. \A j \in Jobs : job'[j].stage # "idle" => job'[j].claimId \in DOMAIN claim'
    BY <1>0, <1>3 DEF TypeOK, Kept
  <2> QED BY <1>3, <2>1 DEF TypeOK
<1>4. ASSUME NEW c \in CoverageIds, NEW h \in Hashes, openClaim(c, h)
      PROVE  TypeOK'
  BY <1>3, <1>4, Opened DEF openClaim, clocks, TypeOK
<1>5. ASSUME NEW d \in issued, resolveClaim(d)
      PROVE  TypeOK'
  <2>1. d.nonce \in Nat
    BY ClaimTyped DEF DecisionsEarned, DecisionEarned
  <2> QED BY <1>3, <1>5, <2>1, Resolved DEF resolveClaim, clocks, TypeOK
<1>6. ASSUME NEW j \in Jobs, RequestStep(j)
      PROVE  TypeOK'
  <2>1. UNCHANGED <<claim, usedNonce, now, blockTime>>
    BY <1>6, RequestsOffChain
  <2>2. records' \in [Hashes -> [claimId: Nat, coverageId: CoverageIds \cup {0},
                                 matches: BOOLEAN, submittedBy: Accounts \cup {"nobody"}]]
    <3>1. CASE records' = records
      BY <3>1 DEF TypeOK
    <3>2. CASE IntakeStore(j)
      <4>1. job[j] \in Job
        BY DEF TypeOK
      <4>2. ASSUME job[j].stage = "attest"
            PROVE  Coverage(j) \in CoverageIds /\ Hash(j) \in Hashes
        BY <4>2, JobHasClaim
      <4>3. \A c, h : Matches(c, h) \in BOOLEAN
        BY DEF Matches
      <4>4. job[j].claimId \in Nat /\ job[j].signer \in Accounts \cup {"nobody"}
        BY <4>1 DEF Job
      <4> DEFINE new == [claimId |-> job[j].claimId, coverageId |-> Coverage(j),
                         matches |-> Matches(Coverage(j), Hash(j)),
                         submittedBy |-> job[j].signer]
      <4>5. ASSUME job[j].stage = "attest"
            PROVE  new \in [claimId: Nat, coverageId: CoverageIds \cup {0},
                            matches: BOOLEAN, submittedBy: Accounts \cup {"nobody"}]
        BY <4>2, <4>3, <4>4, <4>5
      <4>6. \/ records' = records
            \/ job[j].stage = "attest" /\ records' = [records EXCEPT ![Hash(j)] = new]
        BY <3>2, NewRecord
      <4> HIDE DEF new
      <4> QED BY <4>5, <4>6 DEF TypeOK
    <3> QED BY <1>6, <3>1, <3>2, RequestsOffChain
  <2>3. job' \in [Jobs -> Job]
    BY <1>6, JobMoves
  <2>4. \A i \in Jobs : job'[i].stage # "idle" => job'[i].claimId \in DOMAIN claim
    <3>1. \A i \in Jobs \ {j} : job'[i] = job[i]
      BY <1>6, JobMoves
    <3>2. job'[j].stage # "idle" => job'[j].claimId \in DOMAIN claim
      BY <1>6, JobMoves DEF Open, TypeOK
    <3> QED BY <3>1, <3>2 DEF TypeOK
  <2> QED BY <2>1, <2>2, <2>3, <2>4 DEF TypeOK
<1> QED BY <1>1, <1>2, <1>4, <1>5, <1>6, StepKinds

\* A record stays bound, because its claim is kept.
LEMMA OldRecordStays ==
  ASSUME RecordsBound, Kept, NEW h \in Hashes, records[h] # NoRecord
  PROVE  RecordBound(h)'
<1>1. RecordBound(h) /\ records'[h] = records[h]
  BY DEF RecordsBound, Kept
<1> QED BY <1>1 DEF RecordBound, Kept

LEMMA RecordsStep ==
  ASSUME TypeOK, RecordsBound, JobsBound, DecisionsEarned, [Next]_vars
  PROVE  RecordsBound'
<1>0. Kept
  BY NothingIsUndone
<1>1. CASE records' = records
  BY <1>0, <1>1, OldRecordStays DEF RecordsBound
<1>2. ASSUME NEW j \in Jobs, RequestStep(j), IntakeStore(j), records' # records
      PROVE  RecordsBound'
  <2>1. /\ job[j].stage = "attest"
        /\ Hash(j) \in DOMAIN Contents
        /\ job[j].signer \in Parties(Coverage(j))
        /\ records' = [records EXCEPT ![Hash(j)] =
                          [claimId |-> job[j].claimId, coverageId |-> Coverage(j),
                           matches |-> Matches(Coverage(j), Hash(j)),
                           submittedBy |-> job[j].signer]]
    BY <1>2, NewRecord
  <2>2. job[j].claimId \in DOMAIN claim /\ Hash(j) \in Hashes
    BY <2>1, JobHasClaim
  <2>3. claim' = claim
    BY <1>2, RequestsOffChain
  <2>4. ASSUME NEW h \in Hashes, h = Hash(j)
        PROVE  RecordBound(h)'
    <3> DEFINE k == job[j].claimId
    <3>1. records'[h] = [claimId |-> k, coverageId |-> Coverage(j),
                         matches |-> Matches(Coverage(j), h), submittedBy |-> job[j].signer]
      BY <2>1, <2>4 DEF TypeOK
    <3>2. claim[k].evidenceHash = h /\ claim[k].coverageId = Coverage(j)
      BY <2>4 DEF Hash, Coverage
    <3>3. k \in DOMAIN claim /\ h \in DOMAIN Contents
      BY <2>1, <2>2, <2>4
    <3> HIDE DEF k
    <3>4. /\ records'[h].claimId = k /\ records'[h].coverageId = Coverage(j)
          /\ records'[h].matches = Matches(Coverage(j), h)
          /\ records'[h].submittedBy = job[j].signer
      BY <3>1
    <3> QED BY <2>1, <2>3, <3>2, <3>3, <3>4 DEF RecordBound
  <2>5. ASSUME NEW h \in Hashes, records'[h] # NoRecord
        PROVE  RecordBound(h)'
    <3>1. CASE h = Hash(j)
      BY <2>4, <3>1
    <3>2. CASE h # Hash(j)
      <4>1. records[h] # NoRecord
        BY <2>1, <2>5, <3>2 DEF TypeOK
      <4> QED BY <1>0, <4>1, OldRecordStays
    <3> QED BY <3>1, <3>2
  <2> QED BY <2>5 DEF RecordsBound, NoRecord
<1>3. \/ records' = records
      \/ \E j \in Jobs : RequestStep(j) /\ IntakeStore(j)
  BY StepKinds, RequestsOffChain DEF vars, Tick, openClaim, resolveClaim
<1> QED BY <1>1, <1>2, <1>3

\* What a suspended request has read stays so.
LEMMA OldJobStays ==
  ASSUME TypeOK, JobsBound, Kept, NEW i \in Jobs, job'[i] = job[i]
  PROVE  JobBound(i)'
<1>1. CASE job[i].stage = "idle"
  BY <1>1 DEF JobBound
<1>2. CASE job[i].stage # "idle"
  <2>1. job[i].claimId \in DOMAIN claim /\ Hash(i) \in Hashes
    BY <1>2, JobHasClaim
  <2>2. Hash(i)' = Hash(i) /\ Coverage(i)' = Coverage(i)
    BY <2>1 DEF Hash, Coverage, Kept
  <2>3. records[Hash(i)] # NoRecord => records'[Hash(i)] = records[Hash(i)]
    BY <2>1 DEF Kept
  <2>4. job[i].asOf <= now => job[i].asOf <= now'
    <3>1. job[i].asOf \in 0..MaxTime /\ now \in 0..MaxTime
      BY DEF TypeOK, Job
    <3> QED BY <3>1, BoundsAssumption DEF Kept
  <2>5. JobBound(i)
    BY DEF JobsBound
  <2> HIDE DEF Hash, Coverage
  <2> QED BY <2>2, <2>3, <2>4, <2>5 DEF JobBound, BoundToClaim
<1> QED BY <1>1, <1>2

LEMMA JobsStep ==
  ASSUME TypeOK, JobsBound, DecisionsEarned, [Next]_vars
  PROVE  JobsBound'
<1>0. Kept
  BY NothingIsUndone
<1>1. CASE job' = job
  BY <1>0, <1>1, OldJobStays DEF JobsBound
<1>2. ASSUME NEW j \in Jobs, RequestStep(j)
      PROVE  JobsBound'
  <2>1. claim' = claim /\ now' = now
    BY <1>2, RequestsOffChain
  <2>2. \A i \in Jobs \ {j} : JobBound(i)'
    BY <1>0, <1>2, JobMoves, OldJobStays
  <2>3. JobBound(j)'
    <3>1. CASE job'[j].stage \in {"idle", "authorize"}
      BY <3>1 DEF JobBound
    <3>2. CASE job'[j].stage = "attest"
      <4>1. claim[job'[j].claimId].evidenceHash \in DOMAIN Contents
        BY <1>2, <3>2, JobMoves
      <4> QED BY <2>1, <3>2, <4>1 DEF JobBound, Hash
    <3>3. CASE job'[j].stage \in {"compare", "decide"}
      <4>1. /\ job[j].stage \in {"authorize", "compare"}
            /\ job'[j].claimId = job[j].claimId
            /\ records[Hash(j)] # NoRecord /\ BoundToClaim(j) /\ job'[j].asOf <= now
        <5>1. now <= now
          BY BoundsAssumption DEF TypeOK
        <5> QED BY <1>2, <3>3, <5>1, JobMoves DEF JobsBound, JobBound
      <4>2. Hash(j) \in Hashes
        BY <4>1, JobHasClaim
      <4>3. records'[Hash(j)] = records[Hash(j)]
        BY <1>0, <4>1, <4>2 DEF Kept
      <4>4. Hash(j)' = Hash(j) /\ Coverage(j)' = Coverage(j)
        BY <2>1, <4>1 DEF Hash, Coverage
      <4> HIDE DEF Hash, Coverage
      <4> QED BY <2>1, <3>3, <4>1, <4>3, <4>4 DEF JobBound, BoundToClaim
    <3> QED BY <1>2, <3>1, <3>2, <3>3, JobMoves
  <2> QED BY <2>2, <2>3 DEF JobsBound
<1> QED BY <1>1, <1>2, StepKinds DEF vars, Tick, openClaim, resolveClaim

\* The clocks stay close: only a tick moves them.
LEMMA ClocksStep ==
  ASSUME ClocksClose, [Next]_vars
  PROVE  ClocksClose'
<1>1. CASE Tick
  BY <1>1 DEF Tick, ClocksClose
<1>2. CASE UNCHANGED <<now, blockTime>>
  BY <1>2 DEF ClocksClose
<1> QED BY <1>1, <1>2, StepKinds, RequestsOffChain DEF vars, clocks, openClaim, resolveClaim

LEMMA NoncesStep ==
  ASSUME TypeOK, NoncesMatch, DecisionsEarned, [Next]_vars
  PROVE  NoncesMatch'
<1>1. CASE UNCHANGED <<claim, usedNonce>>
  BY <1>1 DEF NoncesMatch
<1>2. ASSUME NEW c \in CoverageIds, NEW h \in Hashes, openClaim(c, h)
      PROVE  NoncesMatch'
  BY <1>2, Opened DEF openClaim, NoncesMatch
<1>3. ASSUME NEW d \in issued, resolveClaim(d)
      PROVE  NoncesMatch'
  <2>1. /\ d.nonce = d.claimId /\ d.claimId \in DOMAIN claim
        /\ d.result # "Open"
    BY DEF DecisionsEarned, DecisionEarned
  <2>2. usedNonce' = usedNonce \cup {d.claimId}
    BY <1>3, <2>1 DEF resolveClaim
  <2>3. /\ DOMAIN claim' = DOMAIN claim
        /\ claim'[d.claimId].status # "Open"
        /\ \A k \in DOMAIN claim \ {d.claimId} : claim'[k] = claim[k]
    BY <1>3, <2>1, Resolved
  <2> QED BY <2>1, <2>2, <2>3 DEF NoncesMatch
<1> QED BY <1>1, <1>2, <1>3, StepKinds, RequestsOffChain DEF vars, chain, Tick

\* A payment is owed when it is made, and the claim does not change afterwards.
LEMMA PaidStep ==
  ASSUME TypeOK, PaidIsOwed, ClocksClose, DecisionsEarned, [Next]_vars
  PROVE  PaidIsOwed'
<1>1. CASE claim' = claim
  BY <1>1 DEF PaidIsOwed
<1>2. ASSUME NEW c \in CoverageIds, NEW h \in Hashes, openClaim(c, h)
      PROVE  PaidIsOwed'
  <2>1. ASSUME NEW k \in DOMAIN claim', claim'[k].status = "Approve"
        PROVE  k \in DOMAIN claim /\ claim'[k] = claim[k]
    BY <1>2, <2>1, Opened
  <2> QED BY <2>1 DEF PaidIsOwed
<1>3. ASSUME NEW d \in issued, resolveClaim(d)
      PROVE  PaidIsOwed'
  <2>1. ASSUME d.result = "Approve"
        PROVE  LET c == Coverages[claim[d.claimId].coverageId]
                   e == Contents[claim[d.claimId].evidenceHash] IN
               /\ e.product = c.product /\ e.receipt = c.receipt
               /\ e.damageEligible /\ e.evidenceComplete /\ e.fileIntegrityOk
               /\ d.amount \in 1..e.requestedAmount
               /\ d.amount <= c.maxPayout
               /\ blockTime <= e.issuedAt + StalenessWindow + DecisionTtl
               /\ e.issuedAt <= blockTime + FutureGrace + Skew
    <3>1. /\ d.coverageId = claim[d.claimId].coverageId
          /\ d.evidenceHash = claim[d.claimId].evidenceHash
          /\ d.claimId \in DOMAIN claim
          /\ d.expiry \in Nat
          /\ Owed(d.coverageId, d.evidenceHash, d.amount)
          /\ Contents[d.evidenceHash].issuedAt <= now + FutureGrace
          /\ d.expiry <= Contents[d.evidenceHash].issuedAt + StalenessWindow + DecisionTtl
      BY <2>1 DEF DecisionsEarned, DecisionEarned
    <3>3. Contents[d.evidenceHash].issuedAt \in Nat
      BY <2>1, InputsAssumption DEF DecisionsEarned, DecisionEarned
    <3>4. blockTime <= d.expiry /\ {now, blockTime, Skew} \subseteq Nat
      BY <1>3, BoundsAssumption, <3>1 DEF resolveClaim, Acceptable, TypeOK
    <3>5. /\ blockTime <= Contents[d.evidenceHash].issuedAt + StalenessWindow + DecisionTtl
          /\ Contents[d.evidenceHash].issuedAt <= blockTime + FutureGrace + Skew
      BY <3>1, <3>3, <3>4, WindowsAssumption DEF ClocksClose
    <3> QED BY <3>1, <3>5 DEF Owed, Matches
  <2>2. ASSUME NEW k \in DOMAIN claim', k # d.claimId
        PROVE  k \in DOMAIN claim /\ claim'[k] = claim[k]
    BY <1>3, <2>2, Resolved
  <2> QED BY <1>3, <2>1, <2>2, Resolved DEF PaidIsOwed
<1> QED BY <1>1, <1>2, <1>3, StepKinds, RequestsOffChain DEF vars, chain, Tick

\* A decision stays earned, because its claim and its record are kept.
LEMMA OldDecisionStays ==
  ASSUME TypeOK, DecisionsEarned, Kept, NEW d \in issued
  PROVE  DecisionEarned(d)'
<1>1. DecisionEarned(d)
  BY DEF DecisionsEarned
<1>2. d.evidenceHash \in Hashes
  BY <1>1, ClaimTyped DEF DecisionEarned
<1>3. records'[d.evidenceHash] = records[d.evidenceHash]
  BY <1>1, <1>2 DEF DecisionEarned, Kept
<1>4. Contents[d.evidenceHash].issuedAt <= now + FutureGrace =>
        Contents[d.evidenceHash].issuedAt <= now' + FutureGrace
  <2>1. /\ Contents[d.evidenceHash].issuedAt \in Nat
        /\ now \in Nat /\ now' \in Nat /\ now <= now'
    BY <1>1, InputsAssumption, BoundsAssumption DEF DecisionEarned, TypeOK, Kept
  <2> QED BY <2>1, WindowsAssumption
<1> QED BY <1>1, <1>3, <1>4 DEF DecisionEarned, Kept

\* What a request decides on is sound: its record and its content are there.
LEMMA RequestIsSound ==
  ASSUME TypeOK, RecordsBound, JobsBound, NEW j \in Jobs, job[j].stage = "decide"
  PROVE  /\ job[j].claimId \in DOMAIN claim
         /\ Coverage(j) \in CoverageIds /\ Hash(j) \in Hashes
         /\ records[Hash(j)] # NoRecord
         /\ records[Hash(j)].claimId = job[j].claimId
         /\ Hash(j) \in DOMAIN Contents
         /\ records[Hash(j)].matches = Matches(Coverage(j), Hash(j))
         /\ job[j].asOf \in Nat /\ job[j].asOf <= now /\ now \in Nat
         /\ Coverages[Coverage(j)].maxPayout \in Nat
         /\ {Contents[Hash(j)].requestedAmount, Contents[Hash(j)].issuedAt} \subseteq Nat
         /\ Sound(EvidenceOf(j))
<1>1. /\ job[j].claimId \in DOMAIN claim
      /\ Coverage(j) \in CoverageIds /\ Hash(j) \in Hashes
  BY JobHasClaim
<1>2. records[Hash(j)] # NoRecord /\ BoundToClaim(j) /\ job[j].asOf <= now
  BY DEF JobsBound, JobBound
<1>3. RecordBound(Hash(j))
  BY <1>1, <1>2 DEF RecordsBound
<1>4. records[Hash(j)].matches = Matches(Coverage(j), Hash(j)) /\ Hash(j) \in DOMAIN Contents
  BY <1>2, <1>3 DEF RecordBound, BoundToClaim
<1>5. job[j].asOf \in Nat /\ now \in Nat
  <2>1. job[j].asOf \in 0..MaxTime /\ now \in 0..MaxTime
    BY DEF TypeOK, Job
  <2> QED BY <2>1, BoundsAssumption
<1>6. Sound(EvidenceOf(j))
  <2>1. records[Hash(j)].matches \in BOOLEAN
    BY <1>1 DEF TypeOK
  <2>2. /\ {Contents[Hash(j)].requestedAmount, Contents[Hash(j)].issuedAt} \subseteq Nat
        /\ {Contents[Hash(j)].damageEligible, Contents[Hash(j)].evidenceComplete,
             Contents[Hash(j)].fileIntegrityOk} \subseteq BOOLEAN
    BY <1>4, InputsAssumption
  <2> HIDE DEF Hash
  <2> QED BY <2>1, <2>2 DEF EvidenceOf, Sound
<1> QED BY <1>1, <1>2, <1>4, <1>5, <1>6, InputsAssumption DEF BoundToClaim

\* What a request signs: a rejection, or an approval of what passes the policy
\* at the time of the evaluation, for no more than was asked for.
LEMMA RequestSigns ==
  ASSUME TypeOK, RecordsBound, JobsBound, NEW j \in Jobs, NEW reply \in Answers,
         Decide(j, reply),
         NEW ctx, ctx = [maxPayout |-> Coverages[Coverage(j)].maxPayout,
                         asOf |-> job[j].asOf, seen |-> job[j].seen]
  PROVE  \/ issued' = issued \cup {Signed(BindingOf(j), 0, "Reject")}
         \/ /\ Passes(EvidenceOf(j), ctx)
            /\ \E n \in 1..EvidenceOf(j).requestedAmount :
                 /\ n <= ctx.maxPayout
                 /\ issued' = issued \cup {Signed(BindingOf(j), n, "Approve")}
<1> DEFINE e == EvidenceOf(j)
           b == BindingOf(j)
           p == evaluateAndSign(e, b, evaluate(e, ctx))
           g == evaluateAndSign(e, b, groqBrain(e, ctx, reply))
           signed == evaluateAndSign(e, b, IF GroqConfigured THEN groqBrain(e, ctx, reply)
                                           ELSE evaluate(e, ctx))
<1>1. job[j].stage = "decide" /\ signed # Refused /\ issued' = issued \cup {signed}
  BY DEF Decide
<1>2. /\ Sound(e)
      /\ SoundContext(ctx)
      /\ reply.approvedAmount.value \in Nat
  BY <1>1, RequestIsSound, InputsAssumption DEF SoundContext
<1>3. e.evidenceHash = b.evidenceHash /\ b.maxPayout = ctx.maxPayout
  BY DEF EvidenceOf, BindingOf
<1>4. signed = IF GroqConfigured THEN g ELSE p
  BY BoundsAssumption
<1> HIDE DEF e, b, signed
<1>5. \/ ~Passes(e, ctx) /\ p = Signed(b, 0, "Reject") /\ g = p
      \/ /\ Passes(e, ctx) /\ p = Signed(b, e.requestedAmount, "Approve")
         /\ \/ g = Refused
            \/ Valid(reply) /\ g = Signed(b, 0, "Reject")
            \/ Valid(reply) /\ \E n \in 1..e.requestedAmount :
                 n <= ctx.maxPayout /\ g = Signed(b, n, "Approve")
  BY <1>2, <1>3, SignedVerdicts
<1> HIDE DEF p, g
<1>6. Passes(e, ctx) => /\ e.requestedAmount \in 1..e.requestedAmount
                        /\ e.requestedAmount <= ctx.maxPayout
  BY <1>2 DEF Passes, Sound, SoundContext
<1>7. \/ signed = Signed(b, 0, "Reject")
      \/ /\ Passes(e, ctx)
         /\ \E n \in 1..e.requestedAmount :
              n <= ctx.maxPayout /\ signed = Signed(b, n, "Approve")
  BY <1>1, <1>4, <1>5, <1>6
<1> QED BY <1>1, <1>7 DEF e, b

LEMMA NewDecision ==
  ASSUME IInv, NEW j \in Jobs, NEW reply \in Answers, Decide(j, reply)
  PROVE  \E d : issued' = issued \cup {d} /\ DecisionEarned(d)'
<1> DEFINE k == job[j].claimId
           c == Coverage(j)
           h == Hash(j)
           at == job[j].asOf
           ctx == [maxPayout |-> Coverages[c].maxPayout, asOf |-> at, seen |-> job[j].seen]
           e == EvidenceOf(j)
<1>1. /\ k \in DOMAIN claim /\ c \in CoverageIds /\ h \in Hashes
      /\ records[h] # NoRecord /\ records[h].claimId = k
      /\ h \in DOMAIN Contents
      /\ records[h].matches = Matches(c, h)
      /\ at \in Nat /\ at <= now /\ now \in Nat
      /\ {Contents[h].requestedAmount, Contents[h].issuedAt} \subseteq Nat
  BY RequestIsSound DEF IInv, Decide
<1>2. claim' = claim /\ records' = records /\ now' = now
  BY DEF Decide, chain, clocks
<1>3. claim[k].coverageId = c /\ claim[k].evidenceHash = h
  BY DEF Coverage, Hash
<1>4. ASSUME NEW amount, NEW result \in {"Approve", "Reject"}, NEW d,
             d = Signed(BindingOf(j), amount, result),
             result = "Reject" => amount = 0,
             result = "Approve" =>
               /\ Owed(c, h, amount)
               /\ Contents[h].issuedAt <= now + FutureGrace
               /\ at + DecisionTtl <= Contents[h].issuedAt + StalenessWindow + DecisionTtl
      PROVE  DecisionEarned(d)'
  <2>1. /\ d.claimId = k /\ d.coverageId = c /\ d.evidenceHash = h /\ d.nonce = k
        /\ d.claimant = Coverages[c].claimant
        /\ d.amount = amount /\ d.result = result /\ d.expiry = at + DecisionTtl
    BY <1>4 DEF Signed, BindingOf, Nonce
  <2>2. at + DecisionTtl \in Nat
    BY <1>1, WindowsAssumption
  <2> HIDE DEF k, c, h, at
  <2> QED BY <1>1, <1>2, <1>3, <1>4, <2>1, <2>2 DEF DecisionEarned
<1>5. CASE issued' = issued \cup {Signed(BindingOf(j), 0, "Reject")}
  BY <1>4, <1>5
<1>6. ASSUME Passes(e, ctx), NEW n \in 1..e.requestedAmount, n <= ctx.maxPayout,
             issued' = issued \cup {Signed(BindingOf(j), n, "Approve")}
      PROVE  \E d : issued' = issued \cup {d} /\ DecisionEarned(d)'
  <2>1. /\ e.productMatches = Matches(c, h)
        /\ e.damageEligible = Contents[h].damageEligible
        /\ e.evidenceComplete = Contents[h].evidenceComplete
        /\ e.fileIntegrityOk = Contents[h].fileIntegrityOk
        /\ e.issuedAt = Contents[h].issuedAt
        /\ e.requestedAmount = Contents[h].requestedAmount
    BY <1>1 DEF EvidenceOf
  <2>2. ctx.maxPayout = Coverages[c].maxPayout /\ ctx.asOf = at
    OBVIOUS
  <2> HIDE DEF e, ctx, k, c, h, at
  <2>3. Owed(c, h, n)
    BY <1>6, <2>1, <2>2 DEF Passes, Owed
  <2>4. /\ Contents[h].issuedAt <= now + FutureGrace
        /\ at + DecisionTtl <= Contents[h].issuedAt + StalenessWindow + DecisionTtl
    BY <1>1, <1>6, <2>1, <2>2, WindowsAssumption DEF Passes
  <2> QED BY <1>4, <1>6, <2>3, <2>4
<1>7. \/ issued' = issued \cup {Signed(BindingOf(j), 0, "Reject")}
      \/ /\ Passes(e, ctx)
         /\ \E n \in 1..e.requestedAmount :
              n <= ctx.maxPayout /\ issued' = issued \cup {Signed(BindingOf(j), n, "Approve")}
  <2> HIDE DEF ctx
  <2>1. ctx = [maxPayout |-> Coverages[Coverage(j)].maxPayout, asOf |-> job[j].asOf,
               seen |-> job[j].seen]
    BY DEF ctx
  <2> QED BY <2>1, RequestSigns DEF IInv
<1> QED BY <1>5, <1>6, <1>7

LEMMA DecisionsStep ==
  ASSUME IInv, [Next]_vars
  PROVE  DecisionsEarned'
<1>0. Kept
  BY NothingIsUndone DEF IInv
<1>1. \A d \in issued : DecisionEarned(d)'
  BY <1>0, OldDecisionStays DEF IInv
<1>2. CASE issued' = issued
  BY <1>1, <1>2 DEF DecisionsEarned
<1>3. ASSUME NEW j \in Jobs, NEW reply \in Answers, Decide(j, reply)
      PROVE  DecisionsEarned'
  <2>1. PICK d : issued' = issued \cup {d} /\ DecisionEarned(d)'
    BY <1>3, NewDecision
  <2> QED BY <1>1, <2>1 DEF DecisionsEarned
<1> QED BY <1>2, <1>3, StepKinds, RequestsOffChain DEF vars, Tick, openClaim, resolveClaim

-----------------------------------------------------------------------------
(***************************************************************************)
(* The invariant, and what follows.                                        *)
(***************************************************************************)

LEMMA InvariantInit == Init => IInv
<1> SUFFICES ASSUME Init PROVE IInv
  OBVIOUS
<1>1. /\ claim \in Seq(Claim) /\ DOMAIN claim = {}
  BY EmptySeq DEF Init
<1>2. TypeOK
  <2>1. NoRecord \in [claimId: Nat, coverageId: CoverageIds \cup {0}, matches: BOOLEAN,
                      submittedBy: Accounts \cup {"nobody"}]
    BY DEF NoRecord
  <2>2. Idle \in Job /\ Idle.stage = "idle"
    BY BoundsAssumption DEF Idle, Job
  <2>3. 0 \in 0..MaxTime
    BY BoundsAssumption
  <2>4. 0 \in 0..(MaxTime + Skew)
    BY BoundsAssumption
  <2> QED BY <1>1, <2>1, <2>2, <2>3, <2>4 DEF Init, TypeOK
<1>3. RecordsBound
  BY DEF Init, RecordsBound
<1>4. JobsBound
  BY DEF Init, JobsBound, JobBound, Idle
<1>5. ClocksClose /\ NoncesMatch /\ DecisionsEarned /\ PaidIsOwed
  BY <1>1, BoundsAssumption DEF Init, ClocksClose, NoncesMatch, DecisionsEarned, PaidIsOwed
<1> QED BY <1>2, <1>3, <1>4, <1>5 DEF IInv

LEMMA Invariant == Spec => []IInv
<1>1. IInv /\ [Next]_vars => IInv'
  BY TypeStep, RecordsStep, JobsStep, ClocksStep, NoncesStep, DecisionsStep, PaidStep DEF IInv
<1> QED BY <1>1, InvariantInit, PTL DEF Spec

\* Claims, nonces, records and requests keep their types; a request that waits
\* waits for a claim of the contract.
THEOREM TypeCorrect == Spec => []TypeOK
<1>1. IInv => TypeOK
  BY DEF IInv
<1> QED BY <1>1, Invariant, PTL

\* No decision without the attested record of its own claim (evaluate/route.ts,
\* lines 196-213): nothing relayed, attested or opened while the request was
\* suspended takes the record away or gives it to another claim.
THEOREM DecisionsAttestedHolds == Spec => []DecisionsAttested
<1>1. IInv => DecisionsAttested
  <2> SUFFICES ASSUME IInv, NEW d \in issued
               PROVE  /\ records[d.evidenceHash].claimId = d.claimId
                      /\ records[d.evidenceHash].submittedBy \in Parties(d.coverageId)
    BY DEF DecisionsAttested
  <2>1. DecisionEarned(d)
    BY DEF IInv, DecisionsEarned
  <2>2. d.evidenceHash \in Hashes
    BY <2>1, ClaimTyped DEF IInv, DecisionEarned
  <2>3. RecordBound(d.evidenceHash)
    BY <2>1, <2>2 DEF IInv, RecordsBound, DecisionEarned
  <2> QED BY <2>1, <2>3 DEF DecisionEarned, RecordBound
<1> QED BY <1>1, Invariant, PTL

\* What the contract paid was owed by the content the claim had committed to,
\* although the routes decide on snapshots and anybody relays the decisions.
THEOREM PaidIsOwedHolds == Spec => []PaidIsOwed
<1>1. IInv => PaidIsOwed
  BY DEF IInv
<1> QED BY <1>1, Invariant, PTL

\* A signed decision settles its claim, unless the claim is settled already or the
\* decision's time is over on the chain, whose clock is not the server's: the nonce is the claim's own, and what the routes
\* checked is what the contract checks.
THEOREM SignedSettlesHolds == Spec => []SignedSettles
<1>1. IInv => SignedSettles
  <2> SUFFICES ASSUME IInv, NEW d \in issued, Open(d.claimId), blockTime <= d.expiry
               PROVE  Acceptable(d)
    BY DEF SignedSettles
  <2>1. DecisionEarned(d)
    BY DEF IInv, DecisionsEarned
  <2>2. d.expiry >= blockTime
    BY <2>1, BoundsAssumption DEF IInv, TypeOK, DecisionEarned
  <2>3. d.nonce \notin usedNonce
    BY <2>1 DEF IInv, NoncesMatch, DecisionEarned, Open
  <2>4. d.result = "Approve" => d.amount \in 1..Coverages[d.coverageId].maxPayout
    <3>1. d.coverageId \in CoverageIds
      BY <2>1, ClaimTyped DEF IInv, DecisionEarned
    <3>2. Coverages[d.coverageId].maxPayout \in Nat
      BY <3>1, InputsAssumption
    <3>3. Contents[d.evidenceHash].requestedAmount \in Nat
      BY <2>1, InputsAssumption DEF DecisionEarned
    <3> QED BY <2>1, <3>2, <3>3 DEF DecisionEarned, Owed
  <2> QED BY <2>1, <2>2, <2>3, <2>4 DEF DecisionEarned, Acceptable
<1> QED BY <1>1, Invariant, PTL
=============================================================================

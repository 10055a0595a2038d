----------------------------- MODULE Settlement -----------------------------
(***************************************************************************)
(* The way of a claim from opening to settlement: the chain, the routes    *)
(* POST /api/evidence and POST /api/evaluate of one server, and whoever    *)
(* relays the decisions.                                                   *)
(*                                                                         *)
(* A route works on a snapshot: it reads the claim from the chain, then    *)
(* awaits a signature, the evidence store or the model provider, while     *)
(* blocks arrive, decisions are relayed and other requests run.  A step is *)
(* what happens between two awaits.  The contract and the store appear by  *)
(* what WarrantyReserve and EvidenceStore promise: one final settlement    *)
(* per claim, one durable record per hash.                                 *)
(***************************************************************************)
EXTENDS Evaluator, Sequences, FiniteSets

CONSTANTS
  Coverages,      \* coverage id to merchant, claimant, product, receipt, ...
  Contents,       \* evidence hash to the content that hashes to it
  OtherHashes,    \* hashes nobody knows a content for
  Accounts,       \* who may sign a request
  Jobs,           \* bound: requests the server handles at a time
  Answers,        \* what the model provider may say
  GroqConfigured, \* is there a provider, or does the policy decide alone?
  MaxDecisions,   \* bound: the decisions the server signs
  Skew,           \* how far the chain's clock and the server's may be apart
  MaxTime         \* bound: the server's clock, and so the chain's

CoverageIds == DOMAIN Coverages
ClaimIds == 1..Cardinality(CoverageIds)
Hashes == DOMAIN Contents \cup OtherHashes

ASSUME BoundsAssumption == GroqConfigured \in BOOLEAN /\ {MaxDecisions, Skew, MaxTime} \subseteq Nat

\* Amounts and times have been parsed, flags are booleans.
ASSUME InputsAssumption ==
  /\ \A c \in CoverageIds : Coverages[c].maxPayout \in Nat
  /\ \A h \in DOMAIN Contents :
       /\ {Contents[h].requestedAmount, Contents[h].issuedAt} \subseteq Nat
       /\ {Contents[h].damageEligible, Contents[h].evidenceComplete,
           Contents[h].fileIntegrityOk} \subseteq BOOLEAN
  /\ \A answer \in Answers : answer.approvedAmount.value \in Nat

VARIABLES
  claim,      \* the contract's claims, in the order they were opened
  usedNonce,  \* the contract's used nonces
  records,    \* what the evidence store holds under each hash
  job,        \* the requests being handled
  issued,     \* the decisions the server has signed
  now,        \* the server's clock
  blockTime   \* block.timestamp: the chain's clock

chain == <<claim, usedNonce>>
clocks == <<now, blockTime>>
vars == <<chain, records, job, issued, clocks>>

NoRecord == [claimId |-> 0, coverageId |-> 0, matches |-> FALSE, submittedBy |-> "nobody"]
Idle == [stage |-> "idle", claimId |-> 0, signer |-> "nobody", asOf |-> 0, seen |-> {}]

Parties(c) == {Coverages[c].merchant, Coverages[c].claimant}

Init ==
  /\ claim = <<>>
  /\ usedNonce = {}
  /\ records = [h \in Hashes |-> NoRecord]
  /\ job = [j \in Jobs |-> Idle]
  /\ issued = {}
  /\ now = 0
  /\ blockTime = 0

Claim ==
  [coverageId: CoverageIds, evidenceHash: Hashes, status: {"Open", "Approve", "Reject"},
   paid: Nat, settledAt: Nat]

Job ==
  [stage: {"idle", "attest", "authorize", "compare", "decide"}, claimId: Nat,
   signer: Accounts \cup {"nobody"}, asOf: 0..MaxTime, seen: SUBSET Hashes]

TypeOK ==
  /\ claim \in Seq(Claim)
  /\ usedNonce \subseteq Nat
  /\ records \in [Hashes -> [claimId: Nat, coverageId: CoverageIds \cup {0}, matches: BOOLEAN,
                             submittedBy: Accounts \cup {"nobody"}]]
  /\ job \in [Jobs -> Job]
  /\ \A j \in Jobs : job[j].stage # "idle" => job[j].claimId \in DOMAIN claim
  /\ now \in 0..MaxTime
  /\ blockTime \in 0..(MaxTime + Skew)

\* One of the clocks goes on.
Tick ==
  /\ \/ now < MaxTime /\ now' = now + 1 /\ blockTime' = blockTime
     \/ blockTime' = blockTime + 1 /\ now' = now
  /\ now' <= blockTime' + Skew /\ blockTime' <= now' + Skew
  /\ UNCHANGED <<chain, records, job, issued>>

-----------------------------------------------------------------------------
(***************************************************************************)
(* The contract: openClaim and resolveClaim.                               *)
(***************************************************************************)

openClaim(c, h) ==
  /\ \A k \in DOMAIN claim : claim[k].coverageId # c
  /\ blockTime < Coverages[c].expiry
  /\ claim' = Append(claim, [coverageId |-> c, evidenceHash |-> h,
                             status |-> "Open", paid |-> 0, settledAt |-> 0])
  /\ UNCHANGED <<usedNonce, records, job, issued, clocks>>

Open(k) == k \in DOMAIN claim /\ claim[k].status = "Open"

\* What the contract requires of a decision that its evaluator has signed.
Acceptable(d) ==
  /\ d.expiry >= blockTime
  /\ d.nonce \notin usedNonce
  /\ Open(d.claimId)
  /\ claim[d.claimId].coverageId = d.coverageId
  /\ claim[d.claimId].evidenceHash = d.evidenceHash
  /\ Coverages[d.coverageId].claimant = d.claimant
  /\ d.result = "Approve" => d.amount \in 1..Coverages[d.coverageId].maxPayout
  /\ d.result = "Reject" => d.amount = 0

resolveClaim(d) ==
  /\ Acceptable(d)
  /\ usedNonce' = usedNonce \cup {d.nonce}
  /\ claim' = [claim EXCEPT ![d.claimId].status = d.result,
                            ![d.claimId].paid = d.amount,
                            ![d.claimId].settledAt = blockTime]
  /\ UNCHANGED <<records, job, issued, clocks>>

-----------------------------------------------------------------------------
(***************************************************************************)
(* Requests.  One that is malformed, over a client's budget or about       *)
(* another deployment is refused before anything happens and is no step.   *)
(***************************************************************************)

Hash(j) == claim[job[j].claimId].evidenceHash
Coverage(j) == claim[job[j].claimId].coverageId

Await(j, stage, k, signer) ==
  job' = [job EXCEPT ![j] = [Idle EXCEPT !.stage = stage, !.claimId = k, !.signer = signer]]
Reply(j) == job' = [job EXCEPT ![j] = Idle]

\* A request ends with an error and no effect: a signature that is stale or for
\* another message, an exhausted budget, a full or failing store, a failing
\* provider, a crash of the server.
Fail(j) ==
  /\ job[j].stage # "idle"
  /\ Reply(j)
  /\ UNCHANGED <<chain, records, issued, clocks>>

-----------------------------------------------------------------------------
(***************************************************************************)
(* POST /api/evidence.                                                     *)
(***************************************************************************)

\* Up to the await of the signature: the claim is open, of that coverage, not
\* dated into the future, and the content hashes to the claim's hash.
IntakeRead(j, k, c, signer) ==
  /\ job[j].stage = "idle"
  /\ Open(k)
  /\ claim[k].coverageId = c
  /\ claim[k].evidenceHash \in DOMAIN Contents
  /\ Contents[claim[k].evidenceHash].issuedAt <= now + FutureGrace
  /\ Await(j, "attest", k, signer)
  /\ UNCHANGED <<chain, records, issued, clocks>>

MatchesProduct(c, h) == Contents[h].product = Coverages[c].product       \* mutant
\* noteHash(note) = hash committed at issue, for both notes.
Matches(c, h) ==
  /\ Contents[h].product = Coverages[c].product
  /\ Contents[h].receipt = Coverages[c].receipt

AuthorizedByAnyone(j) == TRUE                                          \* mutant
Authorized(j) == job[j].signer \in Parties(Coverage(j))

IntakeStore(j) ==
  /\ job[j].stage = "attest"
  /\ Authorized(j)
  /\ IF records[Hash(j)] = NoRecord
     THEN /\ records' = [records EXCEPT ![Hash(j)] =
                           [claimId |-> job[j].claimId, coverageId |-> Coverage(j),
                            matches |-> Matches(Coverage(j), Hash(j)),
                            submittedBy |-> job[j].signer]]
          /\ Reply(j)
     ELSE Reply(j) /\ UNCHANGED records
  /\ UNCHANGED <<chain, issued, clocks>>

-----------------------------------------------------------------------------
(***************************************************************************)
(* POST /api/evaluate.                                                     *)
(***************************************************************************)

EvaluateRead(j, k, c, signer) ==
  /\ job[j].stage = "idle"
  /\ Open(k)
  /\ claim[k].coverageId = c
  /\ k \notin usedNonce
  /\ Await(j, "authorize", k, signer)
  /\ UNCHANGED <<chain, records, issued, clocks>>

BoundToClaim(j) ==
  /\ records[Hash(j)].claimId = job[j].claimId
  /\ records[Hash(j)].coverageId = Coverage(j)

\* Once the signature is verified, the record is loaded and must be of this
\* claim; the evaluation is dated.
LoadRecord(j) ==
  /\ job[j].stage = "authorize"
  /\ Authorized(j)
  /\ IF records[Hash(j)] # NoRecord /\ BoundToClaim(j)
     THEN job' = [job EXCEPT ![j].stage = "compare", ![j].asOf = now]
     ELSE Reply(j)
  /\ UNCHANGED <<chain, records, issued, clocks>>

seenEvidenceHashes(k) ==
  {h \in Hashes : records[h] # NoRecord /\ records[h].claimId # k}

\* The hashes attested for other claims are collected; the budgets are consumed.
LoadSeen(j) ==
  /\ job[j].stage = "compare"
  /\ job' = [job EXCEPT ![j].stage = "decide",
                        ![j].seen = seenEvidenceHashes(job[j].claimId)]
  /\ UNCHANGED <<chain, records, issued, clocks>>

EvidenceOf(j) ==
  LET content == Contents[Hash(j)] IN
  [productMatches |-> records[Hash(j)].matches,
   damageEligible |-> content.damageEligible,
   evidenceComplete |-> content.evidenceComplete,
   fileIntegrityOk |-> content.fileIntegrityOk,
   issuedAt |-> content.issuedAt,
   requestedAmount |-> content.requestedAmount,
   evidenceHash |-> Hash(j)]

TimeAsNonce(j) == job[j].asOf                                          \* mutant
Nonce(j) == job[j].claimId

BindingOf(j) ==
  [claimId |-> job[j].claimId, coverageId |-> Coverage(j),
   claimant |-> Coverages[Coverage(j)].claimant, evidenceHash |-> Hash(j),
   nonce |-> Nonce(j), maxPayout |-> Coverages[Coverage(j)].maxPayout,
   asOf |-> job[j].asOf]

\* The provider answers, and what passes is signed and returned.
Decide(j, answer) ==
  LET ctx == [maxPayout |-> Coverages[Coverage(j)].maxPayout,
              asOf |-> job[j].asOf, seen |-> job[j].seen]
      output == IF GroqConfigured THEN groqBrain(EvidenceOf(j), ctx, answer)
                ELSE evaluate(EvidenceOf(j), ctx)
      signed == evaluateAndSign(EvidenceOf(j), BindingOf(j), output)
  IN /\ job[j].stage = "decide"
     /\ signed # Refused
     /\ issued' = issued \cup {signed}
     /\ Cardinality(issued') <= MaxDecisions
     /\ Reply(j)
     /\ UNCHANGED <<chain, records, clocks>>

Next ==
  \/ Tick
  \/ \E c \in CoverageIds, h \in Hashes : openClaim(c, h)
  \/ \E d \in issued : resolveClaim(d)
  \/ \E j \in Jobs :
       \/ \E k \in ClaimIds, c \in CoverageIds, signer \in Accounts :
            IntakeRead(j, k, c, signer) \/ EvaluateRead(j, k, c, signer)
       \/ IntakeStore(j)
       \/ LoadRecord(j)
       \/ LoadSeen(j)
       \/ \E answer \in Answers : Decide(j, answer)
       \/ Fail(j)

Spec == Init /\ [][Next]_vars

-----------------------------------------------------------------------------
\* Every decision rests on a record that a party to that very claim attested,
\* whatever was settled, attested or relayed while the request was suspended.
DecisionsAttested ==
  \A d \in issued :
    /\ records[d.evidenceHash].claimId = d.claimId
    /\ records[d.evidenceHash].submittedBy \in Parties(d.coverageId)

\* What was paid was owed: the content the claim committed to names the product
\* and the receipt of its own coverage, passes every check, asks for at least
\* the amount, and was fresh when the server dated the decision, which it outlived
\* by no more than the decision's validity, on the chain's clock; from the future
\* it is by no more than the grace and the clocks' distance.
PaidIsOwed ==
  \A k \in DOMAIN claim : claim[k].status = "Approve" =>
    LET c == Coverages[claim[k].coverageId]
        e == Contents[claim[k].evidenceHash] IN
    /\ e.product = c.product /\ e.receipt = c.receipt
    /\ e.damageEligible /\ e.evidenceComplete /\ e.fileIntegrityOk
    /\ claim[k].paid \in 1..e.requestedAmount
    /\ claim[k].paid <= c.maxPayout
    /\ claim[k].settledAt <= e.issuedAt + StalenessWindow + DecisionTtl
    /\ e.issuedAt <= claim[k].settledAt + FutureGrace + Skew

\* A signed decision never reverts for another reason than that its claim is
\* settled or its time is over on the chain: snapshot and contract agree, and no two claims
\* compete for a nonce.
SignedSettles ==
  \A d \in issued : Open(d.claimId) /\ blockTime <= d.expiry => Acceptable(d)

\* evidenceStore.ts, lines 21-22: a settlement race is impossible.
NoSettlementRace ==
  \A d, e \in issued :
    d.claimId = e.claimId /\ Acceptable(d) /\ Acceptable(e) =>
      d.result = e.result /\ d.amount = e.amount
=============================================================================

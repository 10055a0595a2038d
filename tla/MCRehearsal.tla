---------------------------- MODULE MCRehearsal -----------------------------
(***************************************************************************)
(* An instance of Rehearsal for TLC: environments that pass and that fail  *)
(* every check, for each way to name the buyer and to send its claim.      *)
(***************************************************************************)
EXTENDS Rehearsal

CONSTANTS merchant, buyer, stranger, zero, empty, nil, h1, evaluator

MCEndowment == [a \in Accounts |-> IF a = merchant THEN 9 ELSE 1]

MCDecisions ==
  {[signer |-> evaluator, chainId |-> 1, verifier |-> 1, claimId |-> k, coverageId |-> c,
    claimant |-> buyer, evidenceHash |-> h1, amount |-> v, result |-> "Approve",
    expiry |-> 1, nonce |-> 1] : k, c \in 1..2, v \in 1..2}

Sound ==
  {c \in [chain : {Testnet}, consent : {FALSE}, supplied : BOOLEAN,
          deployerSpent : {0}, claimantSpent : {0, 1}, deposit : {2}, maxPayout : {1, 2},
          approve : 0..2, funding : {1}, paymaster : BOOLEAN, reclaim : BOOLEAN] :
     c.supplied <=> c.claimantSpent = 0}

Base ==
  CHOOSE c \in Sound : c.supplied /\ c.maxPayout = 1 /\ c.approve = 1 /\ ~c.paymaster /\ c.reclaim

Flawed ==
  {[Base EXCEPT !.chain = chain, !.consent = consent] :
     chain \in {Testnet, Mainnet, 31337}, consent \in BOOLEAN}
  \cup {[Base EXCEPT !.deployerSpent = amount] : amount \in {5, 9}}
  \cup {[Base EXCEPT !.claimantSpent = 1, !.supplied = given, !.funding = amount] :
          given \in BOOLEAN, amount \in 0..1}
  \cup {[Base EXCEPT !.deposit = 0, !.maxPayout = amount, !.approve = 0] : amount \in 0..1}

MCConfigs == Sound \cup Flawed
=============================================================================

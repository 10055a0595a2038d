---------------------------- MODULE MCProofPage -----------------------------
(***************************************************************************)
(* Two cards of a page at a time, which covers every pair of verdicts that *)
(* can be read at different moments; one recorded transaction; deployments *)
(* that agree with the record, differ from it in data or code, or are not  *)
(* there; books that meet each card's expectation and that fail it.        *)
(***************************************************************************)
EXTENDS ProofPage

CONSTANTS tx

MCCardSets ==
  {{"reserve", "claimcount"}, {"covcount", "evaluator"}, {"coverage", "claim"},
   {"runtime", "balance"}, {"nonce", "evidence"}}

Books(b, l, o, n, k) ==
  [balance |-> b, locked |-> l, others |-> o, coverages |-> n, claims |-> k]

MCLedgers ==
  {Books(0, 0, 1, 1, 1), Books(1, 0, 1, 1, 1), Books(1, 1, 0, 2, 1), Books(0, 0, 0, 2, 2)}

AllReceipts(what) == [receipt \in Receipts |-> what]

Recorded ==
  [chain |-> Mainnet, code |-> "recorded", coverage |-> "recorded", claim |-> "recorded",
   evaluator |-> TRUE, nonce |-> TRUE, evidence |-> TRUE, receipts |-> AllReceipts("recorded")]

MCDeployments ==
  {Recorded,
   [Recorded EXCEPT !.coverage = "merchant differs", !.claim = "evidence differs",
                    !.code = "other"],
   [Recorded EXCEPT !.evaluator = FALSE, !.evidence = FALSE,
                    !.receipts = AllReceipts("differs")],
   [Recorded EXCEPT !.chain = 968, !.code = "none", !.receipts = AllReceipts("not indexed")]}
=============================================================================

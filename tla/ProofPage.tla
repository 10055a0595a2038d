------------------------------ MODULE ProofPage -----------------------------
(***************************************************************************)
(* The page that verifies a recorded deployment in the browser:            *)
(* CurrentProofVerifier.tsx with currentProofEngine.ts, which /proof        *)
(* mounts, and ProofVerifier.tsx with proofEngine.ts, for the archived one. *)
(*                                                                         *)
(* A run reads the chain id, then all cards at once, then all receipts,    *)
(* then simulates an issue over the cap.  The node answers a read at one   *)
(* moment and the page hears of it at a later one; meanwhile others use    *)
(* the contract.  Any read may fail.                                       *)
(***************************************************************************)
EXTENDS Integers, Sequences, FiniteSets

CONSTANTS
  CardSets,      \* the sets of cards to look at, of those the page has
  Receipts,      \* the recorded transactions
  Deployments,   \* what may be found behind the RPC url
  Ledgers,       \* the states of the contract's books to look at
  NodeErrors,    \* may the node answer a simulation with an error that is no revert?
  MaxRuns        \* bound: runs of verifyAll

Mainnet == 677
AllCards == {"runtime", "reserve", "covcount", "coverage", "claimcount", "claim",
             "evaluator", "nonce", "evidence", "balance"}
CurrentOnly == {"nonce", "evidence"}

\* What never changes at the recorded address, as far as the page looks at it.
Deployment ==
  [chain : Nat,
   code : {"none", "recorded", "other"},
   coverage : {"recorded", "merchant differs", "differs"},
   claim : {"recorded", "evidence differs", "differs"},
   evaluator : BOOLEAN, nonce : BOOLEAN, evidence : BOOLEAN,
   receipts : [Receipts -> {"recorded", "differs", "reverted", "not indexed"}]]

\* What changes there: the merchant's reserve and lock, the money of other
\* merchants, and the counters.
Ledger == [balance : Nat, locked : Nat, others : Nat, coverages : Nat, claims : Nat]

ASSUME ProofPageAssumption ==
  /\ CardSets \subseteq SUBSET AllCards /\ {} \notin CardSets
  /\ Receipts # {} /\ Receipts \cap (AllCards \cup {"overCap"}) = {}
  /\ Deployments \subseteq Deployment
  /\ NodeErrors \in BOOLEAN
  /\ Ledgers \subseteq Ledger
  /\ \A books \in Ledgers : books.locked <= books.balance
  /\ MaxRuns \in Nat

NoBooks == [balance |-> 0, locked |-> 0, others |-> 0, coverages |-> 0, claims |-> 0]

VARIABLES
  archived,       \* which of the two pages it is
  cards,          \* its cards
  deployment,
  ledger,         \* what changes at the recorded address
  agreed,         \* history: what agreed with the record since the last run began
  timer,          \* the first run is scheduled
  running, busy,  \* the ref that guards verifyAll, the flag that disables its button
  runs,           \* the runs of verifyAll, and what they wait for
  answers,        \* answers of the node that are on their way
  shown,          \* the verdicts on the page
  conn            \* the connection state

world == <<archived, cards, deployment>>
page == <<timer, running, busy, runs, answers, shown, conn>>
vars == <<world, ledger, agreed, page>>

Items == cards \cup Receipts \cup {"overCap"}
Exists == deployment.code # "none"
Free == ledger.balance - ledger.locked
-----------------------------------------------------------------------------
(* What the page expects of the chain.                                     *)

Expected(card) ==
  CASE card = "runtime" -> IF archived THEN deployment.code = "recorded" ELSE Exists
    [] card = "reserve" -> ledger.balance = 0 /\ ledger.locked = 0
    [] card = "covcount" -> IF archived THEN ledger.coverages = 1 ELSE ledger.coverages >= 1
    [] card = "coverage" -> \/ deployment.coverage = "recorded"
                            \/ archived /\ deployment.coverage = "merchant differs"
    [] card = "claimcount" -> IF archived THEN ledger.claims = 1 ELSE ledger.claims >= 1
    [] card = "claim" -> \/ deployment.claim = "recorded"
                         \/ archived /\ deployment.claim = "evidence differs"
    [] card = "evaluator" -> Exists /\ deployment.evaluator
    [] card = "nonce" -> deployment.nonce
    [] card = "evidence" -> deployment.evidence
    [] card = "balance" -> IF archived THEN ledger.balance + ledger.others = 0
                           ELSE ledger.balance + ledger.others >= 1

\* A unit of coverage over what is free reverts.
OverCapReverts == Exists /\ Free = 0

\* What agrees with the record, on the recorded chain.
Agreeing ==
  IF deployment.chain # Mainnet THEN {} ELSE
    {card \in cards : Expected(card)} \cup {item \in {"overCap"} : OverCapReverts}
-----------------------------------------------------------------------------
(* The engines: what a read may come to.                                   *)

\* Without a contract the call returns "0x", which is no number.
NeedsContract(card) ==
  card \in {"reserve", "covcount", "coverage", "claimcount", "claim", "nonce"}

Unexpected(card) ==
  CASE card = "runtime" -> IF Exists THEN "warn" ELSE "bad"
    [] card \in {"evaluator", "nonce", "evidence"} -> "bad"
    [] OTHER -> "warn"

readCard(card) ==
  CASE NeedsContract(card) /\ ~Exists -> "retry"
    [] (Exists \/ ~NeedsContract(card)) /\ Expected(card) -> "ok"
    [] OTHER -> Unexpected(card)

checkReceipt(tx) ==
  CASE deployment.receipts[tx] = "recorded" -> "ok"
    [] deployment.receipts[tx] = "reverted" -> "bad"
    [] OTHER -> "warn"

\* Whatever error the node answers counts as a rejection on the chain.
checkOverCap ==
  {verdict \in {"ok", "bad"} :
     IF verdict = "ok" THEN OverCapReverts \/ NodeErrors ELSE ~OverCapReverts}

\* Mutant of Outcomes: a failing transport passes for a rejection.
OutcomesTrusting(item) ==
  CASE item \in AllCards -> {readCard(item), "retry"}
    [] item \in Receipts -> {checkReceipt(item), "retry"}
    [] item = "overCap" -> checkOverCap \cup {"ok"}

\* The verdict on what is answered now; "retry" when the read throws.
Outcomes(item) ==
  CASE item \in AllCards -> {readCard(item), "retry"}
    [] item \in Receipts -> {checkReceipt(item), "retry"}
    [] item = "overCap" -> checkOverCap \cup {"retry"}
-----------------------------------------------------------------------------
(* The chain: others go on using the recorded contract, whose counters     *)
(* only grow.                                                              *)

Move ==
  /\ Exists
  /\ UNCHANGED <<world, page>>
  /\ ledger' \in Ledgers
  /\ ledger'.coverages >= ledger.coverages
  /\ ledger'.claims >= ledger.claims
  /\ agreed' = agreed \cup Agreeing'
-----------------------------------------------------------------------------
(* verifyAll.                                                              *)

Run == [phase : {"chainId", "reading", "done"}, chainOk : BOOLEAN,
        awaited : SUBSET Items, failed : SUBSET cards]

Begin ==
  /\ Len(runs) < MaxRuns
  /\ running' = TRUE
  /\ busy' = TRUE
  /\ conn' = "busy"
  /\ shown' = [item \in Items |-> "pending"]
  /\ runs' = Append(runs, [phase |-> "chainId", chainOk |-> FALSE,
                           awaited |-> {}, failed |-> {}])
  /\ agreed' = Agreeing
  /\ UNCHANGED answers

\* Mutant of verifyAll: without the ref that guards it.
verifyAllAgain == Begin

verifyAll ==
  IF running
  THEN UNCHANGED <<agreed, running, busy, runs, answers, shown, conn>>
  ELSE Begin

\* The effect defers the first run, which the button may overtake.
FirstRun ==
  /\ timer
  /\ timer' = FALSE
  /\ verifyAll
  /\ UNCHANGED <<world, ledger>>

Reverify ==
  /\ ~busy
  /\ verifyAll
  /\ UNCHANGED <<world, ledger, timer>>

getChainId(r) ==
  /\ runs[r].phase = "chainId"
  /\ \E ok \in {deployment.chain = Mainnet, FALSE} :
       runs' = [runs EXCEPT ![r] = [@ EXCEPT !.phase = "reading", !.chainOk = ok,
                                             !.awaited = cards]]
  /\ UNCHANGED <<world, ledger, agreed, timer, running, busy, answers, shown, conn>>

\* The node answers, or the transport fails.
Answer(r, item) ==
  /\ item \in runs[r].awaited
  /\ \A answer \in answers : <<answer[1], answer[2]>> # <<r, item>>
  /\ \E verdict \in Outcomes(item) : answers' = answers \cup {<<r, item, verdict>>}
  /\ UNCHANGED <<world, ledger, agreed, timer, running, busy, runs, shown, conn>>

\* What the run waits for next: all cards, all receipts, the simulation.
Following(item) ==
  CASE item \in cards -> Receipts
    [] item \in Receipts -> {"overCap"}
    [] item = "overCap" -> {}

Settled(run, item, verdict) ==
  LET left == run.awaited \ {item} IN
  [run EXCEPT
     !.phase = IF item = "overCap" THEN "done" ELSE @,
     !.awaited = IF left = {} THEN Following(item) ELSE left,
     !.failed = IF item \in cards /\ verdict = "retry" THEN @ \cup {item} ELSE @]

\* Mutant of Concluded: the chain id is read for nothing.
ConcludedAnyChain(run) ==
  CASE run.failed = {} -> "on"
    [] run.failed # {} /\ run.failed # cards -> "partial"
    [] OTHER -> "err"

\* The connection state at the end of a run.
Concluded(run) ==
  CASE run.chainOk /\ run.failed = {} -> "on"
    [] /\ ~(run.chainOk /\ run.failed = {})
       /\ run.failed # cards
       /\ archived => run.failed # {} -> "partial"
    [] OTHER -> "err"

\* Mutant of Ends: the simulation's failure is not caught.
EndsUnlessThrown(item, verdict) == item = "overCap" /\ verdict # "retry"

Ends(item, verdict) == item = "overCap"

\* A read settles: its verdict is shown, and the last one ends the run.
Settle(r, item, verdict) ==
  LET run == Settled(runs[r], item, verdict) IN
  /\ answers' = answers \ {<<r, item, verdict>>}
  /\ shown' = [shown EXCEPT ![item] = verdict]
  /\ runs' = [runs EXCEPT ![r] = run]
  /\ IF Ends(item, verdict)
     THEN conn' = Concluded(run) /\ busy' = FALSE /\ running' = FALSE
     ELSE UNCHANGED <<conn, busy, running>>
  /\ UNCHANGED <<world, ledger, agreed, timer>>

Fresh ==
  /\ timer = TRUE
  /\ running = FALSE /\ busy = FALSE
  /\ runs = <<>>
  /\ answers = {}
  /\ shown = [item \in Items |-> "pending"]
  /\ conn = "idle"

Init ==
  /\ archived \in BOOLEAN
  /\ cards \in CardSets
  /\ archived => cards \cap CurrentOnly = {}
  /\ deployment \in Deployments
  /\ ledger \in IF Exists THEN Ledgers ELSE {NoBooks}
  /\ agreed = {}
  /\ Fresh

Progress ==
  \/ FirstRun
  \/ \E r \in DOMAIN runs :
       \/ getChainId(r)
       \/ \E item \in Items : Answer(r, item)
  \/ \E answer \in answers : Settle(answer[1], answer[2], answer[3])

Next == Progress \/ Reverify \/ Move

\* A timer fires, and every request ends, in an answer or an error.
Spec == Init /\ [][Next]_vars /\ WF_vars(Progress)
-----------------------------------------------------------------------------
(* Properties.                                                             *)

TypeOK ==
  /\ archived \in BOOLEAN
  /\ cards \in CardSets
  /\ deployment \in Deployments
  /\ ledger \in Ledgers \cup {NoBooks}
  /\ agreed \subseteq cards \cup {"overCap"}
  /\ timer \in BOOLEAN /\ running \in BOOLEAN /\ busy \in BOOLEAN
  /\ runs \in Seq(Run)
  /\ answers \subseteq (DOMAIN runs) \X Items \X {"ok", "warn", "bad", "retry"}
  /\ shown \in [Items -> {"pending", "ok", "warn", "bad", "retry"}]
  /\ conn \in {"idle", "busy", "on", "partial", "err"}

\* "Badges turn green only when the live chain agrees" (ProofVerifier.tsx:143),
\* at a moment of this run, never of an earlier one: on the recorded chain, and
\* wherever the page says that it is connected to it.
GreenAgreed ==
  \A item \in cards \cup {other \in {"overCap"} : ~NodeErrors} :
    shown[item] = "ok" /\ (conn = "on" \/ deployment.chain = Mainnet) => item \in agreed

\* What the connection says once a run is over: "verified live on BOT Chain
\* Mainnet" means that chain, with every card read; "unavailable", on the
\* current page, that none could be; and nothing is left pending
\* (CurrentProofVerifier.tsx:94-102).
ConnTells ==
  /\ conn = "on" => deployment.chain = Mainnet /\ \A card \in cards : shown[card] # "retry"
  /\ conn = "err" /\ ~archived => \A card \in cards : shown[card] = "retry"
  /\ conn \in {"on", "partial", "err"} => \A item \in Items : shown[item] # "pending"

\* A run ends whatever fails, and the button is unlocked again.
RunEnds == busy ~> ~busy
=============================================================================

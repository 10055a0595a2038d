----------------------------- MODULE Rehearsal ------------------------------
(***************************************************************************)
(* scripts/rehearse.ts with scripts/paymaster.ts: one run of the dress     *)
(* rehearsal, from its environment variables to PASS or an error, against  *)
(* the contract of WarrantyReserve on a chain that others use as well.     *)
(*                                                                         *)
(* A step of the script is what runs between two awaits, or several of     *)
(* them when nobody else can change what they read.  A transaction is      *)
(* broadcast, and mined later, never, or after the script has given up;    *)
(* it may be mined and revert, and the script looks at no receipt's        *)
(* status.  A stranger may use the new contract, and relay the decision    *)
(* once it is in a broadcast transaction.                                  *)
(*                                                                         *)
(* Fees are Fee a transaction, and kept apart from the contract's wallet   *)
(* in `spent'.  A run takes less than the year its coverage lasts, so the  *)
(* clock stands still.                                                     *)
(***************************************************************************)
EXTENDS WarrantyReserve

CONSTANTS
  Deployer, Claimant, Stranger,  \* the accounts
  Commitment,                    \* the fixed hash of product, receipt and evidence
  Fee,                           \* what a self-paid transaction costs
  Configs,                       \* the environments to run with
  Nothing,                       \* no decision yet, no receipt to wait for
  MaxForeign                     \* bound: coverages issued by the stranger

Testnet == 968
Mainnet == 677

Config ==
  [chain : Nat,
   consent : BOOLEAN,     \* the opt-in that this chain needs is set
   supplied : BOOLEAN,    \* RESVYN_CLAIMANT_KEY is set
   deployerSpent : Nat, claimantSpent : Nat,  \* of the endowments, before the run
   deposit : Nat, maxPayout : Nat, approve : Nat, funding : Nat,
   paymaster : BOOLEAN,   \* RESVYN_PAYMASTER_URL is set
   reclaim : BOOLEAN]     \* RESVYN_RECLAIM is "1"

Kinds == {"fund", "deploy", "deposit", "issue", "open", "sponsored", "resolve", "withdraw"}

ASSUME RehearsalAssumption ==
  /\ Accounts = {Deployer, Claimant, Stranger}
  /\ Deployer # Claimant /\ Stranger \notin {Deployer, Claimant}
  /\ Contracts = {}
  /\ Commitment \in Hashes
  /\ Fee \in Nat
  /\ Configs \subseteq Config
  /\ Nothing \notin Kinds /\ Nothing \notin Decisions
  /\ MaxForeign \in Nat /\ MaxCoverage = MaxForeign + 1
  /\ MaxTime > 0 /\ MaxDepth = 1

VARIABLES
  config,       \* the environment variables and what they stand for
  pc,           \* where main() is
  awaiting,     \* the transaction whose receipt it waits for
  offered,      \* the paymaster has agreed to sponsor the call
  hashless,     \* "no", or it took the call and gave no hash: the nonce of the next
  coverageId, claimId,
  decision,     \* the signed decision, or Nothing
  claimantBefore,
  sent, mined,  \* the run's transactions that were broadcast, and mined
  spent         \* fees paid, and what was spent before the run

locals == <<offered, hashless, coverageId, claimId, decision, claimantBefore>>
chainVars == <<vars, mined, spent>>
script == <<config, pc, awaiting, locals, sent>>
runVars == <<chainVars, script>>

Balance(a) == wallet[a] - spent[a]
Free == reserveBalance[Deployer] - lockedExposure[Deployer]
------------------------------------------------------------------------------
(* Transactions.                                                           *)

Sender(kind) == IF kind \in {"open", "sponsored"} THEN Claimant ELSE Deployer
Gas(kind) == IF kind = "sponsored" THEN 0 ELSE Fee
Value(kind) ==
  CASE kind = "fund" -> config.funding
    [] kind = "deposit" -> config.deposit
    [] OTHER -> 0

Transfer(from, to, v) ==
  /\ wallet' = [wallet EXCEPT ![from] = @ - v, ![to] = @ + v]
  /\ UNCHANGED <<reserveVars, coverageVars, claimVars, usedNonce, native, now, stack>>

\* What the chain does for a transaction of this run that does not revert.
Effect(kind) ==
  \/ kind = "fund" /\ Transfer(Deployer, Claimant, config.funding)
  \/ kind = "deploy" /\ UNCHANGED vars
  \/ kind = "deposit" /\ depositReserve(Deployer, config.deposit)
  \/ kind = "issue" /\ issueCoverage(Deployer, Claimant, Commitment, Commitment,
                                     config.maxPayout, MaxTime)
  \/ kind \in {"open", "sponsored"} /\ openClaim(Claimant, coverageId, Commitment)
  \/ kind = "resolve" /\ resolveClaim(decision)
  \/ kind = "withdraw" /\ withdrawReserve(Deployer, config.deposit - config.approve)

\* The estimate before a transaction is signed fails if it would revert now.
Estimated(kind) ==
  /\ Value(kind) + Gas(kind) <= Balance(Sender(kind))
  /\ ENABLED Effect(kind)

Broadcast(kind) ==
  /\ ~InCall
  /\ Estimated(kind)
  /\ sent' = sent \cup {kind}
  /\ awaiting' = kind
  /\ UNCHANGED chainVars

\* A call and the one that took its nonce: one of them is mined.
Replaced(kind) ==
  hashless = "same" /\
    \/ kind = "open" /\ "sponsored" \in mined
    \/ kind = "sponsored" /\ "open" \in mined

\* A transaction enters a block in the order of the nonces, with or without
\* effect; a plain transfer to an account without code does not revert.
Mine(kind) ==
  /\ kind \in sent \ mined
  /\ ~Replaced(kind)
  /\ kind = "open" /\ hashless = "next" => "sponsored" \in mined
  /\ ~InCall
  /\ mined' = mined \cup {kind}
  /\ spent' = [spent EXCEPT ![Sender(kind)] = @ + Gas(kind)]
  /\ \/ Effect(kind)
     \/ kind # "fund" /\ ~ENABLED Effect(kind) /\ UNCHANGED vars
  /\ UNCHANGED script

\* Anybody may use the contract, and relay a decision that has been broadcast.
ForeignUse ==
  /\ "deploy" \in mined
  /\ \/ \E v \in Amounts : depositReserve(Stranger, v) \/ withdrawReserve(Stranger, v)
     \/ \E buyer \in {Claimant, Stranger}, v \in Amounts :
          /\ Cardinality({c \in CoverageIds : coverage[c].merchant = Stranger}) < MaxForeign
          /\ issueCoverage(Stranger, buyer, Commitment, Commitment, v, MaxTime)
     \/ \E c \in CoverageIds : openClaim(Stranger, c, Commitment)
     \/ "resolve" \in sent /\ resolveClaim(decision)
  /\ UNCHANGED <<mined, spent, script>>

Transferred == Accept /\ UNCHANGED <<mined, spent, script>>
------------------------------------------------------------------------------
(* The script.                                                             *)

Running == pc \notin {"passed", "failed"}

At(stage) == pc = stage /\ awaiting = Nothing /\ ~InCall
Goto(stage) == pc' = stage
Require(condition, stage) == pc' = IF condition THEN stage ELSE "failed"
Local == UNCHANGED <<chainVars, config, awaiting, sent, hashless>>

Send(kind) ==
  /\ At(kind)
  /\ Broadcast(kind)
  /\ UNCHANGED <<config, pc, locals>>

CheckAmounts ==
  /\ At("amounts")
  /\ Require(config.approve <= config.maxPayout /\ config.maxPayout <= config.deposit, "chain")
  /\ Local /\ UNCHANGED locals

\* Mutant of ChainAllowed: a chain with a name needs no consent.
ChainKnown == config.chain \in {Testnet, Mainnet} \/ config.consent

ChainAllowed == config.chain = Testnet \/ config.consent

CheckChain ==
  /\ At("chain")
  /\ Require(ChainAllowed, "balances")
  /\ Local /\ UNCHANGED locals

CheckBalances ==
  /\ At("balances")
  /\ IF Balance(Deployer) > 0 /\ Balance(Claimant) = 0 /\ ~config.supplied
     THEN Goto("fund")
     ELSE Require(Balance(Deployer) > 0 /\ Balance(Claimant) > 0, "deploy")
  /\ Local /\ UNCHANGED locals

CheckFunded ==
  /\ At("funded")
  /\ Require(Balance(Claimant) > 0, "deploy")
  /\ Local /\ UNCHANGED locals

\* Not from the event: from the counter, which others move as well.
ReadCoverageId ==
  /\ At("coverageId")
  /\ coverageId' = coverageCount
  /\ Goto("lock")
  /\ Local /\ UNCHANGED <<offered, claimId, decision, claimantBefore>>

CheckLock ==
  /\ At("lock")
  /\ Require(lockedExposure[Deployer] = config.maxPayout, "open")
  /\ Local /\ UNCHANGED locals

\* The paymaster says whether it will sponsor the call; an error ends the run.
AskPaymaster ==
  /\ At("open")
  /\ config.paymaster /\ ~offered
  /\ ENABLED Effect("open")
  /\ offered' = TRUE
  /\ Local /\ UNCHANGED <<pc, coverageId, claimId, decision, claimantBefore>>

\* The transport answers with the hash, or with neither a hash nor an error,
\* and the call may be mined all the same (paymaster.ts:119-125, 198-199).
SendSponsored ==
  /\ At("open")
  /\ offered /\ "sponsored" \notin sent
  /\ sent' = sent \cup {"sponsored"}
  /\ \/ awaiting' = "sponsored" /\ UNCHANGED hashless
     \/ hashless' \in {"same", "next"} /\ UNCHANGED awaiting
  /\ UNCHANGED <<chainVars, config, pc, offered, coverageId, claimId, decision, claimantBefore>>

\* Without a paymaster, when it declines, and when it has given no hash: then
\* the node may or may not count the sponsored call for the nonce of this one.
SendOpen ==
  /\ offered => hashless # "no"
  /\ Send("open")

ReadClaimId ==
  /\ At("claimId")
  /\ claimId' = claimCount
  /\ Goto("evaluate")
  /\ Local /\ UNCHANGED <<offered, coverageId, decision, claimantBefore>>

Decided ==
  [signer |-> EvaluatorSigner, chainId |-> ThisChain, verifier |-> ThisVerifier,
   claimId |-> claimId, coverageId |-> coverageId, claimant |-> Claimant,
   evidenceHash |-> Commitment, amount |-> config.approve, result |-> "Approve",
   expiry |-> MaxTime, nonce |-> 1]

\* The fixture is eligible, so the policy approves whatever is not zero.
Evaluate ==
  /\ At("evaluate")
  /\ Require(config.approve > 0, "resolve")
  /\ decision' = IF config.approve > 0 THEN Decided ELSE Nothing
  /\ claimantBefore' = Balance(Claimant)
  /\ Local /\ UNCHANGED <<offered, coverageId, claimId>>

\* Mutant of Held: the merchant's accounting is printed but not asserted.
HeldByClaim ==
  /\ claim[claimId].status = "Approved"
  /\ claim[claimId].paidAmount = config.approve
  /\ Balance(Claimant) - claimantBefore = config.approve
  /\ 1 \in usedNonce

Held ==
  /\ claim[claimId].status = "Approved"
  /\ claim[claimId].paidAmount = config.approve
  /\ Balance(Claimant) - claimantBefore = config.approve
  /\ 1 \in usedNonce
  /\ lockedExposure[Deployer] = 0
  /\ reserveBalance[Deployer] = config.deposit - config.approve

Assert ==
  /\ At("assertions")
  /\ Require(Held, "replay")
  /\ Local /\ UNCHANGED locals

\* Simulated: the decision again must fail because of its nonce.
ProveReplay ==
  /\ At("replay")
  /\ Require(decision.nonce \in usedNonce, "overcommit")
  /\ Local /\ UNCHANGED locals

\* Simulated: a unit more than the free reserve must not be issued.
ProveOvercommit ==
  /\ At("overcommit")
  /\ Require(~Available(Deployer, Free + 1),
             IF config.reclaim /\ Free > 0 THEN "withdraw" ELSE "passed")
  /\ Local /\ UNCHANGED locals

CheckReclaimed ==
  /\ At("reclaim")
  /\ Require(Free = 0 /\ reserveBalance[Deployer] = 0, "passed")
  /\ Local /\ UNCHANGED locals

After(kind) ==
  CASE kind = "fund" -> "funded"
    [] kind = "deploy" -> "deposit"
    [] kind = "deposit" -> "issue"
    [] kind = "issue" -> "coverageId"
    [] kind \in {"open", "sponsored"} -> "claimId"
    [] kind = "resolve" -> "assertions"
    [] kind = "withdraw" -> "reclaim"

\* waitForTransactionReceipt, whatever the status of the receipt; viem takes
\* that of the transaction that replaced the awaited one.
Receipt ==
  /\ awaiting \in mined \/ Replaced(awaiting)
  /\ ~InCall
  /\ awaiting' = Nothing
  /\ Goto(After(awaiting))
  /\ UNCHANGED <<chainVars, config, locals, sent>>

\* Mutants of TimesOut: the wait has no end; the other way to send is tried.
WaitsForEver ==
  /\ awaiting \in mined
  /\ awaiting' = Nothing
  /\ Goto("failed")
  /\ UNCHANGED <<chainVars, config, locals, sent>>

FallsBack ==
  /\ awaiting # Nothing
  /\ awaiting' = Nothing
  /\ offered' = FALSE
  /\ Goto(IF awaiting = "sponsored" THEN "open" ELSE "failed")
  /\ UNCHANGED <<chainVars, config, hashless, coverageId, claimId, decision, claimantBefore,
                 sent>>

\* No answer to the broadcast or no receipt in time: the run ends, and the
\* transaction may still be mined.
TimesOut ==
  /\ awaiting # Nothing
  /\ awaiting' = Nothing
  /\ Goto("failed")
  /\ UNCHANGED <<chainVars, config, locals, sent>>

\* Any other await may end with an error, which ends the run.
Throws ==
  /\ Running
  /\ awaiting = Nothing
  /\ Goto("failed")
  /\ UNCHANGED <<chainVars, config, awaiting, locals, sent>>

ScriptStep ==
  \/ CheckAmounts \/ CheckChain \/ CheckBalances \/ CheckFunded
  \/ \E kind \in {"fund", "deploy", "deposit", "issue", "resolve", "withdraw"} : Send(kind)
  \/ ReadCoverageId \/ CheckLock
  \/ AskPaymaster \/ SendSponsored \/ SendOpen
  \/ ReadClaimId \/ Evaluate
  \/ Assert \/ ProveReplay \/ ProveOvercommit \/ CheckReclaimed
  \/ Receipt \/ TimesOut \/ Throws

RunInit ==
  /\ Init
  /\ config \in Configs
  /\ pc = "amounts"
  /\ awaiting = Nothing
  /\ offered = FALSE
  /\ hashless = "no"
  /\ coverageId = 0
  /\ claimId = 0
  /\ decision = Nothing
  /\ claimantBefore = 0
  /\ sent = {}
  /\ mined = {}
  /\ spent = [a \in Accounts |->
                CASE a = Deployer -> config.deployerSpent
                  [] a = Claimant -> config.claimantSpent
                  [] OTHER -> 0]

RunNext ==
  \/ ScriptStep
  \/ \E kind \in Kinds : Mine(kind)
  \/ ForeignUse
  \/ Transferred

\* Every request ends, in an answer, an error or a time-out of its transport.
RunSpec == RunInit /\ [][RunNext]_runVars /\ WF_runVars(ScriptStep)
------------------------------------------------------------------------------
(* Properties.                                                             *)

OwnClaims ==
  {k \in 1..claimCount : coverage[claim[k].coverageId].merchant = Deployer}

\* The gas the buyer pays for its claim.
OpenGas ==
  IF hashless = "no"
  THEN IF offered THEN 0 ELSE Fee
  ELSE IF "open" \in mined THEN Fee ELSE 0

Earned ==
  Endowment[Claimant] - config.claimantSpent
    + (IF "fund" \in mined THEN config.funding ELSE 0)
    + (config.approve - OpenGas)

\* "PASS. fund -> issue -> claim -> payout completed [...] Full lock released,
\* payout delivered, nonce terminal" (rehearse.ts:580-584), whoever else used
\* the contract, moved its counters or relayed the decision: the deployer's
\* own claim is paid from its own reserve, and a reclaim leaves nothing in the
\* contract.  The buyer has the payment, less gas if nobody sponsored the claim
\* or a sponsor took it without giving its hash; never more than one fee.
PassIsEarned ==
  pc = "passed" =>
    /\ \E k \in OwnClaims :
         claim[k].status = "Approved" /\ claim[k].paidAmount = config.approve
    /\ usedNonce = {1}
    /\ lockedExposure[Deployer] = 0
    /\ reserveBalance[Deployer] =
         IF config.reclaim THEN 0 ELSE config.deposit - config.approve
    /\ Balance(Claimant) = Earned

\* The claim is sent for by two transactions, one sponsored and one paid, only
\* when the sponsor took the first and gave no hash (rehearse.ts:386-397): not
\* after an error, a lost answer or a receipt that does not come
\* (paymaster.ts:106-126, 142-145).
TwiceOnlyHashless == {"open", "sponsored"} \subseteq sent => hashless # "no"

\* A run that the environment dooms fails before it sends anything: amounts that
\* do not fit, a chain without its consent ("Nothing was sent"), no funds ("so
\* a zero-funded run fails before deploying"), and a supplied buyer without gas,
\* who is "never topped up" (rehearse.ts:187-300).
Doomed ==
  \/ ~(config.approve <= config.maxPayout /\ config.maxPayout <= config.deposit)
  \/ config.chain # Testnet /\ ~config.consent
  \/ config.deployerSpent = Endowment[Deployer]
  \/ config.supplied /\ config.claimantSpent = Endowment[Claimant]

DoomedSpendsNothing == Doomed => sent = {}

\* A run comes to an end, whatever is dropped, reverted or never answered.
RunEnds == <>(pc \in {"passed", "failed"})
==============================================================================

---------------------------- MODULE RehearsalProofs ----------------------------
(***************************************************************************)
(* What holds of every run of the rehearsal, on any chain and for any      *)
(* amounts, however its transactions are lost, delayed or reverted.        *)
(*                                                                         *)
(* The invariants follow the script's order.  A doomed run is still at one *)
(* of its checks, which nobody else can influence as nothing has been      *)
(* deployed; the claim is sent for at one place, which the script reaches  *)
(* once and leaves by a receipt or for good; and what a stage has read of  *)
(* the chain is still so when the script concludes from it.                *)
(***************************************************************************)
EXTENDS Rehearsal, TLAPS

AmountsFit == config.approve <= config.maxPayout /\ config.maxPayout <= config.deposit

\* The endowments as the script finds them when nothing has been mined.
Untouched ==
  /\ sent = {} /\ mined = {} /\ awaiting = Nothing
  /\ stack = <<>>
  /\ wallet = Endowment
  /\ spent[Deployer] = config.deployerSpent /\ spent[Claimant] = config.claimantSpent

\* Where a doomed run is, and what it has found so far.
DoomedInv ==
  /\ config \in Configs
  /\ Doomed =>
       /\ Untouched
       /\ pc \in {"amounts", "chain", "balances", "failed"}
       /\ pc \in {"chain", "balances"} => AmountsFit
       /\ pc = "balances" => ChainAllowed

\* The script once the claim has been sent for, or given up.
Beyond ==
  {"claimId", "evaluate", "resolve", "assertions", "replay", "overcommit", "withdraw",
   "reclaim", "passed", "failed"}

OpenInv ==
  /\ mined \subseteq Kinds
  /\ awaiting # Nothing =>
       awaiting = pc \/ (awaiting = "sponsored" /\ pc = "open")
  /\ sent \cap {"open", "sponsored"} # {} =>
       pc \in Beyond \/ (pc = "open" /\ (awaiting # Nothing \/ hashless # "no"))
  /\ "sponsored" \in sent => offered
  /\ "open" \in sent /\ offered => hashless # "no"

--------------------------------------------------------------------------------
(* Doomed runs.                                                            *)

\* The environment does not change, and neither does what it dooms.
LEMMA ConfigFixed ==
  RunNext => UNCHANGED config
BY DEF RunNext, ScriptStep, CheckAmounts, CheckChain, CheckBalances, CheckFunded, Send,
       ReadCoverageId, CheckLock, AskPaymaster, SendSponsored, SendOpen, ReadClaimId, Evaluate,
       Assert, ProveReplay, ProveOvercommit, CheckReclaimed, Receipt, TimesOut, Throws,
       Mine, ForeignUse, Transferred, script, Local

\* Without a transaction of the run, nobody else has anything to use.
LEMMA OthersWait ==
  ASSUME Untouched
  PROVE  ~(ForeignUse \/ Transferred \/ \E kind \in Kinds : Mine(kind))
BY DEF Untouched, ForeignUse, Transferred, Accept, InCall, Mine

\* The first three stages send nothing, whether or not they go on.
LEMMA ChecksAreLocal ==
  ASSUME Untouched, pc \in {"amounts", "chain", "balances", "failed"}, ScriptStep
  PROVE  /\ UNCHANGED <<chainVars, config, awaiting, sent>>
         /\ \/ CheckAmounts \/ CheckChain \/ CheckBalances
            \/ pc' = "failed"
<1>1. awaiting = Nothing /\ awaiting \notin mined
  BY DEF Untouched
<1>2. CheckAmounts \/ CheckChain \/ CheckBalances \/ Throws
  BY <1>1 DEF ScriptStep, CheckFunded, Send, ReadCoverageId, CheckLock, AskPaymaster,
     SendSponsored, SendOpen, ReadClaimId, Evaluate, Assert, ProveReplay, ProveOvercommit,
     CheckReclaimed, Receipt, Replaced, TimesOut, At, Untouched
<1> QED BY <1>2 DEF CheckAmounts, CheckChain, CheckBalances, Throws, Local, Goto

\* The checks of a doomed run: one of them fails.
LEMMA DoomedFails ==
  ASSUME DoomedInv, Doomed, CheckAmounts \/ CheckChain \/ CheckBalances
  PROVE  /\ pc' \in {"chain", "balances", "failed"}
         /\ pc' \in {"chain", "balances"} => AmountsFit
         /\ pc' = "balances" => ChainAllowed
<1>1. CASE CheckAmounts
  BY <1>1 DEF CheckAmounts, Require, AmountsFit
<1>2. CASE CheckChain
  BY <1>2 DEF CheckChain, Require, DoomedInv, At
<1>3. CASE CheckBalances
  <2>1. pc = "balances" /\ AmountsFit /\ ChainAllowed /\ Untouched /\ config \in Config
    BY <1>3, RehearsalAssumption DEF CheckBalances, At, DoomedInv
  <2>2. /\ Deployer \in Accounts /\ Claimant \in Accounts
        /\ Balance(Deployer) = Endowment[Deployer] - config.deployerSpent
        /\ Balance(Claimant) = Endowment[Claimant] - config.claimantSpent
        /\ Endowment[Deployer] \in Nat /\ Endowment[Claimant] \in Nat
        /\ config.deployerSpent \in Nat /\ config.claimantSpent \in Nat
    BY <2>1, RehearsalAssumption, AccountsAssumption DEF Untouched, Balance, Config
  <2>3. \/ config.deployerSpent = Endowment[Deployer]
        \/ config.supplied /\ config.claimantSpent = Endowment[Claimant]
    BY <2>1 DEF Doomed, AmountsFit, ChainAllowed
  <2>4. \/ ~(Balance(Deployer) > 0)
        \/ config.supplied /\ ~(Balance(Claimant) > 0)
    BY <2>2, <2>3
  <2>5. pc' = "failed"
    BY <1>3, <2>4 DEF CheckBalances, Require
  <2> QED BY <2>5
<1> QED BY <1>1, <1>2, <1>3

LEMMA DoomedStep == DoomedInv /\ [RunNext]_runVars => DoomedInv'
<1> SUFFICES ASSUME DoomedInv, [RunNext]_runVars PROVE DoomedInv'
  OBVIOUS
<1>1. CASE UNCHANGED runVars
  BY <1>1 DEF runVars, chainVars, script, vars, fundVars, DoomedInv, Doomed, Untouched, AmountsFit,
              ChainAllowed
<1>2. CASE RunNext
  <2>1. config' = config
    BY <1>2, ConfigFixed
  <2>2. Doomed' <=> Doomed
    BY <2>1 DEF Doomed
  <2>3. ASSUME Doomed
        PROVE  /\ Untouched'
               /\ pc' \in {"amounts", "chain", "balances", "failed"}
               /\ pc' \in {"chain", "balances"} => AmountsFit'
               /\ pc' = "balances" => ChainAllowed'
    <3>1. Untouched /\ ScriptStep
      BY <1>2, <2>3, OthersWait DEF DoomedInv, RunNext
    <3>2. /\ UNCHANGED <<chainVars, config, awaiting, sent>>
          /\ CheckAmounts \/ CheckChain \/ CheckBalances \/ pc' = "failed"
      BY <2>3, <3>1, ChecksAreLocal DEF DoomedInv
    <3>3. Untouched'
      BY <3>1, <3>2 DEF Untouched, chainVars, vars, fundVars
    <3>4. (AmountsFit' <=> AmountsFit) /\ (ChainAllowed' <=> ChainAllowed)
      BY <2>1 DEF AmountsFit, ChainAllowed
    <3> QED BY <2>3, <3>2, <3>3, <3>4, DoomedFails
  <2> QED BY <2>1, <2>2, <2>3 DEF DoomedInv
<1> QED BY <1>1, <1>2

\* Wrong amounts, a chain without its consent, an empty deployer or a supplied
\* buyer without gas: the run fails before it has sent anything, in whatever
\* order its checks run and whatever the chain does (rehearse.ts:187-300).
THEOREM DoomedSpendsNothingHolds == RunSpec => []DoomedSpendsNothing
<1>1. RunInit => DoomedInv
  <2> SUFFICES ASSUME RunInit PROVE DoomedInv
    OBVIOUS
  <2>1. Deployer \in Accounts /\ Claimant \in Accounts /\ Deployer # Claimant
    BY RehearsalAssumption
  <2>2. spent[Deployer] = config.deployerSpent /\ spent[Claimant] = config.claimantSpent
    BY <2>1 DEF RunInit
  <2> QED BY <2>2 DEF RunInit, Init, DoomedInv, Untouched
<1>2. DoomedInv => DoomedSpendsNothing
  BY DEF DoomedInv, DoomedSpendsNothing, Untouched
<1> QED BY <1>1, <1>2, DoomedStep, PTL DEF RunSpec
--------------------------------------------------------------------------------
(* The claim is sent for once.                                             *)

\* What else happens leaves the script where it is.
LEMMA OthersKeepOpen ==
  ASSUME OpenInv,
         ForeignUse \/ Transferred \/ (\E kind \in Kinds : Mine(kind)) \/ UNCHANGED runVars
  PROVE  OpenInv'
<1>1. UNCHANGED <<pc, awaiting, sent, offered, hashless>> /\ mined' \subseteq mined \cup Kinds
  BY DEF ForeignUse, Transferred, Mine, script, locals, runVars, chainVars
<1> QED BY <1>1 DEF OpenInv

\* A step between transactions goes to a later stage, and to the one that
\* sends for the claim only from before it.
LEMMA LocalKeepsOpen ==
  ASSUME OpenInv,
         \/ CheckAmounts \/ CheckChain \/ CheckBalances \/ CheckFunded
         \/ ReadCoverageId \/ CheckLock \/ AskPaymaster \/ ReadClaimId \/ Evaluate
         \/ Assert \/ ProveReplay \/ ProveOvercommit \/ CheckReclaimed \/ Throws
  PROVE  OpenInv'
<1>1. UNCHANGED <<awaiting, sent, mined, hashless>> /\ awaiting = Nothing
  BY DEF chainVars, locals, CheckAmounts, CheckChain, CheckBalances, CheckFunded, ReadCoverageId, CheckLock,
     AskPaymaster, ReadClaimId, Evaluate, Assert, ProveReplay, ProveOvercommit, CheckReclaimed,
     Throws, Local, At
<1>2. pc \in Beyond => pc' \in Beyond
  BY DEF Beyond, CheckAmounts, CheckChain, CheckBalances, CheckFunded, ReadCoverageId,
     CheckLock, AskPaymaster, ReadClaimId, Evaluate, Assert, ProveReplay, ProveOvercommit,
     CheckReclaimed, Throws, At, Goto, Require
<1>3. offered' = offered \/ (offered' = TRUE /\ pc = "open")
  BY DEF locals, CheckAmounts, CheckChain, CheckBalances, CheckFunded, ReadCoverageId,
     CheckLock, AskPaymaster, ReadClaimId, Evaluate, Assert, ProveReplay, ProveOvercommit,
     CheckReclaimed, Throws, At
<1>4. pc \in Beyond => pc # "open"
  BY DEF Beyond
<1>5. sent \cap {"open", "sponsored"} # {} => pc \in Beyond \/ hashless # "no"
  BY <1>1 DEF OpenInv
<1>6. pc = "open" => pc' \in {"open", "failed"}
  BY DEF CheckAmounts, CheckChain, CheckBalances, CheckFunded, ReadCoverageId, CheckLock,
     AskPaymaster, ReadClaimId, Evaluate, Assert, ProveReplay, ProveOvercommit, CheckReclaimed,
     Throws, At, Goto, Local
<1>7. "failed" \in Beyond
  BY DEF Beyond
<1>8. sent \cap {"open", "sponsored"} # {} =>
        pc' \in Beyond \/ (pc' = "open" /\ hashless # "no")
  BY <1>1, <1>2, <1>6, <1>7 DEF OpenInv
<1>9. /\ "sponsored" \in sent => offered'
      /\ "open" \in sent /\ offered' => hashless # "no"
  BY <1>3, <1>4, <1>5 DEF OpenInv
<1> QED BY <1>1, <1>8, <1>9 DEF OpenInv

LEMMA SendKeepsOpen ==
  ASSUME OpenInv, NEW kind \in Kinds \ {"open", "sponsored"}, Send(kind)
  PROVE  OpenInv'
<1>1. /\ sent' = sent \cup {kind} /\ awaiting' = kind /\ awaiting = Nothing
      /\ pc' = pc /\ pc = kind /\ mined' = mined /\ UNCHANGED <<offered, hashless>>
  BY DEF Send, Broadcast, At, chainVars, locals
<1>2. kind # "open" /\ kind # "sponsored"
  OBVIOUS
<1> QED BY <1>1, <1>2 DEF OpenInv

\* The two ways to send for the claim are taken at one place, with no
\* transaction awaited: the other one has not been taken, unless it was the
\* sponsored one and has no hash.
LEMMA OpenKeepsOpen ==
  ASSUME OpenInv, SendOpen \/ SendSponsored
  PROVE  OpenInv'
<1>1. CASE SendOpen
  <2>1. /\ pc = "open" /\ pc' = pc /\ awaiting' = "open"
        /\ sent' = sent \cup {"open"} /\ mined' = mined
        /\ UNCHANGED <<offered, hashless>>
        /\ offered => hashless # "no"
    BY <1>1 DEF SendOpen, Send, Broadcast, At, chainVars, locals
  <2>2. "open" # Nothing
    BY RehearsalAssumption DEF Kinds
  <2> QED BY <2>1, <2>2 DEF OpenInv
<1>2. CASE SendSponsored
  <2>1. /\ pc = "open" /\ pc' = pc /\ awaiting = Nothing
        /\ sent' = sent \cup {"sponsored"} /\ mined' = mined
        /\ offered' = offered /\ offered
        /\ \/ awaiting' = "sponsored" /\ hashless' = hashless
           \/ hashless' # "no" /\ awaiting' = awaiting
    BY <1>2 DEF SendSponsored, At, chainVars
  <2>2. "sponsored" # Nothing
    BY RehearsalAssumption DEF Kinds
  <2> QED BY <2>1, <2>2 DEF OpenInv
<1> QED BY <1>1, <1>2

LEMMA ReceiptKeepsOpen ==
  ASSUME OpenInv, Receipt \/ TimesOut
  PROVE  OpenInv'
<1>1. CASE TimesOut
  BY <1>1 DEF OpenInv, TimesOut, Goto, Beyond, chainVars, locals
<1>2. CASE Receipt
  <2>1. /\ sent' = sent /\ mined' = mined /\ awaiting' = Nothing /\ pc' = After(awaiting)
        /\ UNCHANGED <<offered, hashless>>
    BY <1>2 DEF Receipt, Goto, chainVars, locals
  <2>2. awaiting \in Kinds /\ awaiting # Nothing
    BY <1>2, RehearsalAssumption DEF OpenInv, Receipt, Replaced, Kinds
  <2>3. ASSUME sent \cap {"open", "sponsored"} # {}
        PROVE  After(awaiting) \in Beyond
    <3>1. CASE pc = "open"
      BY <2>2, <3>1 DEF OpenInv, After, Beyond
    <3>2. CASE pc \in Beyond
      BY <2>2, <3>2 DEF OpenInv, After, Beyond, Kinds
    <3> QED BY <2>3, <3>1, <3>2 DEF OpenInv
  <2> QED BY <2>1, <2>3 DEF OpenInv
<1> QED BY <1>1, <1>2

LEMMA OpenStep == OpenInv /\ [RunNext]_runVars => OpenInv'
<1> SUFFICES ASSUME OpenInv, [RunNext]_runVars PROVE OpenInv'
  OBVIOUS
<1>1. CASE ScriptStep
  BY <1>1, LocalKeepsOpen, SendKeepsOpen, OpenKeepsOpen, ReceiptKeepsOpen DEF ScriptStep, Kinds
<1> QED BY <1>1, OthersKeepOpen DEF RunNext

\* The claim is sent for by the sponsor and at the buyer's expense only when the
\* sponsor took the call and gave no hash: whatever answer or receipt is lost,
\* and whoever else uses the chain, nothing else leads to the second transaction
\* (rehearse.ts:366-406, paymaster.ts:106-126, 150-200).
THEOREM TwiceOnlyHashlessHolds == RunSpec => []TwiceOnlyHashless
<1>1. RunInit => OpenInv
  BY DEF RunInit, OpenInv
<1>2. OpenInv => TwiceOnlyHashless
  BY DEF OpenInv, TwiceOnlyHashless
<1> QED BY <1>1, <1>2, OpenStep, PTL DEF RunSpec
--------------------------------------------------------------------------------
(* PASS is earned.                                                         *)

\* The stages behind the check of the lock, the claim's receipt, the
\* evaluation and the assertions.
Asserted == {"replay", "overcommit", "withdraw", "reclaim", "passed"}
Evaluated == Asserted \cup {"resolve", "assertions"}
Opened == Evaluated \cup {"evaluate", "claimId"}
Locked == Opened \cup {"open"}

\* What the proof needs of the contract's types.
BooksShape ==
  /\ DOMAIN reserveBalance = Accounts
  /\ DOMAIN lockedExposure = Accounts
  /\ DOMAIN wallet = Accounts
  /\ DOMAIN coverage = CoverageIds
  /\ claim \in [ClaimIds -> ClaimType]
  /\ coverageCount \in 0..MaxCoverage
  /\ claimCount \in 0..MaxCoverage
  /\ now \in Nat

ChainShape == BooksShape /\ DOMAIN spent = Accounts

\* The script's own state: an awaited transaction is the only one that may still
\* be mined, unless the run has failed or one of the two that open the claim has
\* no hash, and a stage has what was checked before it.
Loose(kind) == hashless # "no" /\ kind \in {"open", "sponsored"}

RunShape ==
  /\ config \in Configs
  /\ mined \subseteq sent /\ sent \subseteq Kinds
  /\ pc # "failed" => \A kind \in sent \ mined : kind = awaiting \/ Loose(kind)
  /\ awaiting # Nothing => pc = IF awaiting = "sponsored" THEN "open" ELSE awaiting
  /\ coverageId \in 0..coverageCount /\ claimId \in 0..claimCount
  /\ pc \notin {"amounts", "failed"} => AmountsFit
  /\ pc \in Opened => mined \cap {"open", "sponsored"} # {}

\* The decision is on the run's own ids, and the only one that may be relayed.
Relayed ==
  /\ pc \in Evaluated => decision = Decided /\ config.approve > 0
  /\ "resolve" \in sent =>
       /\ pc \in Evaluated \cup {"failed"}
       /\ decision = Decided /\ config.approve > 0 /\ AmountsFit /\ coverageId # 0

\* Nothing is locked for a merchant before its coverage has an id.
Unissued ==
  /\ "resolve" \notin sent /\ coverageCount = 0 => lockedExposure[Deployer] = 0
  /\ pc = "lock" /\ coverageId = 0 => lockedExposure[Deployer] = 0
  /\ pc \in Locked /\ coverageId = 0 => config.maxPayout = 0

\* What the buyer has: the funding, the payment, and no more than one fee less.
BuyerMoney ==
  /\ wallet[Claimant] = Endowment[Claimant]
                          + (IF "fund" \in mined THEN config.funding ELSE 0)
                          + (IF 1 \in usedNonce THEN config.approve ELSE 0)
  /\ spent[Claimant] = config.claimantSpent + (IF "open" \in mined THEN Fee ELSE 0)

\* The nonce stands for the payment of the claim whose id the script has read.
NonceTells ==
  /\ usedNonce \subseteq {1}
  /\ 1 \in usedNonce =>
       /\ "resolve" \in sent
       /\ claimId \in ClaimIds
       /\ claim[claimId].coverageId = coverageId
       /\ claim[claimId].status = "Approved"
       /\ claim[claimId].paidAmount = config.approve

\* The lock that the script has seen is released by its own coverage's payment
\* and by nothing else.
LockTells ==
  pc \in Locked =>
    \/ lockedExposure[Deployer] = config.maxPayout
    \/ 1 \in usedNonce /\ coverage[coverageId].merchant = Deployer

\* What the assertions have found stays so, but for the script's own withdrawal.
HeldStays ==
  /\ pc \in Asserted => 1 \in usedNonce /\ lockedExposure[Deployer] = 0
  /\ pc \in {"replay", "overcommit"} =>
       reserveBalance[Deployer] = config.deposit - config.approve
  /\ pc \in {"withdraw", "reclaim"} => config.reclaim
  /\ pc = "passed" =>
       reserveBalance[Deployer] = IF config.reclaim THEN 0 ELSE config.deposit - config.approve

PassInv ==
  /\ ChainShape /\ RunShape
  /\ Relayed /\ Unissued /\ BuyerMoney /\ NonceTells /\ LockTells /\ HeldStays

\* Of a step on the chain: it keeps the records that the run's ids stand for.
KeepsRecords ==
  /\ coverageCount <= coverageCount'
  /\ \A c \in 1..coverageCount : coverage'[c].merchant = coverage[c].merchant
  /\ claimCount <= claimCount'
  /\ \A k \in 1..claimCount : claim'[k] = claim[k]

\* ... and neither pays the buyer nor uses the nonce ...
PaysNobody == wallet'[Claimant] = wallet[Claimant] /\ usedNonce' = usedNonce

\* ... nor touches the deployer's accounts.
KeepsBooks ==
  /\ reserveBalance'[Deployer] = reserveBalance[Deployer]
  /\ lockedExposure'[Deployer] = lockedExposure[Deployer]

\* The effects of the contract's functions on what the script looks at.
LEMMA DepositMoves ==
  ASSUME BooksShape, NEW m \in Accounts, NEW v, depositReserve(m, v)
  PROVE  /\ BooksShape' /\ KeepsRecords
         /\ m # Claimant => PaysNobody
         /\ m # Deployer => KeepsBooks
         /\ lockedExposure' = lockedExposure /\ usedNonce' = usedNonce
<1>1. UNCHANGED <<lockedExposure, coverage, coverageCount, claim, claimCount, usedNonce, now>>
  BY DEF depositReserve, coverageVars, claimVars
<1>2. /\ reserveBalance' = [reserveBalance EXCEPT ![m] = @ + v]
      /\ wallet' = [wallet EXCEPT ![m] = @ - v]
  BY DEF depositReserve
<1>3. DOMAIN reserveBalance' = Accounts /\ DOMAIN wallet' = Accounts
  BY <1>2 DEF BooksShape
<1>4. \A a \in Accounts \ {m} : reserveBalance'[a] = reserveBalance[a] /\ wallet'[a] = wallet[a]
  BY <1>2 DEF BooksShape
<1>5. Deployer \in Accounts /\ Claimant \in Accounts
  BY RehearsalAssumption
<1>6. coverageCount \in Int /\ claimCount \in Int
  BY BoundsAssumption DEF BooksShape
<1> QED BY <1>1, <1>3, <1>4, <1>5, <1>6 DEF BooksShape, KeepsRecords, PaysNobody, KeepsBooks

LEMMA WithdrawMoves ==
  ASSUME BooksShape, NEW m \in Accounts, NEW v, withdrawReserve(m, v)
  PROVE  /\ BooksShape' /\ KeepsRecords
         /\ m # Claimant => PaysNobody
         /\ m # Deployer => KeepsBooks
         /\ lockedExposure' = lockedExposure /\ usedNonce' = usedNonce
<1>1. UNCHANGED <<lockedExposure, coverage, coverageCount, claim, claimCount, usedNonce, now>>
  BY DEF withdrawReserve, coverageVars, claimVars
<1>2. /\ reserveBalance' = [reserveBalance EXCEPT ![m] = @ - v]
      /\ wallet' = [wallet EXCEPT ![m] = @ + v]
  BY DEF withdrawReserve, Debit, SendValue
<1>3. DOMAIN reserveBalance' = Accounts /\ DOMAIN wallet' = Accounts
  BY <1>2 DEF BooksShape
<1>4. \A a \in Accounts \ {m} : reserveBalance'[a] = reserveBalance[a] /\ wallet'[a] = wallet[a]
  BY <1>2 DEF BooksShape
<1>5. Deployer \in Accounts /\ Claimant \in Accounts
  BY RehearsalAssumption
<1>6. coverageCount \in Int /\ claimCount \in Int
  BY BoundsAssumption DEF BooksShape
<1> QED BY <1>1, <1>3, <1>4, <1>5, <1>6 DEF BooksShape, KeepsRecords, PaysNobody, KeepsBooks

LEMMA IssueMoves ==
  ASSUME BooksShape, NEW m \in Accounts, NEW buyer, NEW p, NEW r, NEW v, NEW e,
         issueCoverage(m, buyer, p, r, v, e)
  PROVE  /\ BooksShape' /\ KeepsRecords /\ PaysNobody
         /\ m # Deployer => KeepsBooks
         /\ reserveBalance' = reserveBalance
         /\ coverageCount' > 0
<1>1. UNCHANGED <<reserveBalance, claim, claimCount, usedNonce, wallet, now>>
  BY DEF issueCoverage, claimVars, fundVars
<1>2. PICK q : coverage' = [coverage EXCEPT ![coverageCount + 1] = q]
  BY DEF issueCoverage
<1>3. /\ coverageCount < MaxCoverage /\ coverageCount' = coverageCount + 1
      /\ lockedExposure' = [lockedExposure EXCEPT ![m] = @ + v]
  BY DEF issueCoverage
<1>4. coverageCount \in Nat /\ MaxCoverage \in Nat /\ claimCount \in Nat
  BY BoundsAssumption DEF BooksShape
<1>5. DOMAIN lockedExposure' = Accounts /\ DOMAIN coverage' = CoverageIds
  BY <1>2, <1>3 DEF BooksShape
<1>6. \A a \in Accounts \ {m} : lockedExposure'[a] = lockedExposure[a]
  BY <1>3 DEF BooksShape
<1>7. \A c \in 1..coverageCount : coverage'[c] = coverage[c]
  <2>1. \A c \in 1..coverageCount : c \in CoverageIds /\ c # coverageCount + 1
    BY <1>3, <1>4 DEF CoverageIds
  <2> QED BY <1>2, <2>1 DEF BooksShape
<1>8. coverageCount' \in 0..MaxCoverage /\ coverageCount' > 0 /\ coverageCount <= coverageCount'
  BY <1>3, <1>4
<1>9. Deployer \in Accounts
  BY RehearsalAssumption
<1> QED BY <1>1, <1>4, <1>5, <1>6, <1>7, <1>8, <1>9 DEF BooksShape, KeepsRecords, PaysNobody, KeepsBooks

LEMMA OpenMoves ==
  ASSUME BooksShape, NEW a \in Accounts, NEW c \in Nat, openClaim(a, c, Commitment)
  PROVE  BooksShape' /\ KeepsRecords /\ PaysNobody /\ KeepsBooks
<1>1. UNCHANGED <<reserveBalance, lockedExposure, coverage, coverageCount, usedNonce, wallet, now>>
  BY DEF openClaim, reserveVars, coverageVars, fundVars
<1> DEFINE q == [coverageId |-> c, claimant |-> coverage[c].claimant, evidenceHash |-> Commitment,
                 paidAmount |-> 0, status |-> "Open", openedAt |-> now]
<1>2. /\ claimCount < MaxCoverage /\ claimCount' = claimCount + 1
      /\ claim' = [claim EXCEPT ![claimCount + 1] = q]
  BY DEF openClaim
<1>3. q \in ClaimType
  <2>1. coverage[c].claimant \in Address /\ Commitment \in Bytes32 /\ now \in Nat
    BY RehearsalAssumption DEF openClaim, Address, Bytes32, BooksShape
  <2> QED BY <2>1 DEF ClaimType, ClaimStatus
<1> HIDE DEF q
<1>4. coverageCount \in Nat /\ MaxCoverage \in Nat /\ claimCount \in Nat
  BY BoundsAssumption DEF BooksShape
<1>5. claim' \in [ClaimIds -> ClaimType]
  BY <1>2, <1>3 DEF BooksShape
<1>6. \A k \in 1..claimCount : claim'[k] = claim[k]
  <2>1. \A k \in 1..claimCount : k \in ClaimIds /\ k # claimCount + 1
    BY <1>2, <1>4 DEF ClaimIds
  <2> QED BY <1>2, <2>1 DEF BooksShape
<1>7. claimCount' \in 0..MaxCoverage /\ claimCount <= claimCount'
  BY <1>2, <1>4
<1> QED BY <1>1, <1>4, <1>5, <1>6, <1>7 DEF BooksShape, KeepsRecords, PaysNobody, KeepsBooks

\* Funding the buyer.
LEMMA FundMoves ==
  ASSUME BooksShape, NEW v \in Int, wallet[Claimant] \in Int, Transfer(Deployer, Claimant, v)
  PROVE  /\ BooksShape' /\ KeepsRecords /\ KeepsBooks
         /\ usedNonce' = usedNonce
         /\ wallet'[Claimant] = wallet[Claimant] + v
<1>1. UNCHANGED <<reserveBalance, lockedExposure, coverage, coverageCount, claim, claimCount, usedNonce,
                  now>>
  BY DEF Transfer, reserveVars, coverageVars, claimVars
<1>2. wallet' = [wallet EXCEPT ![Deployer] = @ - v, ![Claimant] = @ + v]
  BY DEF Transfer
<1>3. Deployer \in Accounts /\ Claimant \in Accounts /\ Deployer # Claimant
  BY RehearsalAssumption
<1>4. DOMAIN wallet' = Accounts /\ wallet'[Claimant] = wallet[Claimant] + v
  BY <1>2, <1>3 DEF BooksShape
<1>5. coverageCount \in Int /\ claimCount \in Int
  BY BoundsAssumption DEF BooksShape
<1> QED BY <1>1, <1>4, <1>5 DEF BooksShape, KeepsRecords, KeepsBooks

\* Relaying the run's decision, by whoever: the payment of the claim with its id.
Payment ==
  /\ 1 \notin usedNonce /\ usedNonce' = usedNonce \cup {1}
  /\ claimId \in ClaimIds
  /\ claim'[claimId].coverageId = coverageId
  /\ claim'[claimId].status = "Approved"
  /\ claim'[claimId].paidAmount = config.approve
  /\ wallet'[Claimant] = wallet[Claimant] + config.approve
  /\ lockedExposure'[Deployer] = lockedExposure[Deployer] \/ coverage[coverageId].merchant = Deployer
  /\ UNCHANGED <<coverage, coverageCount, claimCount>>

LEMMA PaymentMoves ==
  ASSUME BooksShape, config \in Config, coverageId \in Nat,
         wallet[Claimant] \in Int, resolveClaim(Decided)
  PROVE  BooksShape' /\ Payment
<1> DEFINE d == Decided
           m == coverage[coverageId].merchant
<1>1. /\ d.claimId = claimId /\ d.coverageId = coverageId /\ d.claimant = Claimant
      /\ d.amount = config.approve /\ d.result = "Approve" /\ d.nonce = 1
  BY DEF Decided
<1>2. 1 \notin usedNonce
  BY <1>1 DEF resolveClaim, Authorized
<1>3. /\ claimId \in ClaimIds
      /\ claim[claimId].coverageId = coverageId /\ claim[claimId].claimant = Claimant
  BY <1>1 DEF resolveClaim, BoundToOpenClaim
<1>4. approveClaim(d)
  BY <1>1 DEF resolveClaim, rejectClaim
<1>5. /\ usedNonce' = usedNonce \cup {1}
      /\ claim' = [claim EXCEPT ![claimId].status = "Approved", ![claimId].paidAmount = config.approve]
      /\ reserveBalance' = [reserveBalance EXCEPT ![m] = @ - config.approve]
      /\ lockedExposure' = [lockedExposure EXCEPT ![m] = @ - coverage[coverageId].maxPayout]
      /\ wallet' = [wallet EXCEPT ![Claimant] = @ + config.approve]
      /\ UNCHANGED <<coverage, coverageCount, claimCount, now>>
  BY <1>1, <1>3, <1>4 DEF approveClaim, Debit, ReleaseLock, SendValue, Payee, coverageVars
<1>6. Deployer \in Accounts /\ Claimant \in Accounts
  BY RehearsalAssumption
<1>7. config.approve \in Nat
  BY DEF Config
<1>8. /\ DOMAIN reserveBalance' = Accounts /\ DOMAIN lockedExposure' = Accounts
      /\ DOMAIN wallet' = Accounts
  BY <1>5 DEF BooksShape
<1>9. wallet'[Claimant] = wallet[Claimant] + config.approve
  BY <1>5, <1>6 DEF BooksShape
<1>10. lockedExposure'[Deployer] = lockedExposure[Deployer] \/ m = Deployer
  BY <1>5, <1>6 DEF BooksShape
<1>11. /\ claim' \in [ClaimIds -> ClaimType]
       /\ claim'[claimId].coverageId = coverageId
       /\ claim'[claimId].status = "Approved"
       /\ claim'[claimId].paidAmount = config.approve
  <2> DEFINE q == [claim[claimId] EXCEPT !.status = "Approved", !.paidAmount = config.approve]
  <2>1. claim[claimId] \in ClaimType
    BY <1>3 DEF BooksShape
  <2>2. /\ q \in ClaimType
        /\ q.coverageId = claim[claimId].coverageId /\ q.status = "Approved"
        /\ q.paidAmount = config.approve
    BY <2>1, <1>7 DEF ClaimType, ClaimStatus
  <2>3. claim' = [claim EXCEPT ![claimId] = q]
    BY <1>3, <1>5 DEF BooksShape
  <2> HIDE DEF q
  <2> QED BY <1>3, <2>2, <2>3 DEF BooksShape
<1> HIDE DEF d
<1> QED BY <1>2, <1>3, <1>5, <1>8, <1>9, <1>10, <1>11 DEF BooksShape, Payment

--------------------------------------------------------------------------------
(* Others use the contract.                                                *)

\* Ids and counters in the types that arithmetic needs.
LEMMA Counted ==
  ASSUME PassInv
  PROVE  /\ config \in Config /\ coverageId \in Nat /\ claimId \in Nat
         /\ coverageCount \in Nat /\ claimCount \in Nat
         /\ wallet[Claimant] \in Int
BY RehearsalAssumption, BoundsAssumption, AccountsAssumption
   DEF PassInv, ChainShape, BooksShape, RunShape, BuyerMoney, Config

\* Somebody uses the contract, but for relaying the decision.
Aside ==
  /\ BooksShape' /\ KeepsRecords /\ PaysNobody /\ KeepsBooks
  /\ UNCHANGED <<mined, spent, script>>

LEMMA AsideKeeps ==
  ASSUME PassInv, Aside
  PROVE  PassInv'
<1>1. UNCHANGED <<config, pc, awaiting, hashless, coverageId, claimId, decision, sent, mined,
                  spent>>
  BY DEF Aside, script, locals
<1>2. /\ usedNonce' = usedNonce /\ wallet'[Claimant] = wallet[Claimant]
      /\ reserveBalance'[Deployer] = reserveBalance[Deployer]
      /\ lockedExposure'[Deployer] = lockedExposure[Deployer]
      /\ coverageCount <= coverageCount' /\ claimCount <= claimCount'
      /\ coverageCount' \in Nat /\ claimCount' \in Nat
  BY BoundsAssumption DEF Aside, PaysNobody, KeepsBooks, KeepsRecords, BooksShape
<1>3. ChainShape'
  BY <1>1 DEF PassInv, ChainShape, Aside
<1>4. RunShape'
  BY <1>1, <1>2, Counted DEF PassInv, RunShape, Loose, AmountsFit
<1>5. Decided' = Decided
  BY <1>1 DEF Decided
<1>6. Relayed'
  BY <1>1, <1>5 DEF PassInv, Relayed, AmountsFit
<1>7. Unissued' /\ BuyerMoney'
  BY <1>1, <1>2, Counted DEF PassInv, Unissued, BuyerMoney
<1>8. NonceTells'
  <2>1. claimId \in 1..claimCount => claim'[claimId] = claim[claimId]
    BY DEF Aside, KeepsRecords
  <2>2. claimId \in ClaimIds => claimId \in 1..claimCount
    BY Counted DEF PassInv, RunShape, ClaimIds
  <2> QED BY <1>1, <1>2, <2>1, <2>2 DEF PassInv, NonceTells
<1>9. LockTells'
  <2>1. 1 \in usedNonce => coverageId \in 1..coverageCount
    BY Counted DEF PassInv, NonceTells, Relayed, RunShape
  <2>2. 1 \in usedNonce => coverage'[coverageId].merchant = coverage[coverageId].merchant
    BY <2>1 DEF Aside, KeepsRecords
  <2> QED BY <1>1, <1>2, <2>2 DEF PassInv, LockTells
<1>10. HeldStays'
  BY <1>1, <1>2 DEF PassInv, HeldStays
<1> QED BY <1>3, <1>4, <1>6, <1>7, <1>8, <1>9, <1>10 DEF PassInv

\* Somebody, or a late transaction of the run, relays the decision.
LEMMA PaymentKeeps ==
  ASSUME PassInv, BooksShape', Payment, "resolve" \in sent,
         UNCHANGED <<config, pc, awaiting, hashless, coverageId, claimId, decision, sent>>,
         DOMAIN spent' = Accounts,
         mined' \in {mined, mined \cup {"resolve"}}, spent'[Claimant] = spent[Claimant]
  PROVE  PassInv'
<1>1. ChainShape'
  BY DEF PassInv, ChainShape
<1>2. UNCHANGED <<coverage, coverageCount, claimCount>>
  BY DEF Payment
<1>3. RunShape'
  BY <1>2 DEF PassInv, RunShape, Loose, AmountsFit
<1>4. Decided' = Decided
  BY DEF Decided
<1>5. Relayed'
  BY <1>4 DEF PassInv, Relayed, AmountsFit
<1>6. /\ 1 \notin usedNonce /\ 1 \in usedNonce' /\ usedNonce' \subseteq {1}
      /\ pc \notin Asserted
      /\ pc # "lock"
      /\ coverageId # 0
  BY DEF Payment, PassInv, NonceTells, HeldStays, Relayed, Evaluated, Asserted
<1>7. Unissued'
  BY <1>6 DEF PassInv, Unissued
<1>8. BuyerMoney'
  <2>1. config.approve \in Nat /\ config.funding \in Nat /\ Endowment[Claimant] \in Nat
    BY Counted, RehearsalAssumption, AccountsAssumption DEF Config
  <2>2. /\ "fund" \in mined' <=> "fund" \in mined
        /\ "open" \in mined' <=> "open" \in mined
    OBVIOUS
  <2>3. wallet'[Claimant] = wallet[Claimant] + config.approve
    BY DEF Payment
  <2> QED BY <1>6, <2>1, <2>2, <2>3 DEF PassInv, BuyerMoney
<1>9. NonceTells'
  BY <1>6 DEF NonceTells, Payment
<1>10. LockTells'
  BY <1>2, <1>6 DEF LockTells, Payment, PassInv
<1>11. HeldStays'
  BY <1>6 DEF HeldStays, Asserted
<1> QED BY <1>1, <1>3, <1>5, <1>7, <1>8, <1>9, <1>10, <1>11 DEF PassInv

LEMMA OthersKeepPass ==
  ASSUME PassInv, ForeignUse \/ Transferred \/ UNCHANGED runVars
  PROVE  PassInv'
<1>1. PassInv => BooksShape
  BY DEF PassInv, ChainShape
<1>2. Stranger \in Accounts /\ Stranger # Deployer /\ Stranger # Claimant
  BY RehearsalAssumption
<1>3. CASE ForeignUse
  <2>1. UNCHANGED <<mined, spent, script>>
    BY <1>3 DEF ForeignUse
  <2>2. ASSUME NEW v \in Amounts, depositReserve(Stranger, v) \/ withdrawReserve(Stranger, v)
        PROVE  Aside
    BY <1>1, <1>2, <2>1, <2>2, DepositMoves, WithdrawMoves DEF Aside
  <2>3. ASSUME NEW buyer, NEW v, issueCoverage(Stranger, buyer, Commitment, Commitment, v, MaxTime)
        PROVE  Aside
    BY <1>1, <1>2, <2>1, <2>3, IssueMoves DEF Aside
  <2>4. ASSUME NEW c \in CoverageIds, openClaim(Stranger, c, Commitment)
        PROVE  Aside
    BY <1>1, <1>2, <2>1, <2>4, OpenMoves DEF Aside, CoverageIds
  <2>5. ASSUME "resolve" \in sent, resolveClaim(decision)
        PROVE  PassInv'
    <3>1. decision = Decided
      BY <2>5 DEF PassInv, Relayed
    <3>2. BooksShape' /\ Payment
      BY <1>1, <2>5, <3>1, Counted, PaymentMoves
    <3> QED BY <2>1, <2>5, <3>2, PaymentKeeps DEF script, locals, PassInv, ChainShape
  <2> QED BY <1>3, <2>2, <2>3, <2>4, <2>5, AsideKeeps DEF ForeignUse
<1>4. CASE Transferred \/ UNCHANGED runVars
  <2>1. /\ UNCHANGED <<reserveVars, coverageVars, claimVars, usedNonce, fundVars, now>>
        /\ UNCHANGED <<mined, spent, script>>
    BY <1>4 DEF Transferred, Accept, runVars, chainVars, vars
  <2>2. UNCHANGED <<reserveBalance, lockedExposure, coverage, coverageCount, claim, claimCount,
                    usedNonce, wallet, now>>
    BY <2>1 DEF reserveVars, coverageVars, claimVars, fundVars
  <2>3. Aside
    BY <1>1, <2>1, <2>2, Counted DEF Aside, BooksShape, KeepsRecords, PaysNobody, KeepsBooks
  <2> QED BY <2>3, AsideKeeps
<1> QED BY <1>3, <1>4

--------------------------------------------------------------------------------
(* The run's own transactions, mined in time or late.                      *)

\* A block takes a transaction of the run: its fee, and what it may do on the
\* contract, but for relaying the decision.
OwnTransaction(kind) ==
  /\ BooksShape' /\ KeepsRecords /\ usedNonce' = usedNonce
  /\ wallet'[Claimant] = wallet[Claimant] + (IF kind = "fund" THEN config.funding ELSE 0)
  /\ kind # "issue" => lockedExposure'[Deployer] = lockedExposure[Deployer]
  /\ kind = "issue" => lockedExposure'[Deployer] = lockedExposure[Deployer] \/ coverageCount' > 0
  /\ kind \notin {"deposit", "withdraw"} => reserveBalance'[Deployer] = reserveBalance[Deployer]

Charged(kind) ==
  /\ kind \in sent \ mined /\ mined' = mined \cup {kind}
  /\ DOMAIN spent' = Accounts
  /\ spent'[Claimant] = spent[Claimant] + (IF kind = "open" THEN Fee ELSE 0)
  /\ UNCHANGED <<config, pc, awaiting, hashless, coverageId, claimId, decision, sent>>

LEMMA MineCharges ==
  ASSUME PassInv, NEW kind \in Kinds, Mine(kind)
  PROVE  Charged(kind)
<1>1. UNCHANGED <<config, pc, awaiting, hashless, coverageId, claimId, decision, sent>>
  BY DEF Mine, script, locals
<1>2. kind \in sent \ mined /\ mined' = mined \cup {kind}
  BY DEF Mine
<1>3. spent' = [spent EXCEPT ![Sender(kind)] = @ + Gas(kind)]
  BY DEF Mine
<1>4. Claimant \in Accounts /\ Deployer \in Accounts /\ Deployer # Claimant /\ Fee \in Nat
  BY RehearsalAssumption
<1>5. spent[Claimant] \in Int /\ DOMAIN spent = Accounts
  BY <1>4, Counted DEF PassInv, ChainShape, BuyerMoney, Config
<1>6. spent'[Claimant] = spent[Claimant] + (IF kind = "open" THEN Fee ELSE 0)
  BY <1>3, <1>4, <1>5 DEF Sender, Gas
<1> QED BY <1>1, <1>2, <1>3, <1>5, <1>6 DEF Charged

\* Unless the run has failed, a transaction is mined at its own stage, but for
\* those that open the claim.
LEMMA MinedInTime ==
  ASSUME PassInv, NEW kind \in Kinds, Charged(kind)
  PROVE  \/ pc = "failed"
         \/ pc = kind
         \/ kind \in {"open", "sponsored"}
BY RehearsalAssumption DEF PassInv, RunShape, Loose, Charged

LEMMA OwnKeeps ==
  ASSUME PassInv, NEW kind \in Kinds, Charged(kind), OwnTransaction(kind)
  PROVE  PassInv'
<1>1. UNCHANGED <<config, pc, awaiting, hashless, coverageId, claimId, decision, sent, usedNonce>>
  BY DEF Charged, OwnTransaction
<1>2. /\ coverageCount <= coverageCount' /\ claimCount <= claimCount'
      /\ coverageCount' \in Nat /\ claimCount' \in Nat
  BY BoundsAssumption DEF OwnTransaction, KeepsRecords, BooksShape
<1>3. ChainShape'
  BY DEF ChainShape, Charged, OwnTransaction
<1>4. RunShape'
  BY <1>1, <1>2, Counted DEF PassInv, RunShape, Loose, AmountsFit, Charged
<1>5. Decided' = Decided
  BY <1>1 DEF Decided
<1>6. Relayed'
  BY <1>1, <1>5 DEF PassInv, Relayed, AmountsFit
<1>7. pc # kind /\ pc # "failed" => kind \in {"open", "sponsored"}
  BY MinedInTime
<1>8. Unissued'
  <2>1. CASE kind = "issue"
    BY <1>1, <1>2, <1>7, <2>1, Counted DEF PassInv, Unissued, OwnTransaction, Locked, Opened,
       Evaluated, Asserted
  <2>2. CASE kind # "issue"
    BY <1>1, <1>2, <2>2, Counted DEF PassInv, Unissued, OwnTransaction
  <2> QED BY <2>1, <2>2
<1>9. BuyerMoney'
  <2>1. /\ config.approve \in Nat /\ config.funding \in Nat /\ config.claimantSpent \in Nat
        /\ Endowment[Claimant] \in Nat /\ Fee \in Nat
    BY Counted, RehearsalAssumption, AccountsAssumption DEF Config
  <2>2. /\ "fund" \in mined' <=> "fund" \in mined \/ kind = "fund"
        /\ "open" \in mined' <=> "open" \in mined \/ kind = "open"
        /\ kind \notin mined
    BY DEF Charged
  <2>3. /\ wallet'[Claimant] = wallet[Claimant] + (IF kind = "fund" THEN config.funding ELSE 0)
        /\ spent'[Claimant] = spent[Claimant] + (IF kind = "open" THEN Fee ELSE 0)
    BY DEF OwnTransaction, Charged
  <2> QED BY <1>1, <2>1, <2>2, <2>3 DEF PassInv, BuyerMoney
<1>10. NonceTells'
  <2>1. claimId \in 1..claimCount => claim'[claimId] = claim[claimId]
    BY DEF OwnTransaction, KeepsRecords
  <2>2. claimId \in ClaimIds => claimId \in 1..claimCount
    BY Counted DEF PassInv, RunShape, ClaimIds
  <2> QED BY <1>1, <2>1, <2>2 DEF PassInv, NonceTells
<1>11. LockTells'
  <2>1. 1 \in usedNonce => coverageId \in 1..coverageCount
    BY Counted DEF PassInv, NonceTells, Relayed, RunShape
  <2>2. 1 \in usedNonce => coverage'[coverageId].merchant = coverage[coverageId].merchant
    BY <2>1 DEF OwnTransaction, KeepsRecords
  <2>3. pc \in Locked => kind # "issue"
    BY <1>7 DEF Locked, Opened, Evaluated, Asserted
  <2> QED BY <1>1, <2>2, <2>3 DEF PassInv, LockTells, OwnTransaction
<1>12. HeldStays'
  <2>1. pc \in Asserted =>
          kind \in {"open", "sponsored"} \/ (kind = "withdraw" /\ pc = "withdraw")
    BY <1>7 DEF Asserted, Kinds
  <2> QED BY <1>1, <2>1 DEF PassInv, HeldStays, OwnTransaction, Asserted
<1> QED BY <1>3, <1>4, <1>6, <1>8, <1>9, <1>10, <1>11, <1>12 DEF PassInv

LEMMA MineKeepsPass ==
  ASSUME PassInv, NEW kind \in Kinds, Mine(kind)
  PROVE  PassInv'
<1>1. Charged(kind)
  BY MineCharges
<1>2. BooksShape /\ config \in Config /\ wallet[Claimant] \in Int
  BY Counted DEF PassInv, ChainShape
<1>3. Deployer \in Accounts /\ Claimant \in Accounts /\ Deployer # Claimant
  BY RehearsalAssumption
<1>4. CASE kind # "fund" /\ UNCHANGED vars
  <2>1. UNCHANGED <<reserveBalance, lockedExposure, coverage, coverageCount, claim, claimCount,
                    usedNonce, wallet, now>>
    BY <1>4 DEF vars, reserveVars, coverageVars, claimVars, fundVars
  <2>2. OwnTransaction(kind)
    BY <1>2, <1>4, <2>1, Counted DEF OwnTransaction, BooksShape, KeepsRecords
  <2> QED BY <1>1, <2>2, OwnKeeps
<1>5. CASE kind = "fund" /\ Transfer(Deployer, Claimant, config.funding)
  <2>1. config.funding \in Int
    BY <1>2 DEF Config
  <2>2. OwnTransaction(kind)
    BY <1>2, <1>5, <2>1, FundMoves DEF OwnTransaction, KeepsBooks
  <2> QED BY <1>1, <2>2, OwnKeeps
<1>6. CASE kind = "deposit" /\ depositReserve(Deployer, config.deposit)
  <2>1. OwnTransaction(kind)
    BY <1>2, <1>3, <1>6, DepositMoves DEF OwnTransaction, PaysNobody
  <2> QED BY <1>1, <2>1, OwnKeeps
<1>7. CASE /\ kind = "issue"
           /\ issueCoverage(Deployer, Claimant, Commitment, Commitment, config.maxPayout, MaxTime)
  <2>1. OwnTransaction(kind)
    BY <1>2, <1>3, <1>7, IssueMoves DEF OwnTransaction, PaysNobody
  <2> QED BY <1>1, <2>1, OwnKeeps
<1>8. CASE kind \in {"open", "sponsored"} /\ openClaim(Claimant, coverageId, Commitment)
  <2>1. OwnTransaction(kind)
    BY <1>2, <1>3, <1>8, Counted, OpenMoves DEF OwnTransaction, PaysNobody, KeepsBooks
  <2> QED BY <1>1, <2>1, OwnKeeps
<1>9. CASE kind = "resolve" /\ resolveClaim(decision)
  <2>1. "resolve" \in sent
    BY <1>1, <1>9 DEF Charged
  <2>2. decision = Decided
    BY <2>1 DEF PassInv, Relayed
  <2>3. BooksShape' /\ Payment
    BY <1>2, <1>9, <2>2, Counted, PaymentMoves
  <2>4. spent'[Claimant] = spent[Claimant]
    BY <1>1, <1>9, Counted, RehearsalAssumption DEF Charged, PassInv, BuyerMoney, Config
  <2> QED BY <1>1, <1>9, <2>1, <2>3, <2>4, PaymentKeeps DEF Charged
<1>10. CASE kind = "withdraw" /\ withdrawReserve(Deployer, config.deposit - config.approve)
  <2>1. OwnTransaction(kind)
    BY <1>2, <1>3, <1>10, WithdrawMoves DEF OwnTransaction, PaysNobody
  <2> QED BY <1>1, <2>1, OwnKeeps
<1>11. (kind # "fund" /\ UNCHANGED vars) \/ Effect(kind)
  BY DEF Mine
<1> QED BY <1>4, <1>5, <1>6, <1>7, <1>8, <1>9, <1>10, <1>11 DEF Effect

--------------------------------------------------------------------------------
(* The script goes on.                                                     *)

\* Between its transactions the script changes its own variables only.
LEMMA ScriptIsLocal ==
  ASSUME PassInv, ScriptStep
  PROVE  /\ UNCHANGED <<chainVars, config>>
         /\ ChainShape' /\ BuyerMoney'
<1>1. UNCHANGED <<chainVars, config>>
  BY DEF ScriptStep, CheckAmounts, CheckChain, CheckBalances, CheckFunded, Send, Broadcast,
     ReadCoverageId, CheckLock, AskPaymaster, SendSponsored, SendOpen, ReadClaimId, Evaluate,
     Assert, ProveReplay, ProveOvercommit, CheckReclaimed, Receipt, TimesOut, Throws, Local
<1>2. UNCHANGED <<reserveBalance, lockedExposure, coverage, coverageCount, claim, claimCount,
                  usedNonce, wallet, now, mined, spent>>
  BY <1>1 DEF chainVars, vars, reserveVars, coverageVars, claimVars, fundVars
<1> QED BY <1>1, <1>2 DEF PassInv, ChainShape, BooksShape, BuyerMoney

\* The chain as the script leaves it, and its ids outside the two reads.
Still ==
  UNCHANGED <<reserveBalance, lockedExposure, coverage, coverageCount, claim, claimCount,
              usedNonce, config, mined>>

LEMMA ScriptStill ==
  ASSUME PassInv, ScriptStep
  PROVE  Still
BY ScriptIsLocal DEF Still, chainVars, vars, reserveVars, coverageVars, claimVars, fundVars

\* A run that gives up keeps what was sent, and the decision.
LEMMA FailingKeeps ==
  ASSUME PassInv, ScriptStep, pc' = "failed",
         UNCHANGED <<coverageId, claimId, decision, sent>>, awaiting' = Nothing
  PROVE  PassInv'
<1>1. Still /\ ChainShape' /\ BuyerMoney'
  BY ScriptStill, ScriptIsLocal
<1>2. RunShape'
  BY <1>1 DEF PassInv, RunShape, Still, Opened, Evaluated, Asserted
<1>3. Relayed'
  <2>1. Decided' = Decided
    BY <1>1 DEF Decided, Still
  <2> QED BY <1>1, <2>1 DEF PassInv, Relayed, Still, AmountsFit, Evaluated, Asserted
<1>4. Unissued' /\ NonceTells' /\ LockTells' /\ HeldStays'
  BY <1>1 DEF PassInv, Unissued, NonceTells, LockTells, HeldStays, Still, Locked, Opened,
     Evaluated, Asserted
<1> QED BY <1>1, <1>2, <1>3, <1>4 DEF PassInv

\* A stage before the claim is sent for, with nothing awaited.
LEMMA EarlyKeeps ==
  ASSUME PassInv, ScriptStep, awaiting = Nothing, awaiting' = Nothing,
         pc \notin Locked \cup {"failed"}, pc' \notin Locked \cup {"failed", "amounts", "lock"},
         pc # "amounts" \/ AmountsFit,
         UNCHANGED <<coverageId, claimId, decision, sent, hashless>>
  PROVE  PassInv'
<1>1. Still /\ ChainShape' /\ BuyerMoney'
  BY ScriptStill, ScriptIsLocal
<1>2. RunShape'
  BY <1>1 DEF PassInv, RunShape, Loose, Still, AmountsFit, Locked
<1>3. Relayed'
  BY <1>1 DEF PassInv, Relayed, Locked, Opened
<1>4. Unissued' /\ NonceTells' /\ LockTells' /\ HeldStays'
  BY <1>1 DEF PassInv, Unissued, NonceTells, LockTells, HeldStays, Still, Locked, Opened,
     Evaluated, Asserted
<1> QED BY <1>1, <1>2, <1>3, <1>4 DEF PassInv

\* The checks before anything is sent, and of the lock.
LEMMA ChecksKeep ==
  ASSUME PassInv, CheckAmounts \/ CheckChain \/ CheckBalances \/ CheckFunded \/ CheckLock
  PROVE  PassInv'
<1>1. /\ ScriptStep /\ awaiting = Nothing /\ awaiting' = Nothing
      /\ UNCHANGED <<coverageId, claimId, decision, sent, hashless>>
  BY DEF ScriptStep, CheckAmounts, CheckChain, CheckBalances, CheckFunded, CheckLock, At, Local, locals
<1>2. CASE CheckLock /\ pc' # "failed"
  <2>1. pc = "lock" /\ pc' = "open" /\ lockedExposure[Deployer] = config.maxPayout
    BY <1>2 DEF CheckLock, At, Require
  <2>2. Still /\ ChainShape' /\ BuyerMoney'
    BY <1>1, ScriptStill, ScriptIsLocal
  <2>3. "resolve" \notin sent
    BY <2>1 DEF PassInv, Relayed, Evaluated, Asserted
  <2>4. RunShape' /\ Relayed' /\ NonceTells' /\ HeldStays'
    BY <1>1, <2>1, <2>2, <2>3 DEF PassInv, RunShape, Loose, Relayed, NonceTells, HeldStays, Still,
       AmountsFit, Opened, Evaluated, Asserted
  <2>5. Unissued' /\ LockTells'
    BY <1>1, <2>1, <2>2, <2>3 DEF PassInv, Unissued, LockTells, Still
  <2> QED BY <2>2, <2>4, <2>5 DEF PassInv
<1>3. CASE ~CheckLock /\ pc' # "failed"
  <2>1. /\ pc \in {"amounts", "chain", "balances", "funded"}
        /\ pc' \in {"chain", "balances", "fund", "deploy"}
        /\ pc # "amounts" \/ AmountsFit
    BY <1>3 DEF CheckAmounts, CheckChain, CheckBalances, CheckFunded, At, Require, Goto, AmountsFit
  <2> QED BY <1>1, <2>1, EarlyKeeps DEF Locked, Opened, Evaluated, Asserted
<1> QED BY <1>1, <1>2, <1>3, FailingKeeps

\* The ids are read from the counters, before there is a decision about them.
LEMMA ReadsKeep ==
  ASSUME PassInv, ReadCoverageId \/ ReadClaimId \/ AskPaymaster
  PROVE  PassInv'
<1>1. /\ Still /\ ChainShape' /\ BuyerMoney'
      /\ UNCHANGED <<awaiting, decision, sent, hashless>>
  BY ScriptStill, ScriptIsLocal DEF ScriptStep, ReadCoverageId, ReadClaimId, AskPaymaster, Local
<1>2. pc \in {"coverageId", "claimId", "open"} /\ awaiting = Nothing
  BY DEF ReadCoverageId, ReadClaimId, AskPaymaster, At
<1>3. "resolve" \notin sent /\ 1 \notin usedNonce
  BY <1>2 DEF PassInv, Relayed, NonceTells, Evaluated, Asserted
<1>4. \/ pc = "coverageId" /\ pc' = "lock" /\ coverageId' = coverageCount /\ claimId' = claimId
      \/ pc = "claimId" /\ pc' = "evaluate" /\ coverageId' = coverageId /\ claimId' = claimCount
      \/ pc = "open" /\ pc' = pc /\ coverageId' = coverageId /\ claimId' = claimId
  BY DEF ReadCoverageId, ReadClaimId, AskPaymaster, At, Goto
<1>5. RunShape'
  BY <1>1, <1>2, <1>4, Counted DEF PassInv, RunShape, Loose, Still, AmountsFit, Opened, Evaluated, Asserted
<1>6. Relayed' /\ NonceTells' /\ HeldStays'
  BY <1>1, <1>3, <1>4 DEF PassInv, Relayed, NonceTells, HeldStays, Still, Evaluated, Asserted
<1>7. Unissued' /\ LockTells'
  BY <1>1, <1>3, <1>4 DEF PassInv, Unissued, LockTells, Still, Locked, Opened, Evaluated, Asserted
<1> QED BY <1>1, <1>5, <1>6, <1>7 DEF PassInv

\* A transaction is sent when no other one is awaited.
LEMMA SendsKeep ==
  ASSUME PassInv, ScriptStep, NEW kind \in Kinds \ {"sponsored"}, Send(kind)
  PROVE  PassInv'
<1>1. /\ sent' = sent \cup {kind} /\ awaiting' = kind /\ awaiting = Nothing
      /\ pc' = pc /\ pc = kind /\ UNCHANGED <<hashless, coverageId, claimId, decision>>
  BY DEF Send, Broadcast, At, locals
<1>2. Still /\ ChainShape' /\ BuyerMoney'
  BY ScriptStill, ScriptIsLocal
<1>3. Nothing \notin Kinds
  BY RehearsalAssumption
<1>4. RunShape'
  BY <1>1, <1>2, <1>3 DEF PassInv, RunShape, Loose, Still, AmountsFit
<1>5. Relayed'
  <2>1. Decided' = Decided
    BY <1>1, <1>2 DEF Decided, Still
  <2>2. CASE kind = "resolve"
    <3>1. pc = "resolve" /\ decision = Decided /\ config.approve > 0 /\ AmountsFit
      BY <1>1, <2>2 DEF PassInv, Relayed, RunShape, Evaluated
    <3>2. coverageId # 0
      BY <3>1, Counted DEF PassInv, Unissued, Locked, Opened, Evaluated, AmountsFit, Config
    <3> QED BY <1>1, <1>2, <2>1, <3>1, <3>2 DEF Relayed, Still, AmountsFit, Evaluated
  <2>3. CASE kind # "resolve"
    BY <1>1, <1>2, <2>1, <2>3 DEF PassInv, Relayed, Still, AmountsFit
  <2> QED BY <2>2, <2>3
<1>6. Unissued' /\ NonceTells' /\ LockTells' /\ HeldStays'
  BY <1>1, <1>2 DEF PassInv, Unissued, NonceTells, LockTells, HeldStays, Still
<1> QED BY <1>2, <1>4, <1>5, <1>6 DEF PassInv

\* The sponsored call, whether or not there is a hash to await.
LEMMA SponsoredKeeps ==
  ASSUME PassInv, SendSponsored
  PROVE  PassInv'
<1>1. /\ sent' = sent \cup {"sponsored"} /\ awaiting = Nothing
      /\ pc' = pc /\ pc = "open" /\ UNCHANGED <<coverageId, claimId, decision>>
  BY DEF SendSponsored, At
<1>2. \/ awaiting' = "sponsored" /\ hashless' = hashless
      \/ awaiting' = awaiting /\ hashless' # "no"
  BY DEF SendSponsored
<1>3. Still /\ ChainShape' /\ BuyerMoney'
  BY ScriptStill, ScriptIsLocal DEF ScriptStep
<1>4. Nothing \notin Kinds /\ "sponsored" \in Kinds
  BY RehearsalAssumption DEF Kinds
<1>5. RunShape'
  <2>1. \A kind \in sent' \ mined' : kind = awaiting' \/ Loose(kind)'
    <3> SUFFICES ASSUME NEW kind \in sent' \ mined' PROVE kind = awaiting' \/ Loose(kind)'
      OBVIOUS
    <3>1. CASE kind = "sponsored"
      BY <1>1, <1>2, <3>1 DEF Loose
    <3>2. CASE kind # "sponsored"
      <4>1. kind \in sent \ mined
        BY <1>1, <1>3, <3>2 DEF Still
      <4>2. kind = awaiting \/ Loose(kind)
        BY <1>1, <4>1 DEF PassInv, RunShape
      <4>3. kind # awaiting
        BY <1>1, <1>4, <4>1 DEF PassInv, RunShape
      <4> QED BY <1>2, <4>2, <4>3 DEF Loose
    <3> QED BY <3>1, <3>2
  <2> QED BY <1>1, <1>2, <1>3, <1>4, <2>1 DEF PassInv, RunShape, Still, AmountsFit
<1>6. Decided' = Decided
  BY <1>1, <1>3 DEF Decided, Still
<1>7. Relayed'
  BY <1>1, <1>3, <1>6 DEF PassInv, Relayed, Still, AmountsFit
<1>8. Unissued' /\ NonceTells' /\ LockTells' /\ HeldStays'
  BY <1>1, <1>3 DEF PassInv, Unissued, NonceTells, LockTells, HeldStays, Still
<1> QED BY <1>3, <1>5, <1>7, <1>8 DEF PassInv

LEMMA EvaluateKeeps ==
  ASSUME PassInv, Evaluate
  PROVE  PassInv'
<1>1. /\ pc = "evaluate" /\ awaiting = Nothing
      /\ UNCHANGED <<awaiting, hashless, coverageId, claimId, sent>>
      /\ \/ config.approve > 0 /\ pc' = "resolve" /\ decision' = Decided
         \/ pc' = "failed"
  BY DEF Evaluate, At, Local, Require
<1>2. Still /\ ChainShape' /\ BuyerMoney'
  BY ScriptStill, ScriptIsLocal DEF ScriptStep
<1>3. "resolve" \notin sent
  BY <1>1 DEF PassInv, Relayed, Evaluated, Asserted
<1>4. Decided' = Decided
  BY <1>1, <1>2 DEF Decided, Still
<1>5. RunShape'
  BY <1>1, <1>2 DEF PassInv, RunShape, Loose, Still, AmountsFit, Opened, Evaluated, Asserted
<1>6. Relayed'
  BY <1>1, <1>2, <1>3, <1>4 DEF Relayed, Still, Evaluated, Asserted
<1>7. Unissued' /\ NonceTells' /\ LockTells' /\ HeldStays'
  BY <1>1, <1>2 DEF PassInv, Unissued, NonceTells, LockTells, HeldStays, Still, Locked, Opened,
     Evaluated, Asserted
<1> QED BY <1>2, <1>5, <1>6, <1>7 DEF PassInv

\* The assertions and what follows them, with every transaction mined.
LEMMA AssertionsKeep ==
  ASSUME PassInv, Assert \/ ProveReplay \/ ProveOvercommit \/ CheckReclaimed
  PROVE  PassInv'
<1>1. /\ ScriptStep /\ awaiting = Nothing /\ awaiting' = Nothing
      /\ UNCHANGED <<coverageId, claimId, decision, sent, hashless>>
  BY DEF ScriptStep, Assert, ProveReplay, ProveOvercommit, CheckReclaimed, At, Local, locals
<1>2. CASE pc' # "failed"
  <2>1. Still /\ ChainShape' /\ BuyerMoney'
    BY <1>1, ScriptStill, ScriptIsLocal
  <2>2. /\ pc \in {"assertions", "replay", "overcommit", "reclaim"}
        /\ pc' \in {"replay", "overcommit", "withdraw", "passed"}
    BY <1>2 DEF Assert, ProveReplay, ProveOvercommit, CheckReclaimed, At, Require
  <2>3. RunShape'
    BY <1>1, <2>1, <2>2 DEF PassInv, RunShape, Loose, Still, AmountsFit, Opened, Evaluated, Asserted
  <2>4. Decided' = Decided
    BY <1>1, <2>1 DEF Decided, Still
  <2>5. Relayed'
    BY <1>1, <2>1, <2>2, <2>4 DEF PassInv, Relayed, Still, AmountsFit, Evaluated, Asserted
  <2>6. Unissued' /\ NonceTells' /\ LockTells'
    BY <1>1, <2>1, <2>2 DEF PassInv, Unissued, NonceTells, LockTells, Still, Locked, Opened,
       Evaluated, Asserted
  <2>7. HeldStays'
    <3>1. CASE Assert
      BY <1>2, <2>1, <3>1 DEF Assert, At, Require, Held, HeldStays, Still, Asserted
    <3>2. CASE ProveReplay
      BY <1>2, <2>1, <3>2 DEF ProveReplay, At, Require, PassInv, HeldStays, Still, Asserted
    <3>3. CASE ProveOvercommit
      <4>1. /\ pc = "overcommit"
            /\ 1 \in usedNonce /\ lockedExposure[Deployer] = 0
            /\ reserveBalance[Deployer] = config.deposit - config.approve
        BY <3>3 DEF ProveOvercommit, At, PassInv, HeldStays, Asserted
      <4>2. /\ config.deposit \in Nat /\ config.approve \in Nat
            /\ config.approve <= config.deposit
        BY <4>1, Counted DEF PassInv, RunShape, AmountsFit, Config
      <4>3. /\ Free = config.deposit - config.approve
            /\ ~(Free > 0) => config.deposit - config.approve = 0
        BY <4>1, <4>2 DEF Free
      <4>4. \/ pc' = "withdraw" /\ config.reclaim
            \/ pc' = "passed" /\ (config.reclaim => ~(Free > 0))
        BY <1>2, <3>3 DEF ProveOvercommit, Require
      <4> QED BY <2>1, <4>1, <4>3, <4>4 DEF HeldStays, Still
    <3>4. CASE CheckReclaimed
      BY <1>2, <2>1, <3>4 DEF CheckReclaimed, At, Require, PassInv, HeldStays, Still, Asserted
    <3> QED BY <3>1, <3>2, <3>3, <3>4
  <2> QED BY <2>1, <2>3, <2>5, <2>6, <2>7 DEF PassInv
<1> QED BY <1>1, <1>2, FailingKeeps

LEMMA ReceiptKeepsPass ==
  ASSUME PassInv, Receipt
  PROVE  PassInv'
<1>1. /\ awaiting \in mined \/ Replaced(awaiting)
      /\ awaiting' = Nothing /\ pc' = After(awaiting)
      /\ UNCHANGED <<hashless, coverageId, claimId, decision, sent>>
  BY DEF Receipt, Goto, locals
<1>2. Still /\ ChainShape' /\ BuyerMoney'
  BY ScriptStill, ScriptIsLocal DEF ScriptStep
<1>3. /\ awaiting \in Kinds /\ awaiting # Nothing
      /\ pc = IF awaiting = "sponsored" THEN "open" ELSE awaiting
  BY <1>1, RehearsalAssumption DEF PassInv, RunShape, Replaced, Kinds
<1>4. \/ pc \notin Locked /\ pc' \in {"funded", "deposit", "issue", "coverageId"}
      \/ pc = "open" /\ pc' = "claimId"
      \/ pc = "resolve" /\ pc' = "assertions"
      \/ pc = "withdraw" /\ pc' = "reclaim"
  BY <1>1, <1>3 DEF After, Kinds, Locked, Opened, Evaluated, Asserted
<1>5. pc \notin {"amounts", "failed"}
  BY <1>3 DEF Kinds
<1>6. RunShape'
  <2>1. \A kind \in sent \ mined : Loose(kind)
    BY <1>1, <1>5 DEF PassInv, RunShape, Loose, Replaced
  <2>2. pc' \in Opened => mined \cap {"open", "sponsored"} # {}
    BY <1>1, <1>3, <1>4 DEF PassInv, RunShape, Replaced, Opened, Evaluated, Asserted
  <2> QED BY <1>1, <1>2, <1>5, <2>1, <2>2 DEF PassInv, RunShape, Loose, Still, AmountsFit
<1>7. Relayed'
  <2>1. Decided' = Decided
    BY <1>1, <1>2 DEF Decided, Still
  <2> QED BY <1>1, <1>2, <1>4, <1>5, <2>1 DEF PassInv, Relayed, Still, AmountsFit, Locked, Opened,
     Evaluated, Asserted
<1>8. Unissued' /\ NonceTells' /\ LockTells' /\ HeldStays'
  BY <1>1, <1>2, <1>4 DEF PassInv, Unissued, NonceTells, LockTells, HeldStays, Still, Locked, Opened,
     Evaluated, Asserted
<1> QED BY <1>2, <1>6, <1>7, <1>8 DEF PassInv

LEMMA ScriptKeepsPass ==
  ASSUME PassInv, ScriptStep
  PROVE  PassInv'
<1>1. CASE TimesOut \/ Throws
  BY <1>1, FailingKeeps DEF TimesOut, Throws, Goto, locals
<1>2. ASSUME NEW kind \in {"fund", "deploy", "deposit", "issue", "resolve", "withdraw"}, Send(kind)
      PROVE  PassInv'
  BY <1>2, SendsKeep DEF Kinds
<1>3. CASE SendOpen \/ SendSponsored
  BY <1>3, SendsKeep, SponsoredKeeps DEF SendOpen, Kinds
<1> QED BY <1>1, <1>2, <1>3, ChecksKeep, ReadsKeep, EvaluateKeeps, AssertionsKeep, ReceiptKeepsPass
    DEF ScriptStep

--------------------------------------------------------------------------------
LEMMA PassStart == RunInit => PassInv
<1> SUFFICES ASSUME RunInit PROVE PassInv
  OBVIOUS
<1>1. /\ Deployer \in Accounts /\ Claimant \in Accounts /\ Deployer # Claimant
      /\ DOMAIN Endowment = Accounts /\ Endowment[Claimant] \in Nat
      /\ config \in Config
  BY RehearsalAssumption, AccountsAssumption DEF RunInit
<1>2. NoClaim \in ClaimType
  BY DEF NoClaim, ClaimType, ClaimStatus, Address, Bytes32
<1>3. ChainShape
  BY <1>1, <1>2, BoundsAssumption DEF RunInit, Init, ChainShape, BooksShape
<1>4. RunShape /\ Relayed /\ NonceTells /\ LockTells /\ HeldStays
  BY <1>1, BoundsAssumption DEF RunInit, Init, RunShape, Relayed, NonceTells, LockTells, HeldStays,
     Locked, Opened, Evaluated, Asserted
<1>5. Unissued /\ BuyerMoney
  BY <1>1 DEF RunInit, Init, Unissued, BuyerMoney, Locked, Opened, Evaluated, Asserted, Config
<1> QED BY <1>3, <1>4, <1>5 DEF PassInv

\* A run that ends in PASS has paid the buyer from the deployer's own coverage,
\* used the nonce, released the lock and left in the contract what it should,
\* whoever else used the contract, moved its counters or relayed the decision, and
\* however late or in vain its transactions were mined (rehearse.ts:327-584).
THEOREM PassIsEarnedHolds == RunSpec => []PassIsEarned
<1>1. PassInv /\ [RunNext]_runVars => PassInv'
  BY ScriptKeepsPass, MineKeepsPass, OthersKeepPass DEF RunNext
<1>2. OpenInv /\ PassInv => PassIsEarned
  <2> SUFFICES ASSUME OpenInv, PassInv, pc = "passed" PROVE PassIsEarned
    BY DEF PassIsEarned
  <2>1. /\ 1 \in usedNonce /\ lockedExposure[Deployer] = 0
        /\ reserveBalance[Deployer] = IF config.reclaim THEN 0 ELSE config.deposit - config.approve
    BY DEF PassInv, HeldStays, Asserted
  <2>2. /\ usedNonce = {1} /\ "resolve" \in sent
        /\ claimId \in ClaimIds /\ claim[claimId].coverageId = coverageId
        /\ claim[claimId].status = "Approved" /\ claim[claimId].paidAmount = config.approve
    BY <2>1 DEF PassInv, NonceTells
  <2>3. coverage[coverageId].merchant = Deployer
    <3>1. config.approve > 0 /\ config.approve <= config.maxPayout
      BY <2>2 DEF PassInv, Relayed, AmountsFit
    <3>2. lockedExposure[Deployer] # config.maxPayout
      BY <2>1, <3>1, Counted DEF Config
    <3> QED BY <3>2 DEF PassInv, LockTells, Locked, Opened, Evaluated, Asserted
  <2>4. claimId \in OwnClaims
    BY <2>2, <2>3, Counted DEF OwnClaims, ClaimIds, PassInv, RunShape
  <2>5. Balance(Claimant) = Earned
    <3>1. /\ config.approve \in Nat /\ config.funding \in Nat /\ config.claimantSpent \in Nat
          /\ Endowment[Claimant] \in Nat /\ Fee \in Nat
      BY Counted, RehearsalAssumption, AccountsAssumption DEF Config
    <3>2. pc # "open" /\ pc \in Opened /\ mined \subseteq sent
      BY DEF PassInv, RunShape, Opened, Evaluated, Asserted
    <3>3. mined \cap {"open", "sponsored"} # {}
      BY <3>2 DEF PassInv, RunShape
    <3>4. OpenGas = IF "open" \in mined THEN Fee ELSE 0
      BY <3>2, <3>3 DEF OpenGas, OpenInv
    <3> QED BY <2>1, <3>1, <3>4 DEF PassInv, BuyerMoney, Balance, Earned
  <2> QED BY <2>1, <2>2, <2>4, <2>5 DEF PassIsEarned
<1>3. RunInit => OpenInv
  BY DEF RunInit, OpenInv
<1> QED BY <1>1, <1>2, <1>3, PassStart, OpenStep, PTL DEF RunSpec
================================================================================

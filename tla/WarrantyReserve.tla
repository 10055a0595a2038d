--------------------------- MODULE WarrantyReserve --------------------------
(***************************************************************************)
(* contracts/WarrantyReserve.sol: merchant reserves, buyer-bound coverage, *)
(* one claim per coverage, settlement by evaluator-signed decisions.       *)
(*                                                                         *)
(* A transaction is not one step.  withdrawReserve and an approving        *)
(* resolveClaim hand control to the receiver of the value in the middle of *)
(* the function; a receiver that is a contract may call back into this     *)
(* contract (or have another contract do so) before it accepts or refuses  *)
(* the transfer.  `stack' holds the transfers in progress, innermost last, *)
(* each with the storage to which the EVM returns if the receiver refuses: *)
(* a failed call makes the function revert (lines 232 and 313), so the     *)
(* restored state is the one before the function was called.  A call that  *)
(* reverts for another reason leaves no trace and is no step.              *)
(***************************************************************************)
EXTENDS Integers, Sequences, FiniteSets, Totals

CONSTANTS
  Accounts,             \* addresses that send transactions or receive value
  Contracts,            \* those of them that run code when they receive value
  ZeroAddress,
  Hashes,               \* ordinary commitments
  ZeroHash,             \* bytes32(0)
  EmptyCommitmentHash,  \* keccak256("resvyn-empty")
  Signers, EvaluatorSigner,  \* who may have signed; the immutable evaluatorSigner
  Chains, ThisChain,         \* chain ids; block.chainid
  Verifiers, ThisVerifier,   \* contract addresses; address(this)
  Decisions,            \* the decisions somebody may relay
  Amounts,              \* the amounts callers pass
  Endowment,            \* each account's native balance at deployment
  MaxCoverage,          \* bound: coverages issued
  MaxTime,              \* bound: block.timestamp
  MaxDepth              \* bound: nested value transfers

Address == Accounts \cup {ZeroAddress}
Bytes32 == Hashes \cup {ZeroHash, EmptyCommitmentHash}

\* Every claim belongs to a coverage of its own, so ids of both share a bound.
CoverageIds == 1..MaxCoverage
ClaimIds == 1..MaxCoverage

CoverageStatus == {"None", "Active", "Expired"}
ClaimStatus == {"None", "Open", "Approved", "Rejected"}
\* A uint8 outside the enum makes the conversion on line 301 panic: "Unknown".
DecisionResult == {"None", "Approve", "Reject", "Unknown"}

\* The signed payload; `signer' is what ECDSA.recover returns for it.  The
\* modelVersion, which is only logged, is left out.
ClaimDecision ==
  [signer: Signers, chainId: Chains, verifier: Verifiers,
   claimId: Nat, coverageId: Nat, claimant: Address, evidenceHash: Bytes32,
   amount: Nat, result: DecisionResult, expiry: Nat, nonce: Nat]

Nonces == {d.nonce : d \in Decisions}

ASSUME AccountsAssumption ==
  /\ IsFiniteSet(Accounts)
  /\ Contracts \subseteq Accounts
  /\ ZeroAddress \notin Accounts
  /\ Endowment \in [Accounts -> Nat]

ASSUME HashAssumption ==
  /\ ZeroHash # EmptyCommitmentHash
  /\ Hashes \cap {ZeroHash, EmptyCommitmentHash} = {}

ASSUME BoundsAssumption ==
  /\ Amounts \subseteq Nat
  /\ MaxCoverage \in Nat
  /\ MaxTime \in Nat
  /\ MaxDepth \in Nat

\* The constructor refuses a zero signer (line 159).
ASSUME DecisionsAssumption ==
  /\ EvaluatorSigner # ZeroAddress
  /\ \A d \in Decisions : d \in ClaimDecision

VARIABLES
  reserveBalance,   \* mapping(address => uint256) _reserveBalance
  lockedExposure,   \* mapping(address => uint256) _lockedExposure
  coverage,         \* mapping(uint256 => Coverage) _coverage
  coverageCount,
  claim,            \* mapping(uint256 => Claim) _claim
  claimCount,
  claimOfCoverage,  \* coverage id to claim id, 0 when there is none
  usedNonce,        \* the nonces n with _usedNonce[n]
  native,           \* native balance of the contract
  wallet,           \* native balances of the accounts
  now,              \* block.timestamp
  stack             \* value transfers in progress, innermost last

reserveVars == <<reserveBalance, lockedExposure>>
coverageVars == <<coverage, coverageCount>>
claimVars == <<claim, claimCount, claimOfCoverage>>
fundVars == <<native, wallet>>
vars == <<reserveVars, coverageVars, claimVars, usedNonce, fundVars, now, stack>>

\* What a revert restores.
Storage ==
  [reserveBalance |-> reserveBalance, lockedExposure |-> lockedExposure,
   coverage |-> coverage, coverageCount |-> coverageCount,
   claim |-> claim, claimCount |-> claimCount,
   claimOfCoverage |-> claimOfCoverage, usedNonce |-> usedNonce,
   native |-> native, wallet |-> wallet]

NoCoverage ==
  [merchant |-> ZeroAddress, claimant |-> ZeroAddress, productHash |-> ZeroHash,
   receiptHash |-> ZeroHash, maxPayout |-> 0, expiry |-> 0, status |-> "None"]

NoClaim ==
  [coverageId |-> 0, claimant |-> ZeroAddress, evidenceHash |-> ZeroHash,
   paidAmount |-> 0, status |-> "None", openedAt |-> 0]

-----------------------------------------------------------------------------
(***************************************************************************)
(* The type invariant.                                                     *)
(***************************************************************************)

CoverageType ==
  [merchant: Address, claimant: Address, productHash: Bytes32,
   receiptHash: Bytes32, maxPayout: Nat, expiry: Nat, status: CoverageStatus]

ClaimType ==
  [coverageId: Nat, claimant: Address, evidenceHash: Bytes32,
   paidAmount: Nat, status: ClaimStatus, openedAt: Nat]

StorageType ==
  [reserveBalance: [Accounts -> Nat], lockedExposure: [Accounts -> Nat],
   coverage: [CoverageIds -> CoverageType], coverageCount: 0..MaxCoverage,
   claim: [ClaimIds -> ClaimType], claimCount: 0..MaxCoverage,
   claimOfCoverage: [CoverageIds -> 0..MaxCoverage], usedNonce: SUBSET Nonces,
   native: Nat, wallet: [Accounts -> Nat]]

Frame ==
  [kind: {"withdraw", "payout"}, receiver: Address, saved: StorageType]

-----------------------------------------------------------------------------
(***************************************************************************)
(* Calls and value transfers.                                              *)
(***************************************************************************)

Init ==
  /\ reserveBalance = [a \in Accounts |-> 0]
  /\ lockedExposure = [a \in Accounts |-> 0]
  /\ coverage = [c \in CoverageIds |-> NoCoverage]
  /\ coverageCount = 0
  /\ claim = [k \in ClaimIds |-> NoClaim]
  /\ claimCount = 0
  /\ claimOfCoverage = [c \in CoverageIds |-> 0]
  /\ usedNonce = {}
  /\ native = 0
  /\ wallet = Endowment
  /\ now = 0
  /\ stack = <<>>

InCall == stack # <<>>
Top == stack[Len(stack)]

\* Who can be msg.sender: any account between transactions; while a contract
\* is receiving value, that contract or another one it calls.
MayCall(a) == InCall => a \in Contracts /\ Top.receiver \in Contracts

\* ReentrancyGuard: resolveClaim is being executed.
Entered == \E i \in DOMAIN stack : stack[i].kind = "payout"

\* .call{value: v}(""): the value moves and the receiver gets control.
SendValue(kind, receiver, v) ==
  /\ Len(stack) < MaxDepth
  /\ v <= native
  /\ native' = native - v
  /\ wallet' = [wallet EXCEPT ![receiver] = @ + v]
  /\ stack' = Append(stack, [kind |-> kind, receiver |-> receiver,
                             saved |-> Storage])

Pop == stack' = SubSeq(stack, 1, Len(stack) - 1)

\* The receiver returns: ok = true, the suspended function completes.
Accept ==
  /\ InCall
  /\ Pop
  /\ UNCHANGED <<reserveVars, coverageVars, claimVars, usedNonce, fundVars, now>>

\* The receiver reverts: ok = false, and the suspended function reverts too,
\* undoing its own writes and everything called from the receiver.
Refuse ==
  /\ InCall
  /\ Top.receiver \in Contracts
  /\ Pop
  /\ reserveBalance' = Top.saved.reserveBalance
  /\ lockedExposure' = Top.saved.lockedExposure
  /\ coverage' = Top.saved.coverage
  /\ coverageCount' = Top.saved.coverageCount
  /\ claim' = Top.saved.claim
  /\ claimCount' = Top.saved.claimCount
  /\ claimOfCoverage' = Top.saved.claimOfCoverage
  /\ usedNonce' = Top.saved.usedNonce
  /\ native' = Top.saved.native
  /\ wallet' = Top.saved.wallet
  /\ UNCHANGED now

\* A later block: the timestamp cannot change inside a transaction.
NextBlock ==
  /\ ~InCall
  /\ now < MaxTime
  /\ now' = now + 1
  /\ UNCHANGED <<reserveVars, coverageVars, claimVars, usedNonce, fundVars, stack>>

-----------------------------------------------------------------------------
(***************************************************************************)
(* The external functions.                                                 *)
(***************************************************************************)

\* The money of m that backs no live coverage is at least v (lines 188-189 and
\* 225-226; the subtraction reverts when it would underflow).
AvailableIgnoringLocks(m, v) == v <= reserveBalance[m]                 \* mutant
AvailableUnchecked(m, v) == lockedExposure[m] <= reserveBalance[m]     \* mutant
Available(m, v) ==
  /\ lockedExposure[m] <= reserveBalance[m]
  /\ v <= reserveBalance[m] - lockedExposure[m]

DebitNothing(m, v) == UNCHANGED reserveBalance                         \* mutant
Debit(m, v) == reserveBalance' = [reserveBalance EXCEPT ![m] = @ - v]

UnclaimedOrPending(c) ==                                               \* mutant
  claimOfCoverage[c] # 0 => claim[claimOfCoverage[c]].status = "Open"
Unclaimed(c) == claimOfCoverage[c] = 0

depositReserve(m, value) ==
  /\ MayCall(m)
  /\ value # 0
  /\ value <= wallet[m]
  /\ reserveBalance' = [reserveBalance EXCEPT ![m] = @ + value]
  /\ native' = native + value
  /\ wallet' = [wallet EXCEPT ![m] = @ - value]
  /\ UNCHANGED <<lockedExposure, coverageVars, claimVars, usedNonce, now, stack>>

issueCoverage(m, claimant, product, receipt, maxPayout, expiry) ==
  /\ MayCall(m)
  /\ coverageCount < MaxCoverage
  /\ claimant # ZeroAddress
  /\ product \notin {ZeroHash, EmptyCommitmentHash}
  /\ receipt \notin {ZeroHash, EmptyCommitmentHash}
  /\ maxPayout # 0
  /\ expiry > now
  /\ Available(m, maxPayout)
  /\ coverageCount' = coverageCount + 1
  /\ coverage' = [coverage EXCEPT ![coverageCount + 1] =
                    [merchant |-> m, claimant |-> claimant,
                     productHash |-> product, receiptHash |-> receipt,
                     maxPayout |-> maxPayout, expiry |-> expiry,
                     status |-> "Active"]]
  /\ lockedExposure' = [lockedExposure EXCEPT ![m] = @ + maxPayout]
  /\ UNCHANGED <<reserveBalance, claimVars, usedNonce, fundVars, now, stack>>

\* `_lockedExposure[cov.merchant] -= cov.maxPayout', which reverts on underflow.
ReleaseLock(c) ==
  LET m == coverage[c].merchant IN
  /\ coverage[c].maxPayout <= lockedExposure[m]
  /\ lockedExposure' = [lockedExposure EXCEPT ![m] = @ - coverage[c].maxPayout]

\* Anybody may call it.
expireCoverage(c) ==
  /\ \E a \in Accounts : MayCall(a)
  /\ coverage[c].status = "Active"
  /\ now >= coverage[c].expiry
  /\ Unclaimed(c)
  /\ coverage' = [coverage EXCEPT ![c].status = "Expired"]
  /\ ReleaseLock(c)
  /\ UNCHANGED <<reserveBalance, coverageCount, claimVars, usedNonce, fundVars, now,
                 stack>>

withdrawReserve(m, amount) ==
  /\ MayCall(m)
  /\ amount # 0
  /\ Available(m, amount)
  /\ Debit(m, amount)
  /\ SendValue("withdraw", m, amount)
  /\ UNCHANGED <<lockedExposure, coverageVars, claimVars, usedNonce, now>>

openClaim(sender, c, evidenceHash) ==
  /\ MayCall(sender)
  /\ coverage[c].status = "Active"
  /\ now < coverage[c].expiry
  /\ sender = coverage[c].claimant
  /\ evidenceHash # ZeroHash
  /\ Unclaimed(c)
  /\ claimCount < MaxCoverage
  /\ claimCount' = claimCount + 1
  /\ claim' = [claim EXCEPT ![claimCount + 1] =
                 [coverageId |-> c, claimant |-> coverage[c].claimant,
                  evidenceHash |-> evidenceHash, paidAmount |-> 0,
                  status |-> "Open", openedAt |-> now]]
  /\ claimOfCoverage' = [claimOfCoverage EXCEPT ![c] = claimCount + 1]
  /\ UNCHANGED <<reserveVars, coverageVars, usedNonce, fundVars, now, stack>>

AuthorizedAnyNonce(d) ==                                               \* mutant
  /\ d.signer = EvaluatorSigner
  /\ d.chainId = ThisChain
  /\ d.verifier = ThisVerifier
  /\ d.expiry >= now

\* Lines 269-301: what resolveClaim requires of a decision and of the claim.
Authorized(d) ==
  /\ d.signer = EvaluatorSigner
  /\ d.chainId = ThisChain
  /\ d.verifier = ThisVerifier
  /\ d.expiry >= now
  /\ d.nonce \notin usedNonce

BoundToAnyClaim(d) ==                                                  \* mutant
  /\ d.claimId \in ClaimIds
  /\ LET k == claim[d.claimId] IN
       /\ k.status # "None"
       /\ k.coverageId = d.coverageId
       /\ k.claimant = d.claimant
       /\ k.evidenceHash = d.evidenceHash

BoundToOpenClaim(d) ==
  /\ d.claimId \in ClaimIds
  /\ LET k == claim[d.claimId] IN
       /\ k.status = "Open"
       /\ k.coverageId = d.coverageId
       /\ k.claimant = d.claimant
       /\ k.evidenceHash = d.evidenceHash

PayMerchant(d) == coverage[d.coverageId].merchant                      \* mutant
Payee(d) == claim[d.claimId].claimant

\* Lines 303-323: effects first, then the payout to the claimant.
approveClaim(d) ==
  LET m == coverage[d.coverageId].merchant IN
  /\ d.result = "Approve"
  /\ d.amount # 0
  /\ d.amount <= coverage[d.coverageId].maxPayout
  /\ usedNonce' = usedNonce \cup {d.nonce}
  /\ claim' = [claim EXCEPT ![d.claimId].status = "Approved",
                            ![d.claimId].paidAmount = d.amount]
  /\ d.amount <= reserveBalance[m]
  /\ Debit(m, d.amount)
  /\ ReleaseLock(d.coverageId)
  /\ SendValue("payout", Payee(d), d.amount)
  /\ UNCHANGED <<coverageVars, claimCount, claimOfCoverage, now>>

rejectKeepingLock(d) ==                                                \* mutant
  /\ d.result = "Reject"
  /\ d.amount = 0
  /\ usedNonce' = usedNonce \cup {d.nonce}
  /\ claim' = [claim EXCEPT ![d.claimId].status = "Rejected"]
  /\ UNCHANGED <<reserveVars, coverageVars, claimCount, claimOfCoverage, fundVars,
                 now, stack>>

\* Lines 324-338.
rejectClaim(d) ==
  /\ d.result = "Reject"
  /\ d.amount = 0
  /\ usedNonce' = usedNonce \cup {d.nonce}
  /\ claim' = [claim EXCEPT ![d.claimId].status = "Rejected"]
  /\ ReleaseLock(d.coverageId)
  /\ UNCHANGED <<reserveBalance, coverageVars, claimCount, claimOfCoverage, fundVars,
                 now, stack>>

\* Anybody may relay the decision.
resolveClaim(d) ==
  /\ \E a \in Accounts : MayCall(a)
  /\ ~Entered
  /\ Authorized(d)
  /\ BoundToOpenClaim(d)
  /\ approveClaim(d) \/ rejectClaim(d)

Next ==
  \/ \E m \in Accounts, v \in Amounts : depositReserve(m, v)
  \/ \E m \in Accounts, claimant \in Address, product, receipt \in Bytes32,
        p \in Amounts, expiry \in 0..MaxTime :
       issueCoverage(m, claimant, product, receipt, p, expiry)
  \/ \E c \in CoverageIds : expireCoverage(c)
  \/ \E m \in Accounts, v \in Amounts : withdrawReserve(m, v)
  \/ \E a \in Accounts, c \in CoverageIds, h \in Bytes32 : openClaim(a, c, h)
  \/ \E d \in Decisions : resolveClaim(d)
  \/ Accept
  \/ Refuse
  \/ NextBlock

Spec == Init /\ [][Next]_vars

TypeOK ==
  /\ reserveBalance \in [Accounts -> Nat]
  /\ lockedExposure \in [Accounts -> Nat]
  /\ coverage \in [CoverageIds -> CoverageType]
  /\ coverageCount \in 0..MaxCoverage
  /\ claim \in [ClaimIds -> ClaimType]
  /\ claimCount \in 0..MaxCoverage
  /\ claimOfCoverage \in [CoverageIds -> 0..MaxCoverage]
  /\ usedNonce \in SUBSET Nonces
  /\ native \in Nat
  /\ wallet \in [Accounts -> Nat]
  /\ now \in 0..MaxTime
  /\ stack \in Seq(Frame)
=============================================================================

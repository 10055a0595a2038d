# Resvyn in TLA+

Resvyn lets a merchant back product warranties with a native-coin reserve in a
smart contract. A buyer with coverage opens a claim that commits to a hash of
the evidence; a server stores the evidence, evaluates it by a fixed policy
(optionally through a model provider) and signs a bounded decision; anyone
relays the decision to the contract, which pays or rejects, once.

This directory models that system, model-checks it with TLC and proves its
safety properties with TLAPS. Paths below are relative to the repository.

## 1. Inventory

| Component | State | Operations | Interacts with |
|---|---|---|---|
| **Contract**, `contracts/WarrantyReserve.sol` | reserves, locks, coverages, claims, used nonces, native balance | `depositReserve`, `issueCoverage`, `expireCoverage`, `withdrawReserve`, `openClaim`, `resolveClaim` | accounts and contracts it sends value to, which may call back; signed decisions |
| **Evidence store**, `web/lib/evidenceStore.ts`, `evidenceFs.ts` | a JSON file; in memory a map by hash, an index by claim, two flags, a promise chain of writes | `initEvidenceStore`, `putEvidence`, `getEvidence`, `getEvidenceByClaim`, `getSeenEvidenceHashes` | the file system; both routes |
| **Evaluator**, `web/lib/evaluator.server.ts`, `groqBrain.ts`, copied in `scripts/evaluator` | none | `evaluate`, `groqBrain`, `evaluateAndSign` | the model provider; `/api/evaluate` |
| **Routes**, `web/app/api/evidence`, `web/app/api/evaluate`, `web/lib/evaluateAuth.ts` | requests suspended at awaits | intake, evaluation, status read | the chain (read), the store, the limiter, the evaluator |
| **Rate limiter**, `web/lib/rateLimit.ts` | a map of fixed-window buckets | client check, claim budget, global budget, sweep | both routes |
| **Claim console**, `web/components/AppConsole.tsx` | form, snapshot of evidence and its copy in local storage, attested flag, signed decision, transaction status | deposit, issue, open, attest, evaluate, resolve, withdraw; effects that reset and rehydrate | wallet, routes, chain |
| **Workspace and deployment gate**, the rest of `AppConsole.tsx`, `web/lib/chain.ts`, `wagmi.ts` | the manifest built into the page; account and network; the reserve, signer and errors last read; the running action | connect, switch, deposit, issue, withdraw, probe; refreshes after a change of account and after an action | wallet, chain |
| **Proof engines and verifier pages**, `web/lib/currentProofEngine.ts`, `proofEngine.ts`, `CurrentProofVerifier.tsx`, `ProofVerifier.tsx` | a verdict per card and transaction, the connection state, the run in progress | a scheduled first run, further runs by the button; reads in parallel | chain |
| **Rehearsal and paymaster**, `scripts/rehearse.ts`, `scripts/paymaster.ts` | progress of an end-to-end run, with an order of its transactions | fund, deploy, deposit, issue, open (sponsored or self-paid), evaluate, resolve, negative checks, reclaim | contract, paymaster, everybody else on the chain |
| Deployment scripts, pages, mocks, tests | - | - | - |

What is hard, and what makes each component correct:

* **Contract.** Two functions send value in the middle of a transaction, and
  only `resolveClaim` has a reentrancy guard; receivers call back, nest, and
  refuse, which undoes a suffix of the history. Correct means: locks are exactly
  what live coverages may cost, reserves cover locks, the balance covers
  reserves, one final settlement per claim, no valid settlement fails for lack
  of funds.
* **Evidence store.** Reads and writes interleave at awaits, the process dies
  between any two of them, disks fail, files are damaged. Correct means:
  acknowledged records survive and stay the only one for their hash, refused
  ones are nowhere, reads see what was acknowledged, no write waits for ever.
* **Evaluator.** Boundaries (windows, caps, zero) and a provider that says
  anything. Correct means: nothing is signed that was not earned, and the
  provider only weakens.
* **Routes.** They decide on a snapshot of a chain that moves on. Correct means:
  what is signed is still right, or harmless, when it is relayed.
* **Rate limiter.** Window ends, a full map, several budgets per request.
* **Console.** Answers that arrive after the user has moved on, reloads between
  two steps of a claim, effects and timers. Correct means: what is unlocked,
  shown and saved belongs to the claim it is shown and saved for, and the content
  of an opened claim is not lost.
* **Workspace.** Manifest, pinned signer, live signer, account and network arrive
  one by one, and refreshes of different accounts overlap. Correct means: money is
  locked only where it can be settled, what the notice says is what the buttons
  do, and the page comes to show the connected account.
* **Verifier pages.** Any subset of the reads fails, answers arrive late, the
  contract goes on being used, runs follow each other. Correct means: green
  stands for agreement since this run began, the connection claims no more than
  was read, a run ends.
* **Rehearsal, paymaster.** Lost answers, transactions that are mined late or
  revert unnoticed, a fallback, a stranger on the same contract. Correct means:
  PASS is earned, the claim is sent for again only where the code means to, a run
  that cannot succeed spends nothing, every run ends.

## 2. Modules

| Module | What it is |
|---|---|
| `WarrantyReserve` | the contract, with value transfers as call frames |
| `WarrantyReserveSafety` | its safety properties |
| `WarrantyEscrow` | what it promises: one escrow per coverage |
| `WarrantyReserveRefinement` | the mapping from the first to the last |
| `Totals` | sums of finite functions, written without recursion |
| `EvidenceStore` | the store between its awaits, with file and crashes |
| `EvidenceRegister` | what it promises: one write per hash |
| `EvidenceStoreRefinement` | the mapping from the first to the last |
| `Evaluator` | schema, policy, provider and signing as operators |
| `EvaluatorCases` | one evaluation of any input, for TLC |
| `Settlement` | chain, both routes and relayers; extends `Evaluator` |
| `RateLimit` | the three budgets |
| `Console` | the claims of one browser tab over wallet, chain and server |
| `Workspace` | the rest of that page: gate, wallet, reserve, refreshes |
| `ProofPage` | both verifier pages with their engines |
| `Rehearsal` | one run of the script; extends `WarrantyReserve` |
| `WarrantyReserveProofs`, `EvidenceStoreProofs`, `SettlementProofs`, `RateLimitProofs`, `ConsoleProofs`, `WorkspaceProofs`, `ProofPageProofs`, `RehearsalProofs` | theorems |
| `MC...` | constants of the instances that TLC checks |

A definition whose comment says `mutant` is a plausible slip in the code of the
definition that follows it. No specification uses it; it is there to show which
property notices that slip.

### WarrantyReserve

One variable per storage variable of the contract, the native balance, the
accounts' balances and `block.timestamp`. One action per external function,
whose guards are the reverts. A call that reverts without having sent value
leaves nothing behind and is no step. `withdrawReserve` and an approving
`resolveClaim` do their effects, move the value and push a frame on `stack`:
the receiver now has control. If it is a contract, it, or another contract it
calls, may call any function before it ends with `Accept` (the suspended
function returns) or `Refuse` (the frame's saved storage is restored, as
`TransferFailed` does). `resolveClaim` is barred while a payout is on the stack:
that is `nonReentrant`; `withdrawReserve` has no such guard. ECDSA is a field
`signer` of the decision, hashes are model values with the two special
commitments apart; a `result` outside the enum, which makes the conversion
panic, is `"Unknown"`. Not modelled: gas, coins forced in by `selfdestruct`
(these would make the balance exceed the reserves, never fall short of them).

`Committed` is the storage the chain would keep if the current transaction
failed altogether: properties of history are stated about it, since what happens
inside a transfer may still be undone.

### EvidenceStore

A step is what JavaScript runs between two awaits: load started, load finished,
the running write's check, the write-and-rename, the commit, a read's start and
end. `queue` is the promise chain. `Restart` may come anywhere, loses memory and
leaves the file; `Damage` replaces the file by an unparsable one. Reads come at
any time, and may be the ones that begin the load: only the call that found
`loaded` unset (`loader`) waits for the load, the others go on at once with what
memory holds. A write that does so copies an empty memory over the file, and the
history variable `raced` remembers it. What is lost with it (section 5) is
promised for behaviours without such a write; that this is the only way to lose
it is the content of these properties. `RefusalStoresNothing`, `WithinCapacity`
and `PutsAnswered` hold in any case.

### Settlement

The contract and the store are reduced to what the other modules check of them.
A request goes from one await to the next: read the chain (`IntakeRead`,
`EvaluateRead`), verify the signature, then store (`IntakeStore`) or load the
record (`LoadRecord`), collect the hashes of other claims and pay the budgets
(`LoadSeen`), and evaluate and sign (`Decide`). Coverage is immutable on the
chain, so only the claim's status and the nonce can be stale. `Fail` is any way
to end with an error. Decisions go to `issued`, from where they are relayed in
any order, any number of times. There are two clocks, at most `Skew` apart: `now`,
the server's, for evidence dates, staleness and the dating of decisions, and
`blockTime`, the chain's, for expiry and settlement. The provider may say anything
in `Answers`. Signature ages are left to `Fail`: they refuse
requests and let none through. A record is taken to stay where it was stored,
which `EvidenceStore` shows unless a write overtakes another call's load.

### Evaluator and RateLimit

`Evaluator` has no variables. A wei string is a number and whether it is zero in
another spelling than `"0"`, because the schema compares strings. `RateLimit`
keeps the map of buckets; a route's claim and global budgets are consumed
without an await in between and are one action. Which of several equally old
buckets a sweep drops is left open. `Date.now()` is taken to be monotonic. The
waiting time is the limiter's `retryAfterMs`; the routes tell it in seconds,
rounded up (`evaluate/route.ts:111,318,331`), which is not modelled.

### Console

The state of the hooks that one claim's way from opening to settlement uses, with
`localStorage`, and the chain and the server reduced to what they grant. A
handler is a call that goes `asking` (the wallet's prompt), `sent`, `granted`;
`Finish...` is what runs after the last await and `Fails` its failure branch or
catch, after which, as after `Reload`, what was sent may still take effect
(`abandoned`). Calls keep the ids and the content they were started with, as the
closures do; flags and fields are written when they end, as the setters do. A
change of the fields that name the claim starts the timer of the reset effect,
cancels the status request of the effect before and sends a new one (`Show`).
Timer and network are not ordered. `pending` is kept as in the code, where a
rehydration may clear the status of a running call. The user types and clicks
while calls run, since nothing in the page disables the fields. A call whose
fields have changed since it was started has `strayed`; its answer is still
taken, and what it leaves behind is marked in the history variables `misled` (the
flags) and `miskept` (the saved contents), until something else replaces it.
`FinishAttest` is reached by a record of the very content: that a `409` may be
about another claim's record (section 5) needs one content in two claims, and in
the model each is built for one. Left out: a second tab, and what
`Workspace` models.

### Workspace

`manifest` and `signer` are fixed at the start: what was built into the page and
what the contract at its address answers. A handler keeps the account it was
started for; its transaction moves `books`, the reserves on the chain, when the
wallet grants it. `Refresh` is the page's own: the deferred one of the effect
(`timer`), which a change of account cancels, and those after an action, which
nothing cancels; `refreshes` holds the accounts whose answer is awaited, and
`reserve` whose reserve is on the page. `isOperationalDeployment`, `canWrite` and
`gate` are the code's three separately written conditions.

### ProofPage

One module for two pages that differ in `archived`: which cards they have, what
they expect of each, and how they conclude. A run is a stage and the set of reads
it still waits for. The node answers a read at one moment (`Answer`, with the
ledger of then) and the page hears of it at a later one; any read may fail, and
the ledger moves in between as a contract's may. A card's comparison is its
`Expected`, on the part of the chain that it looks at. `agreed` is a history:
what has agreed with the record at some moment since the last run began.
`NodeErrors` lets the node answer the simulated over-cap issue with an error that
is no revert; it is off in the run (section 5).

### Rehearsal

The script's `main` as a program counter over the whole contract module: its
transactions are the contract's actions, its reads the contract's state. A
transaction is `sent`, and `mined` later, never, or reverted; the waits time out.
A stranger may use the contract before and between, and relay the decision once
it was broadcast. The paymaster may take the claim and answer with neither a hash nor
an error; the script then sends it again, self-paid. `hashless` says which nonce
the node gives that one: the same, and then one replaces the other, or the next,
and then both may be mined. The environment (`Configs`) is chosen at the start; fees
are kept apart from the contract's wallet. The evaluator's answer is
what `Evaluator` allows for these fixed contents: an approval of
the configured amount.

## 3. Runs

| Run | Question | Instance |
|---|---|---|
| `reserve` | accounting, finality, refinement under reentrancy | 2 contract accounts, 2 coverages, amounts 0..2, 2 nested transfers, 2 times, 2 nonces, every combination of ids, hashes, amounts and verdicts, and decisions of a wrong signer, chain, verifier, claimant or result |
| `evidence_store` | durability, first write wins, reads, answers, refinement | 4 claims on 3 hashes (two on one), 4 writes, room for 2 records, 2 reads at any time, a crash |
| `evidence_store_cold_lost` | does every acknowledged record survive, whatever overtakes a load? | as above |
| `evaluator_cases` | is what is signed earned? | all evidence over two hashes, small times and amounts, all answers |
| `settlement` | are signed decisions right when they are relayed? | 2 coverages, 2 contents, 2 requests, the server's clock 0..2 and the chain's at most 1 apart, 3 answers, 2 decisions |
| `settlement_race` | can two valid decisions of a claim disagree? | as above |
| `rate_limit` | bounds, bursts, retry times | 4 keys, 3 buckets, 5 times, windows of 2 |
| `console` | flags, decision, saved contents, transactions, statuses and requests while the user types | 2 coverages with 1 call at a time, or 1 coverage with 2; 2 contents, any number of reloads and edits |
| `rehearsal` | is PASS earned, what is spent, what is sent twice, does it end? | 60 environments: every combination of amounts, buyer, paymaster and reclaim, and one for each other way to fail; answers without a hash, and each nonce after them; a coverage of the stranger beside the script's |
| `proof_page` | what do badges and connection stand for? | each page with two cards at a time, one transaction, 4 deployments, 4 ledgers, 2 runs |
| `workspace` | where may money be locked, what does the notice say, is the account read? | 5 manifests, 2 signers, 2 accounts, reserves 0..1 |
| `workspace_shown` | is what is shown that of the connected account? | as above |

Why the bounds are enough to see what matters. Two coverages of one merchant
share its pooled counters, so an error of one shows at the other; a second
account that is paid and then deposits makes money go round. Two nested
transfers allow a withdrawal inside a payout, a payout inside a withdrawal, and
a refusal of either, with the other kept. Nonces are fewer than settlements
could use, so reuse is tried. Two decisions in `settlement` are enough for any
contradiction, and two requests for any interleaving of two steps; both clocks
pass each window's end (windows of 1), and either may be ahead. In
`evidence_store` two reads let one come while the other, or a write, loads the
file, and two claims on one hash contend for it. In `rate_limit` all four keys exceed the map, so
sweeps drop live buckets, and three windows meet each other. `JobSymmetry`, `ClaimSymmetry` and `CoverageSymmetry` are sound:
the requests of `settlement`, the two claims of `rate_limit` and the coverages of
`console` are interchangeable, and no liveness is checked with them.

In `console` two coverages give a foreign claim to confuse one's own with while a
call for it runs; two calls in flight are an abandoned one beside a current one,
or two current ones after a rehydration cleared a status, for which
one claim against empty fields is as good as two. In `proof_page` a card is compared
by itself and a run adds up its cards, so two cards show every pair of verdicts
read at different moments, and the second run shows what the first leaves behind.
In `rehearsal` every check of the script is failed by some environment, and one
coverage of the stranger is enough to shift each id. In `workspace` two accounts
give every order of two overlapping refreshes, and a reserve of 1 is there or
not. `TypeOK` is among the invariants of `reserve` only; for `EvidenceStore`,
`Console`, `ProofPage` and `Workspace` it is proved instead (section 6).

Deadlock is checked of the console and of the workspace: elsewhere clocks,
identifiers, calls, runs and restarts are bounded in the guards, or the script
ends, and the system may stop.

**Fairness.** Always that of the event loop, which runs what is ready, and never
of a user, a relayer or a receiver, who may stop at any point.

* `PutsAnswered` (store): weak fairness of every step that resumes a suspended
  call. File-system calls return, in success or failure.
* `RunEnds` (verifier pages): weak fairness of the page's progress as a whole:
  while a run waits for reads, some read is answered or fails. The engines abort no
  request themselves: this rests on the time-out with which the browser or the
  network ends a `fetch`.
* `SwitchIsRead` (workspace): weak fairness of the timer and, for each account,
  of the answer or failure of its read.
* `RunEnds` (rehearsal): weak fairness of the script's steps. Nothing is assumed of
  the chain: the script's waits have timeouts, and a timeout is one of its steps.
  A wait begins anew only after an answer without a hash, and then once.

The routes, the console's claims and the contract have none: no code schedules a
settlement.

## 4. Properties

*Contract.* `LocksMatchLiveCoverage`, `ReserveCoversLocks`, `Solvent`,
`OneClaimPerCoverage`, `NoncePerSettlement`, `OpenClaimsPayable`,
`SettlementIsFinal`, and `ImplementsEscrow`: with the pooled counters read as
`free = balance - locked` and an escrow per live coverage, every step of the
contract is a step of `WarrantyEscrow`. That excludes, for instance, paying one
coverage from another's escrow or paying anybody but the claimant.

*Store.* `AckedIsDurable`, `FirstWriteWins`, `ConflictMeansStored`,
`RefusalStoresNothing`, `ReadsSeeAcked`, `PutsAnswered`, and `ImplementsRegister`:
with a loaded memory read as the register, and the file before the load, every
step of the store is a step of `EvidenceRegister`. A write takes effect at one
moment, with its answer still to come; a refused one never does; only
damage from outside loses the register, and a lost one acknowledges nothing.
All but `RefusalStoresNothing` and `PutsAnswered` promise nothing more once a
write has overtaken another call's load (`raced`; the register's `void`), and
`ReadsSeeAcked` speaks of reads that are answered while nobody loads the file.

*Evaluator.* `ApprovalIsEarned`, `ProviderOnlyWeakens`, against a definition of
eligibility without the order of the checks.

*Settlement.* `DecisionsAttested`, `PaidIsOwed` (end to end, from evidence to
money), `SignedSettles`.

*Limiter.* `BucketsBounded`, `BurstBounded` (fewer than twice the budget in any
interval of a window's length, for keys that no sweep dropped), `RetryIsExact` (of
`retryAfterMs`, not of the header rounded up from it).

*Console.* Evaluation is unlocked and a decision offered only for the claim in the
fields (`UnlockedForShown`, `DecisionForShown`), and the content that is saved is
the one the claim commits to (`SavedIsCommitted`): each unless the fields changed
while the call was in flight that set the flag, or saved the content. Without
exception: one transaction at a time (`OneTransactionAtATime`), no button locked
for good (`PendingHasCall`), no flag from a cancelled request
(`RehydratedForShown`).

*Workspace.* `LockedIsSettleable`: a written reserve implies a declared,
unarchived deployment whose live signer is the pinned one. `WritableIsUngated`:
the notice and the buttons, computed apart, agree. `SwitchIsRead`.

*Verifier pages.* `GreenAgreed` (green at the end stands for agreement at a moment
of this run), `ConnTells`, `RunEnds`.

*Rehearsal.* `PassIsEarned` relates PASS to the chain, whoever else acted on it; the
buyer has paid one fee at most for its claim, and none if a sponsor gave its hash.
`TwiceOnlyHashless`: the claim is sent for twice only after such an answer, not
after an error, a lost answer or a missing receipt. `DoomedSpendsNothing`,
`RunEnds`.

## 5. Findings

* `evidence_store_cold_lost`: `initEvidenceStore` sets `loaded` before it awaits
  the load. A write during the load that a read has begun finds an empty map and
  replaces the file by its one record: acknowledged records are lost.
  For the same reason a read during the load reports attested evidence as missing.
* `settlement_race`: a hash is stored once, but a claim may be evaluated twice
  with different outcome, and both decisions are valid until one settles. The
  store's comment calls a settlement race impossible.
* `workspace_shown`: a refresh for the account before, or for none, that is
  answered after the one of the connected account puts its reserve on the page
  under the words "connected wallet", until the next action or reload.

Seen while modelling, without a run of their own:

* Routes. `DUPLICATE_EVIDENCE` is announced for a second claim on an attested hash
  (`evaluate/route.ts:301-302`), but that claim is refused before the policy is
  asked and gets no decision; its lock is stuck. A request that the global budget
  refuses has already consumed its claim's, which a comment excludes.
* Limiter. The "sliding window" (`rateLimit.ts:2`) is a fixed one. A key whose live
  bucket a sweep drops (`rateLimit.ts:63`) loses its count and starts again with
  its whole budget. `Retry-After`, rounded up, names a second from which on the key
  is admitted, which may be up to a second later than the moment it first is.
* Console. Editing the fields while a claim is being opened makes the rehydration
  replace the snapshot, and the receipt saves the wrong content under the new
  claim; a reload before the receipt (`AppConsole.tsx:472`) saves none. Either way
  the right content is lost, and a coverage has only one claim ever. The claim
  ids bound to the snapshot are never read, so it may be sent for another claim,
  which the server refuses. `409 evidence_conflict` is taken for a successful
  attestation, although the record may be another claim's. An answer that arrives
  after the fields have changed, and after their reset, unlocks Evaluate or shows a
  decision for another claim than its own (`AppConsole.tsx:719`, `790`), which the
  comment at 254-267 says can never happen;
  disabling the fields while `busy` would not be enough, since a rehydration
  clears the status of a running call. A failed wait for the receipt of a deposit
  that was sent reports failure, and the deposit may be repeated
  (`AppConsole.tsx:498`).
* Workspace. `SECURITY.md:61` asks for an explicit flag before writes open, but the
  checked-in deployment is operational by default; with the flag `0` writes are
  closed and no notice says so; and before the signer is read the notice already
  speaks of a mismatch.
* Rehearsal. "Send it gasless (zero-fee, buyer pays nothing)" (`rehearse.ts:353-358`)
  and "Returns { sponsored: false } (no hash) when the paymaster declines"
  (`paymaster.ts:142-145`): but an answer with neither result nor error gives
  `sponsored` without a hash (`paymaster.ts:119-125`, `198-199`), and the script
  sends the claim again, self-paid (`rehearse.ts:386-397`). Both may be mined: the
  second reverts, the buyer has paid a fee for a sponsored claim, and the run may
  still end in PASS.
* Verifier pages. Any error answer to the simulated issue, a rate limit as well,
  counts as the rejection looked for (`currentProofEngine.ts:185`). With
  `NodeErrors = TRUE` the over-cap badge would be green without agreement, so
  `GreenAgreed` leaves that badge out then.
* `ReserveLookup.tsx` reads for one address at a time, as its button is disabled
  meanwhile, but shows the answer beside whatever the field says by then.

## 6. Proofs

TLAPS proves what follows from the constants' assumptions alone: for any finite
sets, amounts, bounds, depths and environments. A theorem `PHolds` states the
property `P`; what a property excepts (a raced write, a strayed call) is a part of
its statement.

| Module | Proved |
|---|---|
| `WarrantyReserveProofs` | `TypeCorrect`, the six invariants of the contract, `SettlementIsFinal`, `ImplementsEscrow`; sums of finite functions |
| `EvidenceStoreProofs` | `TypeCorrect`, the store's five invariants, `WithinCapacity`, `ImplementsRegister` |
| `SettlementProofs` | `ApprovalIsEarned`, `ProviderOnlyWeakens` of the evaluator; `TypeCorrect`, `DecisionsAttested`, `PaidIsOwed`, `SignedSettles` of the routes |
| `RateLimitProofs` | `BucketsBounded`, `BurstBounded`, `RetryIsExact` |
| `ConsoleProofs` | `TypeCorrect` and the console's six properties |
| `WorkspaceProofs` | `TypeCorrect`, `LockedIsSettleable`, `WritableIsUngated` |
| `ProofPageProofs` | `TypeCorrect`, `GreenAgreed`, `ConnTells` |
| `RehearsalProofs` | `DoomedSpendsNothing`, `TwiceOnlyHashless`, `PassIsEarned` |

**Contract.** None of the six is inductive. `ReserveCoversLocks` after a
release needs that the lock released is part of the merchant's lock, which is
`LocksMatchLiveCoverage`; that needs that a claim and its coverage know each
other (`OneClaimPerCoverage`), that a new id is fresh (`IdsInOrder`) and types.
And `Refuse` brings back an old storage, of which all this must hold too. So

    IInv == TypeOK /\ StorageInv(Storage)
                   /\ \A i \in 1..Len(stack) : StorageInv(stack[i].saved)

where `StorageInv(s)` conjoins the properties as predicates of a storage. Each
external function has a lemma that its new storage satisfies `StorageInv`
(`DepositKeeps` to `RejectKeeps`); `StorageStep` and `StackStep` combine them
with pushing and popping frames. Finality is a property of `Committed`, two
states apart by a whole transaction: `SavedEarlier`, that each frame's storage
keeps the settlements of the frame below it, makes it invariant under nested
calls and reverts.

**Sums.** Locks and reserves are sums over functions. `Total(f)` is the
cardinality of `{<<x, i>> : i \in 1..f[x]}`; `TotalUpdate` (changing one entry
changes the total by the difference) and `TotalBound` (an entry is at most the
total) are proved from the library's facts on cardinalities, with no induction.

**Refinement.** `ImplementsEscrow` adds what the mapping needs of a reachable
storage: an escrow exists for each live coverage, holds its maximum payout, and
`free = balance - locked` is a natural number for each merchant, since locks are
the sum of live maxima and reserves cover them. Then each function has a step of
the escrows (`DepositFunds` to `ApprovalPays`, section "Each function is a step
of the escrows"), and pushing or popping a frame maps to saving or restoring a
ledger (`LedgersAppend`, `LedgersPop`), because the mapping works frame by frame.

**Evaluator.** `PolicyVerdict` describes the policy's answer by the conjunction of
the checks instead of their order (`FirstRank`: the first failed check of the list
exists or none fails), `ProviderVerdict` what a valid answer may do to it,
`SignedVerdicts` what is signed of either. The theorems on the evaluator and on
the routes both rest on these.

**Routes.** A request decides on what it read some awaits ago. `Kept` says what
cannot change meanwhile: claims keep their coverage and hash, a record once
stored is never replaced, time grows. From it

    IInv == TypeOK /\ RecordsBound /\ JobsBound /\ ClocksClose
                   /\ NoncesMatch /\ DecisionsEarned /\ PaidIsOwed

is inductive: a record belongs to a claim with its hash, attested by a party
(`RecordsBound`); what a request has read at its stage is still so (`JobsBound`);
the clocks are at most `Skew` apart, which bounds what a decision dated by one and
settled by the other may be off by (`ClocksClose`);
the used nonces are those of the settled claims (`NoncesMatch`); a signed
decision matches its claim's content at a time before now (`DecisionsEarned`).
`SignedSettles` follows from the last two. The assumptions `InputsAssumption` and
`CasesAssumption` are that amounts and times were parsed to natural numbers and
flags to booleans, which the schema checks first.

**Store.** `AckedIsDurable` speaks of the file, but a write replaces the file by
what memory holds plus one record. So memory must be the file's equal whenever a
write is on its way:

    IInv == TypeOK /\ Queued /\ Loading /\ Sized /\ Sourced
                   /\ (~raced => Faithful)

The first line holds of any behaviour: the queue holds each waiting write once
(`Queued`), a load in progress has one call that waits for it (`Loading`), no file
or copy exceeds the capacity (`Sized`), and every record comes from a write that
was acknowledged, is running or was cut off by a crash, so none from one that was
refused (`Sourced`). `Faithful` is lost by a write that overtakes another call's
load, and by nothing else: without a finished load memory is empty and no write is
past its check (`Warmed`), with one the file is what memory holds or is about to
hold (`WrittenFromMemory`), what was acknowledged is in both (`Kept`), once per
hash (`OnePerHash`). From these `ImplementsRegister` follows step by step
(`LoadRefined` to `DamageRefined`): the rename is where a call takes effect,
memory's later update is no step of the register, a load changes nothing because
an intact file is the register already (`CurrentIsFile`), and the write that
overtakes a load makes the register's promise void (`VoidRefined`).

**Limiter.** `Within` bounds the swept map and types it; that dropping the older
half makes room is the library's arithmetic of cardinalities. `ToldExactly` ties
the time that was told to the window of the bucket that refused, which a later
hit of another key may sweep but not move. For bursts the history of admitted
hits is related to the bucket (`BurstInv`): of the recent hits the last `count`
are those of a live bucket, beginning at its `windowStart` (`Counts`), and what is
left of the windows before is less than the budget; without a live bucket all
of them are less. The step that needs this is the tick: when a window ends its
first hit has become too old, so at least one of a full budget leaves the interval
with it (`TickShared`), and while it lasts none of its own hits leaves
(`RecentIs`: what leaves is a beginning of the history).

**Console.** `UnlockedForShown` needs to know what a call that ends will write: one
that has not strayed was started for the claim in the fields, or with the snapshot
at hand (`Awaited`); a change of the fields makes every such call stray
(`StrayedKept`), and what a strayed one leaves behind is marked (`Finished`, with
`Marked`). A granted call has had its effect (`GrantedHolds`); a
request that is not cancelled asks for the claim shown (`Requested`); a
transaction in flight holds its own key, which no rehydration clears (`Locked`);
and claims are one per coverage (`OneClaimEach`).

**Workspace.** `canWrite` is looked at when a handler starts, and what it looks
at may change before the wallet is asked. `Witnessed`: a write under way, and
money in the books, both imply that the deployment is settleable, which depends
on nothing but the manifest and the immutable signer.

**Verifier pages.** `OneRun` (the ref admits one live run), `Truthful` (an answer
on its way, and a verdict shown, agreed with a ledger of this run) and
`Progressed` (what stage a run is in, given what is shown).

**Rehearsal.** Three inductions: a doomed run stays among the first three checks
with nothing sent (`DoomedInv`), and once the claim has been sent for the script is
past that stage, waits for a receipt, or was given no hash (`OpenInv`).
`PassIsEarned` compares reads that the
script made at different stages with the contract at the end, while a stranger
uses the contract and may relay the script's own decision. `PassInv` says what
makes the reads agree:

* while the script runs, an awaited transaction is the only one that may still be
  mined (`RunShape`), so nothing sent earlier takes effect after a later read, but
  for the two sends of a claim after an answer without a hash (`MinedInTime`), and
  opening a claim moves neither money nor locks;
* the one nonce is used exactly by the payment of the run's own claim, whoever
  relays it (`Relayed`, `NonceTells`), and only that payment and the funding
  reach the buyer (`BuyerMoney`);
* the lock the script has read is released by the payment of its own coverage and
  by nothing else, as no coverage of the deployer's but this one is ever issued
  (`LockTells`), and a coverage without an id yet has locked nothing (`Unissued`);
* what the assertions found stays so up to the script's own withdrawal
  (`HeldStays`).

For each of the contract's functions a lemma says what it leaves alone of that
(`DepositMoves` to `PaymentMoves`). A transaction that is mined and reverts changes
nothing. The model says so with `ENABLED`, which the prover does not look into;
the proof uses only that such a step changes nothing, so it also holds of a chain
that reverts at will.

What only TLC checks is liveness, which is beyond TLAPS: `PutsAnswered`, both
`RunEnds` and `SwitchIsRead`. Every safety property of the runs that pass is a
theorem.

## 7. Plan

Done, in this order: contract, its properties, refinement and proofs; store;
evaluator; routes; limiter; console; rehearsal with paymaster; verifier pages;
workspace; proofs about all of them. Next: the duplicate hash as a run of its
own; several coverages of one merchant in `Rehearsal`; routes over
`EvidenceRegister`, in place of the records of `Settlement`.

## 8. Not modelled

* `DemoWalkthrough.tsx`: a scripted demonstration with its own step counter, which
  touches neither chain nor server. Pages, navigation and styling: rendering.
  `ReserveLookup.tsx`: one read and its answer.
* `deploy-operational.ts`, `preflight.ts`, configuration: straight lines of reads
  and one deployment, with no state of their own.
* Contract mocks and tests: what the mocks do is among what accounts of
  `WarrantyReserve` may do.
* Signatures and hashing, which appear as who signed what; in `evaluateAuth.ts`
  the wording of the signed message. Gas, except for the fees of the rehearsal.
* Several server instances, which the limiter's and the store's comments exclude,
  and several tabs of one browser.

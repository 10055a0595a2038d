CONSTANTS
  seller = seller
  buyer = buyer
  zero = zero
  empty = empty
  nil = nil
  h1 = h1
  evaluator = evaluator
  outsider = outsider
  Accounts = {seller, buyer}
  Contracts = {seller, buyer}
  ZeroAddress = zero
  Hashes = {h1}
  ZeroHash = nil
  EmptyCommitmentHash = empty
  Signers = {evaluator, outsider}
  EvaluatorSigner = evaluator
  Chains = {1, 2}
  ThisChain = 1
  Verifiers = {1, 2}
  ThisVerifier = 1
  Decisions <- MCDecisions
  Amounts = {0, 1, 2}
  Endowment <- MCEndowment
  MaxCoverage = 2
  MaxTime = 1
  MaxDepth = 2
SPECIFICATION Spec
INVARIANT TypeOK
INVARIANT LocksMatchLiveCoverage
INVARIANT ReserveCoversLocks
INVARIANT Solvent
INVARIANT OneClaimPerCoverage
INVARIANT NoncePerSettlement
INVARIANT OpenClaimsPayable
PROPERTY SettlementIsFinal
PROPERTY ImplementsEscrow
CHECK_DEADLOCK FALSE

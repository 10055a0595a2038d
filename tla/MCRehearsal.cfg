CONSTANTS
  merchant = merchant
  buyer = buyer
  stranger = stranger
  zero = zero
  empty = empty
  nil = nil
  h1 = h1
  evaluator = evaluator
  Accounts = {merchant, buyer, stranger}
  Contracts = {}
  Deployer = merchant
  Claimant = buyer
  Stranger = stranger
  ZeroAddress = zero
  Hashes = {h1}
  Commitment = h1
  ZeroHash = nil
  EmptyCommitmentHash = empty
  Signers = {evaluator}
  EvaluatorSigner = evaluator
  Chains = {1}
  ThisChain = 1
  Verifiers = {1}
  ThisVerifier = 1
  Decisions <- MCDecisions
  Amounts = {1}
  Endowment <- MCEndowment
  Fee = 1
  Nothing = Nothing
  Configs <- MCConfigs
  MaxForeign = 1
  MaxCoverage = 2
  MaxTime = 1
  MaxDepth = 1
SPECIFICATION RunSpec
INVARIANT PassIsEarned
INVARIANT TwiceOnlyHashless
INVARIANT DoomedSpendsNothing
PROPERTY RunEnds
CHECK_DEADLOCK FALSE

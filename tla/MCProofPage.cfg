CONSTANTS
  tx = tx
  Receipts = {tx}
  CardSets <- MCCardSets
  Deployments <- MCDeployments
  NodeErrors = FALSE
  MaxRuns = 2
  Ledgers <- MCLedgers
SPECIFICATION Spec
INVARIANT GreenAgreed
INVARIANT ConnTells
PROPERTY RunEnds
CHECK_DEADLOCK FALSE

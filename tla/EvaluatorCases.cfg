CONSTANTS
  StalenessWindow = 2
  FutureGrace = 1
  DecisionTtl = 1
  EvidenceHashes = {h1, h2}
  Times = {0, 1, 2, 3, 4}
  Wealth = {0, 1, 2, 3}
SPECIFICATION CaseSpec
INVARIANT ApprovalIsEarned
INVARIANT ProviderOnlyWeakens
CHECK_DEADLOCK FALSE

CONSTANTS
  seller = seller
  buyer = buyer
  stranger = stranger
  h1 = h1
  h2 = h2
  StalenessWindow = 1
  FutureGrace = 1
  DecisionTtl = 1
  Coverages <- MCCoverages
  Contents <- MCContents
  OtherHashes = {}
  j1 = j1
  j2 = j2
  Accounts = {buyer, stranger}
  Jobs = {j1, j2}
  Answers <- MCAnswers
  GroqConfigured = TRUE
  MaxDecisions = 2
  Skew = 1
  MaxTime = 2
SPECIFICATION Spec
SYMMETRY JobSymmetry
INVARIANT DecisionsAttested
INVARIANT PaidIsOwed
INVARIANT SignedSettles
CHECK_DEADLOCK FALSE

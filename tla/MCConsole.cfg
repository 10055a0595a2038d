CONSTANTS
  kettle = kettle
  lamp = lamp
  Coverages = {kettle, lamp}
  MaxBuilt = 2
  MaxCalls <- MCMaxCalls
SPECIFICATION Spec
SYMMETRY CoverageSymmetry
INVARIANT UnlockedForShown
INVARIANT DecisionForShown
INVARIANT SavedIsCommitted
INVARIANT OneTransactionAtATime
INVARIANT PendingHasCall
PROPERTY RehydratedForShown

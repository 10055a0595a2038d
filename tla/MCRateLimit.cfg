CONSTANTS
  client = client
  claim1 = claim1
  claim2 = claim2
  global = global
  Clients = {client}
  Claims = {claim1, claim2}
  Global = global
  max <- MCmax
  windowMs = 2
  MAX_BUCKETS = 3
  MaxAdmitted = 4
  MaxTime = 4
SPECIFICATION Spec
SYMMETRY ClaimSymmetry
INVARIANT BucketsBounded
INVARIANT BurstBounded
INVARIANT RetryIsExact
CHECK_DEADLOCK FALSE

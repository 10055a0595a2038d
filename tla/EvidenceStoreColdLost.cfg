CONSTANTS
  c1 = c1
  c2 = c2
  c3 = c3
  c4 = c4
  h1 = h1
  h2 = h2
  h3 = h3
  p1 = p1
  p2 = p2
  p3 = p3
  p4 = p4
  r1 = r1
  r2 = r2
  Claims = {c1, c2, c3, c4}
  Hashes = {h1, h2, h3}
  HashOf <- MCHashOf
  Puts = {p1, p2, p3, p4}
  ClaimOf <- MCClaimOf
  Readers = {r1, r2}
  None = None
  Damaged = Damaged
  Writer = Writer
  MaxRecords = 2
  MaxRestarts = 1
SPECIFICATION Spec
CHECK_DEADLOCK FALSE
INVARIANT RecordsSurvive

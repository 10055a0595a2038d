CONSTANTS
  alice = alice
  bob = bob
  evaluatorKey = evaluatorKey
  otherKey = otherKey
  Nobody = Nobody
  Unset = Unset
  Off = Off
  Accounts = {alice, bob}
  Keys = {evaluatorKey, otherKey}
  CurrentEvaluator = evaluatorKey
  Manifests <- MCManifests
  MaxReserve = 1
SPECIFICATION Spec

INVARIANT ShownIsConnected

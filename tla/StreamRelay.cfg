CONSTANTS
  Subscriptions = {s1, s2}
  MaxPorts = 2
  MaxAttempts = 2
  MaxTroubles = 1
  MaxBacklog = 1
SPECIFICATION RelaySpec
INVARIANTS OneStreamPerPort
PROPERTIES SnapshotsNeedGrant SubscribersAreAnswered
CHECK_DEADLOCK FALSE

SPECIFICATION FairSpec
CONSTANTS
  p1 = p1
  p2 = p2
  alice = alice
  bob = bob
  bulk = bulk
  card = card
  Item = {p1, p2}
  Account = {alice, bob}
  Rail = {bulk, card}
  Tick = {1, 2}
  Owner <- MCOwner
  Route <- MCRoute
  Manual = {card}
  Batchable = {bulk}
  Funds <- MCFunds
  Threshold <- MCThreshold
  MinSweep = 1
  MaxCrashes = 1
  MaxFreezes = 1
INVARIANTS
  TypeOK
  SentOnce
  OutcomeFindsRow
  RefundedNotPaid
  BatchConserved
PROPERTIES
  FrozenClaimsNothing
  QueueDrains
CHECK_DEADLOCK FALSE

CONSTANTS
  w1 = w1
  w2 = w2
  alice = alice
  W = {w1, w2}
  Account = {alice}
  Owner <- OwnerMC
  Amount <- AmountMC
  Funds <- AmpleFunds
  Operated = {w1}
  Swept = {w2}
  MaxExternal = 0
  MaxCrashes = 1
  MaxFreezes = 0
SPECIFICATION Spec
INVARIANTS
  NeverPaidAndRefunded
  CompletedMeansPaid
  OneNoncePerPayout
  QueueHoldsOnlyUnclaimed
PROPERTIES
  PayoutLandsOnClaimedRow
  SettledIsFinal

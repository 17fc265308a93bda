CONSTANTS
  w1 = w1
  w2 = w2
  alice = alice
  W = {w1, w2}
  Account = {alice}
  Owner <- OwnerMC
  Amount <- AmountMC
  Funds <- AmpleFunds
  Operated = {}
  Swept = {}
  MaxExternal = 0
  MaxCrashes = 0
  MaxFreezes = 0
SPECIFICATION FairSpec
PROPERTIES
  QueuedIsFired

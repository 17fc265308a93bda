CONSTANTS
  w1 = w1
  w2 = w2
  alice = alice
  W = {w1}
  Account = {alice}
  Owner <- OwnerMC
  Amount <- AmountMC
  Funds <- AmpleFunds
  Operated = {w1}
  Swept = {w1}
  MaxExternal = 1
  MaxCrashes = 1
  MaxFreezes = 1
SPECIFICATION FairSpec
INVARIANTS
  TypeOK
  Conservation
PROPERTIES
  FrozenMovesNoMoney
  ClaimedIsDecided

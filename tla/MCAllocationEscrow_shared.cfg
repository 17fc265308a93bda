SPECIFICATION Spec
CONSTANTS
  t1 = t1
  t2 = t2
  alice = alice
  bob = bob
  carol = carol
  s1 = s1
  s2 = s2
  p1 = p1
  p2 = p2
  Task = {t1, t2}
  Account = {alice, bob, carol}
  Step = {s1}
  Pass = {p1}
  Kind <- DirectAndSub
  Payer <- MCPayer
  Worker <- WorkerSigns
  Signer <- AnotherSigns
  Funds <- MCFunds
  Hold = 4
  Gross = 3
  Fee = 1
  Refusable = {}
  Amounts = {2}
  MaxAttempts = 2
  MaxCrashes = 0
  MaxFreezes = 1
  MaxPeerLoss = 0
  CrashInTurn = FALSE
INVARIANTS
  TypeOK
  NeverOverdrawn
  MoneyConserved
  SettledHasRow
PROPERTIES
  FrozenMovesNothing
  DisputeLocksEscrow
  CustodySpec
CHECK_DEADLOCK FALSE

SPECIFICATION Spec
CONSTANTS
  t1 = t1
  t2 = t2
  alice = alice
  bob = bob
  carol = carol
  s1 = s1
  s2 = s2
  p1 = p1
  p2 = p2
  Task = {t1}
  Account = {alice, bob}
  Step = {s1, s2}
  Pass = {p1, p2}
  Kind <- AllFederated
  Payer <- MCPayer
  Worker <- WorkerSigns
  Signer <- WorkerSigns
  Funds <- MCFunds
  Hold = 4
  Gross = 3
  Fee = 1
  Refusable = {}
  Amounts = {}
  MaxAttempts = 2
  MaxCrashes = 1
  MaxFreezes = 1
  MaxPeerLoss = 1
  CrashInTurn = TRUE
SYMMETRY Processes
INVARIANTS
  ReleasedHoldsNothing
PROPERTIES
  ClaimKeepsEscrow
  NeverSentAfterEnd
CHECK_DEADLOCK FALSE

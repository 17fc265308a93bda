SPECIFICATION FairSpec
CONSTANTS
  t1 = t1
  t2 = t2
  alice = alice
  bob = bob
  carol = carol
  s1 = s1
  s2 = s2
  p1 = p1
  p2 = p2
  Task = {t1}
  Account = {alice, bob}
  Step = {s1}
  Pass = {p1}
  Kind <- AllFederated
  Payer <- MCPayer
  Worker <- WorkerSigns
  Signer <- WorkerSigns
  Funds <- MCFunds
  Hold = 4
  Gross = 3
  Fee = 1
  Refusable = {t1}
  Amounts = {}
  MaxAttempts = 3
  MaxCrashes = 1
  MaxFreezes = 1
  MaxPeerLoss = 1
  CrashInTurn = FALSE
INVARIANTS
  PendingForwardHasRetry
PROPERTIES
  ClaimSettles
  ForwardEnds
  EscrowPaidOut
CHECK_DEADLOCK FALSE

SPECIFICATION Spec
CONSTANTS
  r1 = r1
  r2 = r2
  c1 = c1
  c2 = c2
  a1 = a1
  e1 = e1
  b1 = b1
  b2 = b2
  b3 = b3
  Call = {r1}
  Cycle = {c1}
  Appeal = {a1}
  Submission = {e1}
  Peer = {b1, b2}
  Quorum = 2
  Ballot = {"release"}
  Ledger = {"paid"}
  MaxEvidence = 1
  MaxCrashes = 0
  MaxFreezes = 0
PROPERTIES
  BundleFreezes
CHECK_DEADLOCK FALSE

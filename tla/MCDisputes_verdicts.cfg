SPECIFICATION Spec
CONSTANTS
  r1 = r1
  r2 = r2
  c1 = c1
  c2 = c2
  a1 = a1
  e1 = e1
  b1 = b1
  b2 = b2
  b3 = b3
  Call = {r1, r2}
  Cycle = {c1}
  Appeal = {a1}
  Submission = {}
  Peer = {b1, b2}
  Quorum = 2
  Ballot = {"refund", "release"}
  Ledger = {"both", "held", "review"}
  MaxEvidence = 1
  MaxCrashes = 1
  MaxFreezes = 1
SYMMETRY Symm
INVARIANTS
  EvidenceHeard
  QuorumOrDeadline
  VerdictExecuted
PROPERTIES
  NeverMovedBack
  FirstVerdictStands
CHECK_DEADLOCK FALSE

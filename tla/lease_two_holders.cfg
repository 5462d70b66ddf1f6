\* Two elections: the new leader was told of no lease, the old one still holds its own
SPECIFICATION Spec
CONSTANTS
  Node = {n1, n2, n3}
  Nil = Nil
  LEASE_TIMEOUT = 2
  ElectionTimeouts = {2, 3}
  HEARTBEAT_TIMEOUT = 1
  VoteDeadline = 1
  AppendDeadline = 0
  MaxTerm = 2
SYMMETRY NodeSymmetry
VIEW View
INVARIANTS
  OneLeaseHolder

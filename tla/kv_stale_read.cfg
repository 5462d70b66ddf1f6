\* A new leader answers a read before it has applied its log
SPECIFICATION MCKVSpec
CONSTANTS
  Node = {n1, n2, n3}
  Nil = Nil
  Value = {v}
  Client = {c}
  MAX_WORKERS = 1
  MaxTerm = 2
  MaxLog = 3
  MaxRestarts = 0
  MaxOps = 2
  Budgets <- StaleBudgets
SYMMETRY NodeSymmetry
VIEW KVView
\* The bounds end every behaviour.
CHECK_DEADLOCK FALSE
INVARIANTS
  ReadsFollowWrites

\* A client writes and reads while the leader changes and a call may be lost
SPECIFICATION MCKVSpec
CONSTANTS
  Node = {n1, n2, n3}
  Nil = Nil
  Value = {v}
  Client = {c}
  MAX_WORKERS = 1
  MaxTerm = 2
  MaxLog = 3
  MaxRestarts = 0
  MaxOps = 2
  Budgets <- KVBudgets
SYMMETRY NodeSymmetry
VIEW KVView
\* The bounds end every behaviour.
CHECK_DEADLOCK FALSE
INVARIANTS
  KVTypeOK
PROPERTIES
  ImplementsRegister

\* Five nodes, as in config.yaml: a leader commits what two nodes have
SPECIFICATION MCSpec
CONSTANTS
  Node = {n1, n2, n3, n4, n5}
  Nil = Nil
  Value = {}
  MaxTerm = 2
  MaxLog = 2
  MaxRestarts = 0
  Budgets <- FiveBudgets
SYMMETRY NodeSymmetry
VIEW View
\* The bounds end every behaviour.
CHECK_DEADLOCK FALSE
PROPERTIES
  CommitOnMajority

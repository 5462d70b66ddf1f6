\* A voter restarts between two candidates of one term
SPECIFICATION MCSpec
CONSTANTS
  Node = {n1, n2, n3}
  Nil = Nil
  Value = {v}
  MaxTerm = 1
  MaxLog = 1
  MaxRestarts = 1
  Budgets <- VoteBudgets
SYMMETRY NodeSymmetry
VIEW View
\* The bounds end every behaviour.
CHECK_DEADLOCK FALSE
INVARIANTS
  OneLeaderPerTerm

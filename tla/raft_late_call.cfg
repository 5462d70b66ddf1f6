\* A call of a deposed leader comes late and cuts a committed entry
SPECIFICATION MCSpec
CONSTANTS
  Node = {n1, n2, n3}
  Nil = Nil
  Value = {}
  MaxTerm = 2
  MaxLog = 2
  MaxRestarts = 0
  Budgets <- LateBudgets
SYMMETRY NodeSymmetry
VIEW View
\* The bounds end every behaviour.
CHECK_DEADLOCK FALSE
PROPERTIES
  CommittedNeverCut

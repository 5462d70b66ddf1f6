\* Elections, replication and restarts over one to three leaders
SPECIFICATION MCSpec
CONSTANTS
  Node = {n1, n2, n3}
  Nil = Nil
  Value = {v}
  MaxTerm = 3
  MaxLog = 2
  MaxRestarts = 1
  Budgets <- LogBudgets
SYMMETRY NodeSymmetry
VIEW View
\* The bounds end every behaviour.
CHECK_DEADLOCK FALSE
INVARIANTS
  TypeOK
  OneLeaderPerTerm
  VotesStand
  DiskMatchesMemory
  NoRedirectLoop
  NewestTermAgrees
PROPERTIES
  TermNeverDecreases
  LeaderKeepsLog
  WinnerUpToDate

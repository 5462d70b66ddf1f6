\* A mapper on a machine of its own may be late and go on writing, or die
SPECIFICATION Spec
CONSTANTS
  K = 3
  Iterations = 3
  Inputs <- Repeating
  M = 3
  R = 2
  Mapper = {0, 1}
  Reducer = {0, 1}
  Host = {0, 1}
  HostOf <- Separate
  Late = {0}
  MortalMapper = {0}
  MortalReducer = {0}
  None = None
\* The job ends, or waits for workers that are gone.
CHECK_DEADLOCK FALSE
INVARIANTS
  TypeOK
  TasksMatchWorkers
  FailsOnlyOnDuplicates
PROPERTIES
  ComputesKMeans

\* All on one machine: a mapper and both reducers may die
SPECIFICATION FairSpec
CONSTANTS
  K = 2
  Iterations = 3
  Inputs <- Distinct
  M = 2
  R = 2
  Mapper = {0, 1}
  Reducer = {0, 1}
  Host = {0}
  HostOf <- Shared
  Late = {}
  MortalMapper = {0}
  MortalReducer = {0, 1}
  None = None
\* The job ends, or waits for workers that are gone.
CHECK_DEADLOCK FALSE
INVARIANTS
  MapOutputReady
PROPERTIES
  JobEnds
  EndsOrWorkersGone

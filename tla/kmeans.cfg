\* Every file of five points of a grid of eight
SPECIFICATION Spec
CONSTANTS
  K = 3
  Iterations = 4
  Inputs <- Files
\* The job ends.
CHECK_DEADLOCK FALSE
INVARIANTS
  FirstClustersNonEmpty
PROPERTIES
  CostNeverGrows

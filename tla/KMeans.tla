------------------------------- MODULE KMeans -------------------------------
(***************************************************************************)
(* What the programs of assignment-3 compute together: k-means from the    *)
(* first K points of the input, until the centroids stay the same or all   *)
(* iterations are done.  MapReduce.tla is shown to implement it.           *)
(***************************************************************************)
EXTENDS Clustering

CONSTANTS
  Iterations,  \* the I of config.yaml
  Inputs       \* the input files: sequences of points <<x, y>>

ASSUME IterationsAssumption == Iterations \in Nat \ {0}
ASSUME InputsAssumption == \A p \in Inputs : p \in Seq(Int \X Int) /\ Len(p) >= K

VARIABLES
  points,     \* the input file of this job
  centroids,  \* one function on Key per iteration, the newest first
  done        \* the job is over

vars == <<points, centroids, done>>

\* run ends after all iterations or, from the second on, when nothing changed
\* (check_convergence).
Over(cs) == Len(cs) = Iterations + 1 \/ (Len(cs) > 2 /\ cs[1] = cs[2])

Init ==
  /\ points \in Inputs
  /\ centroids = <<[k \in Key |-> points[k + 1]]>>
  /\ done = FALSE

Iterate ==
  /\ ~done
  /\ centroids' = <<NextCentroids(points, centroids[1])>> \o centroids
  /\ done' = Over(centroids')
  /\ UNCHANGED points

Spec == Init /\ [][Iterate]_vars

-----------------------------------------------------------------------------
(***************************************************************************)
(* Properties                                                              *)
(***************************************************************************)

\* No iteration makes the centroids worse, although each mean is rounded: the
\* job cannot run in a circle of ever different centroids (find_mean_keywise).
CostNeverGrows == [][Cost(points, centroids'[1]) <= Cost(points, centroids[1])]_vars

\* When the first K points differ, the first iteration leaves no cluster
\* empty.  master.py has no centroid for a cluster that is empty then.
FirstClustersNonEmpty ==
  Len(centroids) = 1 /\ DistinctStart(points) =>
    \A k \in Key : Cluster(points, centroids[1], k) # {}
=============================================================================

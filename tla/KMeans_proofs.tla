---------------------------- MODULE KMeans_proofs ----------------------------
(***************************************************************************)
(* Theorems about KMeans.tla, for every number of centroids, iterations    *)
(* and points.                                                             *)
(***************************************************************************)
EXTENDS KMeans, Clustering_proofs

\* The centroids are points, and the first ones are the first points of the file.
KMeansInv ==
  /\ points \in File /\ Len(points) >= K
  /\ Len(centroids) \in Nat \ {0} /\ centroids[1] \in [Key -> Point]
  /\ centroids \in Seq([Key -> Point])
  /\ Len(centroids) = 1 => centroids[1] = [k \in Key |-> points[k + 1]]

LEMMA KMeansInit == Init => KMeansInv
<1> SUFFICES ASSUME Init PROVE KMeansInv
  OBVIOUS
<1>1. points \in File /\ Len(points) >= K
  BY InputsAssumption DEF Init, File, Point
<1> DEFINE start == [k \in Key |-> points[k + 1]]
<1>2. start \in [Key -> Point]
  BY <1>1, KAssumption DEF Key, File
<1>3. centroids = <<start>>
  BY DEF Init
<1> HIDE DEF start
<1>4. Len(centroids) = 1 /\ centroids[1] = start /\ centroids \in Seq([Key -> Point])
  BY <1>2, <1>3
<1>. QED
  BY <1>1, <1>2, <1>4 DEF KMeansInv, start

LEMMA KMeansStep == KMeansInv /\ [Iterate]_vars => KMeansInv'
<1> SUFFICES ASSUME KMeansInv, [Iterate]_vars PROVE KMeansInv'
  OBVIOUS
<1>1. CASE Iterate
  <2> DEFINE next == NextCentroids(points, centroids[1])
  <2>1. next \in [Key -> Point]
    BY NextCentroidsType DEF KMeansInv
  <2>2. centroids' = <<next>> \o centroids /\ points' = points
    BY <1>1 DEF Iterate
  <2> HIDE DEF next
  <2>3. /\ centroids' \in Seq([Key -> Point]) /\ centroids'[1] = next
        /\ Len(centroids') = Len(centroids) + 1 /\ Len(centroids) \in Nat \ {0}
    BY <2>1, <2>2 DEF KMeansInv
  <2>4. \A n \in Nat \ {0} : n + 1 \in Nat \ {0} /\ n + 1 # 1
    OBVIOUS
  <2>5. Len(centroids') \in Nat \ {0} /\ Len(centroids') # 1
    BY <2>3, <2>4, Zenon
  <2>. QED
    BY <2>1, <2>2, <2>3, <2>5 DEF KMeansInv
<1>2. CASE UNCHANGED vars
  BY <1>2 DEF vars, KMeansInv
<1>. QED
  BY <1>1, <1>2

\* With different starting points every cluster of the first iteration has at
\* least the point it starts from, which is what master.py needs to have a
\* centroid for each (__submit_reduce_task).
THEOREM NoClusterEmpty == Spec => []FirstClustersNonEmpty
<1>1. KMeansInv => FirstClustersNonEmpty
  <2> SUFFICES ASSUME KMeansInv, Len(centroids) = 1, DistinctStart(points), NEW k \in Key
               PROVE  Cluster(points, centroids[1], k) # {}
    BY DEF FirstClustersNonEmpty
  <2>1. Cluster(points, [j \in Key |-> points[j + 1]], k) # {}
    BY FirstClusters DEF KMeansInv
  <2>2. centroids[1] = [j \in Key |-> points[j + 1]]
    BY DEF KMeansInv
  <2>. QED
    BY <2>1, <2>2
<1>. QED
  BY <1>1, KMeansInit, KMeansStep, PTL DEF Spec

\* Whatever the points are, an iteration never makes the sum of the squared
\* distances greater, with means rounded as find_mean_keywise rounds them: no whole
\* number is nearer to the points of a cluster than their rounded mean.
THEOREM CostFallsOrStays == Spec => CostNeverGrows
<1>1. ASSUME KMeansInv, [Iterate]_vars
      PROVE  [Cost(points, centroids'[1]) <= Cost(points, centroids[1])]_vars
  <2>1. CASE Iterate
    <3>1. centroids'[1] = NextCentroids(points, centroids[1])
      BY <1>1, <2>1 DEF Iterate, KMeansInv
    <3>2. Cost(points, NextCentroids(points, centroids[1])) <= Cost(points, centroids[1])
      <4>1. points \in File /\ centroids[1] \in [Key -> Point]
        BY <1>1 DEF KMeansInv
      <4>. QED
        BY <4>1, CostFalls
    <3>. QED
      BY <3>1, <3>2
  <2>2. CASE UNCHANGED vars
    BY <2>2
  <2>. QED
    BY <1>1, <2>1, <2>2
<1>. QED
  BY <1>1, KMeansInit, KMeansStep, PTL DEF Spec, CostNeverGrows
=============================================================================

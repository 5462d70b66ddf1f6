----------------------------- MODULE Clustering -----------------------------
(***************************************************************************)
(* The arithmetic of assignment-3: which centroid a point belongs to       *)
(* (mapper.py) and where the next centroids are (reducer.py).              *)
(*                                                                         *)
(* Coordinates are integers, in units of the last decimal that the code    *)
(* keeps, which is the fourth.  A file is a sequence of points <<x, y>>,   *)
(* and a centroid's number is its index in the code, from 0.               *)
(***************************************************************************)
EXTENDS Integers, Sequences, FiniteSets, FiniteSetsExt

CONSTANT K     \* number of centroids

ASSUME KAssumption == K \in Nat \ {0}

Key == 0..(K - 1)

\* Mistaken variant: only one coordinate is compared.
Distance_OneAxis(p, c) == (p[1] - c[1]) * (p[1] - c[1])

Distance(p, c) == (p[1] - c[1]) * (p[1] - c[1]) + (p[2] - c[2]) * (p[2] - c[2])

\* cluster_points: the first centroid at the least distance
Closest(p, cs) ==
  CHOOSE k \in Key : \A j \in Key :
    \/ Distance(p, cs[k]) < Distance(p, cs[j])
    \/ Distance(p, cs[k]) = Distance(p, cs[j]) /\ k <= j

\* Mistaken variant: the fifth decimal is cut off.
RoundedMean_Down(sum, n) == sum \div n

\* round(sum / n, 4)
RoundedMean(sum, n) == (2 * sum + n) \div (2 * n)

\* find_mean_keywise, for a set of indices into the file
Mean(file, S) ==
  <<RoundedMean(MapThenSumSet(LAMBDA i : file[i][1], S), Cardinality(S)),
    RoundedMean(MapThenSumSet(LAMBDA i : file[i][2], S), Cardinality(S))>>

Cluster(file, cs, k) == {i \in 1..Len(file) : Closest(file[i], cs) = k}

\* One iteration.  A centroid without points stays where it is.
NextCentroids(file, cs) ==
  [k \in Key |-> IF Cluster(file, cs, k) = {} THEN cs[k] ELSE Mean(file, Cluster(file, cs, k))]

DistinctStart(file) == \A i, j \in 1..K : file[i] = file[j] => i = j

\* The sum over the points of the distance to their centroid
Cost(file, cs) == MapThenSumSet(LAMBDA i : Distance(file[i], cs[Closest(file[i], cs)]), 1..Len(file))
=============================================================================

------------------------------ MODULE MCKMeans ------------------------------
(* KMeans.tla for TLC: every file of five points on a small grid *)
EXTENDS KMeans

Files == [1..5 -> (0..3) \X (0..1)]
=============================================================================

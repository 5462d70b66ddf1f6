---------------------------- MODULE MCMapReduce ----------------------------
(***************************************************************************)
(* MapReduce.tla for TLC.  The files of points are on a line, in units     *)
(* that make the means whole.                                              *)
(***************************************************************************)
EXTENDS MapReduce

OnALine(xs) == [i \in DOMAIN xs |-> <<xs[i], 0>>]

\* Moves for three iterations / converges in the second iteration
Moving     == OnALine(<<0, 6, 30, 36, 48>>)
Converging == OnALine(<<0, 30, 6, 36, 33>>)
\* The first two points are the same: a cluster stays empty.
Duplicate  == OnALine(<<0, 0, 12, 24, 36>>)

Distinct  == {Moving, Converging}
Repeating == {Converging, Duplicate}

\* All mappers on one machine, as in config.yaml, or each on its own
Shared   == [w \in Mapper |-> 0]
Separate == [w \in Mapper |-> w]
=============================================================================

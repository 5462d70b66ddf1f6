------------------------------- MODULE MCLease -------------------------------
(***************************************************************************)
(* Lease.tla for TLC                                                       *)
(***************************************************************************)
EXTENDS Lease, TLC

\* Answers that their receiver will ignore, and counters nobody reads before they
\* are set again, do not distinguish states.
View ==
  <<currentTerm, votedFor, state, lease, told,
    [n \in Node |-> CASE state[n] = "LEADER" -> <<reachability_nodes_cnt[n], since[n]>>
                     [] state[n] = "CANDIDATE" -> <<votes_received[n]>>
                     [] OTHER -> <<>>],
    [n \in Node |-> IF state[n] = "LEADER" /\ ~has_lease[n] THEN 0 ELSE waitLeft[n]],
    {m \in calls : CASE m.kind = "Vote" -> state[m.dst] = "CANDIDATE" /\ currentTerm[m.dst] = m.term
                     [] m.kind = "Appended" -> state[m.dst] = "LEADER"
                     [] OTHER -> TRUE}>>

NodeSymmetry == Permutations(Node)
=============================================================================

-------------------------------- MODULE Lease --------------------------------
(***************************************************************************)
(* The leases of assignment-2/raft.py: who believes to hold one, what a    *)
(* node believes to be left of the lease it knows of, and the timer thread *)
(* that acts on both.  Raft.tla lets a lease begin and end at any time;    *)
(* here time passes in ticks and the log is left out: whether a voter's    *)
(* log allows a vote is a choice.                                          *)
(*                                                                         *)
(* A pair (time, duration) of the code is modelled by what is left of it,  *)
(* which Tick counts down to 0: leaseLeft is __get_lease_duration(), and   *)
(* "now - lease_access_time >= leaseInterval" is leaseLeft = 0.  A call    *)
(* that is not over when its deadline is, is gone: lost, refused or late.  *)
(* A tick is as long as the timer thread sleeps at most, so what is due is *)
(* done before the next tick, in any order with what else happens in it.   *)
(***************************************************************************)
EXTENDS Integers, FiniteSets

CONSTANTS
  Node, Nil,
  LEASE_TIMEOUT,
  ElectionTimeouts,      \* what __election_timeout may return
  HEARTBEAT_TIMEOUT,
  VoteDeadline, AppendDeadline,  \* REQUEST_VOTE_TIMEOUT, APPEND_ENTRY_TIMEOUT
  MaxTerm                \* bound: no election beyond this term

ASSUME LeaseAssumption ==
  /\ IsFiniteSet(Node) /\ Cardinality(Node) > 1 /\ Nil \notin Node
  /\ {LEASE_TIMEOUT, HEARTBEAT_TIMEOUT} \subseteq Nat \ {0}
  /\ ElectionTimeouts \subseteq Nat \ {0} /\ ElectionTimeouts # {}
  /\ {VoteDeadline, AppendDeadline, MaxTerm} \subseteq Nat
  \* A node that stops leading does not lead again before its calls are over.
  /\ \A t \in ElectionTimeouts : t > AppendDeadline

\* What line 712 makes of a clock reading: more seconds than anyone waits.
Forever == LEASE_TIMEOUT + 1
Duration == 0..Forever

VARIABLES
  currentTerm, votedFor, state, votes_received,
  has_lease, leaseLeft, leaseInterval, reachability_nodes_cnt,
  waitLeft,         \* what is left of wait_duration since last_heartbeat
  calls,            \* RequestVote and AppendEntries calls and answers in flight
  told,             \* history: the longest lease the node was told of, counted down
  since             \* history: ticks since a node won, acquired a lease or was answered

election == <<currentTerm, votedFor, state, votes_received>>
lease    == <<has_lease, leaseLeft, leaseInterval>>
history  == <<told, since>>
vars == <<election, lease, reachability_nodes_cnt, waitLeft, calls, history>>

Call == [kind: {"RequestVote", "Vote", "AppendEntries", "Appended"}, src: Node, dst: Node,
         term: Nat, left: Nat, lease: Duration, yes: BOOLEAN, replyTerm: Nat \cup {-1}]

Longer(a, b) == IF a >= b THEN a ELSE b

-----------------------------------------------------------------------------
(***************************************************************************)
(* The lease and its clock                                                 *)
(***************************************************************************)

\* Mistaken variant: the latest answer replaces what was known.
UpdateLease_Latest(n, d) ==
  /\ leaseLeft' = [leaseLeft EXCEPT ![n] = d]
  /\ leaseInterval' = [leaseInterval EXCEPT ![n] = d]

\* __update_lease: a shorter lease than the one known of changes nothing.
UpdateLease(n, d) ==
  IF d >= leaseLeft[n]
  THEN /\ leaseLeft' = [leaseLeft EXCEPT ![n] = d]
       /\ leaseInterval' = [leaseInterval EXCEPT ![n] = d]
  ELSE UNCHANGED <<leaseLeft, leaseInterval>>

\* The two assignments of __renew_lease, also those of __acquire_lease
RenewLease(n) ==
  /\ leaseLeft' = [leaseLeft EXCEPT ![n] = LEASE_TIMEOUT]
  /\ leaseInterval' = [leaseInterval EXCEPT ![n] = LEASE_TIMEOUT]

IsTold(n, d) == told' = [told EXCEPT ![n] = Longer(@, d)]

\* __update_timer
UpdateTimer(n, Waits) == \E w \in Waits : waitLeft' = [waitLeft EXCEPT ![n] = w]

\* __change_state_to_follower without its __update_lease and __update_timer;
\* has_lease stays as it is.
BecomeFollower(n, term) ==
  /\ state' = [state EXCEPT ![n] = "FOLLOWER"]
  /\ currentTerm' = [currentTerm EXCEPT ![n] = term]
  /\ votedFor' = [votedFor EXCEPT ![n] = Nil]

Others(n) == Node \ {n}

\* __send_heartbeat: a call to every other node with the lease that is left,
\* besides the calls that are in flight already
SendHeartbeat(n, left, others) ==
  /\ reachability_nodes_cnt' = [reachability_nodes_cnt EXCEPT ![n] = 1]
  /\ calls' = others \cup
       {[kind |-> "AppendEntries", src |-> n, dst |-> p, term |-> currentTerm[n],
         left |-> AppendDeadline, lease |-> left, yes |-> FALSE, replyTerm |-> -1] : p \in Others(n)}
  /\ UpdateTimer(n, {HEARTBEAT_TIMEOUT})

AcquireLease(n, others) ==
  /\ has_lease' = [has_lease EXCEPT ![n] = TRUE]
  /\ RenewLease(n)
  /\ SendHeartbeat(n, LEASE_TIMEOUT, others)

-----------------------------------------------------------------------------
(***************************************************************************)
(* The timer thread: __action_on_lease, then what the timer asks for       *)
(***************************************************************************)

TimerDue(n) == waitLeft[n] = 0

\* A leader whose lease ran out steps down, and waits for an election.
LeaseExpired(n) ==
  /\ state[n] = "LEADER" /\ leaseLeft[n] = 0 /\ has_lease[n]
  /\ has_lease' = [has_lease EXCEPT ![n] = FALSE]
  /\ BecomeFollower(n, currentTerm[n])
  /\ UpdateLease(n, 0)
  /\ UpdateTimer(n, ElectionTimeouts)
  /\ UNCHANGED <<votes_received, reachability_nodes_cnt, calls, history>>

\* Doesn't have the lease, and the lease it knows of is over
LeaseAcquired(n) ==
  /\ state[n] = "LEADER" /\ leaseLeft[n] = 0 /\ ~has_lease[n]
  /\ AcquireLease(n, calls)
  /\ since' = [since EXCEPT ![n] = 0]
  /\ UNCHANGED <<election, told>>

HeartbeatDue(n) == state[n] = "LEADER" /\ leaseLeft[n] > 0 /\ TimerDue(n) /\ has_lease[n]

\* Mistaken variant: the lease is renewed before anyone answered.
Heartbeat_Renews(n) ==
  /\ HeartbeatDue(n)
  /\ SendHeartbeat(n, leaseLeft[n], calls)
  /\ RenewLease(n)
  /\ UNCHANGED <<election, has_lease, history>>

Heartbeat(n) ==
  /\ HeartbeatDue(n)
  /\ SendHeartbeat(n, leaseLeft[n], calls)
  /\ UNCHANGED <<election, lease, history>>

\* __initiate_election
InitiateElection(n) ==
  /\ state[n] # "LEADER" /\ TimerDue(n)
  /\ currentTerm[n] < MaxTerm
  /\ state' = [state EXCEPT ![n] = "CANDIDATE"]
  /\ currentTerm' = [currentTerm EXCEPT ![n] = @ + 1]
  /\ votedFor' = [votedFor EXCEPT ![n] = n]
  /\ votes_received' = [votes_received EXCEPT ![n] = 1]
  /\ calls' = calls \cup
       {[kind |-> "RequestVote", src |-> n, dst |-> p, term |-> currentTerm[n] + 1,
         left |-> VoteDeadline, lease |-> 0, yes |-> FALSE, replyTerm |-> -1] : p \in Others(n)}
  /\ UpdateTimer(n, ElectionTimeouts)
  /\ UNCHANGED <<lease, reachability_nodes_cnt, history>>

\* One round of __timer in which something is due
Timer(n) ==
  \/ LeaseExpired(n)
  \/ LeaseAcquired(n)
  \/ Heartbeat(n)
  \/ InitiateElection(n)

-----------------------------------------------------------------------------
(***************************************************************************)
(* RequestVote and its answer                                              *)
(***************************************************************************)

\* The reply holds the lease as it was before the handler changed anything.
\* A higher term begins the whole lease again that the voter knew of (line 383).
RequestVote(m) ==
  LET n == m.dst
      stale == m.term < currentTerm[n]
      newTerm == m.term > currentTerm[n]
      free == ~stale /\ (newTerm \/ votedFor[n] \in {Nil, m.src})
  IN  /\ m.kind = "RequestVote"
      /\ \E granted \in {FALSE, free} :     \* __is_log_uptodate
           /\ calls' = (calls \ {m}) \cup
                {[kind |-> "Vote", src |-> n, dst |-> m.src, term |-> m.term, left |-> m.left,
                  lease |-> leaseLeft[n], yes |-> granted,
                  replyTerm |-> IF stale THEN currentTerm[n] ELSE -1]}
           /\ currentTerm' = [currentTerm EXCEPT ![n] = Longer(@, m.term)]
           /\ votedFor' = [votedFor EXCEPT ![n] = IF granted THEN m.src
                                                  ELSE IF newTerm THEN Nil ELSE @]
           /\ IF newTerm
              THEN state' = [state EXCEPT ![n] = "FOLLOWER"] /\ UpdateLease(n, leaseInterval[n])
              ELSE UNCHANGED <<state, leaseLeft, leaseInterval>>
           /\ IF newTerm \/ granted THEN UpdateTimer(n, ElectionTimeouts)
                                    ELSE UNCHANGED waitLeft
      /\ UNCHANGED <<votes_received, has_lease, reachability_nodes_cnt, history>>

\* Mistaken variant: a candidate that won heeds the later answers too.
Heeds_Leader(n, m) == state[n] # "FOLLOWER" /\ currentTerm[n] = m.term

\* Otherwise the reply came after a long time.
Heeds(n, m) == state[n] = "CANDIDATE" /\ currentTerm[n] = m.term

\* A candidate heeds every answer of its term, a refusal too.
HandleVote(m) ==
  LET n == m.dst
      known == Longer(m.lease, leaseLeft[n])
      won == 2 * (votes_received[n] + 1) > Cardinality(Node)
  IN  /\ m.kind = "Vote"
      /\ \/ /\ ~Heeds(n, m)
            /\ calls' = calls \ {m}
            /\ UNCHANGED <<election, lease, reachability_nodes_cnt, waitLeft, history>>
         \/ /\ Heeds(n, m) /\ ~m.yes
            /\ calls' = calls \ {m}
            /\ UpdateLease(n, m.lease) /\ IsTold(n, m.lease)
            /\ IF currentTerm[n] < m.replyTerm
               THEN BecomeFollower(n, m.replyTerm) /\ UpdateTimer(n, ElectionTimeouts)
               ELSE UNCHANGED <<state, currentTerm, votedFor, waitLeft>>
            /\ UNCHANGED <<votes_received, has_lease, reachability_nodes_cnt, since>>
         \/ /\ Heeds(n, m) /\ m.yes
            /\ IsTold(n, m.lease)
            /\ votes_received' = [votes_received EXCEPT ![n] = @ + 1]
            /\ UNCHANGED <<currentTerm, votedFor>>
            /\ IF ~won
               THEN /\ UpdateLease(n, m.lease) /\ calls' = calls \ {m}
                    /\ UNCHANGED <<state, has_lease, reachability_nodes_cnt, waitLeft, since>>
               ELSE \* __change_state_to_leader and its __action_on_lease
                    /\ state' = [state EXCEPT ![n] = "LEADER"]
                    /\ since' = [since EXCEPT ![n] = 0]
                    /\ \/ /\ known = 0 /\ AcquireLease(n, calls \ {m})
                       \/ /\ known > 0
                          /\ has_lease' = [has_lease EXCEPT ![n] = FALSE]
                          /\ UpdateLease(n, m.lease) /\ calls' = calls \ {m}
                          /\ UNCHANGED <<reachability_nodes_cnt, waitLeft>>

-----------------------------------------------------------------------------
(***************************************************************************)
(* AppendEntries and its answer                                            *)
(***************************************************************************)

\* Only a CANDIDATE looks at the leader's lease.
AppendEntries(m) ==
  LET n == m.dst
      rejected == currentTerm[n] > m.term
  IN  /\ m.kind = "AppendEntries"
      /\ calls' = (calls \ {m}) \cup
           {[kind |-> "Appended", src |-> n, dst |-> m.src, term |-> m.term, left |-> m.left,
             lease |-> 0, yes |-> ~rejected,
             replyTerm |-> IF rejected THEN currentTerm[n] ELSE -1]}
      /\ IF ~rejected /\ state[n] = "CANDIDATE"
         THEN BecomeFollower(n, m.term) /\ UpdateLease(n, m.lease) /\ IsTold(n, m.lease)
         ELSE UNCHANGED <<state, currentTerm, votedFor, leaseLeft, leaseInterval, told>>
      /\ IF rejected THEN UNCHANGED waitLeft ELSE UpdateTimer(n, ElectionTimeouts)
      /\ UNCHANGED <<votes_received, has_lease, reachability_nodes_cnt, since>>

\* What a leader takes over when it learns of a higher term: lease_access_time,
\* a time of the clock, as if it were a duration.
HigherTermLease == Forever

\* The part of send_append_entries after the call returned.  Every answer counts
\* for the lease, whichever heartbeat it belongs to and whatever it says.
HandleAppended(m) ==
  LET n == m.dst
      reached == reachability_nodes_cnt[n] + 1
      renewed == 2 * reached > Cardinality(Node)
  IN  /\ m.kind = "Appended"
      /\ calls' = calls \ {m}
      /\ UNCHANGED <<votes_received, has_lease, told>>
      /\ \/ /\ state[n] # "LEADER"
            /\ UNCHANGED <<state, currentTerm, votedFor, leaseLeft, leaseInterval,
                           reachability_nodes_cnt, waitLeft, since>>
         \/ /\ state[n] = "LEADER"
            /\ reachability_nodes_cnt' = [reachability_nodes_cnt EXCEPT ![n] = reached]
            /\ since' = [since EXCEPT ![n] = 0]
            /\ IF ~m.yes /\ m.replyTerm > currentTerm[n]
               THEN /\ BecomeFollower(n, m.replyTerm)
                    /\ UpdateTimer(n, ElectionTimeouts)
                    /\ UpdateLease(n, HigherTermLease)
               ELSE /\ UNCHANGED <<state, currentTerm, votedFor, waitLeft>>
                    /\ IF renewed THEN RenewLease(n)
                       ELSE UNCHANGED <<leaseLeft, leaseInterval>>

-----------------------------------------------------------------------------
\* Mistaken variant: without the max(0, ..) of __get_lease_duration.
CountDown_BelowZero(d) == IF d = Forever THEN d ELSE d - 1

\* One tick less, of a lease or (Less) of a wait
CountDown(d) == IF d \in {0, Forever} THEN d ELSE d - 1
Less(d) == IF d = 0 THEN 0 ELSE d - 1

\* What a round of __timer would do.  A node at the bound on terms makes no
\* further election.
Due(n) == IF state[n] = "LEADER" THEN leaseLeft[n] = 0 \/ HeartbeatDue(n)
                                 ELSE TimerDue(n) /\ currentTerm[n] < MaxTerm

Tick ==
  /\ \A n \in Node : ~Due(n)
  /\ leaseLeft' = [n \in Node |-> CountDown(leaseLeft[n])]
  /\ told' = [n \in Node |-> CountDown(told[n])]
  /\ waitLeft' = [n \in Node |-> Less(waitLeft[n])]
  /\ since' = [n \in Node |-> IF since[n] > LEASE_TIMEOUT THEN since[n] ELSE since[n] + 1]
  /\ calls' = {[m EXCEPT !.left = @ - 1] : m \in {c \in calls : c.left > 0}}
  /\ UNCHANGED <<election, has_lease, leaseInterval, reachability_nodes_cnt>>

\* __init__: every node a FOLLOWER that knows of no lease
Init ==
  /\ currentTerm = [n \in Node |-> 0]
  /\ votedFor = [n \in Node |-> Nil]
  /\ state = [n \in Node |-> "FOLLOWER"]
  /\ votes_received = [n \in Node |-> 0]
  /\ has_lease = [n \in Node |-> FALSE]
  /\ leaseLeft = [n \in Node |-> 0]
  /\ leaseInterval = [n \in Node |-> 0]
  /\ reachability_nodes_cnt = [n \in Node |-> 0]
  /\ waitLeft \in [Node -> ElectionTimeouts]
  /\ calls = {}
  /\ told = [n \in Node |-> 0]
  /\ since = [n \in Node |-> 0]

Next ==
  \/ Tick
  \/ \E n \in Node : Timer(n)
  \/ \E m \in calls : RequestVote(m)
  \/ \E m \in calls : HandleVote(m)
  \/ \E m \in calls : AppendEntries(m)
  \/ \E m \in calls : HandleAppended(m)

Spec == Init /\ [][Next]_vars
-----------------------------------------------------------------------------
(***************************************************************************)
(* Properties                                                              *)
(***************************************************************************)

TypeOK ==
  /\ currentTerm \in [Node -> Nat]
  /\ votedFor \in [Node -> Node \cup {Nil}]
  /\ state \in [Node -> {"FOLLOWER", "CANDIDATE", "LEADER"}]
  /\ votes_received \in [Node -> Nat]
  /\ has_lease \in [Node -> BOOLEAN]
  /\ leaseLeft \in [Node -> Duration]
  /\ leaseInterval \in [Node -> Duration]
  /\ reachability_nodes_cnt \in [Node -> Nat]
  /\ waitLeft \in [Node -> Nat]
  /\ calls \subseteq Call
  /\ told \in [Node -> Duration]
  /\ since \in [Node -> Nat]

HoldsLease(n) == state[n] = "LEADER" /\ has_lease[n]

\* A leader acquires a lease only after every lease a voter or another leader
\* told it of is over, in whatever order the answers came (__update_lease).
ToldLeasesAreOver == [][\A n \in Node : ~has_lease[n] /\ has_lease'[n] => told'[n] = 0]_vars

\* Who still takes itself for the lease holder was answered by another node, or
\* began its lease, not longer ago than a lease lasts.
HolderIsHeard ==
  \A n \in Node : HoldsLease(n) => since[n] <= LEASE_TIMEOUT

\* A leader without a lease acquires one before a lease has passed,
\* unless it was told of the lease that never ends.
LeaderAcquires ==
  \A n \in Node : state[n] = "LEADER" /\ ~has_lease[n] /\ leaseLeft[n] < Forever
                    => since[n] <= LEASE_TIMEOUT

\* What line 281 says: who finds no lease left can be sure no one else has it.
OneLeaseHolder == \A a, b \in Node : HoldsLease(a) /\ HoldsLease(b) => a = b
=============================================================================

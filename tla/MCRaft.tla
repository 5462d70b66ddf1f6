------------------------------- MODULE MCRaft -------------------------------
(***************************************************************************)
(* Raft.tla for TLC.  Besides the bounds in the guards of Raft, a behaviour *)
(* has a budget: how many elections, heartbeats, lease expiries, lost      *)
(* calls and restarts it contains.  These bound everything else.           *)
(***************************************************************************)
EXTENDS Raft, TLC

CONSTANT
  Budgets   \* the budgets to begin with

VARIABLE budget

mcvars == <<vars, budget>>

\* assumed: which of the following a behaviour keeps.  "prompt": no call outlives its
\* deadline (PromptStep).  "apart": elections do not overlap.  "serial": a leader's call
\* to a peer is over before the next, a second later.
Budget(nElections, nHeartbeats, nExpiries, nLosses, nRestarts, assumed) ==
  [election |-> nElections, heartbeat |-> nHeartbeats, expiry |-> nExpiries, loss |-> nLosses,
   restart |-> nRestarts, assumed |-> assumed]

\* Overlapping elections with replication over a change of leader, once with a heartbeat
\* and once with an expiry and a lost call; three leaders; one leader with several
\* heartbeats, whose calls overlap; a change of leader with a restart in any state
LogBudgets == {Budget(2, 1, 0, 0, 0, {"prompt"}), Budget(2, 0, 1, 1, 0, {"prompt"}),
               Budget(3, 0, 0, 0, 0, {"prompt", "apart"}),
               Budget(1, 2, 1, 0, 0, {"prompt", "apart"}),
               Budget(2, 0, 1, 1, 1, {"prompt", "apart"})}

\* A call of a deposed leader that is late
LateBudgets == {Budget(2, 1, 0, 0, 0, {"apart"})}

\* With five nodes: the log of a leader reaches one node, which is then elected.
FiveBudgets == {Budget(2, 0, 0, 0, 0, {"apart"})}

\* Two elections that overlap, and one restart
VoteBudgets == {Budget(2, 0, 0, 0, 1, {})}

Spend(b) == budget[b] > 0 /\ budget' = [budget EXCEPT ![b] = @ - 1]

MCInit == Init /\ budget \in Budgets

\* The RequestVote replies that will make a difference to their receiver
HeededVotes ==
  {m \in voteReplies : state[m.dst] = "CANDIDATE" /\ currentTerm[m.dst] = m.term
                          /\ (m.granted \/ m.replyTerm > m.term)}

\* The random waits of 5 to 10 s keep the elections apart: an election begins
\* when the RequestVote calls of the one before are over (4 s).
QuietBefore == "apart" \in budget.assumed => voteReqs = {} /\ HeededVotes = {}

PromptDelivery == "prompt" \in budget.assumed => PromptStep

\* After a step in which n called its peers
SerialCalls(n) ==
  "serial" \in budget.assumed => \A p \in Node \ {n} : Cardinality(OpenSlots(n, p)') <= 1

\* What an answer, or a request for a vote, leads to
MCAnswers ==
  \/ \E m \in voteReqs : HandleRequestVote(m) /\ UNCHANGED budget
  \/ \E m \in voteReplies : HandleVoteReply(m) /\ PromptDelivery /\ SerialCalls(m.dst) /\ UNCHANGED budget
  \/ \E m \in appendReplies : HandleAppendReply(m) /\ UNCHANGED budget

\* What else the nodes do by themselves
MCNodeNext ==
  \/ \E n \in Node : ApplyLogs(n) /\ UNCHANGED budget
  \/ \E n \in Node : AcquireLease(n) /\ SerialCalls(n) /\ UNCHANGED budget
  \/ \E m \in appendReqs : HandleAppendEntries(m) /\ UNCHANGED budget
  \/ \E n \in Node : QuietBefore /\ InitiateElection(n) /\ Spend("election")
  \/ \E n \in Node : Heartbeat(n) /\ SerialCalls(n) /\ Spend("heartbeat")
  \/ \E n \in Node : LeaseExpired(n) /\ Spend("expiry")
  \/ LoseAppendCall /\ Spend("loss")
  \/ \E n \in Node : Restart(n) /\ Spend("restart")

MCNext ==
  \/ \E n \in Node, v \in Value : WriteToRaft(n, v) /\ UNCHANGED budget
  \/ MCAnswers
  \/ MCNodeNext

MCSpec == MCInit /\ [][MCNext]_mcvars

\* The numbers of open calls do not distinguish states, only how many say the same; nor
\* do replies that their receiver will ignore, nor what the stores were given, which no
\* action but ApplyLogs reads.
Counted(M) ==
  {<<[m EXCEPT !.slot = 0], Cardinality({r \in M : [r EXCEPT !.slot = m.slot] = m})>> : m \in M}

HeededAnswers ==
  {m \in appendReplies : state[m.dst] = "LEADER" /\ currentTerm[m.dst] = m.term}

View ==
  <<persistent, state, commitIndex, nextIndex, leaderId, has_lease, timerAlive,
    disk, voteReqs, votes_received, voters, restarts, budget, HeededVotes,
    Counted(appendReqs), Counted(HeededAnswers)>>

NodeSymmetry == Permutations(Node)
=============================================================================

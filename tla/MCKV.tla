-------------------------------- MODULE MCKV --------------------------------
(***************************************************************************)
(* KVStore.tla for TLC, with the budget of MCRaft.  The budget of lost     *)
(* calls is shared by the nodes and the clients.                           *)
(***************************************************************************)
EXTENDS KVStore, MCRaft

\* Two leaders, a write that reaches a majority or not, a client that loses its
\* connection or gives up
KVBudgets == {Budget(2, 1, 1, 0, 0, {"prompt", "apart", "serial"})}

\* The same, and nothing is lost
StaleBudgets == {Budget(2, 1, 0, 0, 0, {"prompt", "apart", "serial"})}

kvmcvars == <<mcvars, kvvars>>

MCKVInit == KVInit /\ budget \in Budgets

\* An election and the answers to AppendEntries take no time here; the calls that
\* carry entries do.
Waiting == voteReqs # {} \/ HeededVotes # {} \/ appendReplies # {}

\* A client begins with a SET, when there is a leader to be found: before, an
\* operation fails or finds nothing.
WritesFirst ==
  \A c \in Client : ops[c] = 0 /\ ops'[c] = 1 => pc'[c] # "get" /\ \E n \in Node : Accepts(n)

MCKVNext ==
  \/ MCAnswers /\ UNCHANGED kvvars
  \/ ~Waiting /\ MCNodeNext /\ UNCHANGED kvvars
  \/ ~Waiting /\ ServiceNext /\ WritesFirst /\ UNCHANGED budget
  \/ ~Waiting /\ ServiceFails /\ Spend("expiry")

MCKVSpec == MCKVInit /\ [][MCKVNext]_kvmcvars

KVView == <<View, applied, kvvars>>
=============================================================================

-------------------------------- MODULE Raft --------------------------------
(***************************************************************************)
(* The replicated log of assignment-2/raft.py: elections, log replication, *)
(* commitment, application, the persistent files and node restarts.        *)
(*                                                                         *)
(* Every handler of raft.py runs under self.mutex from its first to its    *)
(* last read of the node's state, so one handler is one action.  Time is   *)
(* abstracted: a timer that may have expired is an action that may happen. *)
(* The lease is the flag has_lease and the two steps that set and clear    *)
(* it; its clock arithmetic is outside this module.                        *)
(*                                                                         *)
(* Log positions are those of TLA+ sequences.  nextIndex, commitIndex and  *)
(* conflictIndex are lengths, as in the code; prevLogIndex is one more     *)
(* than in the code, where "no entry" is -1.                               *)
(***************************************************************************)
EXTENDS Integers, FiniteSets, Sequences

CONSTANTS
  Node,        \* the peers of config.yaml
  Nil,         \* the code's -1 for votedFor, leaderId and "no term"
  Value,       \* what clients write: a SET command
  MaxTerm,     \* bound: no election beyond this term
  MaxLog,      \* bound: no append to a log of this length
  MaxRestarts  \* bound: restarts of one node

ASSUME NodeAssumption == IsFiniteSet(Node) /\ Cardinality(Node) > 1 /\ Nil \notin Node
ASSUME BoundAssumption == /\ MaxTerm \in Nat
                          /\ MaxLog \in Nat
                          /\ MaxRestarts \in Nat

NOOP == "NO-OP"

VARIABLES
  currentTerm, votedFor, logs,          \* "Persistent states on server"
  state, commitIndex, applied,          \* lastApplied = Len(applied)
  nextIndex, votes_received, leaderId, has_lease,
  timerAlive,                           \* no exception has ended the timer thread
  disk,                                 \* the two files of __persist
  voteReqs, voteReplies,                \* RequestVote calls in flight
  appendReqs, appendReplies,            \* AppendEntries calls in flight
  voters,                               \* history: whose grants were counted
  restarts                              \* how often a node restarted (bound)

persistent == <<currentTerm, votedFor, logs>>
elections  == <<voteReqs, voteReplies, votes_received, voters>>
calls      == <<appendReqs, appendReplies>>
vars == <<persistent, state, commitIndex, applied, nextIndex, leaderId, has_lease,
          timerAlive, disk, elections, calls, restarts>>

Entry == [term: Nat, cmd: Value \cup {NOOP}]

\* The metadata file and the log file
FileType == [currentTerm: Nat, votedFor: Node \cup {Nil}, commitIndex: Nat, logs: Seq(Entry)]

VoteReq   == [src: Node, dst: Node, term: Nat, lastLogIndex: Nat, lastLogTerm: Nat \cup {-1}]
VoteReply == [src: Node, dst: Node, term: Nat, granted: BOOLEAN, replyTerm: Nat \cup {-1}]

\* A slot is the number of one AppendEntries call among those a leader has open to
\* a peer: two calls that carry the same are two calls.
AppendReq   == [src: Node, dst: Node, slot: Nat, term: Nat, prevLogIndex: Nat,
                prevLogTerm: Nat \cup {-1}, entries: Seq(Entry), leaderCommit: Nat]
AppendReply == [src: Node, dst: Node, slot: Nat, term: Nat, count: Nat,
                success: BOOLEAN, replyTerm: Nat, conflictIndex: Nat \cup {-1}]

-----------------------------------------------------------------------------
\* Helpers

Majority(S) == 2 * Cardinality(S) > Cardinality(Node)

LastTerm(log) == IF log = <<>> THEN -1 ELSE log[Len(log)].term

\* Mistaken variant: the index of the last entry is not compared.
IsLogUptodate_TermOnly(n, lastLogIndex, lastLogTerm) == lastLogTerm >= LastTerm(logs[n])

\* __is_log_uptodate, for the last entry of a candidate
IsLogUptodate(n, lastLogIndex, lastLogTerm) ==
  \/ lastLogTerm > LastTerm(logs[n])
  \/ lastLogTerm = LastTerm(logs[n]) /\ lastLogIndex >= Len(logs[n])

\* Mistaken variant: called before the handler's assignments.
Persist_TooEarly(n) ==
  disk' = [disk EXCEPT ![n] =
             [currentTerm |-> currentTerm[n], votedFor |-> votedFor'[n],
              commitIndex |-> commitIndex'[n],
              logs |-> IF logs'[n] = <<>> THEN @.logs ELSE logs'[n]]]

\* Mistaken variant: the log file is written only when it grows.
Persist_GrownLog(n) ==
  disk' = [disk EXCEPT ![n] =
             [currentTerm |-> currentTerm'[n], votedFor |-> votedFor'[n],
              commitIndex |-> commitIndex'[n],
              logs |-> IF Len(logs'[n]) <= Len(@.logs) THEN @.logs ELSE logs'[n]]]

\* __persist, the last call of a handler that changes persistent state: the
\* log file is left alone when the log is empty.
Persist(n) ==
  disk' = [disk EXCEPT ![n] =
             [currentTerm |-> currentTerm'[n], votedFor |-> votedFor'[n],
              commitIndex |-> commitIndex'[n],
              logs |-> IF logs'[n] = <<>> THEN @.logs ELSE logs'[n]]]

\* Mistaken variant: the node goes on naming the leader it knew.
BecomeFollower_KeepLeader(n, term) ==
  /\ state' = [state EXCEPT ![n] = "FOLLOWER"]
  /\ currentTerm' = [currentTerm EXCEPT ![n] = term]
  /\ votedFor' = [votedFor EXCEPT ![n] = Nil]
  /\ UNCHANGED leaderId

\* __change_state_to_follower without its __persist
BecomeFollower(n, term) ==
  /\ state' = [state EXCEPT ![n] = "FOLLOWER"]
  /\ currentTerm' = [currentTerm EXCEPT ![n] = term]
  /\ votedFor' = [votedFor EXCEPT ![n] = Nil]
  /\ leaderId' = [leaderId EXCEPT ![n] = Nil]

ChangeStateToFollower(n, term) ==
  /\ BecomeFollower(n, term)
  /\ UNCHANGED <<logs, commitIndex>>
  /\ Persist(n)

\* __append_entry; its callers add the entry to their own nextIndex.
AppendEntry(n, cmd) ==
  /\ logs' = [logs EXCEPT ![n] = Append(@, [term |-> currentTerm[n], cmd |-> cmd])]
  /\ UNCHANGED <<currentTerm, votedFor, commitIndex>>
  /\ Persist(n)

\* The calls of n to p that are under way: in the executor's queue, sent, handled, or
\* answered and not yet looked at.
OpenSlots(n, p) ==
  {m.slot : m \in {r \in appendReqs : r.src = n /\ r.dst = p}} \cup
  {m.slot : m \in {r \in appendReplies : r.dst = n /\ r.src = p}}

\* executor.submit: whatever is under way, there is one call more.
FreeSlot(n, p) ==
  CHOOSE s \in 0..Cardinality(OpenSlots(n, p)) : s \notin OpenSlots(n, p)

\* What __send_heartbeat sends to peer p: everything from nextIndex on.
AppendCall(n, p, slot, log, next) ==
  [src |-> n, dst |-> p, slot |-> slot, term |-> currentTerm[n],
   prevLogIndex |-> next, prevLogTerm |-> IF next = 0 THEN -1 ELSE log[next].term,
   entries |-> SubSeq(log, next + 1, Len(log)), leaderCommit |-> commitIndex[n]]

\* A call to each peer in P
SendAppendEntries(n, P, log, next) ==
  /\ appendReqs' = appendReqs \cup {AppendCall(n, p, FreeSlot(n, p), log, next[p]) : p \in P}
  /\ UNCHANGED appendReplies

\* __send_heartbeat.  When self.logs[prevIndex] is out of range for a peer, the
\* IndexError ends the timer thread after the calls to the peers before that
\* one, which are any of the others since Node has no order.
SendHeartbeat(n, log, next) ==
  LET inRange == {p \in Node \ {n} : next[p] <= Len(log)}
  IN  \/ /\ inRange = Node \ {n}
         /\ SendAppendEntries(n, inRange, log, next)
         /\ UNCHANGED timerAlive
      \/ /\ inRange # Node \ {n}
         /\ \E P \in SUBSET inRange : SendAppendEntries(n, P, log, next)
         /\ timerAlive' = [timerAlive EXCEPT ![n] = FALSE]

\* __acquire_lease: the NO-OP of the new term, then the first heartbeat.
AcquireLeaseAs(n, next) ==
  /\ Len(logs[n]) < MaxLog
  /\ has_lease' = [has_lease EXCEPT ![n] = TRUE]
  /\ AppendEntry(n, NOOP)
  /\ nextIndex' = [nextIndex EXCEPT ![n] = [next EXCEPT ![n] = @ + 1]]
  /\ SendHeartbeat(n, logs'[n], next)

-----------------------------------------------------------------------------
(***************************************************************************)
(* The client's write and the apply thread                                 *)
(***************************************************************************)

\* write_to_raft on a leader that has the lease; it refuses otherwise.
WriteToRaft(n, v) ==
  /\ state[n] = "LEADER" /\ has_lease[n]
  /\ Len(logs[n]) < MaxLog
  /\ AppendEntry(n, v)
  /\ nextIndex' = [nextIndex EXCEPT ![n][n] = @ + 1]
  /\ UNCHANGED <<state, applied, leaderId, has_lease, timerAlive, elections, calls, restarts>>

\* One round of __apply_logs: logs[lastApplied : commitIndex] as Python slices,
\* which stop at the end of a shorter log.
ApplyLogs(n) ==
  LET end == IF commitIndex[n] <= Len(logs[n]) THEN commitIndex[n] ELSE Len(logs[n])
  IN  /\ Len(applied[n]) < end
      /\ applied' = [applied EXCEPT ![n] = @ \o SubSeq(logs[n], Len(@) + 1, end)]
      /\ UNCHANGED <<persistent, state, commitIndex, nextIndex, leaderId, has_lease,
                     timerAlive, disk, elections, calls, restarts>>

-----------------------------------------------------------------------------
(***************************************************************************)
(* Elections                                                               *)
(***************************************************************************)

\* __initiate_election, from the timer thread of a node that is not the leader
InitiateElection(n) ==
  /\ timerAlive[n] /\ state[n] # "LEADER"
  /\ currentTerm[n] < MaxTerm
  /\ state' = [state EXCEPT ![n] = "CANDIDATE"]
  /\ currentTerm' = [currentTerm EXCEPT ![n] = @ + 1]
  /\ votedFor' = [votedFor EXCEPT ![n] = n]
  /\ votes_received' = [votes_received EXCEPT ![n] = 1]
  /\ voters' = [voters EXCEPT ![n] = {n}]
  /\ leaderId' = [leaderId EXCEPT ![n] = Nil]
  /\ UNCHANGED <<logs, commitIndex>>
  /\ Persist(n)
  /\ voteReqs' = voteReqs \cup
       {[src |-> n, dst |-> p, term |-> currentTerm[n] + 1, lastLogIndex |-> Len(logs[n]),
         lastLogTerm |-> LastTerm(logs[n])] : p \in Node \ {n}}
  /\ UNCHANGED <<applied, nextIndex, has_lease, timerAlive, voteReplies, calls, restarts>>

\* Mistaken variant: the vote already given in this term is not looked at.
Grants_Twice(n, m) ==
  m.term >= currentTerm[n] /\ IsLogUptodate(n, m.lastLogIndex, m.lastLogTerm)

\* Mistaken variant: a voter who knows no leader counts as one who did not vote.
Grants_Leaderless(n, m) ==
  /\ m.term >= currentTerm[n]
  /\ m.term > currentTerm[n] \/ (leaderId[n] = Nil /\ state[n] = "FOLLOWER")
  /\ IsLogUptodate(n, m.lastLogIndex, m.lastLogTerm)

\* Mistaken variant: the logs are not compared.
Grants_AnyLog(n, m) ==
  /\ m.term >= currentTerm[n]
  /\ m.term > currentTerm[n] \/ votedFor[n] \in {Nil, m.src}

\* A newer term frees the vote before it is asked for.
Grants(n, m) ==
  /\ m.term >= currentTerm[n]
  /\ m.term > currentTerm[n] \/ votedFor[n] \in {Nil, m.src}
  /\ IsLogUptodate(n, m.lastLogIndex, m.lastLogTerm)

\* RequestVote.  Only a refusal of a lower term carries the voter's term.
HandleRequestVote(m) ==
  LET n == m.dst
      stale == m.term < currentTerm[n]
      newTerm == m.term > currentTerm[n]
      granted == Grants(n, m)
  IN  /\ voteReqs' = voteReqs \ {m}
      /\ voteReplies' = voteReplies \cup
           {[src |-> n, dst |-> m.src, term |-> m.term, granted |-> granted,
             replyTerm |-> IF stale THEN currentTerm[n] ELSE -1]}
      /\ IF newTerm
         THEN /\ state' = [state EXCEPT ![n] = "FOLLOWER"]
              /\ leaderId' = [leaderId EXCEPT ![n] = Nil]
         ELSE UNCHANGED <<state, leaderId>>
      /\ IF newTerm \/ granted
         THEN /\ currentTerm' = [currentTerm EXCEPT ![n] = m.term]
              /\ votedFor' = [votedFor EXCEPT ![n] = IF granted THEN m.src ELSE Nil]
              /\ UNCHANGED <<logs, commitIndex>>
              /\ Persist(n)
         ELSE UNCHANGED <<persistent, commitIndex, disk>>
      /\ UNCHANGED <<applied, nextIndex, has_lease, timerAlive, votes_received, voters,
                     calls, restarts>>

\* The part of __send_request_vote after the call returned, and
\* __change_state_to_leader, which acquires the lease in the same step when no
\* lease the new leader knows of is left.
HandleVoteReply(m) ==
  LET n == m.dst
      won == 2 * (votes_received[n] + 1) > Cardinality(Node)
      next == [p \in Node |-> Len(logs[n])]
  IN  /\ voteReplies' = voteReplies \ {m}
      /\ UNCHANGED <<applied, voteReqs, restarts>>
      /\ \/ /\ state[n] # "CANDIDATE" \/ currentTerm[n] # m.term
            /\ UNCHANGED <<persistent, state, commitIndex, nextIndex, leaderId, has_lease,
                           timerAlive, disk, votes_received, voters, calls>>
         \/ /\ state[n] = "CANDIDATE" /\ currentTerm[n] = m.term /\ ~m.granted
            /\ IF currentTerm[n] < m.replyTerm
               THEN ChangeStateToFollower(n, m.replyTerm)
               ELSE UNCHANGED <<persistent, state, commitIndex, leaderId, disk>>
            /\ UNCHANGED <<nextIndex, has_lease, timerAlive, votes_received, voters, calls>>
         \/ /\ state[n] = "CANDIDATE" /\ currentTerm[n] = m.term /\ m.granted
            /\ votes_received' = [votes_received EXCEPT ![n] = @ + 1]
            /\ voters' = [voters EXCEPT ![n] = @ \cup {m.src}]
            /\ IF won
               THEN /\ state' = [state EXCEPT ![n] = "LEADER"]
                    /\ leaderId' = [leaderId EXCEPT ![n] = n]
                    /\ \/ AcquireLeaseAs(n, next)
                       \/ /\ has_lease' = [has_lease EXCEPT ![n] = FALSE]
                          /\ nextIndex' = [nextIndex EXCEPT ![n] = next]
                          /\ UNCHANGED <<persistent, commitIndex, timerAlive, disk, calls>>
               ELSE UNCHANGED <<persistent, state, commitIndex, nextIndex, leaderId,
                                has_lease, timerAlive, disk, calls>>

-----------------------------------------------------------------------------
(***************************************************************************)
(* The leader's timer thread: __action_on_lease and __send_heartbeat       *)
(***************************************************************************)

\* A leader whose lease ran out steps down, in its own term.
LeaseExpired(n) ==
  /\ timerAlive[n] /\ state[n] = "LEADER" /\ has_lease[n]
  /\ has_lease' = [has_lease EXCEPT ![n] = FALSE]
  /\ ChangeStateToFollower(n, currentTerm[n])
  /\ UNCHANGED <<applied, nextIndex, timerAlive, elections, calls, restarts>>

\* A leader without a lease acquires it once the old one ran out.
AcquireLease(n) ==
  /\ timerAlive[n] /\ state[n] = "LEADER" /\ ~has_lease[n]
  /\ AcquireLeaseAs(n, nextIndex[n])
  /\ UNCHANGED <<state, applied, leaderId, elections, restarts>>

Heartbeat(n) ==
  /\ timerAlive[n] /\ state[n] = "LEADER" /\ has_lease[n]
  /\ SendHeartbeat(n, logs[n], nextIndex[n])
  /\ UNCHANGED <<persistent, state, commitIndex, applied, nextIndex, leaderId, has_lease,
                 disk, elections, restarts>>

-----------------------------------------------------------------------------
(***************************************************************************)
(* AppendEntries                                                           *)
(***************************************************************************)

\* Mistaken variant: one entry too far.
RunStart_TooFar(log, i) ==
  Cardinality({j \in 1..i : \E k \in j..i : log[k].term # log[i].term}) - 1

\* The number of entries before the run of equal terms that ends at index i:
\* the conflictIndex loop.
RunStart(log, i) ==
  Cardinality({j \in 1..i : \E k \in j..i : log[k].term # log[i].term})

\* The entry before the call's entries is of another term.
Mismatch(log, m) == m.prevLogIndex > 0 /\ log[m.prevLogIndex].term # m.prevLogTerm

\* AppendEntries.  The follower's term is compared but not raised, only a
\* CANDIDATE changes state, and an accepted call cuts the log after its entries.
HandleAppendEntries(m) ==
  LET n == m.dst
      log == logs[n]
      rejected == currentTerm[n] > m.term
      missing == m.prevLogIndex > Len(log)
      conflict == ~missing /\ Mismatch(log, m)
      accepted == ~rejected /\ ~missing /\ ~conflict
      newLog == SubSeq(log, 1, m.prevLogIndex) \o m.entries
      cut == m.prevLogIndex # Len(log)
      newCommit == IF m.leaderCommit <= commitIndex[n] THEN commitIndex[n]
                   ELSE IF m.leaderCommit <= Len(newLog) THEN m.leaderCommit ELSE Len(newLog)
      reply == [src |-> n, dst |-> m.src, slot |-> m.slot, term |-> m.term,
                count |-> Len(m.entries), success |-> accepted,
                replyTerm |-> currentTerm[n],
                conflictIndex |-> IF rejected \/ accepted THEN -1
                                  ELSE IF missing THEN Len(log)
                                  ELSE RunStart(log, m.prevLogIndex)]
  IN  /\ appendReqs' = appendReqs \ {m}
      /\ appendReplies' = appendReplies \cup {reply}
      /\ IF rejected THEN UNCHANGED <<state, currentTerm, votedFor, leaderId>>
         ELSE /\ leaderId' = [leaderId EXCEPT ![n] = m.src]
              /\ IF state[n] = "CANDIDATE"
                 THEN /\ state' = [state EXCEPT ![n] = "FOLLOWER"]
                      /\ currentTerm' = [currentTerm EXCEPT ![n] = m.term]
                      /\ votedFor' = [votedFor EXCEPT ![n] = Nil]
                 ELSE UNCHANGED <<state, currentTerm, votedFor>>
      /\ IF accepted
         THEN /\ logs' = [logs EXCEPT ![n] = newLog]
              /\ commitIndex' = [commitIndex EXCEPT ![n] = newCommit]
         ELSE UNCHANGED <<logs, commitIndex>>
      /\ IF \/ ~rejected /\ state[n] = "CANDIDATE"
            \/ accepted /\ (cut \/ m.entries # <<>> \/ newCommit # commitIndex[n])
         THEN Persist(n)
         ELSE UNCHANGED disk
      /\ UNCHANGED <<applied, nextIndex, has_lease, timerAlive, elections, restarts>>

\* The commit rule of send_append_entries: the largest value above commitIndex
\* that more than half of nextIndex is equal to.
Committable(n, next) ==
  {i \in {next[p] : p \in Node} : i > commitIndex[n] /\ Majority({p \in Node : next[p] = i})}

\* The part of send_append_entries after the call returned.  Its deadline of
\* 0.9 s is over before the sender can lead a later term (5 s at least), so a
\* leader only sees answers to calls of its own term.
HandleAppendReply(m) ==
  LET n == m.dst
      open == state[n] = "LEADER" /\ currentTerm[n] = m.term
      next == [nextIndex[n] EXCEPT ![m.src] = @ + m.count]
  IN  /\ appendReplies' = appendReplies \ {m}
      /\ UNCHANGED <<applied, has_lease, timerAlive, elections, appendReqs, restarts>>
      /\ \/ /\ ~open
            /\ UNCHANGED <<persistent, state, commitIndex, nextIndex, leaderId, disk>>
         \/ /\ open /\ m.success
            /\ nextIndex' = [nextIndex EXCEPT ![n] = next]
            /\ UNCHANGED <<persistent, state, leaderId>>
            /\ \/ /\ Committable(n, next) = {}
                  /\ UNCHANGED <<commitIndex, disk>>
               \/ \E i \in Committable(n, next) :
                    /\ \A j \in Committable(n, next) : j <= i
                    /\ commitIndex' = [commitIndex EXCEPT ![n] = i]
                    /\ Persist(n)
         \/ /\ open /\ ~m.success /\ m.replyTerm > currentTerm[n]
            /\ ChangeStateToFollower(n, m.replyTerm)
            /\ UNCHANGED nextIndex
         \/ /\ open /\ ~m.success /\ m.replyTerm <= currentTerm[n]
            /\ nextIndex' = [nextIndex EXCEPT ![n][m.src] = m.conflictIndex]
            /\ UNCHANGED <<persistent, state, commitIndex, leaderId, disk>>

\* A call ends without an answer: UNAVAILABLE or DEADLINE_EXCEEDED, with its
\* request lost or already handled.
LoseAppendCall ==
  /\ \/ /\ \E m \in appendReqs : appendReqs' = appendReqs \ {m}
        /\ UNCHANGED appendReplies
     \/ /\ \E m \in appendReplies : appendReplies' = appendReplies \ {m}
        /\ UNCHANGED appendReqs
  /\ UNCHANGED <<persistent, state, commitIndex, applied, nextIndex, leaderId, has_lease,
                 timerAlive, disk, elections, restarts>>

-----------------------------------------------------------------------------
(***************************************************************************)
(* Stop and restart: __init__ reads the files back (__replay) and calls    *)
(* __change_state_to_follower, which forgets the vote.  The key-value      *)
(* store starts empty and is filled again from the log.                    *)
(***************************************************************************)
Restart(n) ==
  /\ restarts[n] < MaxRestarts
  /\ restarts' = [restarts EXCEPT ![n] = @ + 1]
  /\ logs' = [logs EXCEPT ![n] = disk[n].logs]
  /\ commitIndex' = [commitIndex EXCEPT ![n] = disk[n].commitIndex]
  /\ BecomeFollower(n, disk[n].currentTerm)
  /\ Persist(n)
  /\ applied' = [applied EXCEPT ![n] = <<>>]
  /\ nextIndex' = [nextIndex EXCEPT ![n] = [p \in Node |-> 0]]
  /\ has_lease' = [has_lease EXCEPT ![n] = FALSE]
  /\ timerAlive' = [timerAlive EXCEPT ![n] = TRUE]
  /\ votes_received' = [votes_received EXCEPT ![n] = 0]
  /\ voters' = [voters EXCEPT ![n] = {}]
  /\ voteReplies' = {r \in voteReplies : r.dst # n}
  /\ appendReplies' = {r \in appendReplies : r.dst # n}
  /\ UNCHANGED <<voteReqs, appendReqs>>

\* The first start of every node, with empty files
Init ==
  /\ currentTerm = [n \in Node |-> 0]
  /\ votedFor = [n \in Node |-> Nil]
  /\ logs = [n \in Node |-> <<>>]
  /\ state = [n \in Node |-> "FOLLOWER"]
  /\ commitIndex = [n \in Node |-> 0]
  /\ applied = [n \in Node |-> <<>>]
  /\ nextIndex = [n \in Node |-> [p \in Node |-> 0]]
  /\ votes_received = [n \in Node |-> 0]
  /\ leaderId = [n \in Node |-> Nil]
  /\ has_lease = [n \in Node |-> FALSE]
  /\ timerAlive = [n \in Node |-> TRUE]
  /\ disk = [n \in Node |-> [currentTerm |-> 0, votedFor |-> Nil, commitIndex |-> 0,
                             logs |-> <<>>]]
  /\ voteReqs = {} /\ voteReplies = {} /\ appendReqs = {} /\ appendReplies = {}
  /\ voters = [n \in Node |-> {}]
  /\ restarts = [n \in Node |-> 0]

\* Everything but restarts
Next ==
  \/ \E n \in Node, v \in Value : WriteToRaft(n, v)
  \/ \E n \in Node : ApplyLogs(n)
  \/ \E n \in Node : InitiateElection(n)
  \/ \E m \in voteReqs : HandleRequestVote(m)
  \/ \E m \in voteReplies : HandleVoteReply(m)
  \/ \E n \in Node : LeaseExpired(n)
  \/ \E n \in Node : AcquireLease(n)
  \/ \E n \in Node : Heartbeat(n)
  \/ \E m \in appendReqs : HandleAppendEntries(m)
  \/ \E m \in appendReplies : HandleAppendReply(m)
  \/ LoseAppendCall

Spec == Init /\ [][Next]_vars

NextRestart == Next \/ \E n \in Node : Restart(n)

SpecRestart == Init /\ [][NextRestart]_vars

\* An assumption about behaviours, not about code: a call of another leader is no longer
\* on its way when a node wins an election.  The deadline of 0.9 s against an election
\* timeout of 5 s makes it likely, but a deadline is the caller's; nothing keeps a handler
\* from running after it.  What is claimed only under this assumption says so.
PromptStep ==
  \A n \in Node : state[n] # "LEADER" /\ state'[n] = "LEADER" => \A m \in appendReqs' : m.src = n

\* A node has gone on to a later term than n's.
Overtaken(n) == \E p \in Node : currentTerm[p] > currentTerm[n]

-----------------------------------------------------------------------------
(***************************************************************************)
(* Properties                                                              *)
(***************************************************************************)

IsPrefixOf(s, t) == Len(s) <= Len(t) /\ SubSeq(t, 1, Len(s)) = s

\* Log s is at least as up to date as log t, in the order of votes.
IsUpToDate(s, t) ==
  LastTerm(s) > LastTerm(t) \/ (LastTerm(s) = LastTerm(t) /\ Len(s) >= Len(t))

\* What n counts as committed and still has.  A commitIndex beyond the log
\* commits the whole log, as the slices of raft.py do.
Committed(n) == SubSeq(logs[n], 1, IF commitIndex[n] <= Len(logs[n]) THEN commitIndex[n]
                                                                   ELSE Len(logs[n]))

\* The values of the state of __init__ and of the messages of raft.proto
TypeOK ==
  /\ currentTerm \in [Node -> Nat]
  /\ votedFor \in [Node -> Node \cup {Nil}]
  /\ logs \in [Node -> Seq(Entry)]
  /\ state \in [Node -> {"FOLLOWER", "CANDIDATE", "LEADER"}]
  /\ commitIndex \in [Node -> Nat]
  /\ applied \in [Node -> Seq(Entry)]
  /\ nextIndex \in [Node -> [Node -> Nat]]
  /\ votes_received \in [Node -> Nat]
  /\ leaderId \in [Node -> Node \cup {Nil}]
  /\ has_lease \in [Node -> BOOLEAN]
  /\ timerAlive \in [Node -> BOOLEAN]
  /\ disk \in [Node -> FileType]
  /\ voteReqs \subseteq VoteReq
  /\ voteReplies \subseteq VoteReply
  /\ appendReqs \subseteq AppendReq
  /\ appendReplies \subseteq AppendReply
  /\ voters \in [Node -> SUBSET Node]
  /\ restarts \in [Node -> Nat]

\* At no time do two nodes lead the same term, however RequestVote and
\* AppendEntries calls are delayed, lost or reordered (__send_request_vote).
OneLeaderPerTerm ==
  \A a, b \in Node : state[a] = "LEADER" /\ state[b] = "LEADER"
                       /\ currentTerm[a] = currentTerm[b] => a = b

\* Whoever granted a vote that a candidate or leader counted still stands by
\* it, or has gone on to a later term (RequestVote, __change_state_to_follower).  A
\* restart forgets the vote.
VotesStand ==
  \A n \in Node : state[n] # "FOLLOWER" =>
    \A p \in voters[n] :
      votedFor[p] = n \/ currentTerm[p] > currentTerm[n] \/ restarts[p] > 0

\* Between two handlers the files hold what the node would lose by stopping:
\* no handler that changes the term, the vote, the log or the commit index
\* returns without __persist.
DiskMatchesMemory ==
  \A n \in Node : disk[n] = [currentTerm |-> currentTerm[n], votedFor |-> votedFor[n],
                             commitIndex |-> commitIndex[n], logs |-> logs[n]]

\* A term never goes back, over restarts included (__replay, __persist).
TermNeverDecreases == [][\A n \in Node : currentTerm'[n] >= currentTerm[n]]_vars

\* Whoever follows the leader that a node names (client.get, over and over) comes
\* to a leader or to a node that knows of none, not back to where it began.
NoRedirectLoop ==
  \A S \in SUBSET {n \in Node : state[n] # "LEADER"} :
    S # {} => \E n \in S : leaderId[n] \notin S

\* A leader that no node has overtaken only appends to its log: AppendEntries does not
\* ask for the receiver's role, so a call of the same term would cut it.
LeaderKeepsLog ==
  [][\A n \in Node : state[n] = "LEADER" /\ ~Overtaken(n) =>
       IsPrefixOf(logs[n], logs'[n])]_vars

\* A leader that no node has overtaken has every entry of its term that any log has, at
\* the same place, whether it wrote the entry or a node that led the term before it: a
\* leader whose lease expired forgets its vote and keeps its term.
NewestTermAgrees ==
  \A l \in Node : state[l] = "LEADER" /\ ~Overtaken(l) =>
    \A p \in Node : \A i \in 1..Len(logs[p]) :
      logs[p][i].term = currentTerm[l] => i <= Len(logs[l]) /\ logs[l][i] = logs[p][i]

\* Whoever wins an election has a log as up to date as the one each of its voters has by
\* then, but for entries of the election's term or a later one: the voter compared the
\* logs when it granted the vote, and went on taking entries since.
WinnerUpToDate ==
  [][\A n \in Node : state[n] # "LEADER" /\ state'[n] = "LEADER" =>
       \A v \in voters'[n] : \/ IsUpToDate(logs[n], logs[v])
                             \/ LastTerm(logs[v]) >= currentTerm[n]]_vars

\* What two stores were given by __apply_logs never differs, one is only ahead.
StateMachineSafety ==
  \A a, b \in Node : IsPrefixOf(applied[a], applied[b]) \/ IsPrefixOf(applied[b], applied[a])

\* A node never cuts a committed entry off its log: "the log that are being cut are not
\* committed yet" (AppendEntries).
CommittedNeverCut == [][\A n \in Node : IsPrefixOf(Committed(n), logs'[n])]_vars

\* What a leader newly commits is at that moment in the logs of a majority
\* (the count of nextIndex values in send_append_entries).
CommitOnMajority ==
  [][\A n \in Node : state[n] = "LEADER" /\ commitIndex'[n] > commitIndex[n] =>
       /\ commitIndex'[n] <= Len(logs'[n])
       /\ Majority({p \in Node : IsPrefixOf(SubSeq(logs'[n], 1, commitIndex'[n]), logs'[p])})]_vars
=============================================================================

-------------------------- MODULE RaftLog_proofs --------------------------
(***************************************************************************)
(* Proofs about the logs of Raft.tla, for every number of nodes, every     *)
(* bound, any number of AppendEntries calls under way and any restarts:    *)
(* who wins an election has a log as up to date as its voters'.            *)
(*                                                                         *)
(* The comparison is made when the vote is granted, and the voter's log    *)
(* goes on changing until the candidate counts the vote.  The invariant is *)
(* OrderInv.  Its core is VotesOrdered, and CallsEndNew is why a voter's   *)
(* log can only change into one that ends in the candidate's term or a     *)
(* later one: whatever call a node still takes is of its own term or a     *)
(* later one, and brings the whole log of a leader with a lease, which     *)
(* ends with the NO-OP of its term or what was written after it.           *)
(***************************************************************************)
EXTENDS Raft_proofs

-----------------------------------------------------------------------------
\* k appends an entry of its term, which it leads.
Grew(k) ==
  /\ state'[k] = "LEADER" /\ currentTerm'[k] = currentTerm[k]
  /\ Len(logs'[k]) = Len(logs[k]) + 1
  /\ \A i \in 1..Len(logs[k]) : logs'[k][i] = logs[k][i]
  /\ logs'[k][Len(logs[k]) + 1].term = currentTerm[k]
  /\ \A p \in Node \ {k} : logs'[p] = logs[p]

\* The term of a call is not behind its receiver's: it will not be rejected for it.
Live(m) == currentTerm[m.dst] <= m.term

\* The length of the sender's log that a call brings to its receiver
Reach(m) == m.prevLogIndex + Len(m.entries)

\* The receiver of m takes its entries.
Takes(m) ==
  /\ Live(m) /\ Answers(m)
  /\ m.prevLogIndex <= Len(logs[m.dst])
  /\ m.prevLogIndex > 0 => logs[m.dst][m.prevLogIndex].term = m.prevLogTerm
  /\ Len(logs'[m.dst]) = Reach(m)
  /\ \A i \in 1..m.prevLogIndex : logs'[m.dst][i] = logs[m.dst][i]
  /\ \A i \in 1..Len(m.entries) : logs'[m.dst][m.prevLogIndex + i] = m.entries[i]
  /\ \A p \in Node \ {m.dst} : logs'[p] = logs[p]
  /\ state'[m.dst] # "CANDIDATE" /\ \A p \in Node : state'[p] = "LEADER" => state[p] = "LEADER"

LEMMA AppendGrows ==
  ASSUME TypeOK, NEW k \in Node, NEW cmd \in Value \cup {NOOP}, AppendEntry(k, cmd),
         state'[k] = "LEADER"
  PROVE  Grew(k)
<1>1. [term |-> currentTerm[k], cmd |-> cmd] \in Entry
  BY DEF TypeOK, Entry
<1>2. logs \in [Node -> Seq(Entry)] /\ logs[k] \in Seq(Entry)
  BY DEF TypeOK
<1>3. logs' = [logs EXCEPT ![k] = Append(logs[k], [term |-> currentTerm[k], cmd |-> cmd])]
      /\ currentTerm' = currentTerm
  BY DEF AppendEntry
<1>4. logs'[k] = Append(logs[k], [term |-> currentTerm[k], cmd |-> cmd])
  BY <1>2, <1>3
<1>5. /\ Len(logs'[k]) = Len(logs[k]) + 1
      /\ \A i \in 1..Len(logs[k]) : logs'[k][i] = logs[k][i]
      /\ logs'[k][Len(logs[k]) + 1] = [term |-> currentTerm[k], cmd |-> cmd]
  BY <1>1, <1>2, <1>4, AppendProperties
<1>6. \A p \in Node \ {k} : logs'[p] = logs[p]
  BY <1>2, <1>3
<1>. QED
  BY <1>3, <1>5, <1>6 DEF Grew

LEMMA AppendEntriesLog ==
  ASSUME TypeOK, NEW m \in appendReqs, HandleAppendEntries(m)
  PROVE  logs' = logs \/ Takes(m)
<1> DEFINE log == logs[m.dst]
           rejected == currentTerm[m.dst] > m.term
           missing == m.prevLogIndex > Len(log)
           accepted == ~rejected /\ ~missing /\ ~(~missing /\ Mismatch(log, m))
           newLog == SubSeq(log, 1, m.prevLogIndex) \o m.entries
<1>1. /\ m.dst \in Node /\ m.prevLogIndex \in Nat /\ m.entries \in Seq(Entry) /\ m.term \in Nat
      /\ logs \in [Node -> Seq(Entry)] /\ log \in Seq(Entry) /\ Len(log) \in Nat
      /\ Len(m.entries) \in Nat /\ currentTerm[m.dst] \in Nat
      /\ state \in [Node -> {"FOLLOWER", "CANDIDATE", "LEADER"}]
  <2>1. m.dst \in Node /\ m.prevLogIndex \in Nat /\ m.entries \in Seq(Entry) /\ m.term \in Nat
    BY DEF TypeOK, AppendReq
  <2>. QED
    BY <2>1, LenProperties DEF TypeOK
<1>2. ~accepted => logs' = logs
  BY DEF HandleAppendEntries
<1>3. accepted => logs' = [logs EXCEPT ![m.dst] = newLog]
  BY DEF HandleAppendEntries
<1>4. Answers(m)
  BY Zenon DEF HandleAppendEntries, Answers, Reply
<1>5. ASSUME NEW p \in Node, state'[p] = "LEADER" PROVE state[p] = "LEADER"
  <2>1. state' = state \/ state' = [state EXCEPT ![m.dst] = "FOLLOWER"]
    BY DEF HandleAppendEntries
  <2>. QED
    BY <1>1, <1>5, <2>1
<1>6. ASSUME accepted
      PROVE  Takes(m)
  <2>1. ~rejected /\ m.prevLogIndex <= Len(log) /\ ~Mismatch(log, m)
    BY <1>1, <1>6
  <2>2. \A i \in 1..m.prevLogIndex : log[i] \in Entry
    BY <1>1, <2>1, ElementOfSeq
  <2>3. /\ SubSeq(log, 1, m.prevLogIndex) \in Seq(Entry)
        /\ Len(SubSeq(log, 1, m.prevLogIndex)) = m.prevLogIndex
        /\ \A i \in 1..m.prevLogIndex : SubSeq(log, 1, m.prevLogIndex)[i] = log[i]
    BY <1>1, <2>2, SubSeqProperties
  <2>4. /\ Len(newLog) = Reach(m)
        /\ \A i \in 1..Reach(m) : newLog[i] =
             IF i <= m.prevLogIndex THEN SubSeq(log, 1, m.prevLogIndex)[i]
                                    ELSE m.entries[i - m.prevLogIndex]
    BY <1>1, <2>3, ConcatProperties DEF Reach
  <2>5. logs'[m.dst] = newLog /\ \A p \in Node \ {m.dst} : logs'[p] = logs[p]
    BY <1>1, <1>3, <1>6
  <2>. HIDE DEF newLog
  <2>6. \A i \in 1..m.prevLogIndex : logs'[m.dst][i] = logs[m.dst][i]
    BY <1>1, <2>3, <2>4, <2>5 DEF Reach
  <2>7. ASSUME NEW i \in 1..Len(m.entries)
        PROVE  logs'[m.dst][m.prevLogIndex + i] = m.entries[i]
    <3>1. /\ m.prevLogIndex + i \in 1..Reach(m) /\ ~(m.prevLogIndex + i <= m.prevLogIndex)
          /\ (m.prevLogIndex + i) - m.prevLogIndex = i
      BY <1>1 DEF Reach
    <3>. QED
      BY <2>4, <2>5, <3>1
  <2>9. state'[m.dst] # "CANDIDATE"
    <3>1. CASE state[m.dst] = "CANDIDATE"
      <4>1. state' = [state EXCEPT ![m.dst] = "FOLLOWER"]
        BY <1>6, <3>1 DEF HandleAppendEntries
      <4>. QED
        BY <1>1, <4>1
    <3>2. CASE state[m.dst] # "CANDIDATE"
      BY <1>6, <3>2 DEF HandleAppendEntries
    <3>. QED
      BY <3>1, <3>2
  <2>8. Live(m) /\ (m.prevLogIndex > 0 => logs[m.dst][m.prevLogIndex].term = m.prevLogTerm)
    BY <1>1, <2>1 DEF Live, Mismatch
  <2>. QED
    BY <1>1, <1>4, <1>5, <2>1, <2>4, <2>5, <2>6, <2>7, <2>8, <2>9 DEF Takes
<1>. QED
  BY <1>2, <1>6

\* What a step is for the log of who leads after it: it leaves the log to itself or to a
\* call, or the leader appends, or a candidate becomes the leader.
Stays(n) ==
  /\ state[n] = "LEADER" /\ has_lease'[n] = has_lease[n]
  /\ logs'[n] = logs[n] \/ \E m \in appendReqs : m.dst = n /\ Takes(m)

Extends(n) == state[n] = "LEADER" /\ has_lease'[n] /\ Grew(n)

Wins(n) ==
  /\ state[n] = "CANDIDATE" /\ currentTerm' = currentTerm
  /\ \/ has_lease'[n] /\ Grew(n)
     \/ ~has_lease'[n] /\ logs' = logs /\ UNCHANGED calls

\* The logs move in two ways only: a leader appends, or a receiver takes a call.
LEMMA LogMove ==
  ASSUME TypeOK, [Next]_vars
  PROVE  \/ logs' = logs
         \/ \E k \in Node : Grew(k)
         \/ \E m \in appendReqs : Takes(m)
<1>1. ASSUME NEW k \in Node, NEW v \in Value, WriteToRaft(k, v) PROVE Grew(k)
  BY <1>1, AppendGrows DEF WriteToRaft
<1>2. ASSUME NEW k \in Node, AcquireLease(k) PROVE Grew(k)
  BY <1>2, AppendGrows DEF AcquireLease, AcquireLeaseAs
<1>3. ASSUME NEW r \in voteReplies, HandleVoteReply(r) PROVE logs' = logs \/ (r.dst \in Node /\ Grew(r.dst))
  <2>1. r.dst \in Node /\ state \in [Node -> {"FOLLOWER", "CANDIDATE", "LEADER"}]
    BY DEF TypeOK, VoteReply
  <2>2. \/ logs' = logs
        \/ AppendEntry(r.dst, NOOP) /\ state' = [state EXCEPT ![r.dst] = "LEADER"]
    BY <1>3 DEF HandleVoteReply, persistent, ChangeStateToFollower, AcquireLeaseAs
  <2>. QED
    BY <2>1, <2>2, AppendGrows
<1>4. ASSUME NEW m \in appendReqs, HandleAppendEntries(m) PROVE logs' = logs \/ Takes(m)
  BY <1>4, AppendEntriesLog
<1>5. \/ logs' = logs
      \/ \E k \in Node, v \in Value : WriteToRaft(k, v)
      \/ \E k \in Node : AcquireLease(k)
      \/ \E r \in voteReplies : HandleVoteReply(r)
      \/ \E m \in appendReqs : HandleAppendEntries(m)
  BY DEF Next, vars, persistent, ApplyLogs, InitiateElection, HandleRequestVote,
         LeaseExpired, Heartbeat, HandleAppendReply, LoseAppendCall, ChangeStateToFollower
<1>. QED
  BY <1>1, <1>2, <1>3, <1>4, <1>5

\* Who leads after a step did before, with its log as it was or longer, or wins just now.
LEMMA LeaderMove ==
  ASSUME TypeOK, [Next]_vars, NEW n \in Node, state'[n] = "LEADER"
  PROVE  Stays(n) \/ Extends(n) \/ Wins(n)
<1>0. /\ state \in [Node -> {"FOLLOWER", "CANDIDATE", "LEADER"}] /\ has_lease \in [Node -> BOOLEAN]
      /\ logs \in [Node -> Seq(Entry)] /\ currentTerm \in [Node -> Nat]
  BY DEF TypeOK
<1>1. ASSUME NEW k \in Node, NEW v \in Value, WriteToRaft(k, v) PROVE Stays(n) \/ Extends(n)
  <2>1. state' = state /\ has_lease' = has_lease /\ has_lease[k] /\ AppendEntry(k, v) /\ state[k] = "LEADER"
    BY <1>1 DEF WriteToRaft
  <2>2. Grew(k)
    BY <2>1, AppendGrows
  <2>. QED
    BY <2>1, <2>2 DEF Stays, Extends, Grew
<1>2. ASSUME NEW k \in Node, AcquireLease(k) PROVE Stays(n) \/ Extends(n)
  <2>1. /\ state' = state /\ state[k] = "LEADER" /\ has_lease' = [has_lease EXCEPT ![k] = TRUE]
        /\ AppendEntry(k, NOOP)
    BY <1>2 DEF AcquireLease, AcquireLeaseAs
  <2>2. Grew(k)
    BY <2>1, AppendGrows
  <2>. QED
    BY <1>0, <2>1, <2>2 DEF Stays, Extends, Grew
<1>3. ASSUME NEW r \in voteReplies, HandleVoteReply(r) PROVE Stays(n) \/ Wins(n)
  <2> DEFINE next == [p \in Node |-> Len(logs[r.dst])]
  <2>1. r.dst \in Node
    BY DEF TypeOK, VoteReply
  <2>2. \/ state'[n] = state[n] /\ logs' = logs /\ has_lease' = has_lease
        \/ /\ state[r.dst] = "CANDIDATE" /\ state' = [state EXCEPT ![r.dst] = "LEADER"]
           /\ \/ AcquireLeaseAs(r.dst, next)
              \/ /\ has_lease' = [has_lease EXCEPT ![r.dst] = FALSE]
                 /\ logs' = logs /\ currentTerm' = currentTerm /\ UNCHANGED calls
    <3>1. ASSUME ChangeStateToFollower(r.dst, r.replyTerm) PROVE state'[n] = state[n] /\ logs' = logs
      BY <1>0, <2>1, <3>1 DEF ChangeStateToFollower, BecomeFollower
    <3>. QED
      BY <1>3, <3>1 DEF HandleVoteReply, persistent
  <2>3. CASE /\ state[r.dst] = "CANDIDATE" /\ state' = [state EXCEPT ![r.dst] = "LEADER"]
             /\ AcquireLeaseAs(r.dst, next)
    <3>1. has_lease' = [has_lease EXCEPT ![r.dst] = TRUE] /\ AppendEntry(r.dst, NOOP)
      BY <2>3 DEF AcquireLeaseAs
    <3>2. Grew(r.dst) /\ currentTerm' = currentTerm
      BY <1>0, <2>1, <2>3, <3>1, AppendGrows DEF AppendEntry
    <3>. QED
      BY <1>0, <2>1, <2>3, <3>1, <3>2 DEF Wins, Stays, Grew
  <2>4. CASE /\ state[r.dst] = "CANDIDATE" /\ state' = [state EXCEPT ![r.dst] = "LEADER"]
             /\ has_lease' = [has_lease EXCEPT ![r.dst] = FALSE]
             /\ logs' = logs /\ currentTerm' = currentTerm /\ UNCHANGED calls
    BY <1>0, <2>1, <2>4 DEF Wins, Stays
  <2>5. CASE state'[n] = state[n] /\ logs' = logs /\ has_lease' = has_lease
    BY <2>5 DEF Stays
  <2>. QED
    BY <2>2, <2>3, <2>4, <2>5
<1>4. ASSUME NEW m \in appendReqs, HandleAppendEntries(m) PROVE Stays(n)
  <2>1. has_lease' = has_lease /\ (state' = state \/ state' = [state EXCEPT ![m.dst] = "FOLLOWER"])
    BY <1>4 DEF HandleAppendEntries
  <2>2. state[n] = "LEADER"
    BY <1>0, <2>1
  <2>3. logs' = logs \/ Takes(m)
    BY <1>4, AppendEntriesLog
  <2>4. Takes(m) => logs'[n] = logs[n] \/ m.dst = n
    BY DEF Takes
  <2>. QED
    BY <2>1, <2>2, <2>3, <2>4 DEF Stays
<1>5. ASSUME NEW k \in Node, InitiateElection(k) \/ LeaseExpired(k) PROVE Stays(n)
  <2>1. /\ logs' = logs /\ state'[k] # "LEADER" /\ \A p \in Node : p # k => state'[p] = state[p]
        /\ has_lease' = has_lease \/ has_lease' = [has_lease EXCEPT ![k] = FALSE]
    BY <1>0, <1>5 DEF InitiateElection, LeaseExpired, ChangeStateToFollower, BecomeFollower
  <2>. QED
    BY <1>0, <2>1 DEF Stays
<1>6. ASSUME NEW m \in voteReqs, HandleRequestVote(m) PROVE Stays(n)
  <2>1. /\ logs' = logs /\ has_lease' = has_lease
        /\ state' = state \/ state' = [state EXCEPT ![m.dst] = "FOLLOWER"]
    BY <1>6 DEF HandleRequestVote, persistent
  <2>. QED
    BY <1>0, <2>1 DEF Stays
<1>7. ASSUME NEW m \in appendReplies, HandleAppendReply(m) PROVE Stays(n)
  <2>1. /\ logs' = logs /\ has_lease' = has_lease
        /\ state' = state \/ state' = [state EXCEPT ![m.dst] = "FOLLOWER"]
    BY <1>7 DEF HandleAppendReply, persistent, ChangeStateToFollower, BecomeFollower
  <2>. QED
    BY <1>0, <2>1 DEF Stays
<1>8. \/ state' = state /\ logs' = logs /\ has_lease' = has_lease
      \/ \E k \in Node, v \in Value : WriteToRaft(k, v)
      \/ \E k \in Node : AcquireLease(k) \/ InitiateElection(k) \/ LeaseExpired(k)
      \/ \E r \in voteReplies : HandleVoteReply(r)
      \/ \E m \in voteReqs : HandleRequestVote(m)
      \/ \E m \in appendReqs : HandleAppendEntries(m)
      \/ \E m \in appendReplies : HandleAppendReply(m)
  BY DEF Next, vars, persistent, ApplyLogs, Heartbeat, LoseAppendCall
<1>. QED
  BY <1>1, <1>2, <1>3, <1>4, <1>5, <1>6, <1>7, <1>8 DEF Stays

LEMMA LogTypes ==
  ASSUME TypeOK, NEW n \in Node
  PROVE  /\ Len(logs[n]) \in Nat /\ currentTerm[n] \in Nat /\ logs[n] \in Seq(Entry)
         /\ \A i \in 1..Len(logs[n]) : logs[n][i] \in Entry /\ logs[n][i].term \in Nat
<1>1. logs[n] \in Seq(Entry) /\ currentTerm[n] \in Nat
  BY DEF TypeOK
<1>2. Len(logs[n]) \in Nat /\ \A i \in 1..Len(logs[n]) : logs[n][i] \in Entry
  BY <1>1, LenProperties, ElementOfSeq
<1>. QED
  BY <1>1, <1>2 DEF Entry

LEMMA CallTypes ==
  ASSUME TypeOK, NEW m \in appendReqs
  PROVE  /\ m.src \in Node /\ m.dst \in Node /\ m.term \in Nat /\ m.prevLogIndex \in Nat
         /\ m.entries \in Seq(Entry) /\ Len(m.entries) \in Nat /\ Reach(m) \in Nat
         /\ m.prevLogIndex <= Reach(m) /\ m.leaderCommit \in Nat
<1>1. /\ m.src \in Node /\ m.dst \in Node /\ m.term \in Nat /\ m.prevLogIndex \in Nat
      /\ m.entries \in Seq(Entry) /\ m.leaderCommit \in Nat
  BY DEF TypeOK, AppendReq
<1>2. Len(m.entries) \in Nat
  BY <1>1, LenProperties
<1>. QED
  BY <1>1, <1>2 DEF Reach

\* What a leader sends is of its term, and the leader stays one.
LEMMA LastTermIs ==
  ASSUME NEW log \in Seq(Entry)
  PROVE  /\ Len(log) \in Nat
         /\ Len(log) = 0 => LastTerm(log) = -1
         /\ Len(log) > 0 => log # <<>> /\ LastTerm(log) = log[Len(log)].term
<1>1. Len(log) \in Nat /\ Len(<<>>) = 0 /\ (log # <<>> => Len(log) \in Nat \ {0})
  BY LenProperties, EmptySeq
<1>. QED
  BY <1>1 DEF LastTerm

\* The RequestVote calls of a step
LEMMA RequestsMove ==
  ASSUME [Next]_vars
  PROVE  /\ \A q \in voteReqs' : \/ q \in voteReqs
                                 \/ /\ q.src \in Node /\ q.term = currentTerm[q.src] + 1
                                    /\ q.lastLogIndex = Len(logs[q.src])
                                    /\ q.lastLogTerm = LastTerm(logs[q.src]) /\ logs' = logs
                                    /\ currentTerm' = [currentTerm EXCEPT ![q.src] = q.term]
         /\ \A r \in voteReplies' : \/ r \in voteReplies
                                    \/ \E m \in voteReqs :
                                         /\ HandleRequestVote(m) /\ r.src = m.dst /\ r.dst = m.src
                                         /\ r.term = m.term /\ r.granted = Grants(m.dst, m)
<1> DEFINE NewReq(q) == /\ q.src \in Node /\ q.term = currentTerm[q.src] + 1
                        /\ q.lastLogIndex = Len(logs[q.src])
                        /\ q.lastLogTerm = LastTerm(logs[q.src]) /\ logs' = logs
                        /\ currentTerm' = [currentTerm EXCEPT ![q.src] = q.term]
           NewReply(r, m) == /\ r.src = m.dst /\ r.dst = m.src
                             /\ r.term = m.term /\ r.granted = Grants(m.dst, m)
           Fewer == voteReqs' \subseteq voteReqs /\ voteReplies' \subseteq voteReplies
<1>1. ASSUME NEW k \in Node, InitiateElection(k)
      PROVE  voteReplies' = voteReplies /\ \A q \in voteReqs' : q \in voteReqs \/ NewReq(q)
  <2>1. voteReplies' = voteReplies /\ logs' = logs
        /\ currentTerm' = [currentTerm EXCEPT ![k] = currentTerm[k] + 1]
        /\ voteReqs' = voteReqs \cup
             {[src |-> k, dst |-> p, term |-> currentTerm[k] + 1, lastLogIndex |-> Len(logs[k]),
               lastLogTerm |-> LastTerm(logs[k])] : p \in Node \ {k}}
    BY <1>1 DEF InitiateElection
  <2>2. ASSUME NEW q \in voteReqs', q \notin voteReqs PROVE NewReq(q)
    <3>1. q.src = k /\ q.term = currentTerm[k] + 1 /\ q.lastLogIndex = Len(logs[k])
          /\ q.lastLogTerm = LastTerm(logs[k])
      BY <2>1, <2>2
    <3>. QED
      BY <2>1, <3>1
  <2>. QED
    BY <2>1, <2>2
<1>2. ASSUME NEW m \in voteReqs, HandleRequestVote(m)
      PROVE  voteReqs' \subseteq voteReqs
             /\ \A r \in voteReplies' : r \in voteReplies \/ NewReply(r, m)
  <2>1. voteReqs' = voteReqs \ {m}
        /\ voteReplies' = voteReplies \cup
             {[src |-> m.dst, dst |-> m.src, term |-> m.term, granted |-> Grants(m.dst, m),
               replyTerm |-> IF m.term < currentTerm[m.dst] THEN currentTerm[m.dst] ELSE -1]}
    BY <1>2 DEF HandleRequestVote
  <2>. QED
    BY <2>1
<1>3. ASSUME NEW r \in voteReplies, HandleVoteReply(r) PROVE Fewer
  BY <1>3 DEF HandleVoteReply
<1>4. \/ Fewer
      \/ \E k \in Node : InitiateElection(k)
      \/ \E m \in voteReqs : HandleRequestVote(m)
  BY <1>3 DEF Next, vars, elections, WriteToRaft, ApplyLogs, AcquireLease, Heartbeat, LeaseExpired,
         HandleAppendEntries, HandleAppendReply, LoseAppendCall
<1>. QED
  BY <1>1, <1>2, <1>4

-----------------------------------------------------------------------------
(***************************************************************************)
(* What a log ends with                                                    *)
(***************************************************************************)

\* The term of the last entry that a call brings, or that it builds on
EndTerm(m) ==
  IF m.entries # <<>> THEN m.entries[Len(m.entries)].term
  ELSE IF m.prevLogIndex > 0 THEN m.prevLogTerm ELSE -1

\* A call brings the whole log of a leader with a lease,
CallsEndNew == \A m \in appendReqs : EndTerm(m) >= m.term

\* whose last entry is of its term, or of a later one that a call brought.
LeadersEndNew ==
  \A n \in Node : state[n] = "LEADER" /\ has_lease[n] => LastTerm(logs[n]) >= currentTerm[n]

\* A candidate's requests describe its log.
RequestsMatch ==
  \A m \in voteReqs : state[m.src] = "CANDIDATE" /\ currentTerm[m.src] = m.term =>
    m.lastLogIndex = Len(logs[m.src]) /\ m.lastLogTerm = LastTerm(logs[m.src])

\* Node n, a candidate, has a log as up to date as v's, but for newer entries of v's.
InOrder(v, n) == IsUpToDate(logs[n], logs[v]) \/ LastTerm(logs[v]) >= currentTerm[n]

\* Who granted a vote is in its term or a later one; a restart takes back the vote itself,
\* but not the term.
VoteTerms ==
  /\ \A m \in voteReqs : m.term <= currentTerm[m.src]
  /\ \A r \in voteReplies : r.term <= currentTerm[r.dst]
  /\ \A v, n \in Node, t \in Nat : Granted(v, n, t) => currentTerm[v] >= t

VotesOrdered ==
  \A v, n \in Node :
    state[n] = "CANDIDATE" /\ Granted(v, n, currentTerm[n]) => InOrder(v, n)

OrderInv == CallsEndNew /\ LeadersEndNew /\ RequestsMatch /\ VoteTerms /\ VotesOrdered

LEMMA SentEnds ==
  ASSUME TypeOK', NEW k \in Node, NEW m, SentBy(m, k), m.entries \in Seq(Entry), m.prevLogIndex \in Nat
  PROVE  EndTerm(m) = LastTerm(logs'[k])
<1>1. logs'[k] \in Seq(Entry) /\ Len(m.entries) \in Nat /\ Len(<<>>) = 0
      /\ (m.entries # <<>> <=> Len(m.entries) > 0)
  BY LenProperties, EmptySeq DEF TypeOK
<1>2. /\ Len(logs'[k]) \in Nat
      /\ Len(logs'[k]) = 0 => LastTerm(logs'[k]) = -1
      /\ Len(logs'[k]) > 0 => LastTerm(logs'[k]) = logs'[k][Len(logs'[k])].term
  BY <1>1, LastTermIs
<1>3. CASE m.entries # <<>>
  <2>1. Len(m.entries) \in 1..Len(m.entries) /\ Len(logs'[k]) > 0
        /\ m.prevLogIndex + Len(m.entries) = Len(logs'[k])
    BY <1>1, <1>2, <1>3 DEF SentBy
  <2>2. m.entries[Len(m.entries)] = logs'[k][Len(logs'[k])]
    BY <2>1 DEF SentBy
  <2>. QED
    BY <1>2, <1>3, <2>1, <2>2 DEF EndTerm
<1>4. CASE m.entries = <<>>
  BY <1>1, <1>2, <1>4 DEF SentBy, EndTerm
<1>. QED
  BY <1>3, <1>4

LEMMA TakenEnds ==
  ASSUME TypeOK, TypeOK', NEW m \in appendReqs, Takes(m)
  PROVE  LastTerm(logs'[m.dst]) = EndTerm(m)
<1>1. /\ logs'[m.dst] \in Seq(Entry) /\ Len(m.entries) \in Nat /\ m.prevLogIndex \in Nat
      /\ m.dst \in Node /\ Len(<<>>) = 0 /\ (m.entries # <<>> <=> Len(m.entries) > 0)
  <2>1. m.dst \in Node /\ m.entries \in Seq(Entry) /\ m.prevLogIndex \in Nat
    BY CallTypes
  <2>2. logs'[m.dst] \in Seq(Entry)
    BY <2>1 DEF TypeOK
  <2>3. Len(m.entries) \in Nat /\ Len(<<>>) = 0
    BY <2>1, LenProperties
  <2>4. m.entries # <<>> <=> Len(m.entries) > 0
    BY <2>1, EmptySeq
  <2>. QED
    BY <2>1, <2>2, <2>3, <2>4
<1>2. /\ Len(logs'[m.dst]) = m.prevLogIndex + Len(m.entries)
      /\ Len(logs'[m.dst]) = 0 => LastTerm(logs'[m.dst]) = -1
      /\ Len(logs'[m.dst]) > 0 => LastTerm(logs'[m.dst]) = logs'[m.dst][Len(logs'[m.dst])].term
  BY <1>1, LastTermIs DEF Takes, Reach
<1>3. CASE m.entries # <<>>
  <2>1. Len(m.entries) \in 1..Len(m.entries) /\ Len(logs'[m.dst]) > 0
    BY <1>1, <1>2, <1>3
  <2>2. m.entries[Len(m.entries)] = logs'[m.dst][Len(logs'[m.dst])]
    BY <1>2, <2>1 DEF Takes
  <2>. QED
    BY <1>2, <1>3, <2>1, <2>2 DEF EndTerm
<1>4. CASE m.entries = <<>>
  <2>1. m.prevLogIndex > 0 => /\ logs'[m.dst][m.prevLogIndex] = logs[m.dst][m.prevLogIndex]
                              /\ logs[m.dst][m.prevLogIndex].term = m.prevLogTerm
    BY <1>1 DEF Takes
  <2>. QED
    BY <1>1, <1>2, <1>4, <2>1 DEF EndTerm
<1>. QED
  BY <1>3, <1>4

\* A log that changes ends in its node's term or a later one.
LEMMA ChangedEnds ==
  ASSUME TypeOK, TypeOK', CallsEndNew, [Next]_vars, NEW n \in Node, logs'[n] # logs[n]
  PROVE  LastTerm(logs'[n]) >= currentTerm[n] /\ state'[n] # "CANDIDATE"
<1>1. ASSUME Grew(n) PROVE LastTerm(logs'[n]) >= currentTerm[n] /\ state'[n] # "CANDIDATE"
  <2>1. /\ Len(logs[n]) \in Nat /\ currentTerm[n] \in Nat /\ logs'[n] \in Seq(Entry)
        /\ Len(logs'[n]) = Len(logs[n]) + 1 /\ logs'[n][Len(logs[n]) + 1].term = currentTerm[n]
        /\ state'[n] = "LEADER"
    BY <1>1, LogTypes DEF Grew, TypeOK
  <2>2. LastTerm(logs'[n]) = currentTerm[n]
    BY <2>1, LastTermIs
  <2>. QED
    BY <2>1, <2>2
<1>2. ASSUME NEW m \in appendReqs, Takes(m), m.dst = n
      PROVE  LastTerm(logs'[n]) >= currentTerm[n] /\ state'[n] # "CANDIDATE"
  <2>1. LastTerm(logs'[n]) = EndTerm(m) /\ EndTerm(m) >= m.term /\ m.term \in Nat
    BY <1>2, TakenEnds, CallTypes DEF CallsEndNew
  <2>2. currentTerm[n] <= m.term /\ currentTerm[n] \in Nat /\ LastTerm(logs'[n]) \in Nat \cup {-1}
        /\ state'[n] # "CANDIDATE"
    BY <1>2, LastTermType DEF TypeOK, Takes, Live
  <2>. QED
    BY <2>1, <2>2
<1>. QED
  BY <1>1, <1>2, LogMove DEF Grew, Takes

LEMMA LeadersEndNewStep ==
  ASSUME TypeOK, TypeOK', CallsEndNew, LeadersEndNew, [Next]_vars
  PROVE  LeadersEndNew'
<1> SUFFICES ASSUME NEW n \in Node, state'[n] = "LEADER", has_lease'[n]
             PROVE  LastTerm(logs'[n]) >= currentTerm'[n]
  BY DEF LeadersEndNew
<1>1. currentTerm'[n] = currentTerm[n]
  BY Roles
<1>2. CASE logs'[n] # logs[n]
  BY <1>1, <1>2, ChangedEnds
<1>3. CASE logs'[n] = logs[n]
  <2>1. ~Grew(n)
    BY <1>3, LogTypes DEF Grew
  <2>2. state[n] = "LEADER" /\ has_lease[n]
    BY <2>1, LeaderMove DEF Stays, Extends, Wins
  <2>. QED
    BY <1>1, <1>3, <2>2 DEF LeadersEndNew
<1>. QED
  BY <1>2, <1>3

LEMMA CallsEndNewStep ==
  ASSUME TypeOK, TypeOK', CallsEndNew, LeadersEndNew', [Next]_vars
  PROVE  CallsEndNew'
<1> SUFFICES ASSUME NEW m \in appendReqs', m \notin appendReqs
             PROVE  EndTerm(m) >= m.term
  BY DEF CallsEndNew
<1>1. PICK k \in Node : Sends(k)
  BY CallsMove DEF Shrinks, Answers
<1>2. SentBy(m, k) /\ m.term = currentTerm'[k] /\ LastTerm(logs'[k]) >= currentTerm'[k]
  BY <1>1, Roles DEF Sends, SentBy, LeadersEndNew
<1>3. m.entries \in Seq(Entry) /\ m.prevLogIndex \in Nat
  BY DEF TypeOK, AppendReq
<1>. QED
  BY <1>2, <1>3, SentEnds

-----------------------------------------------------------------------------
(***************************************************************************)
(* The order of votes                                                      *)
(***************************************************************************)

LEMMA RequestsMatchStep ==
  ASSUME TypeOK, TypeOK', VoteTerms, CallsEndNew, RequestsMatch, [Next]_vars
  PROVE  RequestsMatch'
<1> SUFFICES ASSUME NEW q \in voteReqs', state'[q.src] = "CANDIDATE", currentTerm'[q.src] = q.term
             PROVE  q.lastLogIndex = Len(logs'[q.src]) /\ q.lastLogTerm = LastTerm(logs'[q.src])
  BY DEF RequestsMatch
<1>0. q.src \in Node
  BY DEF TypeOK, VoteReq
<1>1. logs'[q.src] = logs[q.src]
  BY <1>0, ChangedEnds
<1>2. CASE q \in voteReqs
  <2>1. currentTerm'[q.src] <= currentTerm[q.src]
    BY <1>2 DEF VoteTerms
  <2>2. state[q.src] = "CANDIDATE" /\ currentTerm[q.src] = q.term
    BY <1>0, <2>1, Roles
  <2>. QED
    BY <1>1, <1>2, <2>2 DEF RequestsMatch
<1>3. CASE q \notin voteReqs
  BY <1>0, <1>1, <1>3, RequestsMove
<1>. QED
  BY <1>2, <1>3

\* Votes are counted in the order in which they were granted: what a candidate or leader
\* counts was counted before, or a reply that was under way, in the same term.
LEMMA VotersMove ==
  ASSUME TypeOK, [Next]_vars, NEW n \in Node, NEW v \in voters'[n], v # n, state'[n] # "FOLLOWER"
  PROVE  currentTerm'[n] = currentTerm[n] /\ Granted(v, n, currentTerm[n])
<1> DEFINE Goal == currentTerm'[n] = currentTerm[n] /\ Granted(v, n, currentTerm[n])
<1>0. /\ state \in [Node -> {"FOLLOWER", "CANDIDATE", "LEADER"}] /\ currentTerm \in [Node -> Nat]
      /\ voters \in [Node -> SUBSET Node]
  BY DEF TypeOK
<1>1. ASSUME state'[n] = state[n], currentTerm'[n] = currentTerm[n], voters'[n] = voters[n]
      PROVE  Goal
  BY <1>1 DEF Granted
<1>2. ASSUME NEW k \in Node, InitiateElection(k) PROVE Goal
  <2>1. /\ state' = [state EXCEPT ![k] = "CANDIDATE"] /\ voters' = [voters EXCEPT ![k] = {k}]
        /\ currentTerm' = [currentTerm EXCEPT ![k] = @ + 1]
    BY <1>2 DEF InitiateElection
  <2>. QED
    BY <1>0, <1>1, <2>1
<1>3. ASSUME NEW m \in voteReqs, HandleRequestVote(m) PROVE Goal
  <2>1. m.dst \in Node /\ m.term \in Nat /\ voters' = voters
    BY <1>3 DEF HandleRequestVote, TypeOK, VoteReq
  <2>2. CASE m.dst = n /\ m.term > currentTerm[n]
    BY <1>0, <1>3, <2>1, <2>2 DEF HandleRequestVote
  <2>3. CASE m.dst = n /\ ~(m.term > currentTerm[n])
    <3>1. Grants(n, m) => m.term = currentTerm[n]
      BY <1>0, <2>1, <2>3 DEF Grants
    <3>2. state' = state /\ currentTerm'[n] = currentTerm[n]
      BY <1>0, <1>3, <2>3, <3>1 DEF HandleRequestVote, persistent
    <3>. QED
      BY <1>1, <2>1, <3>2
  <2>4. CASE m.dst # n
    <3>1. state'[n] = state[n] /\ currentTerm'[n] = currentTerm[n]
      BY <1>0, <1>3, <2>1, <2>4 DEF HandleRequestVote, persistent
    <3>. QED
      BY <1>1, <2>1, <3>1
  <2>. QED
    BY <2>2, <2>3, <2>4
<1>4. ASSUME NEW r \in voteReplies, HandleVoteReply(r) PROVE Goal
  <2>1. r.dst \in Node
    BY DEF TypeOK, VoteReply
  <2>2. \/ state' = state /\ currentTerm' = currentTerm /\ voters' = voters
        \/ /\ state' = [state EXCEPT ![r.dst] = "FOLLOWER"] /\ voters' = voters
           /\ \A p \in Node : p # r.dst => currentTerm'[p] = currentTerm[p]
        \/ /\ state[r.dst] = "CANDIDATE" /\ currentTerm[r.dst] = r.term /\ r.granted
           /\ currentTerm' = currentTerm /\ voters' = [voters EXCEPT ![r.dst] = @ \cup {r.src}]
           /\ \A p \in Node : p # r.dst => state'[p] = state[p]
    BY <1>0, <1>4, <2>1 DEF HandleVoteReply, persistent, ChangeStateToFollower, BecomeFollower,
                            AcquireLeaseAs, AppendEntry
  <2>3. CASE /\ state[r.dst] = "CANDIDATE" /\ currentTerm[r.dst] = r.term /\ r.granted
             /\ currentTerm' = currentTerm /\ voters' = [voters EXCEPT ![r.dst] = @ \cup {r.src}]
             /\ \A p \in Node : p # r.dst => state'[p] = state[p]
    <3>1. CASE n = r.dst
      <4>1. v \in voters[n] \/ v = r.src
        BY <1>0, <2>1, <2>3, <3>1
      <4>. QED
        BY <2>3, <3>1, <4>1 DEF Granted
    <3>2. CASE n # r.dst
      BY <1>0, <1>1, <2>1, <2>3, <3>2
    <3>. QED
      BY <3>1, <3>2
  <2>. QED
    BY <1>0, <1>1, <2>1, <2>2, <2>3
<1>5. ASSUME voters' = voters, UNCHANGED <<state, currentTerm>>
               \/ \E k \in Node : /\ state' = [state EXCEPT ![k] = "FOLLOWER"]
                                  /\ \A p \in Node : p # k => currentTerm'[p] = currentTerm[p]
      PROVE  Goal
  BY <1>0, <1>1, <1>5
<1>6. ASSUME NEW k \in Node, LeaseExpired(k) PROVE Goal
  <2>1. /\ voters' = voters /\ state' = [state EXCEPT ![k] = "FOLLOWER"]
        /\ \A p \in Node : p # k => currentTerm'[p] = currentTerm[p]
    BY <1>0, <1>6 DEF LeaseExpired, ChangeStateToFollower, BecomeFollower, elections
  <2>. QED
    BY <1>5, <2>1
<1>7. ASSUME NEW m \in appendReqs, HandleAppendEntries(m) PROVE Goal
  <2>1. /\ m.dst \in Node /\ voters' = voters
        /\ \/ UNCHANGED <<state, currentTerm>>
           \/ /\ state' = [state EXCEPT ![m.dst] = "FOLLOWER"]
              /\ \A p \in Node : p # m.dst => currentTerm'[p] = currentTerm[p]
    BY <1>0, <1>7 DEF HandleAppendEntries, elections, TypeOK, AppendReq
  <2>. QED
    BY <1>5, <2>1
<1>8. ASSUME NEW m \in appendReplies, HandleAppendReply(m) PROVE Goal
  <2>1. /\ m.dst \in Node /\ voters' = voters
        /\ \/ UNCHANGED <<state, currentTerm>>
           \/ /\ state' = [state EXCEPT ![m.dst] = "FOLLOWER"]
              /\ \A p \in Node : p # m.dst => currentTerm'[p] = currentTerm[p]
    BY <1>0, <1>8 DEF HandleAppendReply, elections, TypeOK, AppendReply, persistent,
                      ChangeStateToFollower, BecomeFollower
  <2>. QED
    BY <1>5, <2>1
<1>9. \/ voters' = voters /\ UNCHANGED <<state, currentTerm>>
      \/ \E k \in Node : InitiateElection(k) \/ LeaseExpired(k)
      \/ \E m \in voteReqs : HandleRequestVote(m)
      \/ \E r \in voteReplies : HandleVoteReply(r)
      \/ \E m \in appendReqs : HandleAppendEntries(m)
      \/ \E m \in appendReplies : HandleAppendReply(m)
  BY DEF Next, vars, persistent, elections, WriteToRaft, AppendEntry, ApplyLogs, AcquireLease,
         AcquireLeaseAs, Heartbeat, LoseAppendCall
<1>. QED
  BY <1>2, <1>3, <1>4, <1>5, <1>6, <1>7, <1>8, <1>9

LEMMA VoteTermsStep ==
  ASSUME TypeOK, TypeOK', VoteTerms, [Next]_vars
  PROVE  VoteTerms'
<1>1. \A n \in Node : currentTerm[n] \in Nat /\ currentTerm'[n] \in Nat /\ currentTerm'[n] >= currentTerm[n]
  BY Roles
<1>2. ASSUME NEW q \in voteReqs' PROVE q.term <= currentTerm'[q.src]
  <2>1. q.src \in Node /\ q.term \in Nat /\ currentTerm \in [Node -> Nat]
    BY DEF TypeOK, VoteReq
  <2>2. q \in voteReqs => q.term <= currentTerm[q.src]
    BY DEF VoteTerms
  <2>. QED
    BY <1>1, <2>1, <2>2, RequestsMove
<1>3. ASSUME NEW r \in voteReplies'
      PROVE  /\ r.term <= currentTerm'[r.dst]
             /\ r \in voteReplies \/ (r.granted => r.term <= currentTerm'[r.src])
  <2>1. r.dst \in Node /\ r.src \in Node /\ r.term \in Nat /\ currentTerm \in [Node -> Nat]
    BY DEF TypeOK, VoteReply
  <2>2. r \in voteReplies => r.term <= currentTerm[r.dst]
    BY DEF VoteTerms
  <2>3. ASSUME NEW m \in voteReqs, HandleRequestVote(m), r.src = m.dst, r.dst = m.src,
               r.term = m.term, r.granted = Grants(m.dst, m)
        PROVE  r.term <= currentTerm[r.dst] /\ (r.granted => r.term <= currentTerm'[r.src])
    <3>1. m.term <= currentTerm[m.src]
      BY DEF VoteTerms
    <3>2. Grants(m.dst, m) => currentTerm' = [currentTerm EXCEPT ![m.dst] = m.term]
      BY <2>3 DEF HandleRequestVote
    <3>. QED
      BY <2>1, <2>3, <3>1, <3>2
  <2>. QED
    BY <1>1, <2>1, <2>2, <2>3, RequestsMove
<1>4. ASSUME NEW v \in Node, NEW n \in Node, NEW t \in Nat, Granted(v, n, t)'
      PROVE  currentTerm'[v] >= t
  <2>1. Granted(v, n, t) => currentTerm[v] >= t
    BY DEF VoteTerms
  <2>2. ASSUME NEW r \in voteReplies', r.granted, r.src = v, r.dst = n, r.term = t
        PROVE  currentTerm'[v] >= t
    BY <1>1, <1>3, <2>1, <2>2 DEF Granted
  <2>3. ASSUME state'[n] # "FOLLOWER", currentTerm'[n] = t, v \in voters'[n]
        PROVE  currentTerm'[v] >= t
    BY <1>1, <2>1, <2>3, VotersMove
  <2>. QED
    BY <1>4, <2>2, <2>3 DEF Granted
<1>. QED
  BY <1>2, <1>3, <1>4 DEF VoteTerms

\* The order of a vote outlives what happens to the voter's log.
LEMMA OrderKept ==
  ASSUME TypeOK, TypeOK', CallsEndNew, VoteTerms, [Next]_vars, NEW v \in Node, NEW n \in Node,
         Granted(v, n, currentTerm[n]), InOrder(v, n),
         state'[n] = "CANDIDATE", currentTerm'[n] = currentTerm[n]
  PROVE  InOrder(v, n)'
<1>1. logs'[n] = logs[n]
  BY ChangedEnds
<1>2. currentTerm[n] \in Nat /\ currentTerm[v] \in Nat /\ currentTerm[v] >= currentTerm[n]
  BY DEF TypeOK, VoteTerms
<1>3. CASE logs'[v] = logs[v]
  BY <1>1, <1>3 DEF InOrder
<1>4. CASE logs'[v] # logs[v]
  <2>1. LastTerm(logs'[v]) >= currentTerm[v] /\ LastTerm(logs'[v]) \in Nat \cup {-1}
    BY <1>4, ChangedEnds, LastTermType DEF TypeOK
  <2>. QED
    BY <1>2, <2>1 DEF InOrder
<1>. QED
  BY <1>3, <1>4

LEMMA VotesOrderedStep ==
  ASSUME TypeOK, TypeOK', OrderInv, [Next]_vars
  PROVE  VotesOrdered'
<1> SUFFICES ASSUME NEW v \in Node, NEW n \in Node, state'[n] = "CANDIDATE",
                    Granted(v, n, currentTerm[n])'
             PROVE  InOrder(v, n)'
  BY DEF VotesOrdered
<1>0. currentTerm'[n] >= currentTerm[n] /\ currentTerm[n] \in Nat /\ currentTerm'[n] \in Nat
  BY Roles
<1>1. CASE v = n
  <2>1. logs'[n] \in Seq(Entry) /\ Len(logs'[n]) \in Nat
    BY LenProperties DEF TypeOK
  <2>. QED
    BY <1>1, <2>1 DEF InOrder, IsUpToDate
<1>2. ASSUME Granted(v, n, currentTerm[n]), currentTerm'[n] = currentTerm[n]
      PROVE  InOrder(v, n)'
  <2>1. state[n] = "CANDIDATE"
    BY <1>0, <1>2, Roles
  <2>2. InOrder(v, n)
    BY <1>2, <2>1 DEF OrderInv, VotesOrdered
  <2>. QED
    BY <1>2, <2>2, OrderKept DEF OrderInv
<1>3. CASE v # n /\ v \in voters'[n]
  <2>1. state'[n] # "FOLLOWER"
    OBVIOUS
  <2>. QED
    BY <1>2, <1>3, <2>1, VotersMove
<1>4. ASSUME NEW r \in voteReplies', r.granted, r.src = v, r.dst = n, r.term = currentTerm'[n]
      PROVE  InOrder(v, n)'
  <2>1. CASE r \in voteReplies
    <3>1. r.term <= currentTerm[n]
      BY <1>4, <2>1 DEF OrderInv, VoteTerms
    <3>2. currentTerm'[n] = currentTerm[n] /\ Granted(v, n, currentTerm[n])
      BY <1>0, <1>4, <2>1, <3>1 DEF Granted
    <3>. QED
      BY <1>2, <3>2
  <2>2. ASSUME NEW m \in voteReqs, HandleRequestVote(m), r.src = m.dst, r.dst = m.src,
               r.term = m.term, r.granted = Grants(m.dst, m)
        PROVE  InOrder(v, n)'
    <3>1. m.src = n /\ m.dst = v /\ m.term = currentTerm'[n] /\ Grants(v, m)
      BY <1>4, <2>2
    <3>2. m.term <= currentTerm[n]
      BY <3>1 DEF OrderInv, VoteTerms
    <3>3. currentTerm'[n] = currentTerm[n] /\ state[n] = "CANDIDATE"
      BY <1>0, <3>1, <3>2, Roles
    <3>4. m.lastLogIndex = Len(logs[n]) /\ m.lastLogTerm = LastTerm(logs[n])
      BY <3>1, <3>3 DEF OrderInv, RequestsMatch
    <3>5. logs' = logs
      BY <2>2 DEF HandleRequestVote, persistent
    <3>6. IsUpToDate(logs[n], logs[v])
      BY <3>1, <3>4 DEF Grants, IsLogUptodate, IsUpToDate
    <3>. QED
      BY <3>5, <3>6 DEF InOrder
  <2>. QED
    BY <1>4, <2>1, <2>2, RequestsMove
<1>. QED
  BY <1>1, <1>3, <1>4 DEF Granted

\* A restart brings back the term and the log, and forgets the vote and who voted.
LEMMA RestartOrder ==
  ASSUME TypeOK, DiskMatchesMemory, OrderInv, NEW k \in Node, Restart(k)
  PROVE  OrderInv'
<1>1. /\ disk[k].currentTerm = currentTerm[k] /\ disk[k].logs = logs[k]
  <2>1. disk[k] = [currentTerm |-> currentTerm[k], votedFor |-> votedFor[k],
                   commitIndex |-> commitIndex[k], logs |-> logs[k]]
    BY DEF DiskMatchesMemory
  <2>. QED
    BY <2>1
<1>2. /\ logs' = logs /\ currentTerm' = currentTerm /\ state' = [state EXCEPT ![k] = "FOLLOWER"]
      /\ has_lease' = [has_lease EXCEPT ![k] = FALSE] /\ voters' = [voters EXCEPT ![k] = {}]
      /\ voteReqs' = voteReqs /\ voteReplies' \subseteq voteReplies /\ appendReqs' = appendReqs
  BY <1>1 DEF Restart, BecomeFollower, TypeOK
<1>3. \A n \in Node : state'[n] # "FOLLOWER" =>
        state'[n] = state[n] /\ has_lease'[n] = has_lease[n] /\ voters'[n] = voters[n]
  BY <1>2 DEF TypeOK
<1>4. \A v, n \in Node, t \in Nat : Granted(v, n, t)' => Granted(v, n, t)
  BY <1>2, <1>3 DEF Granted
<1>5. CallsEndNew' /\ LeadersEndNew'
  BY <1>2, <1>3 DEF OrderInv, CallsEndNew, LeadersEndNew
<1>6. RequestsMatch'
  <2>1. \A m \in voteReqs : m.src \in Node
    BY DEF TypeOK, VoteReq
  <2>. QED
    BY <1>2, <1>3, <2>1 DEF OrderInv, RequestsMatch
<1>7. VoteTerms'
  BY <1>2, <1>4 DEF OrderInv, VoteTerms
<1>8. VotesOrdered'
  <2>1. \A n \in Node : currentTerm[n] \in Nat
    BY DEF TypeOK
  <2>. QED
    BY <1>2, <1>3, <1>4, <2>1 DEF OrderInv, VotesOrdered, InOrder
<1>. QED
  BY <1>5, <1>6, <1>7, <1>8 DEF OrderInv

LEMMA OrderInvariant == SpecRestart => [](TypeInv /\ DiskInv /\ OrderInv)
<1>1. Init => OrderInv
  BY DEF Init, OrderInv, CallsEndNew, LeadersEndNew, RequestsMatch, VoteTerms, VotesOrdered, Granted
<1>2. TypeInv /\ DiskInv /\ OrderInv /\ TypeInv' /\ [NextRestart]_vars => OrderInv'
  <2> SUFFICES ASSUME TypeOK, TypeOK', DiskMatchesMemory, OrderInv, [NextRestart]_vars
               PROVE  OrderInv'
    BY DEF TypeInv, DiskInv
  <2>1. ASSUME [Next]_vars PROVE OrderInv'
    <3>1. LeadersEndNew'
      BY <2>1, LeadersEndNewStep DEF OrderInv
    <3>2. CallsEndNew'
      BY <2>1, <3>1, CallsEndNewStep DEF OrderInv
    <3>3. RequestsMatch'
      BY <2>1, RequestsMatchStep DEF OrderInv
    <3>4. VoteTerms'
      BY <2>1, VoteTermsStep DEF OrderInv
    <3>5. VotesOrdered'
      BY <2>1, VotesOrderedStep
    <3>. QED
      BY <3>1, <3>2, <3>3, <3>4, <3>5 DEF OrderInv
  <2>. QED
    BY <2>1, RestartOrder DEF NextRestart
<1>. QED
  BY <1>1, <1>2, DiskInvariant, PTL DEF SpecRestart

\* Whoever wins an election has a log as up to date as those its voters have by then, but
\* for entries of the election's term or a later one: for any number of nodes, however
\* the calls are delayed, lost or reordered, and over any number of restarts
\* (RequestVote, __is_log_uptodate).
THEOREM WinnersUpToDate == SpecRestart => WinnerUpToDate
<1> DEFINE Ordered == \A n \in Node : state[n] # "LEADER" /\ state'[n] = "LEADER" =>
                        \A v \in voters'[n] : \/ IsUpToDate(logs[n], logs[v])
                                              \/ LastTerm(logs[v]) >= currentTerm[n]
<1>1. TypeInv /\ TypeInv' /\ OrderInv /\ [NextRestart]_vars => Ordered
  <2> SUFFICES ASSUME TypeOK, TypeOK', OrderInv, [NextRestart]_vars, NEW n \in Node,
                      state[n] # "LEADER", state'[n] = "LEADER", NEW v \in voters'[n]
               PROVE  IsUpToDate(logs[n], logs[v]) \/ LastTerm(logs[v]) >= currentTerm[n]
    BY DEF TypeInv
  <2>0. [Next]_vars
    <3>1. ASSUME NEW k \in Node, Restart(k) PROVE state'[n] # "LEADER"
      BY <3>1 DEF Restart, BecomeFollower, TypeOK
    <3>. QED
      BY <3>1 DEF NextRestart
  <2>1. CASE v = n
    <3>1. Len(logs[n]) \in Nat
      BY LenProperties DEF TypeOK
    <3>. QED
      BY <2>1, <3>1 DEF IsUpToDate
  <2>2. CASE v # n
    <3>1. v \in Node /\ state[n] = "CANDIDATE" /\ state'[n] # "FOLLOWER"
      BY <2>0, Roles DEF TypeOK
    <3>2. Granted(v, n, currentTerm[n])
      BY <2>0, <2>2, <3>1, VotersMove
    <3>. QED
      BY <3>1, <3>2 DEF OrderInv, VotesOrdered, InOrder
  <2>. QED
    BY <2>1, <2>2
<1>2. SpecRestart => [][Ordered]_vars
  BY <1>1, OrderInvariant, PTL DEF SpecRestart
<1>. QED
  BY <1>2 DEF WinnerUpToDate

=============================================================================

---------------------------- MODULE Raft_proofs ----------------------------
(***************************************************************************)
(* Proofs about Raft.tla, for every number of nodes and every bound: type  *)
(* correctness, the files over restarts, elections without restarts, and   *)
(* what holds when no call of another leader is left where one is elected  *)
(* (PromptStep): a leader's log, and whom nodes name as the leader.        *)
(***************************************************************************)
EXTENDS Raft, TLAPS, FiniteSetTheorems, SequenceTheorems

-----------------------------------------------------------------------------
(***************************************************************************)
(* Type correctness                                                        *)
(***************************************************************************)

\* The calls a heartbeat sends are well formed.
LEMMA AppendCallType ==
  ASSUME TypeOK, NEW n \in Node, NEW p \in Node, NEW slot \in Nat,
         NEW log \in Seq(Entry), NEW next \in Nat, next <= Len(log)
  PROVE  AppendCall(n, p, slot, log, next) \in AppendReq
<1>1. Len(log) \in Nat
  BY LenProperties
<1>2. SubSeq(log, next + 1, Len(log)) \in Seq(Entry)
  <2>1. \A i \in next + 1 .. Len(log) : log[i] \in Entry
    BY <1>1, ElementOfSeq
  <2> QED
    BY <1>1, <2>1, SubSeqProperties
<1>3. (IF next = 0 THEN -1 ELSE log[next].term) \in Nat \cup {-1}
  <2>1. next # 0 => log[next] \in Entry
    BY <1>1, ElementOfSeq
  <2> QED
    BY <2>1 DEF Entry
<1>4. currentTerm[n] \in Nat /\ commitIndex[n] \in Nat
  BY DEF TypeOK
<1> QED
  BY <1>2, <1>3, <1>4 DEF AppendCall, AppendReq

\* There are finitely many calls, so a number is left for one more.
CallsFinite == IsFiniteSet(appendReqs) /\ IsFiniteSet(appendReplies)

LEMMA FreeSlotType ==
  ASSUME TypeOK, CallsFinite, NEW n, NEW p
  PROVE  FreeSlot(n, p) \in Nat
<1> DEFINE Reqs == {r \in appendReqs : r.src = n /\ r.dst = p}
           Replies == {r \in appendReplies : r.dst = n /\ r.src = p}
           reqSlot == [m \in Reqs |-> m.slot]
           replySlot == [m \in Replies |-> m.slot]
           S == {reqSlot[m] : m \in Reqs}
           T == {replySlot[m] : m \in Replies}
           O == OpenSlots(n, p)
<1>1. IsFiniteSet(Reqs) /\ IsFiniteSet(Replies)
  <2>1. Reqs \in SUBSET appendReqs /\ Replies \in SUBSET appendReplies
    OBVIOUS
  <2>. HIDE DEF Reqs, Replies
  <2>. QED
    BY <2>1, FS_Subset DEF CallsFinite
<1>2. reqSlot \in Surjection(Reqs, S) /\ replySlot \in Surjection(Replies, T)
  BY DEF Surjection
<1>3. IsFiniteSet(S) /\ IsFiniteSet(T)
  <2>. HIDE DEF Reqs, Replies, reqSlot, replySlot, S, T
  <2>. QED
    BY <1>1, <1>2, FS_Surjection
<1>4. O = S \cup T
  BY DEF OpenSlots
<1>5. IsFiniteSet(O)
  <2>. HIDE DEF S, T, O
  <2>. QED
    BY <1>3, <1>4, FS_Union
<1>6. Cardinality(O) \in Nat
  BY <1>5, FS_CardinalityType
<1>7. \E s \in 0..Cardinality(O) : s \notin O
  <2>. HIDE DEF O
  <2>1. IsFiniteSet(0..Cardinality(O)) /\ Cardinality(0..Cardinality(O)) = Cardinality(O) + 1
    BY <1>6, FS_Interval
  <2>2. 0..Cardinality(O) \subseteq O => Cardinality(O) + 1 <= Cardinality(O)
    BY <1>5, <2>1, FS_Subset
  <2>. QED
    BY <1>6, <2>2
<1>. QED
  BY <1>6, <1>7 DEF FreeSlot

\* A heartbeat only adds well-formed calls.
LEMMA SendHeartbeatType ==
  ASSUME TypeOK, CallsFinite, NEW n \in Node, NEW log \in Seq(Entry), NEW next \in [Node -> Nat],
         SendHeartbeat(n, log, next)
  PROVE  /\ appendReqs' \subseteq AppendReq
         /\ appendReplies' = appendReplies
         /\ timerAlive' \in [Node -> BOOLEAN]
<1> DEFINE inRange == {p \in Node \ {n} : next[p] <= Len(log)}
<1>1. PICK P \in SUBSET inRange : SendAppendEntries(n, P, log, next)
  BY DEF SendHeartbeat
<1>2. ASSUME NEW p \in P
      PROVE  AppendCall(n, p, FreeSlot(n, p), log, next[p]) \in AppendReq
  <2>2. FreeSlot(n, p) \in Nat
    BY FreeSlotType
  <2>3. p \in Node /\ next[p] \in Nat /\ next[p] <= Len(log)
    BY <1>2
  <2> QED
    BY <2>2, <2>3, AppendCallType
<1>3. appendReqs' \subseteq AppendReq /\ appendReplies' = appendReplies
  BY <1>1, <1>2 DEF SendAppendEntries, TypeOK
<1>4. timerAlive' \in [Node -> BOOLEAN]
  BY DEF SendHeartbeat, TypeOK
<1> QED
  BY <1>3, <1>4

\* __persist writes well-formed files.
LEMMA PersistType ==
  ASSUME TypeOK, NEW n \in Node, Persist(n),
         currentTerm' \in [Node -> Nat], votedFor' \in [Node -> Node \cup {Nil}],
         logs' \in [Node -> Seq(Entry)], commitIndex' \in [Node -> Nat]
  PROVE  disk' \in [Node -> FileType]
<1>1. currentTerm'[n] \in Nat /\ votedFor'[n] \in Node \cup {Nil} /\ commitIndex'[n] \in Nat
      /\ logs'[n] \in Seq(Entry) /\ disk[n].logs \in Seq(Entry)
  BY DEF TypeOK, FileType
<1> QED
  BY <1>1 DEF Persist, TypeOK, FileType

LEMMA AppendEntryType ==
  ASSUME TypeOK, NEW n \in Node, NEW cmd \in Value \cup {NOOP}, AppendEntry(n, cmd)
  PROVE  /\ logs' \in [Node -> Seq(Entry)]
         /\ disk' \in [Node -> FileType]
         /\ UNCHANGED <<currentTerm, votedFor, commitIndex>>
<1>1. [term |-> currentTerm[n], cmd |-> cmd] \in Entry
  BY DEF TypeOK, Entry
<1>2. Append(logs[n], [term |-> currentTerm[n], cmd |-> cmd]) \in Seq(Entry)
  BY <1>1, AppendProperties DEF TypeOK
<1>3. logs' \in [Node -> Seq(Entry)]
  BY <1>2 DEF AppendEntry, TypeOK
<1> QED
  BY <1>3, PersistType DEF AppendEntry, TypeOK

LEMMA AcquireType ==
  ASSUME TypeOK, CallsFinite, NEW n \in Node, NEW next \in [Node -> Nat], AcquireLeaseAs(n, next)
  PROVE  /\ logs' \in [Node -> Seq(Entry)]
         /\ disk' \in [Node -> FileType]
         /\ UNCHANGED <<currentTerm, votedFor, commitIndex>>
         /\ has_lease' \in [Node -> BOOLEAN]
         /\ nextIndex' \in [Node -> [Node -> Nat]]
         /\ appendReqs' \subseteq AppendReq
         /\ appendReplies' = appendReplies
         /\ timerAlive' \in [Node -> BOOLEAN]
<1>1. AppendEntry(n, NOOP)
  BY DEF AcquireLeaseAs
<1>2. logs' \in [Node -> Seq(Entry)]
  BY <1>1, AppendEntryType
<1>3. /\ appendReqs' \subseteq AppendReq
      /\ appendReplies' = appendReplies
      /\ timerAlive' \in [Node -> BOOLEAN]
  BY <1>2, SendHeartbeatType DEF AcquireLeaseAs
<1>4. has_lease' \in [Node -> BOOLEAN] /\ nextIndex' \in [Node -> [Node -> Nat]]
  BY DEF AcquireLeaseAs, TypeOK
<1> QED
  BY <1>1, <1>2, <1>3, <1>4, AppendEntryType

LEMMA ChangeStateToFollowerType ==
  ASSUME TypeOK, NEW n \in Node, NEW term \in Nat, ChangeStateToFollower(n, term)
  PROVE  /\ state' \in [Node -> {"FOLLOWER", "CANDIDATE", "LEADER"}]
         /\ currentTerm' \in [Node -> Nat]
         /\ votedFor' \in [Node -> Node \cup {Nil}]
         /\ leaderId' \in [Node -> Node \cup {Nil}]
         /\ UNCHANGED <<logs, commitIndex>>
         /\ disk' \in [Node -> FileType]
<1>1. /\ state' \in [Node -> {"FOLLOWER", "CANDIDATE", "LEADER"}]
      /\ currentTerm' \in [Node -> Nat]
      /\ votedFor' \in [Node -> Node \cup {Nil}]
      /\ leaderId' \in [Node -> Node \cup {Nil}]
  BY DEF ChangeStateToFollower, BecomeFollower, TypeOK
<1> QED
  BY <1>1, PersistType DEF ChangeStateToFollower, TypeOK

\* The last term of a log, as RequestVote sends it
LEMMA LastTermType ==
  ASSUME NEW log \in Seq(Entry)
  PROVE  LastTerm(log) \in Nat \cup {-1}
<1>1. CASE log = <<>>
  BY <1>1 DEF LastTerm
<1>2. CASE log # <<>>
  <2>1. Len(log) \in 1..Len(log)
    BY <1>2, EmptySeq
  <2>2. log[Len(log)] \in Entry
    BY <2>1, ElementOfSeq
  <2> QED
    BY <1>2, <2>2 DEF LastTerm, Entry
<1> QED
  BY <1>1, <1>2

\* A conflictIndex is a length.
LEMMA RunStartType ==
  ASSUME NEW log, NEW i \in Nat
  PROVE  RunStart(log, i) \in Nat
<1> DEFINE S == {j \in 1..i : \E k \in j..i : log[k].term # log[i].term}
<1>1. IsFiniteSet(1..i) /\ S \in SUBSET (1..i)
  BY FS_Interval
<1>2. IsFiniteSet(S)
  BY <1>1, FS_Subset
<1> QED
  BY <1>2, FS_CardinalityType DEF RunStart

\* A refusal that is not about the term names the place to go back to.
ConflictKnown ==
  \A r \in appendReplies : ~r.success /\ r.replyTerm <= r.term => r.conflictIndex \in Nat

Typed == TypeOK /\ ConflictKnown

TypeInv == TypeOK /\ ConflictKnown /\ CallsFinite

LEMMA TypeInit == Init => TypeInv
<1> SUFFICES ASSUME Init PROVE TypeInv
  OBVIOUS
<1>1. <<>> \in Seq(Entry)
  BY EmptySeq
<1>2. [currentTerm |-> 0, votedFor |-> Nil, commitIndex |-> 0, logs |-> <<>>] \in FileType
  BY <1>1 DEF FileType
<1>3. [p \in Node |-> 0] \in [Node -> Nat]
  OBVIOUS
<1> QED
  BY <1>1, <1>2, <1>3, FS_EmptySet DEF Init, TypeInv, Typed, TypeOK, ConflictKnown, CallsFinite, FileType

\* The answer to an AppendEntries call, and what it does to the receiver
LEMMA HandleAppendEntriesType ==
  ASSUME TypeInv, NEW m \in appendReqs, HandleAppendEntries(m)
  PROVE  Typed'
<1> DEFINE n == m.dst
           log == logs[n]
           rejected == currentTerm[n] > m.term
           missing == m.prevLogIndex > Len(log)
           conflict == ~missing /\ Mismatch(log, m)
           accepted == ~rejected /\ ~missing /\ ~conflict
           newLog == SubSeq(log, 1, m.prevLogIndex) \o m.entries
           newCommit == IF m.leaderCommit <= commitIndex[n] THEN commitIndex[n]
                        ELSE IF m.leaderCommit <= Len(newLog) THEN m.leaderCommit
                                                              ELSE Len(newLog)
           reply == [src |-> n, dst |-> m.src, slot |-> m.slot, term |-> m.term,
                     count |-> Len(m.entries), success |-> accepted,
                     replyTerm |-> currentTerm[n],
                     conflictIndex |-> IF rejected \/ accepted THEN -1
                                       ELSE IF missing THEN Len(log)
                                       ELSE RunStart(log, m.prevLogIndex)]
<1> USE DEF TypeInv, Typed
<1>1. /\ n \in Node /\ m.src \in Node /\ m.slot \in Nat /\ m.term \in Nat
      /\ m.prevLogIndex \in Nat /\ m.entries \in Seq(Entry) /\ m.leaderCommit \in Nat
  BY DEF TypeOK, AppendReq
<1>2. log \in Seq(Entry) /\ Len(log) \in Nat /\ currentTerm[n] \in Nat /\ commitIndex[n] \in Nat
  BY <1>1, LenProperties DEF TypeOK
<1>3. accepted => newLog \in Seq(Entry)
  <2> SUFFICES ASSUME accepted PROVE newLog \in Seq(Entry)
    OBVIOUS
  <2>1. \A i \in 1..m.prevLogIndex : log[i] \in Entry
    BY <1>1, <1>2, ElementOfSeq
  <2>2. SubSeq(log, 1, m.prevLogIndex) \in Seq(Entry)
    BY <1>1, <2>1, SubSeqProperties
  <2> QED
    BY <1>1, <2>2, ConcatProperties
<1>4. accepted => newCommit \in Nat
  <2>1. accepted => Len(newLog) \in Nat
    BY <1>3, LenProperties
  <2> QED
    BY <1>1, <1>2, <2>1
<1>5. logs' \in [Node -> Seq(Entry)] /\ commitIndex' \in [Node -> Nat]
  <2>1. CASE accepted
    <3>1. logs' = [logs EXCEPT ![n] = newLog] /\ commitIndex' = [commitIndex EXCEPT ![n] = newCommit]
      BY <2>1 DEF HandleAppendEntries
    <3> QED
      BY <1>3, <1>4, <2>1, <3>1 DEF TypeOK
  <2>2. CASE ~accepted
    BY <2>2 DEF HandleAppendEntries, TypeOK
  <2> QED
    BY <2>1, <2>2
<1>6. /\ state' \in [Node -> {"FOLLOWER", "CANDIDATE", "LEADER"}]
      /\ currentTerm' \in [Node -> Nat]
      /\ votedFor' \in [Node -> Node \cup {Nil}]
      /\ leaderId' \in [Node -> Node \cup {Nil}]
  <2>1. CASE rejected
    BY <2>1 DEF HandleAppendEntries, TypeOK
  <2>2. CASE ~rejected /\ state[n] = "CANDIDATE"
    <3>1. /\ state' = [state EXCEPT ![n] = "FOLLOWER"]
          /\ currentTerm' = [currentTerm EXCEPT ![n] = m.term]
          /\ votedFor' = [votedFor EXCEPT ![n] = Nil]
          /\ leaderId' = [leaderId EXCEPT ![n] = m.src]
      BY <2>2 DEF HandleAppendEntries
    <3> QED
      BY <1>1, <3>1 DEF TypeOK
  <2>3. CASE ~rejected /\ state[n] # "CANDIDATE"
    BY <1>1, <2>3 DEF HandleAppendEntries, TypeOK
  <2> QED
    BY <2>1, <2>2, <2>3
<1>7. disk' \in [Node -> FileType]
  <2>1. Persist(n) \/ UNCHANGED disk
    BY DEF HandleAppendEntries
  <2> QED
    BY <1>1, <1>5, <1>6, <2>1, PersistType DEF TypeOK, FileType
<1>8. reply.conflictIndex \in Nat \cup {-1}
      /\ (~reply.success /\ reply.replyTerm <= reply.term => reply.conflictIndex \in Nat)
  <2>1. RunStart(log, m.prevLogIndex) \in Nat
    BY <1>1, RunStartType
  <2>2. CASE accepted
    <3>1. reply.success /\ reply.conflictIndex = -1
      BY <2>2
    <3> QED
      BY <3>1
  <2>3. CASE rejected
    <3>1. reply.conflictIndex = -1 /\ reply.replyTerm > reply.term
      BY <2>3
    <3> QED
      BY <1>1, <1>2, <3>1
  <2>4. CASE ~accepted /\ ~rejected
    <3>1. reply.conflictIndex = IF missing THEN Len(log) ELSE RunStart(log, m.prevLogIndex)
      BY <2>4
    <3> QED
      BY <1>2, <2>1, <3>1
  <2> QED
    BY <2>2, <2>3, <2>4
<1>9. reply \in AppendReply
  <2>1. Len(m.entries) \in Nat
    BY <1>1, LenProperties
  <2>2. reply.conflictIndex \in Nat \cup {-1}
    BY <1>8
  <2> QED
    BY <1>1, <1>2, <2>1, <2>2 DEF AppendReply
<1>10. appendReqs' \subseteq AppendReq /\ appendReplies' = appendReplies \cup {reply}
  BY DEF HandleAppendEntries, TypeOK
<1>11. appendReplies' \subseteq AppendReply /\ ConflictKnown'
  BY <1>8, <1>9, <1>10 DEF TypeOK, ConflictKnown
<1>12. UNCHANGED <<applied, nextIndex, has_lease, timerAlive, elections, restarts>>
  BY DEF HandleAppendEntries
<1> QED
  BY <1>5, <1>6, <1>7, <1>10, <1>11, <1>12 DEF TypeOK, FileType, elections

LEMMA HandleRequestVoteType ==
  ASSUME TypeInv, NEW m \in voteReqs, HandleRequestVote(m)
  PROVE  Typed'
<1> USE DEF TypeInv, Typed
<1> DEFINE n == m.dst
           stale == m.term < currentTerm[n]
           newTerm == m.term > currentTerm[n]
           granted == Grants(n, m)
           reply == [src |-> n, dst |-> m.src, term |-> m.term, granted |-> granted,
                     replyTerm |-> IF stale THEN currentTerm[n] ELSE -1]
<1>1. n \in Node /\ m.src \in Node /\ m.term \in Nat
  BY DEF TypeOK, VoteReq
<1>2. currentTerm[n] \in Nat /\ granted \in BOOLEAN
  BY <1>1 DEF TypeOK, Grants, IsLogUptodate
<1>3. reply \in VoteReply
  BY <1>1, <1>2 DEF VoteReply
<1>4. voteReqs' \subseteq VoteReq /\ voteReplies' \subseteq VoteReply
  <2>1. voteReqs' = voteReqs \ {m} /\ voteReplies' = voteReplies \cup {reply}
    BY DEF HandleRequestVote
  <2> QED
    BY <1>3, <2>1 DEF TypeOK
<1>5. state' \in [Node -> {"FOLLOWER", "CANDIDATE", "LEADER"}]
      /\ leaderId' \in [Node -> Node \cup {Nil}]
  BY DEF HandleRequestVote, TypeOK
<1>6. /\ currentTerm' \in [Node -> Nat] /\ votedFor' \in [Node -> Node \cup {Nil}]
      /\ UNCHANGED <<logs, commitIndex>> /\ (Persist(n) \/ UNCHANGED disk)
  <2>1. CASE newTerm \/ granted
    <3>1. /\ currentTerm' = [currentTerm EXCEPT ![n] = m.term]
          /\ votedFor' = [votedFor EXCEPT ![n] = IF granted THEN m.src ELSE Nil]
          /\ UNCHANGED <<logs, commitIndex>>
          /\ Persist(n)
      BY <2>1 DEF HandleRequestVote
    <3> QED
      BY <1>1, <3>1 DEF TypeOK
  <2>2. CASE ~(newTerm \/ granted)
    <3>1. UNCHANGED <<persistent, commitIndex, disk>>
      BY <2>2 DEF HandleRequestVote
    <3> QED
      BY <3>1 DEF TypeOK, persistent
  <2> QED
    BY <2>1, <2>2
<1>7. disk' \in [Node -> FileType]
  BY <1>1, <1>6, PersistType DEF TypeOK
<1>8. UNCHANGED <<applied, nextIndex, has_lease, timerAlive, votes_received, voters,
                  calls, restarts>>
  BY DEF HandleRequestVote
<1> QED
  BY <1>4, <1>5, <1>6, <1>7, <1>8 DEF TypeOK, ConflictKnown, calls

LEMMA HandleVoteReplyType ==
  ASSUME TypeInv, NEW m \in voteReplies, HandleVoteReply(m)
  PROVE  Typed'
<1> USE DEF TypeInv, Typed
<1> DEFINE n == m.dst
           next == [p \in Node |-> Len(logs[n])]
<1>1. n \in Node /\ m.src \in Node /\ m.term \in Nat /\ m.replyTerm \in Nat \cup {-1}
  BY DEF TypeOK, VoteReply
<1>2. voteReplies' \subseteq VoteReply /\ UNCHANGED <<applied, voteReqs, restarts>>
  BY DEF HandleVoteReply, TypeOK
<1>3. next \in [Node -> Nat]
  BY <1>1, LenProperties DEF TypeOK
<1>4. CASE state[n] # "CANDIDATE" \/ currentTerm[n] # m.term
  BY <1>2, <1>4 DEF HandleVoteReply, TypeOK, ConflictKnown, persistent, calls
<1>5. CASE state[n] = "CANDIDATE" /\ currentTerm[n] = m.term /\ ~m.granted
  <2>1. UNCHANGED <<nextIndex, has_lease, timerAlive, votes_received, voters, calls>>
    BY <1>5 DEF HandleVoteReply
  <2>2. CASE currentTerm[n] < m.replyTerm
    <3>1. m.replyTerm \in Nat
      BY <1>1, <2>2 DEF TypeOK
    <3>2. ChangeStateToFollower(n, m.replyTerm)
      BY <1>5, <2>2 DEF HandleVoteReply
    <3>3. /\ state' \in [Node -> {"FOLLOWER", "CANDIDATE", "LEADER"}]
          /\ currentTerm' \in [Node -> Nat]
          /\ votedFor' \in [Node -> Node \cup {Nil}]
          /\ leaderId' \in [Node -> Node \cup {Nil}]
          /\ UNCHANGED <<logs, commitIndex>>
          /\ disk' \in [Node -> FileType]
      BY <1>1, <3>1, <3>2, ChangeStateToFollowerType
    <3> QED
      BY <1>2, <2>1, <3>3 DEF TypeOK, ConflictKnown, calls
  <2>3. CASE ~(currentTerm[n] < m.replyTerm)
    <3>1. UNCHANGED <<persistent, state, commitIndex, leaderId, disk>>
      BY <1>5, <2>3 DEF HandleVoteReply
    <3> QED
      BY <1>2, <2>1, <3>1 DEF TypeOK, ConflictKnown, persistent, calls
  <2> QED
    BY <2>2, <2>3
<1>6. CASE state[n] = "CANDIDATE" /\ currentTerm[n] = m.term /\ m.granted
  <2>1. votes_received' \in [Node -> Nat] /\ voters' \in [Node -> SUBSET Node]
    <3>1. /\ votes_received' = [votes_received EXCEPT ![n] = @ + 1]
          /\ voters' = [voters EXCEPT ![n] = @ \cup {m.src}]
      BY <1>6 DEF HandleVoteReply
    <3>2. votes_received[n] + 1 \in Nat
      <4>1. votes_received \in [Node -> Nat] /\ n \in Node
        BY <1>1 DEF TypeOK
      <4> QED
        BY <4>1
    <3>3. voters[n] \in SUBSET Node
      BY <1>1 DEF TypeOK
    <3>4. voters[n] \cup {m.src} \in SUBSET Node
      BY <1>1, <3>3
    <3>5. votes_received' \in [Node -> Nat]
      BY <3>1, <3>2 DEF TypeOK
    <3>6. voters' \in [Node -> SUBSET Node]
      BY <3>1, <3>4 DEF TypeOK
    <3> QED
      BY <3>5, <3>6
  <2>2. state' \in [Node -> {"FOLLOWER", "CANDIDATE", "LEADER"}]
        /\ leaderId' \in [Node -> Node \cup {Nil}]
    <3>1. \/ /\ state' = [state EXCEPT ![n] = "LEADER"]
             /\ leaderId' = [leaderId EXCEPT ![n] = n]
          \/ UNCHANGED <<state, leaderId>>
      BY <1>6 DEF HandleVoteReply
    <3> QED
      BY <1>1, <3>1 DEF TypeOK
  <2>3. CASE AcquireLeaseAs(n, next)
    BY <1>1, <1>2, <1>3, <2>1, <2>2, <2>3, AcquireType DEF TypeOK, ConflictKnown
  <2>4. CASE UNCHANGED <<persistent, commitIndex, timerAlive, disk, calls>>
             /\ has_lease' \in [Node -> BOOLEAN] /\ nextIndex' \in [Node -> [Node -> Nat]]
    BY <1>2, <2>1, <2>2, <2>4 DEF TypeOK, ConflictKnown, persistent, calls
  <2>5. \/ AcquireLeaseAs(n, next)
        \/ /\ has_lease' = [has_lease EXCEPT ![n] = FALSE]
           /\ nextIndex' = [nextIndex EXCEPT ![n] = next]
           /\ UNCHANGED <<persistent, commitIndex, timerAlive, disk, calls>>
        \/ UNCHANGED <<persistent, state, commitIndex, nextIndex, leaderId,
                       has_lease, timerAlive, disk, calls>>
    BY <1>6 DEF HandleVoteReply
  <2> QED
    BY <1>3, <2>3, <2>4, <2>5 DEF TypeOK
<1> QED
  BY <1>4, <1>5, <1>6 DEF HandleVoteReply

LEMMA HandleAppendReplyType ==
  ASSUME TypeInv, NEW m \in appendReplies, HandleAppendReply(m)
  PROVE  Typed'
<1> USE DEF TypeInv, Typed
<1> DEFINE n == m.dst
           open == state[n] = "LEADER" /\ currentTerm[n] = m.term
           next == [nextIndex[n] EXCEPT ![m.src] = @ + m.count]
<1>1. /\ n \in Node /\ m.src \in Node /\ m.term \in Nat /\ m.count \in Nat
      /\ m.replyTerm \in Nat /\ m.success \in BOOLEAN
  BY DEF TypeOK, AppendReply
<1>2. /\ appendReplies' \subseteq AppendReply /\ ConflictKnown'
      /\ UNCHANGED <<applied, has_lease, timerAlive, elections, appendReqs, restarts>>
  BY DEF HandleAppendReply, TypeOK, ConflictKnown
<1>3. next \in [Node -> Nat]
  <2>1. nextIndex[n] \in [Node -> Nat]
    BY <1>1 DEF TypeOK
  <2> QED
    BY <1>1, <2>1
<1>4. CASE ~open
  BY <1>2, <1>4 DEF HandleAppendReply, TypeOK, persistent, elections
<1>5. CASE open /\ m.success
  <2>1. nextIndex' = [nextIndex EXCEPT ![n] = next] /\ UNCHANGED <<persistent, state, leaderId>>
    BY <1>5 DEF HandleAppendReply
  <2>2. nextIndex' \in [Node -> [Node -> Nat]]
    BY <1>3, <2>1 DEF TypeOK
  <2>3. CASE UNCHANGED <<commitIndex, disk>>
    BY <1>2, <2>1, <2>2, <2>3 DEF TypeOK, persistent, elections
  <2>4. ASSUME NEW i \in Committable(n, next),
               commitIndex' = [commitIndex EXCEPT ![n] = i], Persist(n)
        PROVE  Typed'
    <3>1. i \in Nat
      BY <1>3 DEF Committable
    <3>2. commitIndex' \in [Node -> Nat]
      BY <2>4, <3>1 DEF TypeOK
    <3>3. disk' \in [Node -> FileType]
      BY <1>1, <2>1, <2>4, <3>2, PersistType DEF TypeOK, persistent
    <3> QED
      BY <1>2, <2>1, <2>2, <3>2, <3>3 DEF TypeOK, persistent, elections
  <2> QED
    BY <1>5, <2>3, <2>4 DEF HandleAppendReply
<1>6. CASE open /\ ~m.success /\ m.replyTerm > currentTerm[n]
  <2>1. ChangeStateToFollower(n, m.replyTerm) /\ UNCHANGED nextIndex
    BY <1>1, <1>6 DEF HandleAppendReply, TypeOK
  <2>2. /\ state' \in [Node -> {"FOLLOWER", "CANDIDATE", "LEADER"}]
        /\ currentTerm' \in [Node -> Nat]
        /\ votedFor' \in [Node -> Node \cup {Nil}]
        /\ leaderId' \in [Node -> Node \cup {Nil}]
        /\ UNCHANGED <<logs, commitIndex>>
        /\ disk' \in [Node -> FileType]
    BY <1>1, <2>1, ChangeStateToFollowerType
  <2> QED
    BY <1>2, <2>1, <2>2 DEF TypeOK, elections
<1>7. CASE open /\ ~m.success /\ m.replyTerm <= currentTerm[n]
  <2>1. m.conflictIndex \in Nat
    BY <1>1, <1>7 DEF ConflictKnown
  <2>2. nextIndex' = [nextIndex EXCEPT ![n][m.src] = m.conflictIndex]
        /\ UNCHANGED <<persistent, state, commitIndex, leaderId, disk>>
    <3>1. ~(m.replyTerm > currentTerm[n])
      BY <1>1, <1>7 DEF TypeOK
    <3> QED
      BY <1>7, <3>1 DEF HandleAppendReply
  <2>3. nextIndex' \in [Node -> [Node -> Nat]]
    BY <1>1, <2>1, <2>2 DEF TypeOK
  <2> QED
    BY <1>2, <2>2, <2>3 DEF TypeOK, persistent, elections
<1> QED
  BY <1>4, <1>5, <1>6, <1>7 DEF HandleAppendReply

\* Every step keeps the types of the variables.
LEMMA TypedStep == TypeInv /\ [NextRestart]_vars => Typed'
<1> SUFFICES ASSUME TypeInv, [NextRestart]_vars PROVE Typed'
  OBVIOUS
<1> USE DEF TypeInv, Typed
<1>1. ASSUME NEW n \in Node, NEW v \in Value, WriteToRaft(n, v) PROVE Typed'
  <2>1. /\ logs' \in [Node -> Seq(Entry)]
        /\ disk' \in [Node -> FileType]
        /\ UNCHANGED <<currentTerm, votedFor, commitIndex>>
    BY <1>1, AppendEntryType DEF WriteToRaft
  <2>2. nextIndex' \in [Node -> [Node -> Nat]]
    BY <1>1 DEF WriteToRaft, TypeOK
  <2>3. UNCHANGED <<state, applied, leaderId, has_lease, timerAlive, elections, calls, restarts>>
    BY <1>1 DEF WriteToRaft
  <2> QED
    BY <2>1, <2>2, <2>3 DEF TypeOK, ConflictKnown, elections, calls
<1>2. ASSUME NEW n \in Node, ApplyLogs(n) PROVE Typed'
  <2> DEFINE end == IF commitIndex[n] <= Len(logs[n]) THEN commitIndex[n] ELSE Len(logs[n])
             new == SubSeq(logs[n], Len(applied[n]) + 1, end)
  <2>1. logs[n] \in Seq(Entry) /\ applied[n] \in Seq(Entry)
    BY DEF TypeOK
  <2>2. Len(logs[n]) \in Nat /\ Len(applied[n]) \in Nat /\ commitIndex[n] \in Nat
    BY <2>1, LenProperties DEF TypeOK
  <2>3. \A i \in Len(applied[n]) + 1 .. end : logs[n][i] \in Entry
    BY <2>1, <2>2, ElementOfSeq
  <2>4. new \in Seq(Entry)
    BY <2>2, <2>3, SubSeqProperties
  <2>5. applied[n] \o new \in Seq(Entry)
    BY <2>1, <2>4, ConcatProperties
  <2>6. applied' = [applied EXCEPT ![n] = applied[n] \o new]
    BY <1>2 DEF ApplyLogs, TypeOK
  <2>7. applied' \in [Node -> Seq(Entry)]
    BY <2>5, <2>6 DEF TypeOK
  <2> QED
    BY <1>2, <2>7 DEF ApplyLogs, TypeOK, ConflictKnown, persistent, elections, calls
<1>3. ASSUME NEW n \in Node, InitiateElection(n) PROVE Typed'
  <2>1. /\ currentTerm' \in [Node -> Nat] /\ votedFor' \in [Node -> Node \cup {Nil}]
        /\ UNCHANGED <<logs, commitIndex>> /\ Persist(n)
    BY <1>3 DEF InitiateElection, TypeOK
  <2>2. disk' \in [Node -> FileType]
    BY <2>1, PersistType DEF TypeOK
  <2>3. /\ state' \in [Node -> {"FOLLOWER", "CANDIDATE", "LEADER"}]
        /\ leaderId' \in [Node -> Node \cup {Nil}]
        /\ votes_received' \in [Node -> Nat] /\ voters' \in [Node -> SUBSET Node]
    BY <1>3 DEF InitiateElection, TypeOK
  <2>4. voteReqs' \subseteq VoteReq
    <3>1. currentTerm[n] + 1 \in Nat /\ Len(logs[n]) \in Nat /\ LastTerm(logs[n]) \in Nat \cup {-1}
      BY LenProperties, LastTermType DEF TypeOK
    <3> QED
      BY <1>3, <3>1 DEF InitiateElection, TypeOK, VoteReq
  <2>5. UNCHANGED <<applied, nextIndex, has_lease, timerAlive, voteReplies, calls, restarts>>
    BY <1>3 DEF InitiateElection
  <2> QED
    BY <2>1, <2>2, <2>3, <2>4, <2>5 DEF TypeOK, ConflictKnown, calls
<1>4. ASSUME NEW n \in Node, LeaseExpired(n) PROVE Typed'
  <2>1. currentTerm[n] \in Nat /\ ChangeStateToFollower(n, currentTerm[n])
    BY <1>4 DEF LeaseExpired, TypeOK
  <2>2. /\ state' \in [Node -> {"FOLLOWER", "CANDIDATE", "LEADER"}]
        /\ currentTerm' \in [Node -> Nat]
        /\ votedFor' \in [Node -> Node \cup {Nil}]
        /\ leaderId' \in [Node -> Node \cup {Nil}]
        /\ UNCHANGED <<logs, commitIndex>>
        /\ disk' \in [Node -> FileType]
    BY <2>1, ChangeStateToFollowerType
  <2>3. has_lease' \in [Node -> BOOLEAN]
        /\ UNCHANGED <<applied, nextIndex, timerAlive, elections, calls, restarts>>
    BY <1>4 DEF LeaseExpired, TypeOK
  <2> QED
    BY <2>2, <2>3 DEF TypeOK, ConflictKnown, elections, calls
<1>5. ASSUME NEW n \in Node, AcquireLease(n) PROVE Typed'
  <2>1. nextIndex[n] \in [Node -> Nat] /\ AcquireLeaseAs(n, nextIndex[n])
        /\ UNCHANGED <<state, applied, leaderId, elections, restarts>>
    BY <1>5 DEF AcquireLease, TypeOK
  <2> QED
    BY <2>1, AcquireType DEF TypeOK, ConflictKnown, elections
<1>6. ASSUME NEW n \in Node, Heartbeat(n) PROVE Typed'
  <2>1. nextIndex[n] \in [Node -> Nat] /\ logs[n] \in Seq(Entry)
        /\ SendHeartbeat(n, logs[n], nextIndex[n])
    BY <1>6 DEF Heartbeat, TypeOK
  <2>2. /\ appendReqs' \subseteq AppendReq
        /\ appendReplies' = appendReplies
        /\ timerAlive' \in [Node -> BOOLEAN]
    BY <2>1, SendHeartbeatType
  <2> QED
    BY <1>6, <2>2 DEF Heartbeat, TypeOK, ConflictKnown, persistent, elections
<1>7. ASSUME LoseAppendCall PROVE Typed'
  BY <1>7 DEF LoseAppendCall, TypeOK, ConflictKnown, persistent, elections
<1>8. ASSUME NEW n \in Node, Restart(n) PROVE Typed'
  <2>1. disk[n].currentTerm \in Nat /\ disk[n].commitIndex \in Nat /\ disk[n].logs \in Seq(Entry)
    BY DEF TypeOK, FileType
  <2>2. /\ logs' \in [Node -> Seq(Entry)] /\ commitIndex' \in [Node -> Nat]
        /\ currentTerm' \in [Node -> Nat] /\ votedFor' \in [Node -> Node \cup {Nil}]
        /\ state' \in [Node -> {"FOLLOWER", "CANDIDATE", "LEADER"}]
        /\ leaderId' \in [Node -> Node \cup {Nil}]
    BY <1>8, <2>1 DEF Restart, BecomeFollower, TypeOK
  <2>3. disk' \in [Node -> FileType]
    BY <1>8, <2>2, PersistType DEF Restart
  <2>4. applied' \in [Node -> Seq(Entry)]
    BY <1>8, EmptySeq DEF Restart, TypeOK
  <2>5. /\ nextIndex' \in [Node -> [Node -> Nat]] /\ has_lease' \in [Node -> BOOLEAN]
        /\ timerAlive' \in [Node -> BOOLEAN] /\ votes_received' \in [Node -> Nat]
        /\ voters' \in [Node -> SUBSET Node] /\ restarts' \in [Node -> Nat]
    BY <1>8 DEF Restart, TypeOK
  <2>6. /\ voteReplies' \subseteq VoteReply /\ appendReplies' \subseteq AppendReply
        /\ ConflictKnown' /\ UNCHANGED <<voteReqs, appendReqs>>
    BY <1>8 DEF Restart, TypeOK, ConflictKnown
  <2> QED
    BY <2>2, <2>3, <2>4, <2>5, <2>6 DEF TypeOK
<1>9. CASE UNCHANGED vars
  BY <1>9 DEF vars, persistent, elections, calls, TypeOK, ConflictKnown
<1> QED
  BY <1>1, <1>2, <1>3, <1>4, <1>5, <1>6, <1>7, <1>8, <1>9, HandleRequestVoteType,
     HandleVoteReplyType, HandleAppendEntriesType, HandleAppendReplyType DEF NextRestart, Next
\* Calls are submitted to peers, one to each, and answered one by one.
LEMMA FiniteStep == CallsFinite /\ [NextRestart]_vars => CallsFinite'
<1> SUFFICES ASSUME CallsFinite, [NextRestart]_vars PROVE CallsFinite'
  OBVIOUS
<1>1. ASSUME NEW n, NEW log, NEW next, SendHeartbeat(n, log, next) PROVE CallsFinite'
  <2> DEFINE inRange == {p \in Node \ {n} : next[p] <= Len(log)}
  <2>1. PICK P \in SUBSET inRange : SendAppendEntries(n, P, log, next)
    BY <1>1 DEF SendHeartbeat
  <2> DEFINE call == [p \in P |-> AppendCall(n, p, FreeSlot(n, p), log, next[p])]
             new == {call[p] : p \in P}
  <2>2. IsFiniteSet(P)
    BY NodeAssumption, FS_Subset
  <2>3. call \in Surjection(P, new)
    BY DEF Surjection
  <2>4. IsFiniteSet(new)
    <3>. HIDE DEF call, new
    <3>. QED
      BY <2>2, <2>3, FS_Surjection
  <2>5. appendReqs' = appendReqs \cup new /\ appendReplies' = appendReplies
    BY <2>1 DEF SendAppendEntries
  <2>. QED
    BY <2>4, <2>5, FS_Union DEF CallsFinite
<1>2. ASSUME appendReqs' \in SUBSET appendReqs, NEW r, appendReplies' \in SUBSET (appendReplies \cup {r})
      PROVE  CallsFinite'
  BY <1>2, FS_Subset, FS_AddElement DEF CallsFinite
<1>3. UNCHANGED calls => CallsFinite'
  BY DEF calls, CallsFinite
<1>4. ASSUME NEW m \in voteReplies, HandleVoteReply(m) PROVE CallsFinite'
  BY <1>1, <1>3, <1>4 DEF HandleVoteReply, AcquireLeaseAs
<1>5. ASSUME NEW m \in appendReqs, HandleAppendEntries(m) PROVE CallsFinite'
  <2>1. appendReqs' \in SUBSET appendReqs /\ \E r : appendReplies' \in SUBSET (appendReplies \cup {r})
    BY <1>5 DEF HandleAppendEntries
  <2>. QED
    BY <1>2, <2>1
<1>6. ASSUME appendReqs' \in SUBSET appendReqs, appendReplies' \in SUBSET appendReplies
      PROVE  CallsFinite'
  BY <1>6, FS_Subset DEF CallsFinite
<1>7. ASSUME NEW m \in appendReplies, HandleAppendReply(m) PROVE CallsFinite'
  BY <1>6, <1>7 DEF HandleAppendReply
<1>8. ASSUME LoseAppendCall \/ (\E n \in Node : Restart(n)) PROVE CallsFinite'
  BY <1>6, <1>8 DEF LoseAppendCall, Restart
<1>9. ASSUME NEW n \in Node, AcquireLease(n) \/ Heartbeat(n) PROVE CallsFinite'
  BY <1>1, <1>9 DEF AcquireLease, AcquireLeaseAs, Heartbeat
<1>. QED
  BY <1>3, <1>4, <1>5, <1>7, <1>8, <1>9
     DEF NextRestart, Next, vars, calls, WriteToRaft, ApplyLogs, InitiateElection, HandleRequestVote,
         LeaseExpired

\* Every step keeps the types.
LEMMA TypeStep == TypeInv /\ [NextRestart]_vars => TypeInv'
  BY TypedStep, FiniteStep DEF TypeInv, Typed

LEMMA TypeInvariant == SpecRestart => []TypeInv
<1> QED
  BY TypeInit, TypeStep, PTL DEF SpecRestart

\* The nodes' state and the messages keep the types of __init__ and of
\* raft.proto, whatever is lost, delayed or restarted.
THEOREM TypeCorrect == SpecRestart => []TypeOK
<1>1. TypeInv => TypeOK
  BY DEF TypeInv
<1> QED
  BY TypeInvariant, <1>1, PTL

-----------------------------------------------------------------------------
(***************************************************************************)
(* What the files of Raft.tla hold between two handlers, over restarts and *)
(* for every number of nodes.  The log file is not written when the log is *)
(* empty, so the files can only be right because no log ever shrinks to    *)
(* nothing: a call without a previous entry carries the whole log of a     *)
(* leader that has one.                                                    *)
(***************************************************************************)

\* A leader that sends has a log, ...
SenderHasLog == \A n \in Node : state[n] = "LEADER" /\ has_lease[n] => logs[n] # <<>>

\* ... so a call that replaces a whole log does not empty it.
WholeLogSent == \A m \in appendReqs : m.prevLogIndex = 0 => m.entries # <<>>

DiskInv == DiskMatchesMemory /\ SenderHasLog /\ WholeLogSent

LEMMA DiskInit == Init => DiskInv
BY DEF Init, DiskInv, DiskMatchesMemory, SenderHasLog, WholeLogSent

SameElsewhere(n) ==
  \A p \in Node \ {n} : /\ currentTerm'[p] = currentTerm[p] /\ votedFor'[p] = votedFor[p]
                        /\ commitIndex'[p] = commitIndex[p] /\ logs'[p] = logs[p]

\* A handler that ends with __persist leaves the files right.
LEMMA PersistMatches ==
  ASSUME TypeOK, DiskMatchesMemory, NEW n \in Node, Persist(n), SameElsewhere(n),
         logs'[n] = <<>> => logs[n] = <<>>
  PROVE  DiskMatchesMemory'
<1>1. \A p \in Node \ {n} : disk'[p] = disk[p]
  BY DEF Persist, TypeOK
<1>2. disk'[n] = [currentTerm |-> currentTerm'[n], votedFor |-> votedFor'[n],
                  commitIndex |-> commitIndex'[n],
                  logs |-> IF logs'[n] = <<>> THEN disk[n].logs ELSE logs'[n]]
  BY DEF Persist, TypeOK
<1>3. disk[n].logs = logs[n]
  <2>1. disk[n] = [currentTerm |-> currentTerm[n], votedFor |-> votedFor[n],
                   commitIndex |-> commitIndex[n], logs |-> logs[n]]
    BY DEF DiskMatchesMemory
  <2> QED
    BY <2>1
<1>4. disk'[n] = [currentTerm |-> currentTerm'[n], votedFor |-> votedFor'[n],
                  commitIndex |-> commitIndex'[n], logs |-> logs'[n]]
  BY <1>2, <1>3
<1> QED
  BY <1>1, <1>4 DEF DiskMatchesMemory, SameElsewhere

\* Steps that change neither a log, a lease nor a role, and send nothing.
LEMMA DiskQuiet ==
  ASSUME DiskInv, UNCHANGED <<logs, has_lease>>, appendReqs' \subseteq appendReqs,
         \A n \in Node : state'[n] = "LEADER" => state[n] = "LEADER",
         DiskMatchesMemory'
  PROVE  DiskInv'
BY DEF DiskInv, SenderHasLog, WholeLogSent

\* A leader's write and the NO-OP of a new lease
LEMMA AppendEntryKeepsDisk ==
  ASSUME TypeOK, DiskMatchesMemory, NEW n \in Node, NEW cmd \in Value \cup {NOOP},
         AppendEntry(n, cmd)
  PROVE  /\ DiskMatchesMemory'
         /\ logs'[n] # <<>> /\ logs'[n] \in Seq(Entry)
         /\ \A p \in Node \ {n} : logs'[p] = logs[p]
<1>1. logs'[n] = Append(logs[n], [term |-> currentTerm[n], cmd |-> cmd])
      /\ \A p \in Node \ {n} : logs'[p] = logs[p]
  BY DEF AppendEntry, TypeOK
<1>2. [term |-> currentTerm[n], cmd |-> cmd] \in Entry
  BY DEF TypeOK, Entry
<1>3. logs'[n] # <<>> /\ logs'[n] \in Seq(Entry)
  <2>1. logs'[n] \in Seq(Entry) /\ Len(logs'[n]) = Len(logs[n]) + 1 /\ Len(logs[n]) \in Nat
    BY <1>1, <1>2, AppendProperties, LenProperties DEF TypeOK
  <2> QED
    BY <2>1, EmptySeq
<1>4. DiskMatchesMemory'
  BY <1>1, <1>3, PersistMatches DEF AppendEntry, SameElsewhere
<1> QED
  BY <1>1, <1>3, <1>4

\* What a leader with a log sends is never an empty whole log.
LEMMA SendKeepsWholeLog ==
  ASSUME TypeOK, WholeLogSent, NEW n \in Node, NEW log \in Seq(Entry), log # <<>>,
         NEW next \in [Node -> Nat], SendHeartbeat(n, log, next)
  PROVE  WholeLogSent'
<1> DEFINE inRange == {p \in Node \ {n} : next[p] <= Len(log)}
<1>1. PICK P \in SUBSET inRange : SendAppendEntries(n, P, log, next)
  BY DEF SendHeartbeat
<1>2. ASSUME NEW m \in appendReqs', m \notin appendReqs
      PROVE  m.prevLogIndex = 0 => m.entries # <<>>
  <2>1. PICK p \in P : m = AppendCall(n, p, FreeSlot(n, p), log, next[p])
    BY <1>1, <1>2 DEF SendAppendEntries
  <2>2. m.prevLogIndex = next[p] /\ m.entries = SubSeq(log, next[p] + 1, Len(log))
    BY <2>1 DEF AppendCall
  <2>3. Len(log) \in Nat /\ Len(log) > 0
    BY LenProperties, EmptySeq
  <2>4. next[p] = 0 => m.entries = log
    BY <2>2, SubSeqFull
  <2> QED
    BY <2>2, <2>4
<1> QED
  BY <1>2 DEF WholeLogSent

LEMMA AcquireKeepsDisk ==
  ASSUME TypeOK, DiskInv, NEW n \in Node, NEW next \in [Node -> Nat],
         AcquireLeaseAs(n, next), \A p \in Node \ {n} : state'[p] = state[p]
  PROVE  DiskInv'
<1>1. AppendEntry(n, NOOP) /\ SendHeartbeat(n, logs'[n], next)
      /\ has_lease' = [has_lease EXCEPT ![n] = TRUE]
  BY DEF AcquireLeaseAs
<1>2. /\ DiskMatchesMemory'
      /\ logs'[n] # <<>> /\ logs'[n] \in Seq(Entry)
      /\ \A p \in Node \ {n} : logs'[p] = logs[p]
  BY <1>1, AppendEntryKeepsDisk DEF DiskInv
<1>3. WholeLogSent'
  BY <1>1, <1>2, SendKeepsWholeLog DEF DiskInv
<1>4. SenderHasLog'
  BY <1>1, <1>2 DEF DiskInv, SenderHasLog, TypeOK
<1> QED
  BY <1>2, <1>3, <1>4 DEF DiskInv

LEMMA StepDownKeepsDisk ==
  ASSUME TypeOK, DiskInv, NEW n \in Node, NEW term \in Nat, ChangeStateToFollower(n, term)
  PROVE  /\ DiskMatchesMemory' /\ logs' = logs
         /\ \A p \in Node : state'[p] = "LEADER" => state[p] = "LEADER"
<1>1. SameElsewhere(n) /\ logs' = logs /\ Persist(n)
  BY DEF ChangeStateToFollower, BecomeFollower, TypeOK, SameElsewhere
<1>2. \A p \in Node : state'[p] = "LEADER" => state[p] = "LEADER"
  BY DEF ChangeStateToFollower, BecomeFollower, TypeOK
<1> QED
  BY <1>1, <1>2, PersistMatches DEF DiskInv

LEMMA InitiateKeepsDisk ==
  ASSUME TypeOK, DiskInv, NEW n \in Node, InitiateElection(n)
  PROVE  DiskInv'
<1>1. SameElsewhere(n) /\ Persist(n)
      /\ UNCHANGED <<logs, has_lease, appendReqs>>
      /\ \A p \in Node : state'[p] = "LEADER" => state[p] = "LEADER"
  BY DEF InitiateElection, SameElsewhere, TypeOK, calls
<1>2. DiskMatchesMemory'
  BY <1>1, PersistMatches DEF DiskInv
<1> QED
  BY <1>1, <1>2, DiskQuiet

LEMMA RequestVoteKeepsDisk ==
  ASSUME TypeOK, DiskInv, NEW m \in voteReqs, HandleRequestVote(m)
  PROVE  DiskInv'
<1>1. m.dst \in Node
  BY DEF TypeOK, VoteReq
<1>2. UNCHANGED <<logs, commitIndex, has_lease, appendReqs>>
      /\ \A p \in Node : state'[p] = "LEADER" => state[p] = "LEADER"
  BY DEF HandleRequestVote, TypeOK, persistent, calls
<1>3. \/ SameElsewhere(m.dst) /\ Persist(m.dst)
      \/ UNCHANGED <<persistent, commitIndex, disk>>
  BY <1>1, <1>2 DEF HandleRequestVote, SameElsewhere, TypeOK
<1>4. DiskMatchesMemory'
  BY <1>1, <1>2, <1>3, PersistMatches DEF DiskInv, DiskMatchesMemory, persistent
<1> QED
  BY <1>2, <1>4, DiskQuiet

LEMMA VoteReplyKeepsDisk ==
  ASSUME TypeOK, DiskInv, NEW m \in voteReplies, HandleVoteReply(m)
  PROVE  DiskInv'
<1> DEFINE n == m.dst
           next == [p \in Node |-> Len(logs[n])]
<1>1. n \in Node /\ m.replyTerm \in Nat \cup {-1} /\ currentTerm[n] \in Nat
      /\ next \in [Node -> Nat]
  <2>1. n \in Node
    BY DEF TypeOK, VoteReply
  <2> QED
    BY <2>1, LenProperties DEF TypeOK, VoteReply
<1>2. CASE UNCHANGED <<persistent, commitIndex, disk, state, has_lease, calls>>
  BY <1>2, DiskQuiet DEF persistent, calls, DiskInv, DiskMatchesMemory
<1>3. CASE /\ currentTerm[n] < m.replyTerm
           /\ ChangeStateToFollower(n, m.replyTerm) /\ UNCHANGED <<has_lease, calls>>
  <2>1. m.replyTerm \in Nat
    BY <1>1, <1>3
  <2> QED
    BY <1>1, <1>3, <2>1, StepDownKeepsDisk, DiskQuiet DEF calls
<1>4. CASE /\ state' = [state EXCEPT ![n] = "LEADER"]
           /\ AcquireLeaseAs(n, next)
  <2>1. \A p \in Node \ {n} : state'[p] = state[p]
    BY <1>1, <1>4 DEF TypeOK
  <2> HIDE DEF next
  <2> QED
    BY <1>1, <1>4, <2>1, AcquireKeepsDisk
<1>5. CASE /\ state' = [state EXCEPT ![n] = "LEADER"]
           /\ has_lease' = [has_lease EXCEPT ![n] = FALSE]
           /\ UNCHANGED <<persistent, commitIndex, disk, calls>>
  <2>1. DiskMatchesMemory' /\ WholeLogSent'
    BY <1>5 DEF DiskInv, DiskMatchesMemory, WholeLogSent, persistent, calls
  <2>2. SenderHasLog'
    BY <1>5 DEF DiskInv, SenderHasLog, persistent, TypeOK
  <2> QED
    BY <2>1, <2>2 DEF DiskInv
<1> QED
  BY <1>2, <1>3, <1>4, <1>5 DEF HandleVoteReply

LEMMA AppendEntriesKeepsDisk ==
  ASSUME TypeOK, DiskInv, NEW m \in appendReqs, HandleAppendEntries(m)
  PROVE  DiskInv'
<1> DEFINE n == m.dst
           log == logs[n]
           newLog == SubSeq(log, 1, m.prevLogIndex) \o m.entries
<1>1. /\ n \in Node /\ m.prevLogIndex \in Nat /\ m.entries \in Seq(Entry)
      /\ log \in Seq(Entry) /\ Len(log) \in Nat
  <2>1. n \in Node /\ m.prevLogIndex \in Nat /\ m.entries \in Seq(Entry)
    BY DEF TypeOK, AppendReq
  <2> QED
    BY <2>1, LenProperties DEF TypeOK
<1>2. /\ SameElsewhere(n) /\ has_lease' = has_lease /\ appendReqs' \subseteq appendReqs
      /\ \A p \in Node : state'[p] = "LEADER" => state[p] = "LEADER"
  <2>1. \/ logs' = logs
        \/ logs' = [logs EXCEPT ![n] = newLog]
    BY DEF HandleAppendEntries
  <2>2. \/ commitIndex' = commitIndex
        \/ \E i : commitIndex' = [commitIndex EXCEPT ![n] = i]
    BY DEF HandleAppendEntries
  <2>3. \/ UNCHANGED <<state, currentTerm, votedFor>>
        \/ /\ state' = [state EXCEPT ![n] = "FOLLOWER"]
           /\ currentTerm' = [currentTerm EXCEPT ![n] = m.term]
           /\ votedFor' = [votedFor EXCEPT ![n] = Nil]
    BY DEF HandleAppendEntries
  <2>4. has_lease' = has_lease /\ appendReqs' \subseteq appendReqs
    BY DEF HandleAppendEntries
  <2>5. SameElsewhere(n)
    BY <2>1, <2>2, <2>3 DEF SameElsewhere, TypeOK
  <2> QED
    BY <2>3, <2>4, <2>5 DEF TypeOK
\* The log stays, or is replaced by one that is not empty.
<1>3. \/ logs'[n] = log
      \/ m.prevLogIndex <= Len(log) /\ logs'[n] = newLog
  <2>1. \/ logs' = logs
        \/ ~(m.prevLogIndex > Len(log)) /\ logs' = [logs EXCEPT ![n] = newLog]
    BY DEF HandleAppendEntries
  <2>2. logs' = [logs EXCEPT ![n] = newLog] => logs'[n] = newLog
    BY <1>1 DEF TypeOK
  <2>3. ~(m.prevLogIndex > Len(log)) => m.prevLogIndex <= Len(log)
    BY <1>1
  <2> HIDE DEF newLog
  <2> QED
    BY <2>1, <2>2, <2>3
<1>4. m.prevLogIndex <= Len(log) /\ newLog = <<>> => log = <<>>
  <2> SUFFICES ASSUME m.prevLogIndex <= Len(log), newLog = <<>> PROVE log = <<>>
    OBVIOUS
  <2>1. SubSeq(log, 1, m.prevLogIndex) \in Seq(Entry)
        /\ Len(SubSeq(log, 1, m.prevLogIndex)) = m.prevLogIndex
    <3>1. \A i \in 1..m.prevLogIndex : log[i] \in Entry
      BY <1>1, ElementOfSeq
    <3> QED
      BY <1>1, <3>1, SubSeqProperties
  <2>2. Len(newLog) = m.prevLogIndex + Len(m.entries)
    BY <1>1, <2>1, ConcatProperties
  <2>3. Len(newLog) = 0 /\ Len(m.entries) \in Nat
    BY <1>1, EmptySeq, LenProperties
  <2>4. m.prevLogIndex = 0 /\ Len(m.entries) = 0
    BY <1>1, <2>2, <2>3
  <2>5. m.entries = <<>>
    BY <1>1, <2>4, EmptySeq
  <2> QED
    BY <2>4, <2>5 DEF DiskInv, WholeLogSent
<1>5. logs'[n] = <<>> => log = <<>>
  BY <1>3, <1>4
<1>6. DiskMatchesMemory'
  <2>1. CASE Persist(n)
    BY <1>1, <1>2, <1>5, <2>1, PersistMatches DEF DiskInv
  <2>2. CASE UNCHANGED <<disk, currentTerm, votedFor, commitIndex, logs>>
    BY <2>2 DEF DiskInv, DiskMatchesMemory
  <2>3. CASE ~Persist(n)
    <3>1. disk' = disk /\ currentTerm' = currentTerm /\ votedFor' = votedFor
      BY <2>3 DEF HandleAppendEntries
    <3>2. \/ UNCHANGED <<logs, commitIndex>>
          \/ /\ m.prevLogIndex = Len(log) /\ m.entries = <<>>
             /\ logs' = [logs EXCEPT ![n] = newLog]
             /\ commitIndex' = [commitIndex EXCEPT ![n] = commitIndex[n]]
      BY <2>3 DEF HandleAppendEntries
    <3>3. CASE /\ m.prevLogIndex = Len(log) /\ m.entries = <<>>
               /\ logs' = [logs EXCEPT ![n] = newLog]
               /\ commitIndex' = [commitIndex EXCEPT ![n] = commitIndex[n]]
      <4>1. newLog = log
        BY <1>1, <3>3, SubSeqFull, ConcatEmptySeq
      <4>2. logs' = logs /\ commitIndex' = commitIndex
        BY <3>3, <4>1 DEF TypeOK
      <4> QED
        BY <2>2, <3>1, <4>2
    <3> QED
      BY <2>2, <3>1, <3>2, <3>3
  <2> QED
    BY <2>1, <2>3
<1>7. SenderHasLog'
  BY <1>2, <1>5 DEF DiskInv, SenderHasLog, SameElsewhere
<1>8. WholeLogSent'
  BY <1>2 DEF DiskInv, WholeLogSent
<1> QED
  BY <1>6, <1>7, <1>8 DEF DiskInv

LEMMA AppendReplyKeepsDisk ==
  ASSUME TypeOK, DiskInv, NEW m \in appendReplies, HandleAppendReply(m)
  PROVE  DiskInv'
<1> DEFINE n == m.dst
<1>1. n \in Node /\ m.replyTerm \in Nat
  BY DEF TypeOK, AppendReply
<1>2. has_lease' = has_lease /\ appendReqs' = appendReqs
  BY DEF HandleAppendReply
<1>3. \/ UNCHANGED <<persistent, state, commitIndex, disk>>
      \/ /\ UNCHANGED <<persistent, state>>
         /\ \E i : commitIndex' = [commitIndex EXCEPT ![n] = i]
         /\ Persist(n)
      \/ ChangeStateToFollower(n, m.replyTerm)
  BY DEF HandleAppendReply
<1>4. CASE UNCHANGED <<persistent, state, commitIndex, disk>>
  BY <1>2, <1>4, DiskQuiet DEF persistent, DiskInv, DiskMatchesMemory
<1>5. CASE /\ UNCHANGED <<persistent, state>>
           /\ \E i : commitIndex' = [commitIndex EXCEPT ![n] = i]
           /\ Persist(n)
  <2>1. SameElsewhere(n)
    BY <1>5 DEF SameElsewhere, persistent, TypeOK
  <2> QED
    BY <1>1, <1>2, <1>5, <2>1, PersistMatches, DiskQuiet DEF persistent, DiskInv
<1>6. CASE ChangeStateToFollower(n, m.replyTerm)
  BY <1>1, <1>2, <1>6, StepDownKeepsDisk, DiskQuiet
<1> QED
  BY <1>3, <1>4, <1>5, <1>6

LEMMA RestartKeepsDisk ==
  ASSUME TypeOK, DiskInv, NEW n \in Node, Restart(n)
  PROVE  DiskInv'
<1>1. disk[n].logs = logs[n] /\ disk[n].commitIndex = commitIndex[n]
  <2>1. disk[n] = [currentTerm |-> currentTerm[n], votedFor |-> votedFor[n],
                   commitIndex |-> commitIndex[n], logs |-> logs[n]]
    BY DEF DiskInv, DiskMatchesMemory
  <2> QED
    BY <2>1
<1>2. logs' = logs /\ SameElsewhere(n) /\ Persist(n)
  BY <1>1 DEF Restart, BecomeFollower, SameElsewhere, TypeOK
<1>3. DiskMatchesMemory'
  BY <1>2, PersistMatches DEF DiskInv
<1>4. SenderHasLog'
  BY <1>2 DEF Restart, BecomeFollower, DiskInv, SenderHasLog, TypeOK
<1>5. WholeLogSent'
  BY DEF Restart, DiskInv, WholeLogSent
<1> QED
  BY <1>3, <1>4, <1>5 DEF DiskInv

LEMMA DiskStep == TypeOK /\ DiskInv /\ [NextRestart]_vars => DiskInv'
<1> SUFFICES ASSUME TypeOK, DiskInv, [NextRestart]_vars
             PROVE  DiskInv'
  OBVIOUS
<1>1. ASSUME NEW n \in Node, NEW v \in Value, WriteToRaft(n, v) PROVE DiskInv'
  <2>1. /\ AppendEntry(n, v)
        /\ UNCHANGED <<state, has_lease, appendReqs>>
    BY <1>1 DEF WriteToRaft, calls
  <2>2. /\ DiskMatchesMemory' /\ logs'[n] # <<>>
        /\ \A p \in Node \ {n} : logs'[p] = logs[p]
    BY <2>1, AppendEntryKeepsDisk DEF DiskInv
  <2> QED
    BY <2>1, <2>2 DEF DiskInv, SenderHasLog, WholeLogSent
<1>2. ASSUME NEW n \in Node, ApplyLogs(n) PROVE DiskInv'
  BY <1>2, DiskQuiet DEF ApplyLogs, persistent, calls, DiskInv, DiskMatchesMemory
<1>3. ASSUME NEW n \in Node, LeaseExpired(n) PROVE DiskInv'
  <2>1. currentTerm[n] \in Nat /\ ChangeStateToFollower(n, currentTerm[n])
    BY <1>3 DEF LeaseExpired, TypeOK
  <2>2. /\ DiskMatchesMemory' /\ logs' = logs
        /\ \A p \in Node : state'[p] = "LEADER" => state[p] = "LEADER"
    BY <2>1, StepDownKeepsDisk
  <2>3. appendReqs' = appendReqs /\ has_lease' = [has_lease EXCEPT ![n] = FALSE]
    BY <1>3 DEF LeaseExpired, calls
  <2>4. SenderHasLog'
    BY <2>2, <2>3 DEF DiskInv, SenderHasLog, TypeOK
  <2> QED
    BY <2>2, <2>3, <2>4 DEF DiskInv, WholeLogSent
<1>4. ASSUME NEW n \in Node, AcquireLease(n) PROVE DiskInv'
  <2>1. nextIndex[n] \in [Node -> Nat] /\ AcquireLeaseAs(n, nextIndex[n]) /\ state' = state
    BY <1>4 DEF AcquireLease, TypeOK
  <2> QED
    BY <2>1, AcquireKeepsDisk
<1>5. ASSUME NEW n \in Node, Heartbeat(n) PROVE DiskInv'
  <2>1. /\ logs[n] \in Seq(Entry) /\ logs[n] # <<>> /\ nextIndex[n] \in [Node -> Nat]
        /\ SendHeartbeat(n, logs[n], nextIndex[n])
        /\ UNCHANGED <<persistent, state, commitIndex, has_lease, disk>>
    BY <1>5 DEF Heartbeat, TypeOK, DiskInv, SenderHasLog
  <2>2. WholeLogSent'
    BY <2>1, SendKeepsWholeLog DEF DiskInv
  <2> QED
    BY <2>1, <2>2 DEF DiskInv, DiskMatchesMemory, SenderHasLog, persistent
<1>6. ASSUME LoseAppendCall PROVE DiskInv'
  BY <1>6, DiskQuiet DEF LoseAppendCall, persistent, DiskInv, DiskMatchesMemory
<1>7. ASSUME UNCHANGED vars PROVE DiskInv'
  BY <1>7, DiskQuiet DEF vars, persistent, calls, DiskInv, DiskMatchesMemory
<1> QED
  BY <1>1, <1>2, <1>3, <1>4, <1>5, <1>6, <1>7, InitiateKeepsDisk, RequestVoteKeepsDisk,
     VoteReplyKeepsDisk, AppendEntriesKeepsDisk, AppendReplyKeepsDisk, RestartKeepsDisk
     DEF NextRestart, Next

LEMMA DiskInvariant == SpecRestart => [](TypeInv /\ DiskInv)
<1>1. Init => TypeInv /\ DiskInv
  BY TypeInit, DiskInit
<1>2. TypeInv /\ DiskInv /\ [NextRestart]_vars => (TypeInv /\ DiskInv)'
  BY TypeStep, DiskStep DEF TypeInv
<1> QED
  BY <1>1, <1>2, PTL DEF SpecRestart

\* Between two handlers the files hold the term, the vote, the commit index
\* and the log of the node, over any number of restarts (__persist, __replay).
THEOREM FilesMatchMemory == SpecRestart => []DiskMatchesMemory
<1>1. TypeInv /\ DiskInv => DiskMatchesMemory
  BY DEF DiskInv
<1> QED
  BY <1>1, DiskInvariant, PTL

\* No node's term ever goes back, over restarts included: every handler that
\* sets it compares it first, and __replay reads the last one back.
THEOREM TermsGrow == SpecRestart => TermNeverDecreases
<1> DEFINE Grow == \A n \in Node : currentTerm'[n] >= currentTerm[n]
<1>1. TypeOK /\ DiskMatchesMemory /\ [NextRestart]_vars => Grow
  <2> SUFFICES ASSUME TypeOK, DiskMatchesMemory, [NextRestart]_vars PROVE Grow
    OBVIOUS
  <2>0. \A n \in Node : currentTerm[n] \in Nat
    BY DEF TypeOK
  <2>1. currentTerm' = currentTerm => Grow
    BY <2>0
  <2>2. ASSUME NEW n \in Node, NEW t \in Nat, t >= currentTerm[n],
               currentTerm' = [currentTerm EXCEPT ![n] = t]
        PROVE  Grow
    BY <2>0, <2>2 DEF TypeOK
  <2>3. ASSUME NEW n \in Node, InitiateElection(n) PROVE Grow
    BY <2>0, <2>2, <2>3 DEF InitiateElection
  <2>4. ASSUME NEW m \in voteReqs, HandleRequestVote(m) PROVE Grow
    <3>1. m.dst \in Node /\ m.term \in Nat
      BY DEF TypeOK, VoteReq
    <3>2. \/ currentTerm' = currentTerm
          \/ /\ ~(m.term < currentTerm[m.dst])
             /\ currentTerm' = [currentTerm EXCEPT ![m.dst] = m.term]
      BY <2>0, <2>4, <3>1 DEF HandleRequestVote, Grants, persistent
    <3> QED
      BY <2>0, <2>1, <2>2, <3>1, <3>2
  <2>5. ASSUME NEW m \in voteReplies, HandleVoteReply(m) PROVE Grow
    <3>1. m.dst \in Node /\ m.replyTerm \in Nat \cup {-1}
      BY DEF TypeOK, VoteReply
    <3>2. \/ currentTerm' = currentTerm
          \/ /\ currentTerm[m.dst] < m.replyTerm
             /\ currentTerm' = [currentTerm EXCEPT ![m.dst] = m.replyTerm]
      BY <2>5 DEF HandleVoteReply, persistent, ChangeStateToFollower, BecomeFollower,
                  AcquireLeaseAs, AppendEntry
    <3> QED
      BY <2>0, <2>1, <2>2, <3>1, <3>2
  <2>6. ASSUME NEW n \in Node, LeaseExpired(n) PROVE Grow
    BY <2>0, <2>2, <2>6 DEF LeaseExpired, ChangeStateToFollower, BecomeFollower
  <2>7. ASSUME NEW m \in appendReqs, HandleAppendEntries(m) PROVE Grow
    <3>1. m.dst \in Node /\ m.term \in Nat
      BY DEF TypeOK, AppendReq
    <3>2. \/ currentTerm' = currentTerm
          \/ /\ ~(currentTerm[m.dst] > m.term)
             /\ currentTerm' = [currentTerm EXCEPT ![m.dst] = m.term]
      BY <2>7 DEF HandleAppendEntries
    <3> QED
      BY <2>0, <2>1, <2>2, <3>1, <3>2
  <2>8. ASSUME NEW m \in appendReplies, HandleAppendReply(m) PROVE Grow
    <3>1. m.dst \in Node /\ m.replyTerm \in Nat
      BY DEF TypeOK, AppendReply
    <3>2. \/ currentTerm' = currentTerm
          \/ /\ m.replyTerm > currentTerm[m.dst]
             /\ currentTerm' = [currentTerm EXCEPT ![m.dst] = m.replyTerm]
      BY <2>8 DEF HandleAppendReply, persistent, ChangeStateToFollower, BecomeFollower
    <3> QED
      BY <2>0, <2>1, <2>2, <3>1, <3>2
  <2>9. ASSUME NEW n \in Node, Restart(n) PROVE Grow
    <3>1. disk[n] = [currentTerm |-> currentTerm[n], votedFor |-> votedFor[n],
                     commitIndex |-> commitIndex[n], logs |-> logs[n]]
      BY DEF DiskMatchesMemory
    <3>2. disk[n].currentTerm = currentTerm[n]
      BY <3>1
    <3> QED
      BY <2>0, <2>2, <2>9, <3>2 DEF Restart, BecomeFollower
  <2>10. ASSUME NEW n \in Node, NEW v \in Value, WriteToRaft(n, v) PROVE Grow
    BY <2>1, <2>10 DEF WriteToRaft, AppendEntry
  <2>11. ASSUME NEW n \in Node, ApplyLogs(n) PROVE Grow
    BY <2>1, <2>11 DEF ApplyLogs, persistent
  <2>12. ASSUME NEW n \in Node, AcquireLease(n) PROVE Grow
    BY <2>1, <2>12 DEF AcquireLease, AcquireLeaseAs, AppendEntry
  <2>13. ASSUME NEW n \in Node, Heartbeat(n) PROVE Grow
    BY <2>1, <2>13 DEF Heartbeat, persistent
  <2>14. ASSUME LoseAppendCall PROVE Grow
    BY <2>1, <2>14 DEF LoseAppendCall, persistent
  <2>15. ASSUME UNCHANGED vars PROVE Grow
    BY <2>1, <2>15 DEF vars, persistent
  <2> QED
    BY <2>3, <2>4, <2>5, <2>6, <2>7, <2>8, <2>9, <2>10, <2>11, <2>12, <2>13, <2>14, <2>15
       DEF NextRestart, Next
<1>2. TypeInv /\ DiskInv /\ [NextRestart]_vars => [Grow]_vars
  BY <1>1 DEF TypeInv, DiskInv
<1>3. SpecRestart => [][NextRestart]_vars
  BY PTL DEF SpecRestart
<1>4. SpecRestart => [][Grow]_vars
  BY <1>2, <1>3, DiskInvariant, PTL
<1> QED
  BY <1>4 DEF TermNeverDecreases

-----------------------------------------------------------------------------
(***************************************************************************)
(* Election safety of Raft.tla, for every number of nodes and every bound, *)
(* while no node restarts: a restart forgets the vote.                     *)
(*                                                                         *)
(* ElectionInv is the inductive invariant.  Its core is GrantedOnce: of    *)
(* one term, a node's vote goes to one candidate, in a reply under way or  *)
(* in the voters of a candidate or leader.  GrantsStand keeps it true when *)
(* the next vote is given; the others make the leader's count a count of   *)
(* different nodes.                                                        *)
(***************************************************************************)

\* p granted its vote of term t to n: the reply is under way, or n counted it
\* and still campaigns or leads with it.
Granted(p, n, t) ==
  \/ \E r \in voteReplies : r.granted /\ r.src = p /\ r.dst = n /\ r.term = t
  \/ state[n] # "FOLLOWER" /\ currentTerm[n] = t /\ p \in voters[n]

\* p has not changed its mind about n in term t.
StandsBy(p, n, t) ==
  \/ currentTerm[p] > t
  \/ currentTerm[p] = t /\ votedFor[p] = n /\ (p = n \/ state[p] = "FOLLOWER")

GrantsStand == \A p, n \in Node, t \in Nat : Granted(p, n, t) => StandsBy(p, n, t)

\* Each term a node's vote is granted once.
GrantedOnce ==
  \A p, a, b \in Node, t \in Nat : Granted(p, a, t) /\ Granted(p, b, t) => a = b

\* RequestVote calls go to others and are no newer than their sender.
VoteCalls ==
  /\ \A m \in voteReqs : m.src # m.dst /\ m.term <= currentTerm[m.src]
  /\ \A r \in voteReplies : r.src # r.dst /\ r.term <= currentTerm[r.dst]

\* A candidate asks each peer once per term: no vote is counted twice.
AskedOnce ==
  /\ \A m1, m2 \in voteReqs :
       m1.src = m2.src /\ m1.dst = m2.dst /\ m1.term = m2.term => m1 = m2
  /\ \A r1, r2 \in voteReplies :
       r1.src = r2.src /\ r1.dst = r2.dst /\ r1.term = r2.term => r1 = r2
  /\ \A m \in voteReqs, r \in voteReplies :
       ~(m.src = r.dst /\ m.dst = r.src /\ m.term = r.term)
  /\ \A m \in voteReqs : state[m.src] # "FOLLOWER" /\ m.term = currentTerm[m.src]
                           => m.dst \notin voters[m.src]
  /\ \A r \in voteReplies : state[r.dst] # "FOLLOWER" /\ r.term = currentTerm[r.dst]
                              => r.src \notin voters[r.dst]

\* votes_received is the number of different voters, and enough of them to lead.
VotesCounted ==
  \A n \in Node :
    /\ state[n] # "FOLLOWER" => votedFor[n] = n /\ n \in voters[n]
    /\ state[n] = "CANDIDATE" => votes_received[n] = Cardinality(voters[n])
    /\ state[n] = "LEADER" => Majority(voters[n])

ElectionInv == GrantsStand /\ GrantedOnce /\ VoteCalls /\ AskedOnce /\ VotesCounted

LEMMA ElectionInit == Init => ElectionInv
BY DEF Init, ElectionInv, GrantsStand, GrantedOnce, Granted, VoteCalls, AskedOnce, VotesCounted

\* Steps that leave the nodes' terms, votes and roles alone; an answer may be
\* dropped unread.
LEMMA ElectionUntouched ==
  ASSUME ElectionInv, UNCHANGED <<currentTerm, votedFor, state, votes_received, voters, voteReqs>>,
         voteReplies' \subseteq voteReplies
  PROVE  ElectionInv'
<1>1. \A p, n, t : Granted(p, n, t)' => Granted(p, n, t)
  BY DEF Granted
<1>2. GrantsStand' /\ GrantedOnce'
  BY <1>1 DEF ElectionInv, GrantsStand, GrantedOnce, StandsBy
<1>3. VoteCalls' /\ AskedOnce' /\ VotesCounted'
  BY DEF ElectionInv, VoteCalls, AskedOnce, VotesCounted
<1> QED
  BY <1>2, <1>3 DEF ElectionInv

\* A candidate or leader becomes a follower, in its own or a later term: it
\* forgets its vote, which was its own.
LEMMA ElectionStepDown ==
  ASSUME TypeOK, ElectionInv, NEW n \in Node, NEW term \in Nat,
         state[n] # "FOLLOWER", term >= currentTerm[n],
         state' = [state EXCEPT ![n] = "FOLLOWER"],
         currentTerm' = [currentTerm EXCEPT ![n] = term],
         votedFor' = [votedFor EXCEPT ![n] = Nil],
         UNCHANGED <<votes_received, voters, voteReqs>>,
         voteReplies' \subseteq voteReplies
  PROVE  ElectionInv'
<1> USE DEF ElectionInv
<1>1. \A p \in Node : currentTerm[p] \in Nat /\ currentTerm'[p] \in Nat
  BY DEF TypeOK
<1>2. currentTerm'[n] = term /\ state'[n] = "FOLLOWER"
      /\ \A p \in Node \ {n} : /\ currentTerm'[p] = currentTerm[p] /\ state'[p] = state[p]
                               /\ votedFor'[p] = votedFor[p]
  BY DEF TypeOK
<1>3. \A p, q \in Node, t \in Nat : Granted(p, q, t)' => Granted(p, q, t)
  <2> SUFFICES ASSUME NEW p \in Node, NEW q \in Node, NEW t \in Nat, Granted(p, q, t)'
               PROVE  Granted(p, q, t)
    OBVIOUS
  <2>1. CASE \E r \in voteReplies' : r.granted /\ r.src = p /\ r.dst = q /\ r.term = t
    BY <2>1 DEF Granted
  <2>2. CASE state'[q] # "FOLLOWER" /\ currentTerm'[q] = t /\ p \in voters'[q]
    BY <1>2, <2>2 DEF Granted
  <2> QED
    BY <2>1, <2>2 DEF Granted
<1>4. GrantsStand'
  <2> SUFFICES ASSUME NEW p \in Node, NEW q \in Node, NEW t \in Nat, Granted(p, q, t)'
               PROVE  StandsBy(p, q, t)'
    BY DEF GrantsStand
  <2>1. Granted(p, q, t) /\ StandsBy(p, q, t)
    BY <1>3 DEF GrantsStand
  <2>2. CASE p # n
    BY <1>2, <2>1, <2>2 DEF StandsBy
  <2>3. CASE p = n /\ currentTerm[p] > t
    BY <1>1, <1>2, <2>3 DEF StandsBy
  <2>4. CASE p = n /\ q = n /\ currentTerm[p] = t
    <3>1. \A r \in voteReplies' : ~(r.src = p /\ r.dst = q)
      BY <2>4 DEF VoteCalls
    <3> QED
      BY <1>2, <2>4, <3>1 DEF Granted
  <2> QED
    BY <2>1, <2>2, <2>3, <2>4 DEF StandsBy
<1>5. GrantedOnce'
  BY <1>3 DEF GrantedOnce
<1>6. VoteCalls'
  <2>1. \A m \in voteReqs : m.src \in Node /\ m.term \in Nat
    BY DEF TypeOK, VoteReq
  <2>2. \A r \in voteReplies : r.dst \in Node /\ r.term \in Nat
    BY DEF TypeOK, VoteReply
  <2>3. \A q \in Node, t \in Nat : t <= currentTerm[q] => t <= currentTerm'[q]
    BY <1>1, <1>2
  <2> QED
    BY <2>1, <2>2, <2>3 DEF VoteCalls
<1>7. AskedOnce'
  <2>1. \A m \in voteReqs : m.src \in Node
    BY DEF TypeOK, VoteReq
  <2>2. \A r \in voteReplies : r.dst \in Node
    BY DEF TypeOK, VoteReply
  <2> QED
    BY <1>2, <2>1, <2>2 DEF AskedOnce
<1>8. VotesCounted'
  BY <1>2 DEF VotesCounted, Majority
<1> QED
  BY <1>4, <1>5, <1>6, <1>7, <1>8

LEMMA ElectionInitiate ==
  ASSUME TypeOK, ElectionInv, NEW c \in Node, InitiateElection(c)
  PROVE  ElectionInv'
<1> USE DEF ElectionInv
<1> DEFINE new == {[src |-> c, dst |-> p, term |-> currentTerm[c] + 1,
                    lastLogIndex |-> Len(logs[c]), lastLogTerm |-> LastTerm(logs[c])]
                   : p \in Node \ {c}}
<1>1. \A p \in Node : currentTerm[p] \in Nat /\ currentTerm'[p] \in Nat
  BY DEF TypeOK, InitiateElection
<1>2. /\ currentTerm'[c] = currentTerm[c] + 1 /\ state'[c] = "CANDIDATE" /\ votedFor'[c] = c
      /\ voters'[c] = {c} /\ votes_received'[c] = 1
      /\ \A p \in Node \ {c} : /\ currentTerm'[p] = currentTerm[p] /\ state'[p] = state[p]
                               /\ votedFor'[p] = votedFor[p] /\ voters'[p] = voters[p]
                               /\ votes_received'[p] = votes_received[p]
      /\ voteReplies' = voteReplies /\ voteReqs' = voteReqs \cup new
  BY DEF InitiateElection, TypeOK
<1>3. \A m \in voteReqs : m.src \in Node /\ m.term \in Nat
  BY DEF TypeOK, VoteReq
<1>4. \A r \in voteReplies : r.dst \in Node /\ r.term \in Nat
  BY DEF TypeOK, VoteReply
<1>5. ASSUME NEW p \in Node, NEW q \in Node, NEW t \in Nat, Granted(p, q, t)'
      PROVE  \/ Granted(p, q, t) /\ ~(q = c /\ t = currentTerm[c] + 1)
             \/ p = c /\ q = c /\ t = currentTerm[c] + 1
  <2>1. CASE \E r \in voteReplies' : r.granted /\ r.src = p /\ r.dst = q /\ r.term = t
    <3>1. Granted(p, q, t)
      BY <1>2, <2>1 DEF Granted
    <3>2. t <= currentTerm[q]
      BY <1>2, <2>1 DEF VoteCalls
    <3> QED
      BY <1>1, <3>1, <3>2
  <2>2. CASE state'[q] # "FOLLOWER" /\ currentTerm'[q] = t /\ p \in voters'[q] /\ q # c
    BY <1>2, <2>2 DEF Granted
  <2>3. CASE currentTerm'[q] = t /\ p \in voters'[q] /\ q = c
    BY <1>2, <2>3
  <2> QED
    BY <1>5, <2>1, <2>2, <2>3 DEF Granted
<1>6. GrantsStand'
  <2> SUFFICES ASSUME NEW p \in Node, NEW q \in Node, NEW t \in Nat, Granted(p, q, t)'
               PROVE  StandsBy(p, q, t)'
    BY DEF GrantsStand
  <2>1. CASE p = c /\ q = c /\ t = currentTerm[c] + 1
    BY <1>2, <2>1 DEF StandsBy
  <2>2. CASE Granted(p, q, t)
    <3>1. StandsBy(p, q, t)
      BY <2>2 DEF GrantsStand
    <3>2. CASE p = c
      BY <1>1, <1>2, <3>1, <3>2 DEF StandsBy
    <3>3. CASE p # c
      BY <1>2, <3>1, <3>3 DEF StandsBy
    <3> QED
      BY <3>2, <3>3
  <2> QED
    BY <1>5, <2>1, <2>2
<1>7. GrantedOnce'
  <2> SUFFICES ASSUME NEW p \in Node, NEW a \in Node, NEW b \in Node, NEW t \in Nat,
                      Granted(p, a, t)', Granted(p, b, t)'
               PROVE  a = b
    BY DEF GrantedOnce
  <2>1. ~(p = c /\ t = currentTerm[c] + 1 /\ \E q \in Node : Granted(p, q, t))
    BY <1>1 DEF GrantsStand, StandsBy
  <2> QED
    BY <1>5, <2>1 DEF GrantedOnce
<1>8. VoteCalls'
  <2>1. \A m \in new : m.src # m.dst /\ m.src = c /\ m.term = currentTerm'[c]
    BY <1>2
  <2>2. \A q \in Node, t \in Nat : t <= currentTerm[q] => t <= currentTerm'[q]
    BY <1>1, <1>2
  <2>3. \A m \in new : m.term <= currentTerm'[m.src]
    BY <1>1, <2>1
  <2> QED
    BY <1>2, <1>3, <1>4, <2>1, <2>2, <2>3 DEF VoteCalls
<1>9. AskedOnce'
  <2>1. \A m \in new : m.src = c /\ m.dst # c /\ m.term = currentTerm[c] + 1
    OBVIOUS
  <2>2. \A m \in voteReqs : ~(m.src = c /\ m.term = currentTerm[c] + 1)
    BY <1>1, <1>3 DEF VoteCalls
  <2>3. \A r \in voteReplies : ~(r.dst = c /\ r.term = currentTerm[c] + 1)
    BY <1>1, <1>4 DEF VoteCalls
  <2>4. \A m1, m2 \in new : m1.dst = m2.dst => m1 = m2
    OBVIOUS
  <2>5. \A m1, m2 \in voteReqs' :
          m1.src = m2.src /\ m1.dst = m2.dst /\ m1.term = m2.term => m1 = m2
    BY <1>2, <2>1, <2>2, <2>4 DEF AskedOnce
  <2>6. \A m \in voteReqs', r \in voteReplies' :
          ~(m.src = r.dst /\ m.dst = r.src /\ m.term = r.term)
    BY <1>2, <2>1, <2>3 DEF AskedOnce
  <2>7. \A m \in voteReqs' : state'[m.src] # "FOLLOWER" /\ m.term = currentTerm'[m.src]
                               => m.dst \notin voters'[m.src]
    BY <1>2, <1>3, <2>1, <2>2 DEF AskedOnce
  <2>8. \A r \in voteReplies' : state'[r.dst] # "FOLLOWER" /\ r.term = currentTerm'[r.dst]
                                  => r.src \notin voters'[r.dst]
    BY <1>2, <1>4, <2>3 DEF AskedOnce
  <2> QED
    BY <1>2, <2>5, <2>6, <2>7, <2>8 DEF AskedOnce
<1>10. VotesCounted'
  <2>1. Cardinality({c}) = 1
    BY FS_Singleton
  <2> QED
    BY <1>2, <2>1 DEF VotesCounted, Majority
<1> QED
  BY <1>6, <1>7, <1>8, <1>9, <1>10

LEMMA ElectionRequestVote ==
  ASSUME TypeOK, ElectionInv, NEW m \in voteReqs, HandleRequestVote(m)
  PROVE  ElectionInv'
<1> USE DEF ElectionInv
<1> DEFINE v == m.dst
           stale == m.term < currentTerm[v]
           newTerm == m.term > currentTerm[v]
           granted == Grants(v, m)
           reply == [src |-> v, dst |-> m.src, term |-> m.term, granted |-> granted,
                     replyTerm |-> IF stale THEN currentTerm[v] ELSE -1]
<1>1. v \in Node /\ m.src \in Node /\ m.term \in Nat /\ v # m.src /\ m.term <= currentTerm[m.src]
  BY DEF TypeOK, VoteReq, VoteCalls
<1>2. \A p \in Node : currentTerm[p] \in Nat
  BY DEF TypeOK
<1>3. /\ voteReqs' = voteReqs \ {m} /\ voteReplies' = voteReplies \cup {reply}
      /\ UNCHANGED <<votes_received, voters>>
  BY DEF HandleRequestVote
<1>4. \A p \in Node \ {v} : currentTerm'[p] = currentTerm[p] /\ state'[p] = state[p]
                              /\ votedFor'[p] = votedFor[p]
  BY DEF HandleRequestVote, TypeOK, persistent
<1>7. \/ /\ newTerm /\ currentTerm'[v] = m.term /\ state'[v] = "FOLLOWER"
         /\ votedFor'[v] = IF granted THEN m.src ELSE Nil
      \/ /\ ~newTerm /\ granted /\ m.term = currentTerm[v] /\ votedFor[v] \in {Nil, m.src}
         /\ currentTerm'[v] = currentTerm[v] /\ state'[v] = state[v] /\ votedFor'[v] = m.src
      \/ /\ ~newTerm /\ ~granted
         /\ currentTerm'[v] = currentTerm[v] /\ state'[v] = state[v] /\ votedFor'[v] = votedFor[v]
  <2>1. CASE newTerm
    BY <1>1, <2>1 DEF HandleRequestVote, TypeOK
  <2>2. CASE ~newTerm /\ granted
    <3>1. m.term = currentTerm[v]
      BY <1>1, <1>2, <2>2 DEF Grants
    <3>2. currentTerm'[v] = m.term /\ votedFor'[v] = m.src /\ state' = state
      BY <1>1, <2>2 DEF HandleRequestVote, TypeOK
    <3> QED
      BY <2>2, <3>1, <3>2 DEF Grants
  <2>3. CASE ~newTerm /\ ~granted
    BY <2>3 DEF HandleRequestVote, persistent
  <2> QED
    BY <2>1, <2>2, <2>3
\* Only a follower grants.
<1>8. granted => state'[v] = "FOLLOWER" /\ votedFor'[v] = m.src /\ currentTerm'[v] = m.term
  <2>1. state[v] \in {"FOLLOWER", "CANDIDATE", "LEADER"}
    BY <1>1 DEF TypeOK
  <2>2. v # Nil
    BY <1>1, NodeAssumption
  <2>3. state[v] # "FOLLOWER" => votedFor[v] = v
    BY <1>1 DEF VotesCounted
  <2> QED
    BY <1>1, <1>7, <2>1, <2>2, <2>3
<1>9. currentTerm'[v] \in Nat /\ currentTerm'[v] >= currentTerm[v]
  BY <1>1, <1>2, <1>7
<1>10. state'[v] # "FOLLOWER" => /\ state'[v] = state[v] /\ currentTerm'[v] = currentTerm[v]
                                 /\ votedFor'[v] = votedFor[v]
  BY <1>7, <1>8
<1>11. ASSUME NEW p \in Node, NEW q \in Node, NEW t \in Nat, Granted(p, q, t)'
       PROVE  Granted(p, q, t) \/ (granted /\ p = v /\ q = m.src /\ t = m.term)
  <2>1. CASE \E r \in voteReplies' : r.granted /\ r.src = p /\ r.dst = q /\ r.term = t
    BY <1>3, <2>1 DEF Granted
  <2>2. CASE state'[q] # "FOLLOWER" /\ currentTerm'[q] = t /\ p \in voters'[q]
    BY <1>3, <1>4, <1>10, <2>2 DEF Granted
  <2> QED
    BY <1>11, <2>1, <2>2 DEF Granted
\* v stands by what it granted before.
<1>12. ASSUME NEW p \in Node, NEW q \in Node, NEW t \in Nat, Granted(p, q, t), Granted(p, q, t)'
       PROVE  StandsBy(p, q, t)'
  <2>1. StandsBy(p, q, t)
    BY <1>12 DEF GrantsStand
  <2>2. CASE p # v
    BY <1>4, <2>1, <2>2 DEF StandsBy
  <2>3. CASE p = v /\ currentTerm'[p] > t
    BY <2>3 DEF StandsBy
  <2>4. CASE p = v /\ ~(currentTerm'[p] > t)
    <3>1. currentTerm[v] = t /\ currentTerm'[v] = t /\ votedFor[v] = q
          /\ (v = q \/ state[v] = "FOLLOWER") /\ ~newTerm
      BY <1>1, <1>2, <1>7, <1>9, <2>1, <2>4 DEF StandsBy
    <3>2. q # Nil
      BY NodeAssumption
    <3> QED
      BY <1>7, <2>4, <3>1, <3>2 DEF StandsBy
  <2> QED
    BY <2>2, <2>3, <2>4
<1>13. GrantsStand'
  <2> SUFFICES ASSUME NEW p \in Node, NEW q \in Node, NEW t \in Nat, Granted(p, q, t)'
               PROVE  StandsBy(p, q, t)'
    BY DEF GrantsStand
  <2>1. CASE granted /\ p = v /\ q = m.src /\ t = m.term
    BY <1>8, <2>1 DEF StandsBy
  <2> QED
    BY <1>11, <1>12, <2>1
<1>14. GrantedOnce'
  <2>1. ASSUME granted, NEW q \in Node, Granted(v, q, m.term)
        PROVE  q = m.src
    <3>1. StandsBy(v, q, m.term)
      BY <1>1, <2>1 DEF GrantsStand
    <3>2. currentTerm[v] = m.term /\ votedFor[v] = q
      BY <1>1, <1>2, <1>7, <2>1, <3>1 DEF StandsBy
    <3>3. q # Nil
      BY NodeAssumption
    <3> QED
      BY <1>1, <1>2, <1>7, <2>1, <3>2, <3>3
  <2> SUFFICES ASSUME NEW p \in Node, NEW a \in Node, NEW b \in Node, NEW t \in Nat,
                      Granted(p, a, t)', Granted(p, b, t)'
               PROVE  a = b
    BY DEF GrantedOnce
  <2> QED
    BY <1>11, <2>1 DEF GrantedOnce
<1>15. VoteCalls'
  <2>1. \A q \in voteReqs : q.src \in Node /\ q.term \in Nat
    BY DEF TypeOK, VoteReq
  <2>2. \A r \in voteReplies : r.dst \in Node /\ r.term \in Nat
    BY DEF TypeOK, VoteReply
  <2>3. \A q \in Node, t \in Nat : t <= currentTerm[q] => t <= currentTerm'[q]
    BY <1>1, <1>2, <1>4, <1>9
  <2> QED
    BY <1>1, <1>3, <2>1, <2>2, <2>3 DEF VoteCalls
<1>16. AskedOnce'
  <2>1. \A q \in voteReqs : q.src \in Node
    BY DEF TypeOK, VoteReq
  <2>2. \A r \in voteReplies : r.dst \in Node
    BY DEF TypeOK, VoteReply
  <2>3. \A q \in Node : state'[q] # "FOLLOWER" =>
          state[q] # "FOLLOWER" /\ currentTerm'[q] = currentTerm[q] /\ voters'[q] = voters[q]
    BY <1>3, <1>4, <1>10
  <2>4. \A r1, r2 \in voteReplies' :
          r1.src = r2.src /\ r1.dst = r2.dst /\ r1.term = r2.term => r1 = r2
    <3>1. \A r \in voteReplies : ~(r.src = reply.src /\ r.dst = reply.dst /\ r.term = reply.term)
      BY DEF AskedOnce
    <3>2. \A r1, r2 \in voteReplies :
            r1.src = r2.src /\ r1.dst = r2.dst /\ r1.term = r2.term => r1 = r2
      BY DEF AskedOnce
    <3> HIDE DEF reply
    <3> QED
      BY <1>3, <3>1, <3>2
  <2>5. \A q \in voteReqs', r \in voteReplies' :
          ~(q.src = r.dst /\ q.dst = r.src /\ q.term = r.term)
    BY <1>3 DEF AskedOnce
  <2>6. \A r \in voteReplies' : state'[r.dst] # "FOLLOWER" /\ r.term = currentTerm'[r.dst]
                                  => r.src \notin voters'[r.dst]
    BY <1>1, <1>3, <2>2, <2>3 DEF AskedOnce
  <2> QED
    BY <1>3, <2>1, <2>3, <2>4, <2>5, <2>6 DEF AskedOnce
<1>17. VotesCounted'
  BY <1>3, <1>4, <1>10 DEF VotesCounted, Majority
<1> QED
  BY <1>13, <1>14, <1>15, <1>16, <1>17

\* A granted vote is counted: the candidate goes on or leads.
LEMMA ElectionVoteCounted ==
  ASSUME TypeOK, ElectionInv, NEW m \in voteReplies, NEW c \in Node, c = m.dst,
         state[c] = "CANDIDATE", currentTerm[c] = m.term, m.granted,
         voteReplies' = voteReplies \ {m},
         votes_received' = [votes_received EXCEPT ![c] = @ + 1],
         voters' = [voters EXCEPT ![c] = @ \cup {m.src}],
         UNCHANGED <<currentTerm, votedFor, voteReqs>>,
         \/ state' = state
         \/ /\ state' = [state EXCEPT ![c] = "LEADER"]
            /\ 2 * (votes_received[c] + 1) > Cardinality(Node)
  PROVE  ElectionInv'
<1> USE DEF ElectionInv
<1>1. m.src \in Node /\ m.term \in Nat
  BY DEF TypeOK, VoteReply
<1>2. /\ voters'[c] = voters[c] \cup {m.src} /\ votes_received'[c] = votes_received[c] + 1
      /\ state'[c] \in {"CANDIDATE", "LEADER"}
      /\ \A p \in Node \ {c} : /\ voters'[p] = voters[p] /\ state'[p] = state[p]
                               /\ votes_received'[p] = votes_received[p]
  BY DEF TypeOK
<1>3. \A p \in Node : state'[p] = "FOLLOWER" <=> state[p] = "FOLLOWER"
  BY <1>2
<1>4. ASSUME NEW p \in Node, NEW q \in Node, NEW t \in Nat, Granted(p, q, t)'
      PROVE  Granted(p, q, t)
  <2>1. CASE \E r \in voteReplies' : r.granted /\ r.src = p /\ r.dst = q /\ r.term = t
    BY <2>1 DEF Granted
  <2>2. CASE state'[q] # "FOLLOWER" /\ currentTerm'[q] = t /\ p \in voters'[q]
    BY <1>2, <1>3, <2>2 DEF Granted
  <2> QED
    BY <1>4, <2>1, <2>2 DEF Granted
<1>5. GrantsStand' /\ GrantedOnce'
  <2>1. \A p, q \in Node, t \in Nat : StandsBy(p, q, t) => StandsBy(p, q, t)'
    BY <1>3 DEF StandsBy
  <2> QED
    BY <1>4, <2>1 DEF GrantsStand, GrantedOnce
<1>6. VoteCalls'
  BY DEF VoteCalls
<1>7. AskedOnce'
  <2>1. \A q \in voteReqs : q.src \in Node /\ ~(q.src = c /\ q.dst = m.src /\ q.term = m.term)
    BY DEF TypeOK, VoteReq, AskedOnce
  <2>2. \A r \in voteReplies' : r.dst \in Node /\ ~(r.dst = c /\ r.src = m.src /\ r.term = m.term)
    BY DEF TypeOK, VoteReply, AskedOnce
  <2>3. \A q \in voteReqs' : state'[q.src] # "FOLLOWER" /\ q.term = currentTerm'[q.src]
                               => q.dst \notin voters'[q.src]
    BY <1>2, <1>3, <2>1 DEF AskedOnce
  <2>4. \A r \in voteReplies' : state'[r.dst] # "FOLLOWER" /\ r.term = currentTerm'[r.dst]
                                  => r.src \notin voters'[r.dst]
    BY <1>2, <1>3, <2>2 DEF AskedOnce
  <2> QED
    BY <2>3, <2>4 DEF AskedOnce
<1>8. VotesCounted'
  <2>1. IsFiniteSet(voters[c]) /\ m.src \notin voters[c]
    <3>1. voters[c] \in SUBSET Node
      BY DEF TypeOK
    <3> QED
      BY <3>1, NodeAssumption, FS_Subset DEF AskedOnce
  <2>2. Cardinality(voters'[c]) = votes_received'[c]
    <3>1. Cardinality(voters[c] \cup {m.src}) = Cardinality(voters[c]) + 1
      BY <2>1, FS_AddElement
    <3>2. Cardinality(voters[c]) = votes_received[c]
      BY DEF VotesCounted
    <3> QED
      BY <1>2, <3>1, <3>2
  <2>3. state'[c] = "LEADER" => Majority(voters'[c])
    BY <1>2, <2>2 DEF Majority
  <2>4. /\ votedFor'[c] = c /\ c \in voters'[c]
        /\ \A p \in Node \ {c} : votedFor'[p] = votedFor[p]
    BY <1>2 DEF VotesCounted
  <2>5. \A n \in Node \ {c} :
          /\ state'[n] # "FOLLOWER" => votedFor'[n] = n /\ n \in voters'[n]
          /\ state'[n] = "CANDIDATE" => votes_received'[n] = Cardinality(voters'[n])
          /\ state'[n] = "LEADER" => Majority(voters'[n])
    BY <1>2, <2>4 DEF VotesCounted, Majority
  <2> QED
    BY <2>2, <2>3, <2>4, <2>5 DEF VotesCounted, Majority
<1> QED
  BY <1>5, <1>6, <1>7, <1>8

LEMMA ElectionVoteReply ==
  ASSUME TypeOK, ElectionInv, NEW m \in voteReplies, HandleVoteReply(m)
  PROVE  ElectionInv'
<1> DEFINE c == m.dst
<1>1. c \in Node /\ m.replyTerm \in Nat \cup {-1} /\ currentTerm[c] \in Nat
  BY DEF TypeOK, VoteReply
<1>2. voteReplies' = voteReplies \ {m} /\ voteReqs' = voteReqs
  BY DEF HandleVoteReply
<1>3. \/ UNCHANGED <<currentTerm, votedFor, state, votes_received, voters>>
      \/ /\ state[c] = "CANDIDATE" /\ currentTerm[c] < m.replyTerm
         /\ ChangeStateToFollower(c, m.replyTerm) /\ UNCHANGED <<votes_received, voters>>
      \/ /\ state[c] = "CANDIDATE" /\ currentTerm[c] = m.term /\ m.granted
         /\ votes_received' = [votes_received EXCEPT ![c] = @ + 1]
         /\ voters' = [voters EXCEPT ![c] = @ \cup {m.src}]
         /\ UNCHANGED <<currentTerm, votedFor>>
         /\ \/ state' = state
            \/ /\ state' = [state EXCEPT ![c] = "LEADER"]
               /\ 2 * (votes_received[c] + 1) > Cardinality(Node)
  BY DEF HandleVoteReply, AcquireLeaseAs, AppendEntry, persistent
<1>4. CASE UNCHANGED <<currentTerm, votedFor, state, votes_received, voters>>
  BY <1>2, <1>4, ElectionUntouched
<1>5. CASE /\ state[c] = "CANDIDATE" /\ currentTerm[c] < m.replyTerm
           /\ ChangeStateToFollower(c, m.replyTerm) /\ UNCHANGED <<votes_received, voters>>
  <2>1. m.replyTerm \in Nat /\ m.replyTerm >= currentTerm[c]
    BY <1>1, <1>5
  <2>2. /\ state' = [state EXCEPT ![c] = "FOLLOWER"]
        /\ currentTerm' = [currentTerm EXCEPT ![c] = m.replyTerm]
        /\ votedFor' = [votedFor EXCEPT ![c] = Nil]
    BY <1>5 DEF ChangeStateToFollower, BecomeFollower
  <2> QED
    BY <1>1, <1>2, <1>5, <2>1, <2>2, ElectionStepDown
<1>6. CASE /\ state[c] = "CANDIDATE" /\ currentTerm[c] = m.term /\ m.granted
           /\ votes_received' = [votes_received EXCEPT ![c] = @ + 1]
           /\ voters' = [voters EXCEPT ![c] = @ \cup {m.src}]
           /\ UNCHANGED <<currentTerm, votedFor>>
           /\ \/ state' = state
              \/ /\ state' = [state EXCEPT ![c] = "LEADER"]
                 /\ 2 * (votes_received[c] + 1) > Cardinality(Node)
  BY <1>1, <1>2, <1>6, ElectionVoteCounted
<1> QED
  BY <1>3, <1>4, <1>5, <1>6

LEMMA ElectionAppendEntries ==
  ASSUME TypeOK, ElectionInv, NEW m \in appendReqs, HandleAppendEntries(m)
  PROVE  ElectionInv'
<1> DEFINE n == m.dst
<1>1. n \in Node /\ m.term \in Nat /\ currentTerm[n] \in Nat
  BY DEF TypeOK, AppendReq
<1>2. UNCHANGED <<voteReqs, voteReplies, votes_received, voters>>
  BY DEF HandleAppendEntries, elections
<1>3. CASE ~(currentTerm[n] > m.term) /\ state[n] = "CANDIDATE"
  <2>1. /\ state' = [state EXCEPT ![n] = "FOLLOWER"]
        /\ currentTerm' = [currentTerm EXCEPT ![n] = m.term]
        /\ votedFor' = [votedFor EXCEPT ![n] = Nil]
    BY <1>3 DEF HandleAppendEntries
  <2>2. m.term >= currentTerm[n]
    BY <1>1, <1>3
  <2> QED
    BY <1>1, <1>2, <1>3, <2>1, <2>2, ElectionStepDown
<1>4. CASE ~(~(currentTerm[n] > m.term) /\ state[n] = "CANDIDATE")
  <2>1. UNCHANGED <<state, currentTerm, votedFor>>
    BY <1>4 DEF HandleAppendEntries
  <2> QED
    BY <1>2, <2>1, ElectionUntouched
<1> QED
  BY <1>3, <1>4

LEMMA ElectionAppendReply ==
  ASSUME TypeOK, ElectionInv, NEW m \in appendReplies, HandleAppendReply(m)
  PROVE  ElectionInv'
<1> DEFINE n == m.dst
<1>1. n \in Node /\ m.replyTerm \in Nat /\ currentTerm[n] \in Nat
  BY DEF TypeOK, AppendReply
<1>2. UNCHANGED <<voteReqs, voteReplies, votes_received, voters>>
  BY DEF HandleAppendReply, elections
<1>3. \/ UNCHANGED <<currentTerm, votedFor, state>>
      \/ /\ state[n] = "LEADER" /\ m.replyTerm > currentTerm[n]
         /\ state' = [state EXCEPT ![n] = "FOLLOWER"]
         /\ currentTerm' = [currentTerm EXCEPT ![n] = m.replyTerm]
         /\ votedFor' = [votedFor EXCEPT ![n] = Nil]
  BY DEF HandleAppendReply, persistent, ChangeStateToFollower, BecomeFollower
<1>4. CASE UNCHANGED <<currentTerm, votedFor, state>>
  BY <1>2, <1>4, ElectionUntouched
<1>5. CASE /\ state[n] = "LEADER" /\ m.replyTerm > currentTerm[n]
           /\ state' = [state EXCEPT ![n] = "FOLLOWER"]
           /\ currentTerm' = [currentTerm EXCEPT ![n] = m.replyTerm]
           /\ votedFor' = [votedFor EXCEPT ![n] = Nil]
  <2>1. m.replyTerm >= currentTerm[n]
    BY <1>1, <1>5
  <2> QED
    BY <1>1, <1>2, <1>5, <2>1, ElectionStepDown
<1> QED
  BY <1>3, <1>4, <1>5

LEMMA ElectionLeaseExpired ==
  ASSUME TypeOK, ElectionInv, NEW n \in Node, LeaseExpired(n)
  PROVE  ElectionInv'
<1>1. currentTerm[n] \in Nat /\ currentTerm[n] >= currentTerm[n]
  BY DEF TypeOK
<1>2. /\ state[n] # "FOLLOWER"
      /\ state' = [state EXCEPT ![n] = "FOLLOWER"]
      /\ currentTerm' = [currentTerm EXCEPT ![n] = currentTerm[n]]
      /\ votedFor' = [votedFor EXCEPT ![n] = Nil]
      /\ UNCHANGED <<votes_received, voters, voteReqs, voteReplies>>
  BY DEF LeaseExpired, ChangeStateToFollower, BecomeFollower, elections
<1> QED
  BY <1>1, <1>2, ElectionStepDown

LEMMA ElectionStep == TypeOK /\ ElectionInv /\ [Next]_vars => ElectionInv'
<1> SUFFICES ASSUME TypeOK, ElectionInv, [Next]_vars
             PROVE  ElectionInv'
  OBVIOUS
<1> DEFINE Untouched == /\ UNCHANGED <<currentTerm, votedFor, state>>
                        /\ UNCHANGED elections
<1>1. ASSUME NEW n \in Node, NEW v \in Value, WriteToRaft(n, v) PROVE Untouched
  BY <1>1 DEF WriteToRaft, AppendEntry
<1>2. ASSUME NEW n \in Node, ApplyLogs(n) PROVE Untouched
  BY <1>2 DEF ApplyLogs, persistent
<1>3. ASSUME NEW n \in Node, AcquireLease(n) PROVE Untouched
  BY <1>3 DEF AcquireLease, AcquireLeaseAs, AppendEntry
<1>4. ASSUME NEW n \in Node, Heartbeat(n) PROVE Untouched
  BY <1>4 DEF Heartbeat, persistent
<1>5. ASSUME LoseAppendCall PROVE Untouched
  BY <1>5 DEF LoseAppendCall, persistent
<1>6. ASSUME UNCHANGED vars PROVE Untouched
  BY <1>6 DEF vars, persistent
<1>7. Untouched => ElectionInv'
  BY ElectionUntouched DEF elections
<1> QED
  BY <1>1, <1>2, <1>3, <1>4, <1>5, <1>6, <1>7, ElectionInitiate, ElectionRequestVote,
     ElectionVoteReply, ElectionLeaseExpired, ElectionAppendEntries, ElectionAppendReply DEF Next

LEMMA ElectionInvariant == Spec => [](TypeInv /\ ElectionInv)
<1>1. Init => TypeInv /\ ElectionInv
  BY TypeInit, ElectionInit
<1>2. TypeInv /\ ElectionInv /\ [Next]_vars => (TypeInv /\ ElectionInv)'
  <2>1. TypeInv /\ [Next]_vars => TypeInv'
    BY TypeStep DEF NextRestart
  <2>2. TypeInv => TypeOK
    BY DEF TypeInv
  <2> QED
    BY <2>1, <2>2, ElectionStep
<1> QED
  BY <1>1, <1>2, PTL DEF Spec

\* Two majorities have a node in common.
LEMMA MajoritiesMeet ==
  ASSUME NEW P \in SUBSET Node, NEW Q \in SUBSET Node, Majority(P), Majority(Q)
  PROVE  \E p \in P : p \in Q
<1>1. IsFiniteSet(Node) /\ IsFiniteSet(P) /\ IsFiniteSet(Q)
  BY NodeAssumption, FS_Subset
<1>2. ASSUME P \cap Q = {} PROVE FALSE
  <2>1. Cardinality(P \cup Q) = Cardinality(P) + Cardinality(Q) - Cardinality(P \cap Q)
    BY <1>1, FS_Union
  <2>2. Cardinality(P \cap Q) = 0
    BY <1>2, FS_EmptySet
  <2>3. Cardinality(P \cup Q) <= Cardinality(Node)
    BY <1>1, FS_Subset
  <2>4. /\ Cardinality(P) \in Nat /\ Cardinality(Q) \in Nat /\ Cardinality(Node) \in Nat
        /\ Cardinality(P \cup Q) \in Nat
    BY <1>1, FS_CardinalityType, FS_Union
  <2> QED
    BY <2>1, <2>2, <2>3, <2>4 DEF Majority
<1> QED
  BY <1>2

\* No two nodes ever lead the same term, for any number of nodes and any
\* delay, loss or reordering of the calls, as long as no node restarts
\* (__send_request_vote, RequestVote, __change_state_to_leader).
THEOREM ElectionSafety == Spec => []OneLeaderPerTerm
<1>1. TypeInv /\ ElectionInv => OneLeaderPerTerm
  <2> SUFFICES ASSUME TypeOK, ElectionInv, NEW a \in Node, NEW b \in Node,
                      state[a] = "LEADER", state[b] = "LEADER", currentTerm[a] = currentTerm[b]
               PROVE  a = b
    BY DEF TypeInv, OneLeaderPerTerm
  <2>1. Majority(voters[a]) /\ Majority(voters[b])
    BY DEF ElectionInv, VotesCounted
  <2>2. voters[a] \in SUBSET Node /\ voters[b] \in SUBSET Node /\ currentTerm[a] \in Nat
    BY DEF TypeOK
  <2>3. PICK p \in voters[a] : p \in voters[b]
    BY <2>1, <2>2, MajoritiesMeet
  <2>4. Granted(p, a, currentTerm[a]) /\ Granted(p, b, currentTerm[a])
    BY <2>3 DEF Granted
  <2> QED
    BY <2>2, <2>3, <2>4 DEF ElectionInv, GrantedOnce
<1> QED
  BY <1>1, ElectionInvariant, PTL

\* A counted vote is never given to another candidate of the same term, for
\* any number of nodes, as long as no node restarts (RequestVote).
THEOREM VotesAreKept == Spec => []VotesStand
<1>1. TypeInv /\ ElectionInv => VotesStand
  <2> SUFFICES ASSUME TypeOK, ElectionInv, NEW n \in Node, state[n] # "FOLLOWER",
                      NEW p \in voters[n]
               PROVE  votedFor[p] = n \/ currentTerm[p] > currentTerm[n]
    BY DEF TypeInv, VotesStand
  <2>1. p \in Node /\ currentTerm[n] \in Nat
    BY DEF TypeOK
  <2>2. Granted(p, n, currentTerm[n])
    BY DEF Granted
  <2> QED
    BY <2>1, <2>2 DEF ElectionInv, GrantsStand, StandsBy
<1> QED
  BY <1>1, ElectionInvariant, PTL
-----------------------------------------------------------------------------
(***************************************************************************)
(* What a leader that no one has overtaken can rely on, for every number   *)
(* of nodes and of calls under way, when no call of another leader is left *)
(* where it is elected (PromptStep): nobody else cuts its log.             *)
(*                                                                         *)
(* The invariant is LeaderInv.  Its core is NoRival: no call on its way to *)
(* the leader is of its term or a later one.                               *)
(***************************************************************************)

Leads(n) == state[n] = "LEADER" /\ ~Overtaken(n)

\* How a step changes terms and roles
LEMMA RoleChange ==
  ASSUME TypeOK, [Next]_vars
  PROVE  \/ UNCHANGED <<state, currentTerm>>
         \/ \E k \in Node, t \in Nat :
              /\ t >= currentTerm[k] /\ currentTerm' = [currentTerm EXCEPT ![k] = t]
              /\ state' = [state EXCEPT ![k] = "FOLLOWER"]
         \/ \E k \in Node :
              /\ currentTerm' = [currentTerm EXCEPT ![k] = @ + 1]
              /\ state' = [state EXCEPT ![k] = "CANDIDATE"]
         \/ \E k \in Node :
              /\ state[k] = "CANDIDATE" /\ currentTerm' = currentTerm
              /\ state' = [state EXCEPT ![k] = "LEADER"]
<1> DEFINE Same == UNCHANGED <<state, currentTerm>>
           StepsDown == \E k \in Node, t \in Nat :
              /\ t >= currentTerm[k] /\ currentTerm' = [currentTerm EXCEPT ![k] = t]
              /\ state' = [state EXCEPT ![k] = "FOLLOWER"]
           Campaigns == \E k \in Node :
              /\ currentTerm' = [currentTerm EXCEPT ![k] = @ + 1]
              /\ state' = [state EXCEPT ![k] = "CANDIDATE"]
           Wins == \E k \in Node :
              /\ state[k] = "CANDIDATE" /\ currentTerm' = currentTerm
              /\ state' = [state EXCEPT ![k] = "LEADER"]
<1>0. \A n \in Node : currentTerm[n] \in Nat
  BY DEF TypeOK
<1>1. ASSUME NEW n \in Node, NEW v \in Value, WriteToRaft(n, v) PROVE Same
  BY <1>1 DEF WriteToRaft, AppendEntry
<1>2. ASSUME NEW n \in Node, ApplyLogs(n) PROVE Same
  BY <1>2 DEF ApplyLogs, persistent
<1>3. ASSUME NEW n \in Node, AcquireLease(n) PROVE Same
  BY <1>3 DEF AcquireLease, AcquireLeaseAs, AppendEntry
<1>4. ASSUME NEW n \in Node, Heartbeat(n) PROVE Same
  BY <1>4 DEF Heartbeat, persistent
<1>5. ASSUME LoseAppendCall PROVE Same
  BY <1>5 DEF LoseAppendCall, persistent
<1>6. ASSUME UNCHANGED vars PROVE Same
  BY <1>6 DEF vars, persistent
<1>7. ASSUME NEW n \in Node, InitiateElection(n) PROVE Campaigns
  BY <1>7 DEF InitiateElection
<1>8. ASSUME NEW m \in voteReqs, HandleRequestVote(m) PROVE Same \/ StepsDown
  <2>1. m.dst \in Node /\ m.term \in Nat
    BY DEF TypeOK, VoteReq
  <2>2. CASE m.term > currentTerm[m.dst]
    <3>1. /\ state' = [state EXCEPT ![m.dst] = "FOLLOWER"]
          /\ currentTerm' = [currentTerm EXCEPT ![m.dst] = m.term]
      BY <1>8, <2>2 DEF HandleRequestVote
    <3>2. m.term >= currentTerm[m.dst]
      BY <1>0, <2>1, <2>2
    <3>. QED
      BY <2>1, <3>1, <3>2
  <2>3. CASE ~(m.term > currentTerm[m.dst])
    <3>1. state' = state
      BY <1>8, <2>3 DEF HandleRequestVote
    <3>2. Grants(m.dst, m) => m.term = currentTerm[m.dst]
      BY <1>0, <2>1, <2>3 DEF Grants
    <3>3. currentTerm' = currentTerm
      BY <1>8, <2>1, <2>3, <3>2 DEF HandleRequestVote, persistent, TypeOK
    <3>. QED
      BY <3>1, <3>3
  <2>. QED
    BY <2>2, <2>3
<1>9. ASSUME NEW m \in voteReplies, HandleVoteReply(m) PROVE Same \/ StepsDown \/ Wins
  <2>1. m.dst \in Node /\ m.replyTerm \in Nat \cup {-1}
    BY DEF TypeOK, VoteReply
  <2>2. \/ Same
        \/ /\ currentTerm[m.dst] < m.replyTerm
           /\ currentTerm' = [currentTerm EXCEPT ![m.dst] = m.replyTerm]
           /\ state' = [state EXCEPT ![m.dst] = "FOLLOWER"]
        \/ /\ state[m.dst] = "CANDIDATE" /\ currentTerm' = currentTerm
           /\ state' = [state EXCEPT ![m.dst] = "LEADER"]
    BY <1>9 DEF HandleVoteReply, persistent, ChangeStateToFollower, BecomeFollower,
                AcquireLeaseAs, AppendEntry
  <2>3. currentTerm[m.dst] < m.replyTerm => m.replyTerm \in Nat /\ m.replyTerm >= currentTerm[m.dst]
    BY <1>0, <2>1
  <2>. QED
    BY <2>1, <2>2, <2>3
<1>10. ASSUME NEW n \in Node, LeaseExpired(n) PROVE StepsDown
  <2>1. currentTerm[n] \in Nat /\ currentTerm[n] >= currentTerm[n]
    BY <1>0
  <2>. QED
    BY <1>10, <2>1 DEF LeaseExpired, ChangeStateToFollower, BecomeFollower
<1>11. ASSUME NEW m \in appendReqs, HandleAppendEntries(m) PROVE Same \/ StepsDown
  <2>1. m.dst \in Node /\ m.term \in Nat
    BY DEF TypeOK, AppendReq
  <2>2. \/ Same
        \/ /\ ~(currentTerm[m.dst] > m.term)
           /\ currentTerm' = [currentTerm EXCEPT ![m.dst] = m.term]
           /\ state' = [state EXCEPT ![m.dst] = "FOLLOWER"]
    BY <1>11 DEF HandleAppendEntries
  <2>3. ~(currentTerm[m.dst] > m.term) => m.term >= currentTerm[m.dst]
    BY <1>0, <2>1
  <2>. QED
    BY <2>1, <2>2, <2>3
<1>12. ASSUME NEW m \in appendReplies, HandleAppendReply(m) PROVE Same \/ StepsDown
  <2>1. m.dst \in Node /\ m.replyTerm \in Nat
    BY DEF TypeOK, AppendReply
  <2>2. \/ Same
        \/ /\ m.replyTerm > currentTerm[m.dst]
           /\ currentTerm' = [currentTerm EXCEPT ![m.dst] = m.replyTerm]
           /\ state' = [state EXCEPT ![m.dst] = "FOLLOWER"]
    BY <1>12 DEF HandleAppendReply, persistent, ChangeStateToFollower, BecomeFollower
  <2>3. m.replyTerm > currentTerm[m.dst] => m.replyTerm >= currentTerm[m.dst]
    BY <1>0, <2>1
  <2>. QED
    BY <2>1, <2>2, <2>3
<1>13. Same \/ StepsDown \/ Campaigns \/ Wins
  BY <1>1, <1>2, <1>3, <1>4, <1>5, <1>6, <1>7, <1>8, <1>9, <1>10, <1>11, <1>12 DEF Next
<1>. QED
  BY <1>13

\* Terms grow, and nobody campaigns twice or leads unelected in one.
LEMMA Roles ==
  ASSUME TypeOK, [Next]_vars, NEW n \in Node
  PROVE  /\ currentTerm[n] \in Nat /\ currentTerm'[n] \in Nat /\ currentTerm'[n] >= currentTerm[n]
         /\ state'[n] = "CANDIDATE" => \/ currentTerm'[n] > currentTerm[n]
                                       \/ state[n] = "CANDIDATE" /\ currentTerm'[n] = currentTerm[n]
         /\ state'[n] = "LEADER" => /\ currentTerm'[n] = currentTerm[n]
                                    /\ state[n] \in {"LEADER", "CANDIDATE"}
<1>1. \A p \in Node : currentTerm[p] \in Nat
  BY DEF TypeOK
<1>2. state \in [Node -> {"FOLLOWER", "CANDIDATE", "LEADER"}] /\ currentTerm \in [Node -> Nat]
  BY DEF TypeOK
<1>. QED
  BY <1>1, <1>2, RoleChange

\* Who leads after a step and is not overtaken was not overtaken before.
LEMMA StaysAhead ==
  ASSUME TypeOK, [Next]_vars, NEW n \in Node, Leads(n)'
  PROVE  /\ currentTerm'[n] = currentTerm[n] /\ ~Overtaken(n)
         /\ Leads(n) \/ state[n] = "CANDIDATE"
<1>1. state'[n] = "LEADER" /\ \A p \in Node : ~(currentTerm'[p] > currentTerm'[n])
  BY DEF Leads, Overtaken
<1>2. currentTerm'[n] = currentTerm[n] /\ state[n] \in {"LEADER", "CANDIDATE"}
  BY <1>1, Roles
<1>3. ASSUME NEW p \in Node PROVE ~(currentTerm[p] > currentTerm[n])
  BY <1>1, <1>2, Roles
<1>. QED
  BY <1>2, <1>3 DEF Leads, Overtaken

\* AppendEntries calls go to others and are no newer than their sender.
CallTerms ==
  /\ \A m \in appendReqs : m.src # m.dst /\ m.term <= currentTerm[m.src]
  /\ \A r \in appendReplies : r.src # r.dst /\ r.term <= currentTerm[r.dst]

\* Calls on their way to a leader are of leaders before.
NoRival ==
  \A n \in Node : Leads(n) => \A m \in appendReqs : m.dst = n => m.term < currentTerm[n]

LeaderInv == CallTerms /\ NoRival

\* The reply to an AppendEntries call
Reply(m) ==
  LET log == logs[m.dst]
      rejected == currentTerm[m.dst] > m.term
      missing == m.prevLogIndex > Len(log)
      accepted == ~rejected /\ ~missing /\ ~Mismatch(log, m)
  IN  [src |-> m.dst, dst |-> m.src, slot |-> m.slot, term |-> m.term,
       count |-> Len(m.entries), success |-> accepted, replyTerm |-> currentTerm[m.dst],
       conflictIndex |-> IF rejected \/ accepted THEN -1
                         ELSE IF missing THEN Len(log) ELSE RunStart(log, m.prevLogIndex)]

\* A call that k, a leader, sends in this step, as AppendCall makes it.
SentBy(m, k) ==
  /\ m.src = k /\ m.dst \in Node \ {k} /\ m.term = currentTerm[k]
  /\ m.prevLogIndex = nextIndex'[k][m.dst]
  /\ m.prevLogIndex + Len(m.entries) = Len(logs'[k])
  /\ m.prevLogIndex > 0 => m.prevLogTerm = logs'[k][m.prevLogIndex].term
  /\ \A i \in 1..Len(m.entries) : m.entries[i] = logs'[k][m.prevLogIndex + i]
  /\ m.leaderCommit = commitIndex[k]

\* The three ways in which a step changes what is under way
Shrinks == appendReqs' \subseteq appendReqs /\ appendReplies' \subseteq appendReplies

Sends(k) ==
  /\ state'[k] = "LEADER" /\ has_lease'[k]
  /\ appendReplies' = appendReplies /\ appendReqs \subseteq appendReqs'
  /\ \A m \in appendReqs' \ appendReqs : SentBy(m, k)
  /\ \A l, m \in appendReqs' \ appendReqs : l.dst = m.dst => l = m

Answers(m) ==
  appendReqs' = appendReqs \ {m} /\ appendReplies' = appendReplies \cup {Reply(m)}

\* What __send_heartbeat sends
LEMMA HeartbeatSends ==
  ASSUME TypeOK, NEW k \in Node, NEW log \in Seq(Entry), NEW next \in [Node -> Nat],
         SendHeartbeat(k, log, next), state'[k] = "LEADER", has_lease'[k], logs'[k] = log,
         \A p \in Node \ {k} : nextIndex'[k][p] = next[p]
  PROVE  Sends(k)
<1> DEFINE inRange == {p \in Node \ {k} : next[p] <= Len(log)}
           slot(p) == FreeSlot(k, p)
<1>1. PICK P \in SUBSET inRange : SendAppendEntries(k, P, log, next)
  BY DEF SendHeartbeat
<1>2. ASSUME NEW m \in appendReqs', m \notin appendReqs
      PROVE  m = AppendCall(k, m.dst, slot(m.dst), log, next[m.dst]) /\ m.dst \in P
  <2>1. PICK p \in P : m = AppendCall(k, p, slot(p), log, next[p])
    BY <1>1, <1>2 DEF SendAppendEntries
  <2>2. m.dst = p
    BY <2>1 DEF AppendCall
  <2>. QED
    BY <2>1, <2>2
<1>3. ASSUME NEW m \in appendReqs', m \notin appendReqs PROVE SentBy(m, k)
  <2> DEFINE p == m.dst
  <2>1. m = AppendCall(k, p, slot(p), log, next[p]) /\ p \in P
    BY <1>2, <1>3
  <2>2. /\ m.src = k /\ m.term = currentTerm[k]
        /\ m.prevLogIndex = next[p] /\ m.entries = SubSeq(log, next[p] + 1, Len(log))
        /\ m.prevLogTerm = (IF next[p] = 0 THEN -1 ELSE log[next[p]].term)
        /\ m.leaderCommit = commitIndex[k]
    BY <2>1 DEF AppendCall
  <2>3. p \in Node \ {k} /\ next[p] \in Nat /\ next[p] <= Len(log) /\ Len(log) \in Nat
    BY <2>1, LenProperties
  <2>4. /\ Len(SubSeq(log, next[p] + 1, Len(log))) = Len(log) - next[p]
        /\ \A i \in 1..(Len(log) - next[p]) : SubSeq(log, next[p] + 1, Len(log))[i] = log[next[p] + i]
    <3>1. \A i \in next[p] + 1 .. Len(log) : log[i] \in Entry
      BY <2>3, ElementOfSeq
    <3>. QED
      BY <2>3, <3>1, SubSeqProperties
  <2>6. nextIndex'[k][p] = next[p] /\ logs'[k] = log
    BY <2>3
  <2>7. m.prevLogIndex = nextIndex'[k][p]
    BY <2>2, <2>6
  <2>8. m.prevLogIndex + Len(m.entries) = Len(logs'[k])
    BY <2>2, <2>3, <2>4, <2>6
  <2>9. m.prevLogIndex > 0 => m.prevLogTerm = logs'[k][m.prevLogIndex].term
    BY <2>2, <2>3, <2>6
  <2>10. \A i \in 1..Len(m.entries) : m.entries[i] = logs'[k][m.prevLogIndex + i]
    BY <2>2, <2>3, <2>4, <2>6
  <2>11. SentBy(m, k)
    BY <2>2, <2>3, <2>7, <2>8, <2>9, <2>10 DEF SentBy
  <2>. QED
    BY <2>11
<1>4. ASSUME NEW l \in appendReqs' \ appendReqs, NEW m \in appendReqs' \ appendReqs, l.dst = m.dst
      PROVE  l = m
  <2>1. l = AppendCall(k, l.dst, slot(l.dst), log, next[l.dst])
    BY <1>2
  <2>2. m = AppendCall(k, m.dst, slot(m.dst), log, next[m.dst])
    BY <1>2
  <2>. HIDE DEF slot
  <2>. QED
    BY <1>4, <2>1, <2>2
<1>5. appendReplies' = appendReplies /\ appendReqs \subseteq appendReqs'
  BY <1>1 DEF SendAppendEntries
<1>. QED
  BY <1>3, <1>4, <1>5 DEF Sends

LEMMA AcquireSends ==
  ASSUME TypeOK, NEW k \in Node, NEW next \in [Node -> Nat], AcquireLeaseAs(k, next),
         state'[k] = "LEADER"
  PROVE  Sends(k) /\ \A p \in Node \ {k} : nextIndex'[k][p] = next[p]
<1>1. logs' \in [Node -> Seq(Entry)]
  BY AppendEntryType DEF AcquireLeaseAs
<1>2. \A p \in Node \ {k} : nextIndex'[k][p] = next[p]
  BY DEF AcquireLeaseAs, TypeOK
<1>3. has_lease'[k]
  BY DEF AcquireLeaseAs, TypeOK
<1>. QED
  BY <1>1, <1>2, <1>3, HeartbeatSends DEF AcquireLeaseAs

LEMMA ReplyFields ==
  ASSUME NEW m
  PROVE  Reply(m).src = m.dst /\ Reply(m).dst = m.src /\ Reply(m).term = m.term
  BY DEF Reply

\* Every step is of one of the three ways.
LEMMA CallsMove ==
  ASSUME TypeOK, [Next]_vars
  PROVE  \/ Shrinks
         \/ \E k \in Node : Sends(k) /\ (state[k] = "LEADER" \/ state[k] = "CANDIDATE")
         \/ \E m \in appendReqs : Answers(m)
<1>1. ASSUME NEW n \in Node, AcquireLease(n) PROVE Sends(n) /\ state[n] = "LEADER"
  <2>1. AcquireLeaseAs(n, nextIndex[n]) /\ state[n] = "LEADER" /\ state'[n] = "LEADER"
    BY <1>1 DEF AcquireLease
  <2>2. nextIndex[n] \in [Node -> Nat]
    BY DEF TypeOK
  <2>. QED
    BY <2>1, <2>2, AcquireSends
<1>2. ASSUME NEW n \in Node, Heartbeat(n) PROVE Sends(n) /\ state[n] = "LEADER"
  <2>1. /\ SendHeartbeat(n, logs[n], nextIndex[n]) /\ state[n] = "LEADER" /\ state'[n] = "LEADER"
        /\ has_lease'[n] /\ logs'[n] = logs[n] /\ nextIndex' = nextIndex
    BY <1>2 DEF Heartbeat, persistent
  <2>2. nextIndex[n] \in [Node -> Nat] /\ logs[n] \in Seq(Entry)
    BY DEF TypeOK
  <2>. QED
    BY <2>1, <2>2, HeartbeatSends
<1>3. ASSUME NEW m \in voteReplies, HandleVoteReply(m)
      PROVE  Shrinks \/ (m.dst \in Node /\ Sends(m.dst) /\ state[m.dst] = "CANDIDATE")
  <2> DEFINE n == m.dst
             next == [p \in Node |-> Len(logs[n])]
  <2>1. n \in Node /\ next \in [Node -> Nat]
    BY LenProperties DEF TypeOK, VoteReply
  <2>2. \/ UNCHANGED calls
        \/ /\ state[n] = "CANDIDATE" /\ state' = [state EXCEPT ![n] = "LEADER"]
           /\ AcquireLeaseAs(n, next)
    BY <1>3 DEF HandleVoteReply
  <2>3. UNCHANGED calls => Shrinks
    BY DEF calls, Shrinks
  <2>4. ASSUME state[n] = "CANDIDATE", state' = [state EXCEPT ![n] = "LEADER"], AcquireLeaseAs(n, next)
        PROVE  Sends(n)
    <3>1. state'[n] = "LEADER"
      BY <2>1, <2>4 DEF TypeOK
    <3>. QED
      BY <2>1, <2>4, <3>1, AcquireSends
  <2>. QED
    BY <2>1, <2>2, <2>3, <2>4
<1>4. ASSUME NEW m \in appendReqs, HandleAppendEntries(m) PROVE Answers(m)
  BY <1>4, Zenon DEF HandleAppendEntries, Answers, Reply
<1>5. ASSUME NEW m \in appendReplies, HandleAppendReply(m) PROVE Shrinks
  BY <1>5 DEF HandleAppendReply, Shrinks
<1>6. ASSUME LoseAppendCall PROVE Shrinks
  BY <1>6 DEF LoseAppendCall, Shrinks
<1>7. ASSUME UNCHANGED calls PROVE Shrinks
  BY <1>7 DEF calls, Shrinks
<1>8. \/ UNCHANGED calls
      \/ LoseAppendCall
      \/ \E n \in Node : AcquireLease(n) \/ Heartbeat(n)
      \/ \E m \in voteReplies : HandleVoteReply(m)
      \/ \E m \in appendReqs : HandleAppendEntries(m)
      \/ \E m \in appendReplies : HandleAppendReply(m)
  BY DEF Next, vars, calls, WriteToRaft, ApplyLogs, InitiateElection, HandleRequestVote, LeaseExpired
<1>. QED
  BY <1>1, <1>2, <1>3, <1>4, <1>5, <1>6, <1>7, <1>8

LEMMA LeaderInit == Init => LeaderInv
  BY DEF Init, LeaderInv, CallTerms, NoRival

LEMMA CallTermsStep ==
  ASSUME TypeOK, CallTerms, [Next]_vars
  PROVE  CallTerms'
<1>1. \A n \in Node : currentTerm[n] \in Nat /\ currentTerm'[n] \in Nat /\ currentTerm'[n] >= currentTerm[n]
  BY Roles
<1>2. ASSUME NEW m \in appendReqs PROVE m.src # m.dst /\ m.term <= currentTerm'[m.src]
  <2>1. m.src \in Node /\ m.term \in Nat /\ m.src # m.dst /\ m.term <= currentTerm[m.src]
    BY DEF CallTerms, TypeOK, AppendReq
  <2>. QED
    BY <1>1, <2>1
<1>3. ASSUME NEW r \in appendReplies PROVE r.src # r.dst /\ r.term <= currentTerm'[r.dst]
  <2>1. r.dst \in Node /\ r.term \in Nat /\ r.src # r.dst /\ r.term <= currentTerm[r.dst]
    BY DEF CallTerms, TypeOK, AppendReply
  <2>. QED
    BY <1>1, <2>1
<1>4. CASE Shrinks
  BY <1>2, <1>3, <1>4 DEF Shrinks, CallTerms
<1>5. ASSUME NEW k \in Node, Sends(k) PROVE CallTerms'
  <2>1. ASSUME NEW m \in appendReqs', m \notin appendReqs
        PROVE  m.src # m.dst /\ m.term <= currentTerm'[m.src]
    BY <1>1, <1>5, <2>1 DEF Sends, SentBy
  <2>. QED
    BY <1>2, <1>3, <1>5, <2>1 DEF Sends, CallTerms
<1>6. ASSUME NEW m \in appendReqs, Answers(m) PROVE CallTerms'
  BY <1>2, <1>3, <1>6, ReplyFields DEF Answers, CallTerms
<1>. QED
  BY <1>4, <1>5, <1>6, CallsMove

LEMMA NoRivalStep ==
  ASSUME TypeOK, LeaderInv, [Next]_vars, PromptStep, OneLeaderPerTerm'
  PROVE  NoRival'
<1> SUFFICES ASSUME NEW n \in Node, Leads(n)', NEW m \in appendReqs', m.dst = n
             PROVE  m.term < currentTerm'[n]
  BY DEF NoRival
<1>1. /\ currentTerm'[n] = currentTerm[n] /\ (Leads(n) \/ state[n] = "CANDIDATE")
      /\ state'[n] = "LEADER" /\ \A p \in Node : ~(currentTerm'[p] > currentTerm'[n])
  BY StaysAhead DEF Leads, Overtaken
<1>2. CASE m \in appendReqs
  <2>1. m.src # n
    BY <1>2 DEF LeaderInv, CallTerms
  <2>2. Leads(n)
    BY <1>1, <2>1 DEF PromptStep
  <2>. QED
    BY <1>1, <1>2, <2>2 DEF LeaderInv, NoRival
<1>3. CASE m \notin appendReqs
  <2>1. PICK k \in Node : Sends(k)
    BY <1>3, CallsMove DEF Shrinks, Answers
  <2>2. /\ m.src = k /\ k # n /\ m.term = currentTerm[k] /\ state'[k] = "LEADER"
    BY <1>3, <2>1 DEF Sends, SentBy
  <2>3. currentTerm'[k] = currentTerm[k] /\ currentTerm'[k] # currentTerm'[n]
    BY <1>1, <2>2, Roles DEF OneLeaderPerTerm
  <2>4. currentTerm'[k] \in Nat /\ currentTerm'[n] \in Nat
    BY Roles
  <2>. QED
    BY <1>1, <2>2, <2>3, <2>4
<1>. QED
  BY <1>2, <1>3

\* The log of a leader that no one has overtaken is changed by nobody else.
LEMMA LogKept ==
  ASSUME TypeOK, LeaderInv, [Next]_vars, NEW n \in Node, Leads(n)
  PROVE  logs'[n] = logs[n] \/ \E e \in Entry : logs'[n] = Append(logs[n], e)
<1>0. logs \in [Node -> Seq(Entry)] /\ currentTerm[n] \in Nat
  BY DEF TypeOK
<1>1. ASSUME NEW k \in Node, NEW cmd \in Value \cup {NOOP}, AppendEntry(k, cmd)
      PROVE  logs'[n] = logs[n] \/ \E e \in Entry : logs'[n] = Append(logs[n], e)
  <2>1. [term |-> currentTerm[k], cmd |-> cmd] \in Entry
    BY DEF Entry, TypeOK
  <2>. QED
    BY <1>0, <1>1, <2>1 DEF AppendEntry
<1>2. ASSUME NEW m \in appendReqs, HandleAppendEntries(m) PROVE logs'[n] = logs[n]
  <2>1. m.dst = n => currentTerm[n] > m.term
    <3>1. m.term \in Nat
      BY DEF TypeOK, AppendReq
    <3>. QED
      BY <1>0, <3>1 DEF LeaderInv, NoRival
  <2>2. CASE currentTerm[m.dst] > m.term
    BY <1>2, <2>2 DEF HandleAppendEntries
  <2>3. CASE m.dst # n
    BY <1>0, <1>2, <2>3 DEF HandleAppendEntries
  <2>. QED
    BY <2>1, <2>2, <2>3
<1>3. \/ logs' = logs
      \/ \E k \in Node, v \in Value \cup {NOOP} : AppendEntry(k, v)
      \/ \E m \in appendReqs : HandleAppendEntries(m)
  <2>1. ASSUME NEW m \in voteReplies, HandleVoteReply(m)
        PROVE  logs' = logs \/ (m.dst \in Node /\ AppendEntry(m.dst, NOOP))
    BY <2>1 DEF HandleVoteReply, persistent, ChangeStateToFollower, AcquireLeaseAs, TypeOK, VoteReply
  <2>. QED
    BY <2>1 DEF Next, vars, persistent, WriteToRaft, ApplyLogs, InitiateElection, HandleRequestVote,
          LeaseExpired, AcquireLease, AcquireLeaseAs, Heartbeat, HandleAppendReply, LoseAppendCall,
          ChangeStateToFollower
<1>. QED
  BY <1>1, <1>2, <1>3

\* Behaviours in which no call of another leader is left where one is elected
PromptSpec == Spec /\ [][PromptStep]_vars

LEMMA LeaderInvariant == PromptSpec => [](TypeInv /\ LeaderInv)
<1>1. Init => LeaderInv
  BY LeaderInit
<1>2. TypeInv /\ LeaderInv /\ OneLeaderPerTerm' /\ [Next]_vars /\ [PromptStep]_vars => LeaderInv'
  <2> SUFFICES ASSUME TypeInv, LeaderInv, OneLeaderPerTerm', [Next]_vars, [PromptStep]_vars
               PROVE  LeaderInv'
    OBVIOUS
  <2>1. PromptStep
    BY DEF PromptStep, vars
  <2>2. TypeOK /\ CallTerms
    BY DEF TypeInv, LeaderInv
  <2>. QED
    BY <2>1, <2>2, CallTermsStep, NoRivalStep DEF LeaderInv
<1>3. Spec => [](TypeInv /\ ElectionInv)
  BY ElectionInvariant
<1>. QED
  BY <1>1, <1>2, <1>3, ElectionSafety, PTL DEF Spec, PromptSpec

\* A leader that no one has overtaken never loses an entry of its log, for any number of
\* nodes and of calls under way, when no call of another leader was left where it was
\* elected: AppendEntries has no check of the receiver's role, but a later leader is of
\* a later term.
THEOREM LeaderAppendOnly == PromptSpec => LeaderKeepsLog
<1> DEFINE Kept == \A n \in Node : Leads(n) => IsPrefixOf(logs[n], logs'[n])
<1>1. TypeInv /\ LeaderInv /\ [Next]_vars => Kept
  <2> SUFFICES ASSUME TypeOK, LeaderInv, [Next]_vars, NEW n \in Node, Leads(n)
               PROVE  IsPrefixOf(logs[n], logs'[n])
    BY DEF TypeInv
  <2>1. logs[n] \in Seq(Entry) /\ Len(logs[n]) \in Nat
    BY LenProperties DEF TypeOK
  <2>2. SubSeq(logs[n], 1, Len(logs[n])) = logs[n]
    BY <2>1, SubSeqFull
  <2>3. ASSUME NEW e \in Entry, logs'[n] = Append(logs[n], e) PROVE IsPrefixOf(logs[n], logs'[n])
    <3>1. Len(logs'[n]) = Len(logs[n]) + 1 /\ \A i \in 1..Len(logs[n]) : logs'[n][i] = logs[n][i]
      BY <2>1, <2>3, AppendProperties
    <3>2. \A i \in 1..Len(logs[n]) : logs[n][i] \in Entry
      BY <2>1, ElementOfSeq
    <3>3. SubSeq(logs'[n], 1, Len(logs[n])) \in Seq(Entry)
          /\ Len(SubSeq(logs'[n], 1, Len(logs[n]))) = Len(logs[n])
          /\ \A i \in 1..Len(logs[n]) : SubSeq(logs'[n], 1, Len(logs[n]))[i] = logs[n][i]
      BY <2>1, <3>1, <3>2, SubSeqProperties
    <3>4. SubSeq(logs'[n], 1, Len(logs[n])) = logs[n]
      BY <2>1, <3>3, SeqEqual
    <3>. QED
      BY <2>1, <3>1, <3>4 DEF IsPrefixOf
  <2>. QED
    BY <2>1, <2>2, <2>3, LogKept DEF IsPrefixOf
<1>2. PromptSpec => [][Kept]_vars
  BY <1>1, LeaderInvariant, PTL DEF PromptSpec, Spec
<1>. QED
  BY <1>2 DEF LeaderKeepsLog, Leads

-----------------------------------------------------------------------------
\* A candidate has not led its term.
CandidateCalls ==
  \A n \in Node : state[n] = "CANDIDATE" =>
    /\ \A m \in appendReqs : m.src = n => m.term < currentTerm[n]
    /\ \A r \in appendReplies : r.dst = n => r.term < currentTerm[n]

LEMMA CandidateStep ==
  ASSUME TypeOK, CallTerms, CandidateCalls, [Next]_vars
  PROVE  CandidateCalls'
<1> SUFFICES ASSUME NEW n \in Node, state'[n] = "CANDIDATE"
             PROVE  /\ \A m \in appendReqs' : m.src = n => m.term < currentTerm'[n]
                    /\ \A r \in appendReplies' : r.dst = n => r.term < currentTerm'[n]
  BY DEF CandidateCalls
<1>1. /\ currentTerm[n] \in Nat /\ currentTerm'[n] \in Nat
      /\ \/ currentTerm'[n] > currentTerm[n]
         \/ state[n] = "CANDIDATE" /\ currentTerm'[n] = currentTerm[n]
  BY Roles
<1>2. ASSUME NEW m \in appendReqs, m.src = n PROVE m.term < currentTerm'[n]
  <2>1. m.term \in Nat /\ m.term <= currentTerm[n]
    BY <1>2 DEF CallTerms, TypeOK, AppendReq
  <2>2. state[n] = "CANDIDATE" => m.term < currentTerm[n]
    BY <1>2 DEF CandidateCalls
  <2>. QED
    BY <1>1, <2>1, <2>2
<1>3. ASSUME NEW r \in appendReplies, r.dst = n PROVE r.term < currentTerm'[n]
  <2>1. r.term \in Nat /\ r.term <= currentTerm[n]
    BY <1>3 DEF CallTerms, TypeOK, AppendReply
  <2>2. state[n] = "CANDIDATE" => r.term < currentTerm[n]
    BY <1>3 DEF CandidateCalls
  <2>. QED
    BY <1>1, <2>1, <2>2
<1>4. CASE Shrinks
  BY <1>2, <1>3, <1>4 DEF Shrinks
<1>5. ASSUME NEW k \in Node, Sends(k)
      PROVE  /\ \A m \in appendReqs' : m.src = n => m.term < currentTerm'[n]
             /\ \A r \in appendReplies' : r.dst = n => r.term < currentTerm'[n]
  BY <1>2, <1>3, <1>5 DEF Sends, SentBy
<1>6. ASSUME NEW m \in appendReqs, Answers(m)
      PROVE  /\ \A q \in appendReqs' : q.src = n => q.term < currentTerm'[n]
             /\ \A r \in appendReplies' : r.dst = n => r.term < currentTerm'[n]
  BY <1>2, <1>3, <1>6, ReplyFields DEF Answers
<1>. QED
  BY <1>4, <1>5, <1>6, CallsMove

-----------------------------------------------------------------------------
(***************************************************************************)
(* Following the leader that nodes name.  A node that names another is not *)
(* ahead of it, so a loop would be one of nodes of one term, which led it  *)
(* one after the other; and whoever led a term before another one does has *)
(* no call on its way any more.                                            *)
(***************************************************************************)

\* Calls of one term are of one leader.
OneSource == \A l, m \in appendReqs : l.term = m.term => l.src = m.src

LeaderCalls ==
  \A n \in Node : state[n] = "LEADER" =>
    \A m \in appendReqs : m.term = currentTerm[n] => m.src = n

NamesNoOlder ==
  \A n \in Node : state[n] # "LEADER" /\ leaderId[n] # Nil =>
    currentTerm[n] <= currentTerm[leaderId[n]]

\* Who no longer leads, but still has a call of its term under way, can only know of a
\* leader of a later term.
CallersNameNewer ==
  \A m \in appendReqs :
    state[m.src] # "LEADER" /\ m.term = currentTerm[m.src] /\ leaderId[m.src] # Nil =>
      currentTerm[leaderId[m.src]] > currentTerm[m.src]

NamesInv == /\ OneSource /\ LeaderCalls /\ CandidateCalls
            /\ NamesNoOlder /\ CallersNameNewer /\ NoRedirectLoop

\* n takes the sender of m for its leader.
NamesSender(n, m) ==
  /\ m.dst = n /\ currentTerm[n] <= m.term /\ state[n] # "LEADER"
  /\ leaderId'[n] = m.src /\ appendReqs' = appendReqs \ {m}
  /\ currentTerm'[n] = currentTerm[n] \/ (currentTerm'[n] = m.term /\ state[n] = "CANDIDATE")

\* How what a node names can change
LEMMA NamesMove ==
  ASSUME TypeOK, [Next]_vars, NEW n \in Node
  PROVE  \/ state'[n] = "LEADER"
         \/ leaderId'[n] = Nil
         \/ leaderId'[n] = leaderId[n] /\ state[n] # "LEADER" /\ currentTerm'[n] = currentTerm[n]
         \/ \E m \in appendReqs : NamesSender(n, m)
<1> DEFINE Goal == \/ state'[n] = "LEADER"
                   \/ leaderId'[n] = Nil
                   \/ /\ leaderId'[n] = leaderId[n] /\ state[n] # "LEADER"
                      /\ currentTerm'[n] = currentTerm[n]
                   \/ \E m \in appendReqs : NamesSender(n, m)
           Same == UNCHANGED <<state, currentTerm, leaderId>>
           Forgets(k) == /\ leaderId' = [leaderId EXCEPT ![k] = Nil]
                         /\ \A p \in Node : p # k =>
                              state'[p] = state[p] /\ currentTerm'[p] = currentTerm[p]
<1>0. /\ state \in [Node -> {"FOLLOWER", "CANDIDATE", "LEADER"}] /\ currentTerm \in [Node -> Nat]
      /\ leaderId \in [Node -> Node \cup {Nil}]
  BY DEF TypeOK
<1>1. Same => Goal
  OBVIOUS
<1>2. ASSUME NEW k \in Node, Forgets(k) PROVE Goal
  <2>1. CASE k = n
    BY <1>0, <1>2, <2>1
  <2>2. CASE k # n
    BY <1>0, <1>2, <2>2
  <2>. QED
    BY <2>1, <2>2
<1>3. ASSUME NEW k \in Node, InitiateElection(k) \/ LeaseExpired(k) PROVE Goal
  <2>1. Forgets(k)
    BY <1>0, <1>3 DEF InitiateElection, LeaseExpired, ChangeStateToFollower, BecomeFollower
  <2>. QED
    BY <1>2, <2>1
<1>4. ASSUME NEW m \in voteReqs, HandleRequestVote(m) PROVE Goal
  <2>1. m.dst \in Node /\ m.term \in Nat
    BY DEF TypeOK, VoteReq
  <2>2. CASE m.term > currentTerm[m.dst]
    <3>1. Forgets(m.dst)
      BY <1>0, <1>4, <2>1, <2>2 DEF HandleRequestVote
    <3>. QED
      BY <1>2, <2>1, <3>1
  <2>3. CASE ~(m.term > currentTerm[m.dst])
    <3>1. state' = state /\ leaderId' = leaderId
      BY <1>4, <2>3 DEF HandleRequestVote
    <3>2. Grants(m.dst, m) => m.term = currentTerm[m.dst]
      BY <1>0, <2>1, <2>3 DEF Grants
    <3>3. currentTerm' = currentTerm
      BY <1>0, <1>4, <2>1, <2>3, <3>2 DEF HandleRequestVote, persistent
    <3>. QED
      BY <1>1, <3>1, <3>3
  <2>. QED
    BY <2>2, <2>3
<1>5. ASSUME NEW m \in voteReplies, HandleVoteReply(m) PROVE Goal
  <2>1. m.dst \in Node
    BY DEF TypeOK, VoteReply
  <2>2. \/ Same
        \/ Forgets(m.dst)
        \/ /\ state' = [state EXCEPT ![m.dst] = "LEADER"] /\ currentTerm' = currentTerm
           /\ leaderId' = [leaderId EXCEPT ![m.dst] = m.dst]
    BY <1>0, <1>5, <2>1 DEF HandleVoteReply, persistent, ChangeStateToFollower, BecomeFollower,
                  AcquireLeaseAs, AppendEntry
  <2>. QED
    BY <1>0, <1>1, <1>2, <2>1, <2>2
<1>6. ASSUME NEW m \in appendReqs, HandleAppendEntries(m) PROVE Goal
  <2>1. m.dst \in Node /\ m.term \in Nat
    BY DEF TypeOK, AppendReq
  <2>2. CASE currentTerm[m.dst] > m.term
    <3>1. Same
      BY <1>6, <2>2 DEF HandleAppendEntries
    <3>. QED
      BY <1>1, <3>1
  <2>3. CASE ~(currentTerm[m.dst] > m.term)
    <3>1. /\ leaderId' = [leaderId EXCEPT ![m.dst] = m.src] /\ appendReqs' = appendReqs \ {m}
          /\ \/ UNCHANGED <<state, currentTerm>>
             \/ /\ state[m.dst] = "CANDIDATE" /\ state' = [state EXCEPT ![m.dst] = "FOLLOWER"]
                /\ currentTerm' = [currentTerm EXCEPT ![m.dst] = m.term]
      BY <1>6, <2>3 DEF HandleAppendEntries
    <3>2. CASE m.dst # n
      BY <1>0, <3>1, <3>2
    <3>3. CASE m.dst = n /\ state[n] = "LEADER"
      BY <1>0, <3>1, <3>3
    <3>4. CASE m.dst = n /\ state[n] # "LEADER"
      <4>1. currentTerm[n] <= m.term
        BY <1>0, <2>1, <2>3, <3>4
      <4>2. leaderId'[n] = m.src
        BY <1>0, <3>1, <3>4
      <4>3. currentTerm'[n] = currentTerm[n] \/ (currentTerm'[n] = m.term /\ state[n] = "CANDIDATE")
        BY <1>0, <3>1, <3>4
      <4>4. NamesSender(n, m)
        BY <3>1, <3>4, <4>1, <4>2, <4>3 DEF NamesSender
      <4>. QED
        BY <4>4
    <3>. QED
      BY <3>2, <3>3, <3>4
  <2>. QED
    BY <2>2, <2>3
<1>7. ASSUME NEW m \in appendReplies, HandleAppendReply(m) PROVE Goal
  <2>1. m.dst \in Node
    BY DEF TypeOK, AppendReply
  <2>2. Same \/ Forgets(m.dst)
    BY <1>0, <1>7, <2>1 DEF HandleAppendReply, persistent, ChangeStateToFollower, BecomeFollower
  <2>. QED
    BY <1>1, <1>2, <2>1, <2>2
<1>8. \/ Same
      \/ \E k \in Node : InitiateElection(k) \/ LeaseExpired(k)
      \/ \E m \in voteReqs : HandleRequestVote(m)
      \/ \E m \in voteReplies : HandleVoteReply(m)
      \/ \E m \in appendReqs : HandleAppendEntries(m)
      \/ \E m \in appendReplies : HandleAppendReply(m)
  BY DEF Next, vars, persistent, WriteToRaft, ApplyLogs, AcquireLease, AcquireLeaseAs, AppendEntry,
         Heartbeat, LoseAppendCall
<1>9. Goal
  BY <1>1, <1>3, <1>4, <1>5, <1>6, <1>7, <1>8
<1>. QED
  BY <1>9

LEMMA LeaderCallsStep ==
  ASSUME TypeOK, LeaderCalls, OneLeaderPerTerm', PromptStep, [Next]_vars
  PROVE  LeaderCalls'
<1> SUFFICES ASSUME NEW n \in Node, state'[n] = "LEADER",
                    NEW m \in appendReqs', m.term = currentTerm'[n]
             PROVE  m.src = n
  BY DEF LeaderCalls
<1>1. currentTerm'[n] = currentTerm[n]
  BY Roles
<1>2. CASE state[n] # "LEADER"
  BY <1>2 DEF PromptStep
<1>3. CASE state[n] = "LEADER"
  <2>1. CASE m \in appendReqs
    BY <1>1, <1>3, <2>1 DEF LeaderCalls
  <2>2. CASE m \notin appendReqs
    <3>1. ASSUME NEW k \in Node, Sends(k) PROVE m.src = n
      <4>1. m.src = k /\ m.term = currentTerm[k] /\ state'[k] = "LEADER"
        BY <2>2, <3>1 DEF Sends, SentBy
      <4>2. currentTerm'[k] = currentTerm[k]
        BY <4>1, Roles
      <4>. QED
        BY <4>1, <4>2 DEF OneLeaderPerTerm
    <3>. QED
      BY <2>2, <3>1, CallsMove DEF Shrinks, Answers
  <2>. QED
    BY <2>1, <2>2
<1>. QED
  BY <1>2, <1>3

LEMMA OneSourceStep ==
  ASSUME TypeOK, OneSource, LeaderCalls', [Next]_vars
  PROVE  OneSource'
<1>1. ASSUME NEW k \in Node, Sends(k) PROVE OneSource'
  <2>1. state'[k] = "LEADER" /\ currentTerm'[k] = currentTerm[k]
    BY <1>1, Roles DEF Sends
  <2>2. \A m \in appendReqs' : m \in appendReqs \/ m.term = currentTerm'[k]
    BY <1>1, <2>1 DEF Sends, SentBy
  <2>3. \A m \in appendReqs' : m.term = currentTerm'[k] => m.src = k
    BY <2>1 DEF LeaderCalls
  <2>. QED
    BY <2>2, <2>3 DEF OneSource
<1>. QED
  BY <1>1, CallsMove DEF Shrinks, Answers, OneSource

LEMMA NamesNoOlderStep ==
  ASSUME TypeOK, CallTerms, NamesNoOlder, [Next]_vars
  PROVE  NamesNoOlder'
<1> SUFFICES ASSUME NEW n \in Node, state'[n] # "LEADER", leaderId'[n] # Nil
             PROVE  currentTerm'[n] <= currentTerm'[leaderId'[n]]
  BY DEF NamesNoOlder
<1>1. \A p \in Node : currentTerm[p] \in Nat /\ currentTerm'[p] \in Nat /\ currentTerm'[p] >= currentTerm[p]
  BY Roles
<1>2. CASE leaderId'[n] = leaderId[n] /\ state[n] # "LEADER" /\ currentTerm'[n] = currentTerm[n]
  <2>1. leaderId[n] \in Node
    BY <1>2 DEF TypeOK
  <2>2. currentTerm[n] <= currentTerm[leaderId[n]]
    BY <1>2 DEF NamesNoOlder
  <2>. QED
    BY <1>1, <1>2, <2>1, <2>2
<1>3. ASSUME NEW m \in appendReqs, NamesSender(n, m)
      PROVE  currentTerm'[n] <= currentTerm'[leaderId'[n]]
  <2>1. m.src \in Node /\ m.term \in Nat /\ m.term <= currentTerm[m.src]
    BY DEF CallTerms, TypeOK, AppendReq
  <2>2. currentTerm'[n] <= m.term /\ leaderId'[n] = m.src
    BY <1>1, <1>3, <2>1 DEF NamesSender
  <2>. QED
    BY <1>1, <2>1, <2>2
<1>. QED
  BY <1>2, <1>3, NamesMove

LEMMA CallersNameNewerStep ==
  ASSUME TypeOK, CallTerms, CandidateCalls, OneSource, CallersNameNewer, [Next]_vars
  PROVE  CallersNameNewer'
<1> SUFFICES ASSUME NEW m \in appendReqs', state'[m.src] # "LEADER", m.term = currentTerm'[m.src],
                    leaderId'[m.src] # Nil
             PROVE  currentTerm'[leaderId'[m.src]] > currentTerm'[m.src]
  BY DEF CallersNameNewer
<1> DEFINE l == m.src
<1>1. \A p \in Node : currentTerm[p] \in Nat /\ currentTerm'[p] \in Nat /\ currentTerm'[p] >= currentTerm[p]
  BY Roles
<1>2. m \in appendReqs
  BY CallsMove DEF Shrinks, Answers, Sends, SentBy
<1>3. /\ l \in Node /\ m.term \in Nat /\ m.term <= currentTerm[l]
      /\ state[l] = "CANDIDATE" => m.term < currentTerm[l]
  BY <1>2 DEF CallTerms, CandidateCalls, TypeOK, AppendReq
<1>4. currentTerm'[l] = currentTerm[l] /\ m.term = currentTerm[l] /\ state[l] # "CANDIDATE"
  BY <1>1, <1>3
<1>5. CASE leaderId'[l] = leaderId[l] /\ state[l] # "LEADER"
  <2>1. leaderId[l] \in Node
    BY <1>3, <1>5 DEF TypeOK
  <2>2. currentTerm[leaderId[l]] > currentTerm[l]
    BY <1>2, <1>4, <1>5 DEF CallersNameNewer
  <2>. QED
    BY <1>1, <1>3, <1>4, <1>5, <2>1, <2>2
<1>6. ASSUME NEW q \in appendReqs, NamesSender(l, q)
      PROVE  currentTerm'[leaderId'[l]] > currentTerm'[l]
  <2>1. q.src \in Node /\ q.term \in Nat /\ q.term <= currentTerm[q.src] /\ q.src # q.dst
    BY DEF CallTerms, TypeOK, AppendReq
  <2>2. q.dst = l /\ currentTerm[l] <= q.term /\ leaderId'[l] = q.src
    BY <1>6 DEF NamesSender
  <2>3. q.term # m.term
    BY <1>2, <2>1, <2>2 DEF OneSource
  <2>. QED
    BY <1>1, <1>3, <1>4, <2>1, <2>2, <2>3
<1>. QED
  BY <1>3, <1>5, <1>6, NamesMove

LEMMA NoLoopStep ==
  ASSUME TypeOK, CallTerms, CallersNameNewer, NoRedirectLoop, NamesNoOlder', [Next]_vars
  PROVE  NoRedirectLoop'
<1> SUFFICES ASSUME NEW S \in SUBSET {n \in Node : state'[n] # "LEADER"}, S # {},
                    \A x \in S : leaderId'[x] \in S
             PROVE  FALSE
  BY DEF NoRedirectLoop
<1> DEFINE Stays(x) == /\ leaderId'[x] = leaderId[x] /\ state[x] # "LEADER"
                       /\ currentTerm'[x] = currentTerm[x]
<1>1. \A p \in Node : currentTerm[p] \in Nat /\ currentTerm'[p] \in Nat /\ currentTerm'[p] >= currentTerm[p]
  BY Roles
<1>2. \A x \in S : Stays(x) \/ \E m \in appendReqs : NamesSender(x, m)
  <2>1. \A x \in S : x \in Node /\ state'[x] # "LEADER" /\ leaderId'[x] # Nil
    BY NodeAssumption
  <2>. QED
    BY <2>1, NamesMove
<1>3. ASSUME NEW R \in SUBSET S, \A x \in R : Stays(x) /\ leaderId'[x] \in R
      PROVE  R = {}
  <2>1. R \in SUBSET {n \in Node : state[n] # "LEADER"} /\ \A x \in R : leaderId[x] \in R
    BY <1>3
  <2>. QED
    BY <2>1 DEF NoRedirectLoop
<1>4. PICK n \in S, m \in appendReqs : NamesSender(n, m)
  <2>. HIDE DEF Stays
  <2>. QED
    BY <1>2, <1>3
<1>5. \A x \in S : x # n => Stays(x)
  <2>1. \A q \in appendReqs : NamesSender(n, m) /\ NamesSender(q.dst, q) => q = m
    BY DEF NamesSender
  <2>2. \A x \in S, q \in appendReqs : NamesSender(x, q) => q = m /\ x = n
    BY <1>4, <2>1 DEF NamesSender
  <2>. HIDE DEF Stays
  <2>. QED
    BY <1>2, <2>2
<1> DEFINE T == currentTerm'[n]
           l == m.src
           R == {x \in S : currentTerm'[x] > T}
<1>6. n \in Node /\ T \in Nat /\ S \subseteq Node
  BY <1>1
<1>7. \A x \in S : currentTerm'[x] <= currentTerm'[leaderId'[x]]
  BY NodeAssumption DEF NamesNoOlder
<1>8. R = {}
  <2>1. \A x \in R : x # n /\ x \in S /\ leaderId'[x] \in S /\ currentTerm'[leaderId'[x]] > T
    BY <1>1, <1>6, <1>7
  <2>2. \A x \in R : Stays(x) /\ leaderId'[x] \in R
    BY <1>5, <2>1
  <2>. QED
    BY <1>3, <2>2
<1>9. /\ m.term \in Nat /\ l \in Node /\ l # n /\ m.term <= currentTerm[l] /\ T <= m.term
      /\ leaderId'[n] = l
  <2>1. m.term \in Nat /\ l \in Node /\ l # m.dst /\ m.term <= currentTerm[l]
    BY DEF CallTerms, TypeOK, AppendReq
  <2>. QED
    BY <1>4, <1>6, <2>1 DEF NamesSender
<1>10. l \in S /\ Stays(l) /\ leaderId[l] \in S
  BY <1>5, <1>9
<1>11. currentTerm[l] = T /\ m.term = T
  BY <1>1, <1>6, <1>8, <1>9, <1>10
<1>12. currentTerm[leaderId[l]] > T
  BY <1>6, <1>10, <1>11, NodeAssumption DEF CallersNameNewer
<1>13. leaderId[l] \in R
  BY <1>1, <1>6, <1>10, <1>12
<1>. QED
  BY <1>8, <1>13

LEMMA NamesInvariant == PromptSpec => []NamesInv
<1>1. Init => NamesInv
  BY NodeAssumption DEF Init, NamesInv, OneSource, LeaderCalls, CandidateCalls, NamesNoOlder,
                        CallersNameNewer, NoRedirectLoop
<1>2. TypeInv /\ LeaderInv /\ NamesInv /\ OneLeaderPerTerm' /\ [Next]_vars /\ [PromptStep]_vars
        => NamesInv'
  <2> SUFFICES ASSUME TypeInv, LeaderInv, NamesInv, OneLeaderPerTerm', [Next]_vars, [PromptStep]_vars
               PROVE  NamesInv'
    OBVIOUS
  <2>1. PromptStep
    BY DEF PromptStep, vars
  <2>2. TypeOK /\ CallTerms
    BY DEF TypeInv, LeaderInv
  <2>3. CandidateCalls'
    BY <2>2, CandidateStep DEF NamesInv
  <2>4. LeaderCalls'
    BY <2>1, <2>2, LeaderCallsStep DEF NamesInv
  <2>5. OneSource'
    BY <2>2, <2>4, OneSourceStep DEF NamesInv
  <2>6. NamesNoOlder'
    BY <2>2, NamesNoOlderStep DEF NamesInv
  <2>7. CallersNameNewer'
    BY <2>2, CallersNameNewerStep DEF NamesInv
  <2>8. NoRedirectLoop'
    BY <2>2, <2>6, NoLoopStep DEF NamesInv
  <2>. QED
    BY <2>3, <2>4, <2>5, <2>6, <2>7, <2>8 DEF NamesInv
<1>3. Spec => [](TypeInv /\ ElectionInv)
  BY ElectionInvariant
<1>. QED
  BY <1>1, <1>2, LeaderInvariant, ElectionSafety, PTL DEF Spec, PromptSpec

\* Whoever follows the leader that each node names does not come back to where it began,
\* for any number of nodes, when no call of another leader was left where one was elected:
\* no two nodes that led the same term name each other, although AppendEntries does not
\* raise the receiver's term.
THEOREM RedirectsEnd == PromptSpec => []NoRedirectLoop
<1>1. NamesInv => NoRedirectLoop
  BY DEF NamesInv
<1>. QED
  BY <1>1, NamesInvariant, PTL

=============================================================================

---------------------------- MODULE Lease_proofs ----------------------------
(***************************************************************************)
(* What Lease.tla promises of leases, for every number of nodes and every  *)
(* timeout: the inductive invariant, and the three properties it implies.  *)
(***************************************************************************)
EXTENDS Lease, TLAPS, FiniteSetTheorems

-----------------------------------------------------------------------------
(***************************************************************************)
(* The inductive invariant                                                 *)
(***************************************************************************)
IsAppend(m) == m.kind \in {"AppendEntries", "Appended"}

\* The leader that made the call
Caller(m) == IF m.kind = "AppendEntries" THEN m.src ELSE m.dst

\* A call of AppendEntries, and its answer, belong to a leader with a lease, or to one
\* that stepped down and has more to wait than the call.
CallsInTime ==
  \A m \in calls : IsAppend(m) =>
    /\ m.left <= AppendDeadline
    /\ \/ HoldsLease(Caller(m))
       \/ state[Caller(m)] = "FOLLOWER" /\ m.left < waitLeft[Caller(m)]

\* A node knows of every lease it was told of; who leads with a lease was told of none.
ToldIsKnown ==
  \A n \in Node : told[n] <= leaseLeft[n] /\ (HoldsLease(n) => told[n] = 0)

\* The lease of a leader, or the one it waits for, began when it was last heard or won.
HeardInTime ==
  \A n \in Node : state[n] = "LEADER" /\ (has_lease[n] \/ leaseLeft[n] < Forever)
                    => since[n] + leaseLeft[n] <= LEASE_TIMEOUT

LeaseInv == TypeOK /\ CallsInTime /\ ToldIsKnown /\ HeardInTime

-----------------------------------------------------------------------------
(***************************************************************************)
(* Constants and helpers                                                   *)
(***************************************************************************)
\* The constants are the numbers they are assumed to be.
LEMMA ConstantTypes ==
  /\ LEASE_TIMEOUT \in Nat /\ LEASE_TIMEOUT > 0 /\ HEARTBEAT_TIMEOUT \in Nat
  /\ Forever \in Nat /\ Forever > LEASE_TIMEOUT
  /\ 0 \in Duration /\ LEASE_TIMEOUT \in Duration /\ Forever \in Duration
  /\ \A d : d \in Duration <=> d \in Nat /\ d <= Forever
  /\ VoteDeadline \in Nat /\ AppendDeadline \in Nat
  /\ \A t \in ElectionTimeouts : t \in Nat /\ t > AppendDeadline
BY LeaseAssumption DEF Forever, Duration

\* Of two durations the longer one is a duration.
LEMMA LongerIsEither ==
  \A a, b \in Nat : /\ Longer(a, b) \in {a, b}
                    /\ a <= Longer(a, b) /\ b <= Longer(a, b)
BY DEF Longer

\* __update_lease never shortens what a node knows of, and takes over what is longer.
LEMMA UpdateLeaseGrows ==
  ASSUME TypeOK, NEW n \in Node, NEW d \in Duration, UpdateLease(n, d)
  PROVE  /\ leaseLeft' \in [Node -> Duration] /\ leaseInterval' \in [Node -> Duration]
         /\ leaseLeft'[n] = Longer(d, leaseLeft[n])
         /\ \A p \in Node : p # n => leaseLeft'[p] = leaseLeft[p]
BY ConstantTypes DEF TypeOK, UpdateLease, Longer

\* __renew_lease begins a lease of the whole time.
LEMMA RenewLeaseFull ==
  ASSUME TypeOK, NEW n \in Node, RenewLease(n)
  PROVE  /\ leaseLeft' \in [Node -> Duration] /\ leaseInterval' \in [Node -> Duration]
         /\ leaseLeft'[n] = LEASE_TIMEOUT
         /\ \A p \in Node : p # n => leaseLeft'[p] = leaseLeft[p]
BY ConstantTypes DEF TypeOK, RenewLease

\* The timer of one node is set, to one of the times asked for.
LEMMA UpdateTimerSets ==
  ASSUME TypeOK, NEW n \in Node, NEW Waits \in SUBSET Nat, UpdateTimer(n, Waits)
  PROVE  /\ waitLeft' \in [Node -> Nat] /\ waitLeft'[n] \in Waits
         /\ \A p \in Node : p # n => waitLeft'[p] = waitLeft[p]
BY DEF TypeOK, UpdateTimer

\* A heartbeat adds calls of its leader within their deadline, and sets its timer.
LEMMA SendHeartbeatCalls ==
  ASSUME TypeOK, NEW n \in Node, NEW left \in Duration, NEW others \in SUBSET calls,
         SendHeartbeat(n, left, others)
  PROVE  /\ reachability_nodes_cnt' \in [Node -> Nat]
         /\ calls' \subseteq Call
         /\ \A m \in calls' : m \in others \/ (m.kind = "AppendEntries" /\ m.src = n
                                                 /\ m.left = AppendDeadline)
         /\ waitLeft' \in [Node -> Nat]
         /\ \A p \in Node : p # n => waitLeft'[p] = waitLeft[p]
<1>1. waitLeft' \in [Node -> Nat] /\ \A p \in Node : p # n => waitLeft'[p] = waitLeft[p]
  <2>1. {HEARTBEAT_TIMEOUT} \in SUBSET Nat /\ UpdateTimer(n, {HEARTBEAT_TIMEOUT})
    BY ConstantTypes DEF SendHeartbeat
  <2> QED
    BY <2>1, UpdateTimerSets
<1>2. ASSUME NEW p \in Others(n)
      PROVE  [kind |-> "AppendEntries", src |-> n, dst |-> p, term |-> currentTerm[n],
              left |-> AppendDeadline, lease |-> left, yes |-> FALSE, replyTerm |-> -1] \in Call
  BY <1>2, ConstantTypes DEF TypeOK, Call, Others
<1>3. /\ calls' \subseteq Call
      /\ \A m \in calls' : m \in others \/ (m.kind = "AppendEntries" /\ m.src = n
                                              /\ m.left = AppendDeadline)
  BY <1>2 DEF SendHeartbeat, TypeOK
<1>4. reachability_nodes_cnt' \in [Node -> Nat]
  BY DEF SendHeartbeat, TypeOK
<1> QED
  BY <1>1, <1>3, <1>4

-----------------------------------------------------------------------------
(***************************************************************************)
(* The initial states and the timer thread                                 *)
(***************************************************************************)
\* The invariant holds when every node is a FOLLOWER that knows of no lease.
LEMMA LeaseInvInit == Init => LeaseInv
<1> SUFFICES ASSUME Init PROVE LeaseInv
  OBVIOUS
<1>1. TypeOK
  BY ConstantTypes DEF Init, TypeOK
<1>2. CallsInTime /\ ToldIsKnown /\ HeardInTime
  BY ConstantTypes DEF Init, CallsInTime, ToldIsKnown, HeardInTime, HoldsLease
<1> QED
  BY <1>1, <1>2 DEF LeaseInv

\* A step that opens no call of AppendEntries leaves the others in time: of the one node
\* that acts, which keeps its lease, or steps down and waits, or has no call open.
LEMMA CallsStayInTime ==
  ASSUME LeaseInv, TypeOK', NEW n \in Node,
         \A m \in calls' : IsAppend(m) =>
           \E c \in calls : IsAppend(c) /\ Caller(c) = Caller(m) /\ c.left = m.left,
         \A p \in Node : p # n => /\ state'[p] = state[p]
                                  /\ has_lease'[p] = has_lease[p]
                                  /\ waitLeft'[p] = waitLeft[p],
         \/ HoldsLease(n) /\ HoldsLease(n)'
         \/ state'[n] = "FOLLOWER" /\ waitLeft'[n] > AppendDeadline
         \/ ~HoldsLease(n) /\ state'[n] = state[n] /\ waitLeft'[n] = waitLeft[n]
         \/ ~HoldsLease(n) /\ state[n] # "FOLLOWER"
  PROVE  CallsInTime'
<1> SUFFICES ASSUME NEW m \in calls', IsAppend(m)
             PROVE  /\ m.left <= AppendDeadline
                    /\ \/ HoldsLease(Caller(m))'
                       \/ state'[Caller(m)] = "FOLLOWER" /\ m.left < waitLeft'[Caller(m)]
  BY DEF CallsInTime, IsAppend, Caller, HoldsLease
<1>1. PICK c \in calls : IsAppend(c) /\ Caller(c) = Caller(m) /\ c.left = m.left
  OBVIOUS
<1>2. /\ m.left <= AppendDeadline
      /\ HoldsLease(Caller(m)) \/ (state[Caller(m)] = "FOLLOWER" /\ m.left < waitLeft[Caller(m)])
  BY <1>1 DEF LeaseInv, CallsInTime
<1>3. m.left \in Nat /\ Caller(m) \in Node
  BY DEF TypeOK, Call, Caller
<1>4. CASE Caller(m) = n
  <2>1. waitLeft'[n] \in Nat
    BY DEF TypeOK
  <2> QED
    BY <1>2, <1>3, <1>4, <2>1, ConstantTypes DEF HoldsLease
<1>5. CASE Caller(m) # n
  BY <1>2, <1>3, <1>5 DEF HoldsLease
<1> QED
  BY <1>4, <1>5

\* A leader that steps down waits longer than its calls last.
LEMMA LeaseExpiredInv ==
  ASSUME LeaseInv, NEW n \in Node, LeaseExpired(n)
  PROVE  LeaseInv'
<1> USE DEF LeaseInv
<1>1. /\ waitLeft' \in [Node -> Nat] /\ waitLeft'[n] > AppendDeadline
      /\ \A p \in Node : p # n => waitLeft'[p] = waitLeft[p]
  <2>1. ElectionTimeouts \in SUBSET Nat /\ UpdateTimer(n, ElectionTimeouts)
    BY ConstantTypes DEF LeaseExpired
  <2> QED
    BY <2>1, UpdateTimerSets, ConstantTypes
<1>2. /\ leaseLeft' \in [Node -> Duration] /\ leaseInterval' \in [Node -> Duration]
      /\ leaseLeft'[n] = Longer(0, leaseLeft[n])
      /\ \A p \in Node : p # n => leaseLeft'[p] = leaseLeft[p]
  BY ConstantTypes, UpdateLeaseGrows DEF LeaseExpired
<1>3. TypeOK'
  BY <1>1, <1>2 DEF TypeOK, LeaseExpired, BecomeFollower, history
<1>4. CallsInTime'
  <2>1. \A p \in Node : p # n => state'[p] = state[p] /\ has_lease'[p] = has_lease[p]
    BY DEF LeaseExpired, BecomeFollower, TypeOK
  <2>2. state'[n] = "FOLLOWER" /\ calls' = calls
    BY DEF LeaseExpired, BecomeFollower, TypeOK
  <2> QED
    BY <1>1, <1>3, <2>1, <2>2, CallsStayInTime
<1>5. ToldIsKnown'
  BY <1>2, ConstantTypes, LongerIsEither
     DEF ToldIsKnown, HoldsLease, LeaseExpired, BecomeFollower, TypeOK, history
<1>6. HeardInTime'
  BY <1>2 DEF HeardInTime, LeaseExpired, BecomeFollower, TypeOK, history
<1> QED
  BY <1>3, <1>4, <1>5, <1>6

\* Acquiring and renewing: what a heartbeat of a leader with a lease leaves in place.
LEMMA CallsOfHolder ==
  ASSUME LeaseInv, NEW n \in Node, NEW left \in Duration, NEW others \in SUBSET calls,
         SendHeartbeat(n, left, others), TypeOK', HoldsLease(n)',
         \A p \in Node : p # n => /\ has_lease'[p] = has_lease[p]
                                  /\ state'[p] = state[p]
  PROVE  CallsInTime'
<1>1. /\ \A m \in calls' : m \in others \/ (m.kind = "AppendEntries" /\ m.src = n
                                              /\ m.left = AppendDeadline)
      /\ \A p \in Node : p # n => waitLeft'[p] = waitLeft[p]
  BY SendHeartbeatCalls DEF LeaseInv
<1> SUFFICES ASSUME NEW m \in calls', IsAppend(m)
             PROVE  /\ m.left <= AppendDeadline
                    /\ \/ HoldsLease(Caller(m))'
                       \/ state'[Caller(m)] = "FOLLOWER" /\ m.left < waitLeft'[Caller(m)]
  BY DEF CallsInTime, IsAppend, Caller, HoldsLease
<1>2. m \in Call /\ Caller(m) \in Node
  BY DEF TypeOK, Call, Caller
<1>3. CASE m \notin others
  BY <1>1, <1>3, ConstantTypes DEF Caller, HoldsLease
<1>4. CASE m \in others
  <2>1. /\ m.left <= AppendDeadline
        /\ HoldsLease(Caller(m)) \/ (state[Caller(m)] = "FOLLOWER" /\ m.left < waitLeft[Caller(m)])
    BY <1>4 DEF LeaseInv, CallsInTime
  <2>2. CASE Caller(m) = n
    BY <2>1, <2>2
  <2>3. CASE Caller(m) # n
    BY <1>1, <1>2, <2>1, <2>3 DEF HoldsLease
  <2> QED
    BY <2>2, <2>3
<1> QED
  BY <1>3, <1>4

LEMMA LeaseAcquiredInv ==
  ASSUME LeaseInv, NEW n \in Node, LeaseAcquired(n)
  PROVE  LeaseInv'
<1>1. /\ leaseLeft' \in [Node -> Duration] /\ leaseInterval' \in [Node -> Duration]
      /\ leaseLeft'[n] = LEASE_TIMEOUT
      /\ \A p \in Node : p # n => leaseLeft'[p] = leaseLeft[p]
  BY RenewLeaseFull DEF LeaseAcquired, AcquireLease, LeaseInv
<1>2. SendHeartbeat(n, LEASE_TIMEOUT, calls) /\ LEASE_TIMEOUT \in Duration
  BY ConstantTypes DEF LeaseAcquired, AcquireLease
<1>3. TypeOK'
  <2>1. /\ reachability_nodes_cnt' \in [Node -> Nat] /\ calls' \subseteq Call
        /\ waitLeft' \in [Node -> Nat]
    BY <1>2, SendHeartbeatCalls DEF LeaseInv
  <2> QED
    BY <1>1, <2>1 DEF TypeOK, LeaseInv, LeaseAcquired, AcquireLease, election
<1>4. HoldsLease(n)' /\ \A p \in Node : p # n => /\ has_lease'[p] = has_lease[p]
                                                 /\ state'[p] = state[p]
  BY DEF HoldsLease, LeaseAcquired, AcquireLease, election, LeaseInv, TypeOK
<1>5. CallsInTime'
  BY <1>2, <1>3, <1>4, CallsOfHolder
<1>6. ToldIsKnown'
  BY <1>1, <1>4, ConstantTypes DEF ToldIsKnown, HoldsLease, LeaseAcquired, LeaseInv, TypeOK
<1>7. HeardInTime'
  BY <1>1, <1>4, ConstantTypes DEF HeardInTime, LeaseAcquired, LeaseInv, TypeOK, Duration
<1> QED
  BY <1>3, <1>5, <1>6, <1>7 DEF LeaseInv

LEMMA HeartbeatInv ==
  ASSUME LeaseInv, NEW n \in Node, Heartbeat(n)
  PROVE  LeaseInv'
<1>1. SendHeartbeat(n, leaseLeft[n], calls) /\ leaseLeft[n] \in Duration
  BY DEF Heartbeat, LeaseInv, TypeOK
<1>2. TypeOK'
  <2>1. /\ reachability_nodes_cnt' \in [Node -> Nat] /\ calls' \subseteq Call
        /\ waitLeft' \in [Node -> Nat]
    BY <1>1, SendHeartbeatCalls DEF LeaseInv
  <2> QED
    BY <2>1 DEF TypeOK, LeaseInv, Heartbeat, election, lease, history
<1>3. HoldsLease(n)' /\ \A p \in Node : p # n => /\ has_lease'[p] = has_lease[p]
                                                 /\ state'[p] = state[p]
  BY DEF HoldsLease, Heartbeat, HeartbeatDue, election, lease
<1>4. CallsInTime'
  BY <1>1, <1>2, <1>3, CallsOfHolder
<1>5. ToldIsKnown' /\ HeardInTime'
  BY DEF ToldIsKnown, HeardInTime, HoldsLease, Heartbeat, election, lease, history, LeaseInv
<1> QED
  BY <1>2, <1>4, <1>5 DEF LeaseInv

\* Whoever may begin an election has no call of AppendEntries open any more.
LEMMA InitiateElectionInv ==
  ASSUME LeaseInv, NEW n \in Node, InitiateElection(n)
  PROVE  LeaseInv'
<1> DEFINE Ask(p) == [kind |-> "RequestVote", src |-> n, dst |-> p, term |-> currentTerm[n] + 1,
                      left |-> VoteDeadline, lease |-> 0, yes |-> FALSE, replyTerm |-> -1]
<1>1. calls' = calls \cup {Ask(p) : p \in Others(n)}
  BY DEF InitiateElection
<1>2. ASSUME NEW p \in Others(n)
      PROVE  Ask(p) \in Call
  BY <1>2, ConstantTypes DEF Call, Others, LeaseInv, TypeOK
<1>3. waitLeft' \in [Node -> Nat] /\ \A p \in Node : p # n => waitLeft'[p] = waitLeft[p]
  <2>1. ElectionTimeouts \in SUBSET Nat /\ UpdateTimer(n, ElectionTimeouts)
    BY ConstantTypes DEF InitiateElection
  <2> QED
    BY <2>1, UpdateTimerSets DEF LeaseInv
<1>4. TypeOK'
  <2>1. calls' \subseteq Call
    <3>1. calls \subseteq Call
      BY DEF LeaseInv, TypeOK
    <3> QED
      BY <1>1, <1>2, <3>1
  <2>2. /\ currentTerm' \in [Node -> Nat] /\ votedFor' \in [Node -> Node \cup {Nil}]
        /\ state' \in [Node -> {"FOLLOWER", "CANDIDATE", "LEADER"}]
        /\ votes_received' \in [Node -> Nat]
    BY DEF LeaseInv, TypeOK, InitiateElection
  <2> QED
    BY <1>3, <2>1, <2>2 DEF TypeOK, LeaseInv, InitiateElection, lease, history
<1>5. \A m \in calls : IsAppend(m) => Caller(m) # n
  BY DEF LeaseInv, TypeOK, Call, CallsInTime, HoldsLease, InitiateElection, TimerDue
<1>6. CallsInTime'
  BY <1>1, <1>3, <1>5
     DEF CallsInTime, IsAppend, Caller, HoldsLease, InitiateElection, LeaseInv, TypeOK, Call, lease
<1>7. ToldIsKnown' /\ HeardInTime'
  BY DEF ToldIsKnown, HeardInTime, HoldsLease, InitiateElection, LeaseInv, TypeOK, lease, history
<1> QED
  BY <1>4, <1>6, <1>7 DEF LeaseInv
-----------------------------------------------------------------------------
(***************************************************************************)
(* The handlers of the calls and of their answers                          *)
(***************************************************************************)
\* The other calls of AppendEntries are as they were.
LEMMA AnswerAdded ==
  ASSUME LeaseInv, NEW m \in calls, NEW r \in Call, calls' = (calls \ {m}) \cup {r},
         ~IsAppend(r) \/ (IsAppend(m) /\ Caller(r) = Caller(m) /\ r.left = m.left)
  PROVE  /\ calls' \subseteq Call
         /\ \A k \in calls' : IsAppend(k) =>
              \E c \in calls : IsAppend(c) /\ Caller(c) = Caller(k) /\ c.left = k.left
BY DEF LeaseInv, TypeOK

LEMMA RequestVoteInv ==
  ASSUME LeaseInv, NEW m \in calls, RequestVote(m)
  PROVE  LeaseInv'
<1> DEFINE n == m.dst
           newTerm == m.term > currentTerm[n]
           Reply(granted) ==
             [kind |-> "Vote", src |-> n, dst |-> m.src, term |-> m.term, left |-> m.left,
              lease |-> leaseLeft[n], yes |-> granted,
              replyTerm |-> IF m.term < currentTerm[n] THEN currentTerm[n] ELSE -1]
<1>1. n \in Node /\ m \in Call /\ m.src \in Node /\ m.term \in Nat /\ m.left \in Nat
  BY DEF LeaseInv, TypeOK, Call
<1>2. PICK granted \in BOOLEAN :
        /\ calls' = (calls \ {m}) \cup {Reply(granted)}
        /\ currentTerm' = [currentTerm EXCEPT ![n] = Longer(@, m.term)]
        /\ votedFor' = [votedFor EXCEPT ![n] = IF granted THEN m.src
                                               ELSE IF newTerm THEN Nil ELSE @]
        /\ IF newTerm
           THEN state' = [state EXCEPT ![n] = "FOLLOWER"] /\ UpdateLease(n, leaseInterval[n])
           ELSE UNCHANGED <<state, leaseLeft, leaseInterval>>
        /\ IF newTerm \/ granted THEN UpdateTimer(n, ElectionTimeouts) ELSE UNCHANGED waitLeft
  BY DEF RequestVote
<1>3. UNCHANGED <<votes_received, has_lease, reachability_nodes_cnt, told, since>>
  BY DEF RequestVote, history
<1>4. /\ calls' \subseteq Call
      /\ \A k \in calls' : IsAppend(k) =>
           \E c \in calls : IsAppend(c) /\ Caller(c) = Caller(k) /\ c.left = k.left
  <2>1. Reply(granted) \in Call /\ ~IsAppend(Reply(granted))
    BY <1>1 DEF LeaseInv, TypeOK, Call, IsAppend
  <2> QED
    BY <1>2, <2>1, AnswerAdded
<1>5. /\ leaseLeft' \in [Node -> Duration] /\ leaseInterval' \in [Node -> Duration]
      /\ \A p \in Node : leaseLeft'[p] >= leaseLeft[p]
      /\ \A p \in Node : p # n => leaseLeft'[p] = leaseLeft[p]
      /\ ~newTerm => leaseLeft' = leaseLeft
  <2>1. CASE newTerm
    <3>1. leaseInterval[n] \in Duration /\ leaseInterval[n] \in Nat
          /\ \A p \in Node : leaseLeft[p] \in Nat
      BY <1>1, ConstantTypes DEF LeaseInv, TypeOK
    <3> QED
      BY <1>1, <1>2, <2>1, <3>1, UpdateLeaseGrows, LongerIsEither DEF LeaseInv
  <2>2. CASE ~newTerm
    BY <1>2, <2>2, ConstantTypes DEF LeaseInv, TypeOK
  <2> QED
    BY <2>1, <2>2
<1>6. /\ waitLeft' \in [Node -> Nat]
      /\ \A p \in Node : p # n => waitLeft'[p] = waitLeft[p]
      /\ IF newTerm \/ granted THEN waitLeft'[n] > AppendDeadline ELSE waitLeft' = waitLeft
  <2>1. ElectionTimeouts \in SUBSET Nat
    BY ConstantTypes
  <2> QED
    BY <1>1, <1>2, <2>1, UpdateTimerSets, ConstantTypes DEF LeaseInv, TypeOK
<1>7. state' \in [Node -> {"FOLLOWER", "CANDIDATE", "LEADER"}]
      /\ \A p \in Node : state'[p] = IF p = n /\ newTerm THEN "FOLLOWER" ELSE state[p]
  BY <1>1, <1>2 DEF LeaseInv, TypeOK
<1>8. TypeOK'
  <2>1. currentTerm' \in [Node -> Nat] /\ votedFor' \in [Node -> Node \cup {Nil}]
    BY <1>1, <1>2 DEF LeaseInv, TypeOK, Longer
  <2> QED
    BY <1>3, <1>4, <1>5, <1>6, <1>7, <2>1 DEF LeaseInv, TypeOK
<1>9. CallsInTime'
  <2>1. HoldsLease(n)' <=> state'[n] = "LEADER" /\ has_lease[n]
    BY <1>3 DEF HoldsLease
  <2>2. \A p \in Node : p # n => /\ state'[p] = state[p]
                                 /\ has_lease'[p] = has_lease[p]
                                 /\ waitLeft'[p] = waitLeft[p]
    BY <1>3, <1>6, <1>7
  <2>3. \/ HoldsLease(n) /\ HoldsLease(n)'
        \/ state'[n] = "FOLLOWER" /\ waitLeft'[n] > AppendDeadline
        \/ ~HoldsLease(n) /\ state'[n] = state[n] /\ waitLeft'[n] = waitLeft[n]
        \/ ~HoldsLease(n) /\ state[n] # "FOLLOWER"
    BY <1>1, <1>6, <1>7, <2>1 DEF HoldsLease
  <2> HIDE DEF n
  <2> QED
    BY <1>1, <1>4, <1>8, <2>2, <2>3, CallsStayInTime
<1>10. ToldIsKnown'
  BY <1>3, <1>5, <1>7, ConstantTypes DEF ToldIsKnown, HoldsLease, LeaseInv, TypeOK
<1>11. HeardInTime'
  BY <1>1, <1>3, <1>5, <1>7 DEF HeardInTime, LeaseInv, TypeOK
<1> QED
  BY <1>8, <1>9, <1>10, <1>11 DEF LeaseInv

LEMMA AppendEntriesInv ==
  ASSUME LeaseInv, NEW m \in calls, AppendEntries(m)
  PROVE  LeaseInv'
<1> DEFINE n == m.dst
           rejected == currentTerm[n] > m.term
           follows == ~rejected /\ state[n] = "CANDIDATE"
           Reply == [kind |-> "Appended", src |-> n, dst |-> m.src, term |-> m.term,
                     left |-> m.left, lease |-> 0, yes |-> ~rejected,
                     replyTerm |-> IF rejected THEN currentTerm[n] ELSE -1]
<1>1. /\ n \in Node /\ m \in Call /\ m.src \in Node /\ m.term \in Nat /\ m.left \in Nat
      /\ m.lease \in Duration /\ m.lease \in Nat /\ m.kind = "AppendEntries"
  BY ConstantTypes DEF LeaseInv, TypeOK, Call, AppendEntries
<1>2. UNCHANGED <<votes_received, has_lease, reachability_nodes_cnt, since>>
  BY DEF AppendEntries
<1>3. /\ calls' \subseteq Call
      /\ \A k \in calls' : IsAppend(k) =>
           \E c \in calls : IsAppend(c) /\ Caller(c) = Caller(k) /\ c.left = k.left
  <2>1. Reply \in Call /\ IsAppend(m) /\ Caller(Reply) = Caller(m) /\ Reply.left = m.left
    BY <1>1, ConstantTypes DEF LeaseInv, TypeOK, Call, IsAppend, Caller
  <2>2. calls' = (calls \ {m}) \cup {Reply}
    BY DEF AppendEntries
  <2> HIDE DEF Reply
  <2> QED
    BY <1>1, <2>1, <2>2, AnswerAdded
<1>4. /\ leaseLeft' \in [Node -> Duration] /\ leaseInterval' \in [Node -> Duration]
      /\ told' \in [Node -> Duration]
      /\ \A p \in Node : told'[p] <= leaseLeft'[p]
      /\ \A p \in Node : p # n \/ ~follows => leaseLeft'[p] = leaseLeft[p] /\ told'[p] = told[p]
  <2>1. CASE follows
    <3>1. UpdateLease(n, m.lease) /\ IsTold(n, m.lease)
      BY <2>1 DEF AppendEntries
    <3>2. told[n] \in Nat /\ leaseLeft[n] \in Nat
      BY <1>1, ConstantTypes DEF LeaseInv, TypeOK
    <3>3. told' \in [Node -> Duration] /\ told'[n] = Longer(told[n], m.lease)
          /\ \A p \in Node : p # n => told'[p] = told[p]
      BY <1>1, <3>1, <3>2 DEF IsTold, LeaseInv, TypeOK, Longer
    <3>4. /\ leaseLeft' \in [Node -> Duration] /\ leaseInterval' \in [Node -> Duration]
          /\ leaseLeft'[n] = Longer(m.lease, leaseLeft[n])
          /\ \A p \in Node : p # n => leaseLeft'[p] = leaseLeft[p]
      BY <1>1, <3>1, UpdateLeaseGrows DEF LeaseInv
    <3>5. told[n] <= leaseLeft[n] /\ \A p \in Node : told[p] <= leaseLeft[p]
      BY <1>1 DEF LeaseInv, ToldIsKnown
    <3> QED
      BY <1>1, <2>1, <3>2, <3>3, <3>4, <3>5 DEF Longer
  <2>2. CASE ~follows
    BY <2>2 DEF AppendEntries, LeaseInv, TypeOK, ToldIsKnown
  <2> QED
    BY <2>1, <2>2
<1>5. /\ waitLeft' \in [Node -> Nat]
      /\ \A p \in Node : p # n => waitLeft'[p] = waitLeft[p]
      /\ IF rejected THEN waitLeft' = waitLeft ELSE waitLeft'[n] > AppendDeadline
  <2>1. ElectionTimeouts \in SUBSET Nat
    BY ConstantTypes
  <2>2. IF rejected THEN UNCHANGED waitLeft ELSE UpdateTimer(n, ElectionTimeouts)
    BY DEF AppendEntries
  <2> QED
    BY <1>1, <2>1, <2>2, UpdateTimerSets, ConstantTypes DEF LeaseInv, TypeOK
<1>6. /\ state' \in [Node -> {"FOLLOWER", "CANDIDATE", "LEADER"}]
      /\ currentTerm' \in [Node -> Nat] /\ votedFor' \in [Node -> Node \cup {Nil}]
      /\ \A p \in Node : state'[p] = IF p = n /\ follows THEN "FOLLOWER" ELSE state[p]
  BY <1>1 DEF AppendEntries, BecomeFollower, LeaseInv, TypeOK
<1>7. TypeOK'
  BY <1>2, <1>3, <1>4, <1>5, <1>6 DEF LeaseInv, TypeOK
<1>8. CallsInTime'
  <2>1. \A p \in Node : p # n => /\ state'[p] = state[p]
                                 /\ has_lease'[p] = has_lease[p]
                                 /\ waitLeft'[p] = waitLeft[p]
    BY <1>2, <1>5, <1>6
  <2>2. \/ HoldsLease(n) /\ HoldsLease(n)'
        \/ state'[n] = "FOLLOWER" /\ waitLeft'[n] > AppendDeadline
        \/ ~HoldsLease(n) /\ state'[n] = state[n] /\ waitLeft'[n] = waitLeft[n]
        \/ ~HoldsLease(n) /\ state[n] # "FOLLOWER"
    BY <1>1, <1>2, <1>5, <1>6 DEF HoldsLease
  <2> HIDE DEF n
  <2> QED
    BY <1>1, <1>3, <1>7, <2>1, <2>2, CallsStayInTime
<1>9. ToldIsKnown'
  BY <1>2, <1>4, <1>6 DEF ToldIsKnown, HoldsLease, LeaseInv
<1>10. HeardInTime'
  BY <1>1, <1>2, <1>4, <1>6 DEF HeardInTime, LeaseInv, TypeOK
<1> QED
  BY <1>7, <1>8, <1>9, <1>10 DEF LeaseInv
\* The comparison of votes with a majority is one of numbers.
LEMMA VotesAreNumbers ==
  /\ Cardinality(Node) \in Nat
  /\ TypeOK => \A n \in Node : votes_received[n] \in Nat
<1>1. Cardinality(Node) \in Nat
  BY LeaseAssumption, FS_CardinalityType
<1> QED
  BY <1>1 DEF TypeOK

\* A candidate takes over what its voters tell; it acquires a lease when that is over.
LEMMA HandleVoteInv ==
  ASSUME LeaseInv, NEW m \in calls, HandleVote(m)
  PROVE  LeaseInv'
<1> DEFINE n == m.dst
           known == Longer(m.lease, leaseLeft[n])
<1>1. /\ n \in Node /\ m \in Call /\ m.lease \in Duration /\ m.lease \in Nat
      /\ ~IsAppend(m) /\ m.replyTerm \in Nat \cup {-1}
  BY ConstantTypes DEF LeaseInv, TypeOK, Call, HandleVote, IsAppend
<1>2. /\ leaseLeft[n] \in Nat /\ told[n] \in Nat /\ told[n] <= leaseLeft[n]
      /\ leaseLeft[n] \in Duration /\ currentTerm[n] \in Nat
  BY <1>1, ConstantTypes DEF LeaseInv, TypeOK, ToldIsKnown
<1>3. known \in Nat /\ m.lease <= known /\ leaseLeft[n] <= known
  BY <1>1, <1>2, LongerIsEither DEF Longer
<1>4. CASE ~Heeds(n, m)
  <2>1. /\ calls' = calls \ {m}
        /\ UNCHANGED <<election, lease, reachability_nodes_cnt, waitLeft, history>>
    BY <1>4 DEF HandleVote
  <2>2. TypeOK'
    BY <2>1 DEF LeaseInv, TypeOK, election, lease, history
  <2>3. CallsInTime'
    BY <2>1 DEF LeaseInv, CallsInTime, HoldsLease, IsAppend, Caller, election, lease
  <2>4. ToldIsKnown' /\ HeardInTime'
    BY <2>1 DEF LeaseInv, ToldIsKnown, HeardInTime, HoldsLease, election, lease, history
  <2> QED
    BY <2>2, <2>3, <2>4 DEF LeaseInv
<1>5. CASE Heeds(n, m)
  <2>1. /\ IsTold(n, m.lease) /\ state[n] = "CANDIDATE"
        /\ told' \in [Node -> Duration] /\ told'[n] = Longer(told[n], m.lease)
        /\ \A p \in Node : p # n => told'[p] = told[p]
    BY <1>1, <1>2, <1>5 DEF HandleVote, Heeds, IsTold, LeaseInv, TypeOK, Longer
  <2>2. told'[n] <= known
    BY <1>1, <1>2, <1>3, <2>1 DEF Longer
  <2> DEFINE Updated ==
        /\ leaseLeft' \in [Node -> Duration] /\ leaseInterval' \in [Node -> Duration]
        /\ leaseLeft'[n] = known
        /\ \A p \in Node : p # n => leaseLeft'[p] = leaseLeft[p]
  <2>3. UpdateLease(n, m.lease) => Updated
    BY <1>1, UpdateLeaseGrows DEF LeaseInv
  <2>4. CASE ~m.yes
    <3>1. UpdateLease(n, m.lease) /\ calls' = calls \ {m}
          /\ UNCHANGED <<votes_received, has_lease, reachability_nodes_cnt, since>>
      BY <1>5, <2>4 DEF HandleVote
    <3>2. /\ state' \in [Node -> {"FOLLOWER", "CANDIDATE", "LEADER"}] /\ state'[n] # "LEADER"
          /\ currentTerm' \in [Node -> Nat] /\ votedFor' \in [Node -> Node \cup {Nil}]
          /\ \A p \in Node : p # n => state'[p] = state[p]
      BY <1>1, <1>2, <1>5, <2>1, <2>4 DEF HandleVote, BecomeFollower, LeaseInv, TypeOK
    <3>3. waitLeft' \in [Node -> Nat] /\ \A p \in Node : p # n => waitLeft'[p] = waitLeft[p]
      <4>1. ElectionTimeouts \in SUBSET Nat
        BY ConstantTypes
      <4>2. UNCHANGED waitLeft \/ UpdateTimer(n, ElectionTimeouts)
        BY <1>5, <2>4 DEF HandleVote
      <4> QED
        BY <1>1, <4>1, <4>2, UpdateTimerSets DEF LeaseInv, TypeOK
    <3>4. TypeOK'
      BY <2>1, <2>3, <3>1, <3>2, <3>3 DEF LeaseInv, TypeOK
    <3>5. CallsInTime'
      <4>1. ~HoldsLease(n) /\ state[n] # "FOLLOWER"
        BY <2>1 DEF HoldsLease
      <4>2. \A p \in Node : p # n => /\ state'[p] = state[p]
                                     /\ has_lease'[p] = has_lease[p]
                                     /\ waitLeft'[p] = waitLeft[p]
        BY <3>1, <3>2, <3>3
      <4> HIDE DEF n
      <4> QED
        BY <1>1, <3>1, <3>4, <4>1, <4>2, CallsStayInTime
    <3>6. ToldIsKnown'
      BY <2>1, <2>2, <2>3, <3>1, <3>2 DEF ToldIsKnown, HoldsLease, LeaseInv
    <3>7. HeardInTime'
      BY <2>3, <3>1, <3>2 DEF HeardInTime, LeaseInv, TypeOK
    <3> QED
      BY <3>4, <3>5, <3>6, <3>7 DEF LeaseInv
  <2>5. CASE m.yes /\ 2 * (votes_received[n] + 1) <= Cardinality(Node)
    <3>1. /\ UpdateLease(n, m.lease) /\ calls' = calls \ {m}
          /\ votes_received' = [votes_received EXCEPT ![n] = @ + 1]
          /\ UNCHANGED <<currentTerm, votedFor, state, has_lease, reachability_nodes_cnt,
                         waitLeft, since>>
      BY <1>1, <1>5, <2>5, VotesAreNumbers DEF HandleVote, LeaseInv
    <3>2. TypeOK'
      BY <1>1, <2>1, <2>3, <3>1 DEF LeaseInv, TypeOK
    <3>3. CallsInTime'
      BY <3>1 DEF LeaseInv, CallsInTime, HoldsLease, IsAppend, Caller
    <3>4. ToldIsKnown'
      BY <2>1, <2>2, <2>3, <3>1 DEF ToldIsKnown, HoldsLease, LeaseInv
    <3>5. HeardInTime'
      BY <2>1, <2>3, <3>1 DEF HeardInTime, LeaseInv, TypeOK
    <3> QED
      BY <3>2, <3>3, <3>4, <3>5 DEF LeaseInv
  <2>6. CASE m.yes /\ 2 * (votes_received[n] + 1) > Cardinality(Node)
    <3>1. /\ votes_received' = [votes_received EXCEPT ![n] = @ + 1]
          /\ UNCHANGED <<currentTerm, votedFor>>
          /\ state' = [state EXCEPT ![n] = "LEADER"]
          /\ since' = [since EXCEPT ![n] = 0]
          /\ \/ known = 0 /\ AcquireLease(n, calls \ {m})
             \/ /\ known > 0
                /\ has_lease' = [has_lease EXCEPT ![n] = FALSE]
                /\ UpdateLease(n, m.lease) /\ calls' = calls \ {m}
                /\ UNCHANGED <<reachability_nodes_cnt, waitLeft>>
      BY <1>1, <1>5, <2>6, VotesAreNumbers DEF HandleVote, LeaseInv
    <3>2. /\ state' \in [Node -> {"FOLLOWER", "CANDIDATE", "LEADER"}] /\ state'[n] = "LEADER"
          /\ \A p \in Node : p # n => state'[p] = state[p]
          /\ since' \in [Node -> Nat] /\ since'[n] = 0
          /\ \A p \in Node : p # n => since'[p] = since[p]
          /\ votes_received' \in [Node -> Nat]
      BY <1>1, <3>1 DEF LeaseInv, TypeOK
    <3>3. CASE known = 0 /\ AcquireLease(n, calls \ {m})
      <4>1. /\ leaseLeft' \in [Node -> Duration] /\ leaseInterval' \in [Node -> Duration]
            /\ leaseLeft'[n] = LEASE_TIMEOUT
            /\ \A p \in Node : p # n => leaseLeft'[p] = leaseLeft[p]
        BY <1>1, <3>3, RenewLeaseFull DEF AcquireLease, LeaseInv
      <4>2. /\ SendHeartbeat(n, LEASE_TIMEOUT, calls \ {m}) /\ LEASE_TIMEOUT \in Duration
            /\ calls \ {m} \in SUBSET calls
        BY <3>3, ConstantTypes DEF AcquireLease
      <4>3. /\ reachability_nodes_cnt' \in [Node -> Nat] /\ calls' \subseteq Call
            /\ waitLeft' \in [Node -> Nat]
        BY <1>1, <4>2, SendHeartbeatCalls DEF LeaseInv
      <4>4. /\ has_lease' \in [Node -> BOOLEAN] /\ has_lease'[n]
            /\ \A p \in Node : p # n => has_lease'[p] = has_lease[p]
        BY <1>1, <3>3 DEF AcquireLease, LeaseInv, TypeOK
      <4>5. TypeOK'
        BY <2>1, <3>1, <3>2, <4>1, <4>3, <4>4 DEF LeaseInv, TypeOK
      <4>6. CallsInTime'
        <5>1. HoldsLease(n)' /\ \A p \in Node : p # n => /\ has_lease'[p] = has_lease[p]
                                                         /\ state'[p] = state[p]
          BY <3>2, <4>4 DEF HoldsLease
        <5> HIDE DEF n
        <5> QED
          BY <1>1, <4>2, <4>5, <5>1, CallsOfHolder
      <4>7. ToldIsKnown'
        <5>1. told'[n] = 0
          <6>1. told'[n] \in Nat
            BY <1>1, <2>1, ConstantTypes
          <6> QED
            BY <2>2, <3>3, <6>1
        <5> QED
          BY <2>1, <3>2, <4>1, <4>4, <5>1, ConstantTypes DEF ToldIsKnown, HoldsLease, LeaseInv
      <4>8. HeardInTime'
        BY <3>2, <4>1, <4>4, ConstantTypes DEF HeardInTime, LeaseInv
      <4> QED
        BY <4>5, <4>6, <4>7, <4>8 DEF LeaseInv
    <3>4. CASE /\ has_lease' = [has_lease EXCEPT ![n] = FALSE]
               /\ UpdateLease(n, m.lease) /\ calls' = calls \ {m}
               /\ UNCHANGED <<reachability_nodes_cnt, waitLeft>>
      <4>1. /\ has_lease' \in [Node -> BOOLEAN] /\ ~has_lease'[n]
            /\ \A p \in Node : p # n => has_lease'[p] = has_lease[p]
        BY <1>1, <3>4 DEF LeaseInv, TypeOK
      <4>2. TypeOK'
        BY <2>1, <2>3, <3>1, <3>2, <3>4, <4>1 DEF LeaseInv, TypeOK
      <4>3. CallsInTime'
        <5>1. ~HoldsLease(n) /\ state[n] # "FOLLOWER"
          BY <2>1 DEF HoldsLease
        <5> HIDE DEF n
        <5> QED
          BY <1>1, <3>2, <3>4, <4>1, <4>2, <5>1, CallsStayInTime
      <4>4. ToldIsKnown'
        BY <2>1, <2>2, <2>3, <3>2, <3>4, <4>1 DEF ToldIsKnown, HoldsLease, LeaseInv
      <4>5. HeardInTime'
        <5>1. known \in Nat /\ (known < Forever => known <= LEASE_TIMEOUT)
          BY <1>3, ConstantTypes DEF Forever
        <5> QED
          BY <2>3, <3>2, <3>4, <4>1, <5>1, ConstantTypes DEF HeardInTime, LeaseInv
      <4> QED
        BY <4>2, <4>3, <4>4, <4>5 DEF LeaseInv
    <3> QED
      BY <3>1, <3>3, <3>4
  <2> QED
    BY <1>1, <2>4, <2>5, <2>6, VotesAreNumbers DEF LeaseInv
<1> QED
  BY <1>4, <1>5

\* An answer is to a leader with a lease, which may renew it, or is ignored.
LEMMA HandleAppendedInv ==
  ASSUME LeaseInv, NEW m \in calls, HandleAppended(m)
  PROVE  LeaseInv'
<1> DEFINE n == m.dst
           stepsDown == ~m.yes /\ m.replyTerm > currentTerm[n]
<1>1. n \in Node /\ m \in Call /\ IsAppend(m) /\ Caller(m) = n /\ m.replyTerm \in Nat \cup {-1}
  BY DEF LeaseInv, TypeOK, Call, HandleAppended, IsAppend, Caller
<1>2. calls' = calls \ {m} /\ UNCHANGED <<votes_received, has_lease, told>>
  BY DEF HandleAppended
<1>3. CASE state[n] # "LEADER"
  <2>1. UNCHANGED <<state, currentTerm, votedFor, leaseLeft, leaseInterval,
                    reachability_nodes_cnt, waitLeft, since>>
    BY <1>3 DEF HandleAppended
  <2>2. TypeOK'
    BY <1>2, <2>1 DEF LeaseInv, TypeOK
  <2>3. CallsInTime'
    BY <1>2, <2>1 DEF LeaseInv, CallsInTime, HoldsLease, IsAppend, Caller
  <2>4. ToldIsKnown' /\ HeardInTime'
    BY <1>2, <2>1 DEF LeaseInv, ToldIsKnown, HeardInTime, HoldsLease
  <2> QED
    BY <2>2, <2>3, <2>4 DEF LeaseInv
<1>4. CASE state[n] = "LEADER"
  <2>1. HoldsLease(n) /\ has_lease[n]
    BY <1>1, <1>4 DEF LeaseInv, CallsInTime, HoldsLease
  <2>2. /\ told[n] = 0 /\ leaseLeft[n] \in Nat /\ since[n] \in Nat
        /\ since[n] + leaseLeft[n] <= LEASE_TIMEOUT
    BY <1>1, <1>4, <2>1, ConstantTypes DEF LeaseInv, TypeOK, ToldIsKnown, HeardInTime
  <2>3. /\ reachability_nodes_cnt' \in [Node -> Nat]
        /\ since' \in [Node -> Nat] /\ since'[n] = 0
        /\ \A p \in Node : p # n => since'[p] = since[p]
    BY <1>1, <1>4 DEF HandleAppended, LeaseInv, TypeOK
  <2>4. CASE stepsDown
    <3>1. /\ BecomeFollower(n, m.replyTerm) /\ UpdateTimer(n, ElectionTimeouts)
          /\ UpdateLease(n, Forever)
      BY <1>4, <2>4 DEF HandleAppended, HigherTermLease
    <3>2. /\ waitLeft' \in [Node -> Nat] /\ waitLeft'[n] > AppendDeadline
          /\ \A p \in Node : p # n => waitLeft'[p] = waitLeft[p]
      <4>1. ElectionTimeouts \in SUBSET Nat
        BY ConstantTypes
      <4> QED
        BY <1>1, <3>1, <4>1, UpdateTimerSets, ConstantTypes DEF LeaseInv
    <3>3. /\ leaseLeft' \in [Node -> Duration] /\ leaseInterval' \in [Node -> Duration]
          /\ \A p \in Node : p # n => leaseLeft'[p] = leaseLeft[p]
      BY <1>1, <3>1, UpdateLeaseGrows, ConstantTypes DEF LeaseInv
    <3>4. currentTerm[n] \in Nat /\ m.replyTerm \in Nat
      BY <1>1, <2>4 DEF LeaseInv, TypeOK
    <3>5. /\ state' \in [Node -> {"FOLLOWER", "CANDIDATE", "LEADER"}] /\ state'[n] = "FOLLOWER"
          /\ currentTerm' \in [Node -> Nat] /\ votedFor' \in [Node -> Node \cup {Nil}]
          /\ \A p \in Node : p # n => state'[p] = state[p]
      BY <1>1, <3>1, <3>4 DEF BecomeFollower, LeaseInv, TypeOK
    <3>6. TypeOK'
      BY <1>2, <2>3, <3>2, <3>3, <3>5 DEF LeaseInv, TypeOK
    <3>7. CallsInTime'
      <4>1. \A p \in Node : p # n => /\ state'[p] = state[p]
                                     /\ has_lease'[p] = has_lease[p]
                                     /\ waitLeft'[p] = waitLeft[p]
        BY <1>2, <3>2, <3>5
      <4> HIDE DEF n
      <4> QED
        BY <1>1, <1>2, <3>2, <3>5, <3>6, <4>1, CallsStayInTime
    <3>8. ToldIsKnown'
      <4>1. leaseLeft'[n] \in Nat
        BY <1>1, <3>3, ConstantTypes
      <4> QED
        BY <1>2, <2>2, <3>3, <3>5, <4>1 DEF ToldIsKnown, HoldsLease, LeaseInv
    <3>9. HeardInTime'
      BY <1>2, <2>3, <3>3, <3>5 DEF HeardInTime, LeaseInv
    <3> QED
      BY <3>6, <3>7, <3>8, <3>9 DEF LeaseInv
  <2>5. CASE ~stepsDown
    <3>1. /\ UNCHANGED <<state, currentTerm, votedFor, waitLeft>>
          /\ RenewLease(n) \/ UNCHANGED <<leaseLeft, leaseInterval>>
      BY <1>4, <2>5 DEF HandleAppended
    <3>2. /\ leaseLeft' \in [Node -> Duration] /\ leaseInterval' \in [Node -> Duration]
          /\ leaseLeft'[n] \in {LEASE_TIMEOUT, leaseLeft[n]}
          /\ \A p \in Node : p # n => leaseLeft'[p] = leaseLeft[p]
      BY <1>1, <3>1, RenewLeaseFull DEF LeaseInv, TypeOK
    <3>3. TypeOK'
      BY <1>2, <2>3, <3>1, <3>2 DEF LeaseInv, TypeOK
    <3>4. CallsInTime'
      BY <1>2, <3>1 DEF LeaseInv, CallsInTime, HoldsLease, IsAppend, Caller
    <3>5. ToldIsKnown'
      BY <1>2, <2>2, <3>1, <3>2, ConstantTypes DEF ToldIsKnown, HoldsLease, LeaseInv
    <3>6. HeardInTime'
      BY <1>2, <2>2, <2>3, <3>1, <3>2, ConstantTypes DEF HeardInTime, LeaseInv
    <3> QED
      BY <3>3, <3>4, <3>5, <3>6 DEF LeaseInv
  <2> QED
    BY <2>4, <2>5
<1> QED
  BY <1>3, <1>4

-----------------------------------------------------------------------------
(***************************************************************************)
(* Time passes, and the theorems                                           *)
(***************************************************************************)
\* Calls and waits get shorter together, and so do leases and what is told of them.
LEMMA TickInv ==
  ASSUME LeaseInv, Tick
  PROVE  LeaseInv'
<1>1. \A n \in Node :
        /\ leaseLeft[n] \in Nat /\ leaseLeft[n] <= Forever /\ told[n] \in Nat
        /\ told[n] <= Forever /\ since[n] \in Nat /\ waitLeft[n] \in Nat
  BY ConstantTypes DEF LeaseInv, TypeOK
<1>2. \A m \in calls : m.left > 0 => [m EXCEPT !.left = @ - 1] \in Call
  BY DEF LeaseInv, TypeOK, Call
<1>3. TypeOK'
  <2>1. calls' \subseteq Call
    BY <1>2 DEF Tick
  <2>2. leaseLeft' \in [Node -> Duration] /\ told' \in [Node -> Duration]
    BY <1>1, ConstantTypes DEF Tick, CountDown
  <2>3. waitLeft' \in [Node -> Nat] /\ since' \in [Node -> Nat]
    BY <1>1, ConstantTypes DEF Tick, Less
  <2> QED
    BY <2>1, <2>2, <2>3 DEF LeaseInv, TypeOK, Tick, election
<1>4. CallsInTime'
  <2> SUFFICES ASSUME NEW k \in calls', IsAppend(k)
               PROVE  /\ k.left <= AppendDeadline
                      /\ \/ HoldsLease(Caller(k))'
                         \/ state'[Caller(k)] = "FOLLOWER" /\ k.left < waitLeft'[Caller(k)]
    BY DEF CallsInTime, IsAppend, Caller, HoldsLease
  <2>1. PICK m \in calls : m.left > 0 /\ k = [m EXCEPT !.left = @ - 1]
    BY DEF Tick
  <2>2. /\ m.left \in Nat /\ k.left = m.left - 1 /\ IsAppend(m)
        /\ Caller(k) = Caller(m) /\ Caller(m) \in Node
    BY <2>1 DEF LeaseInv, TypeOK, Call, IsAppend, Caller
  <2>3. /\ m.left <= AppendDeadline
        /\ HoldsLease(Caller(m)) \/ (state[Caller(m)] = "FOLLOWER" /\ m.left < waitLeft[Caller(m)])
    BY <2>2 DEF LeaseInv, CallsInTime
  <2>4. waitLeft'[Caller(m)] = Less(waitLeft[Caller(m)])
    BY <2>2 DEF Tick
  <2>5. HoldsLease(Caller(m))' <=> HoldsLease(Caller(m))
    BY DEF HoldsLease, Tick, election
  <2>6. state' = state
    BY DEF Tick, election
  <2> QED
    BY <1>1, <2>1, <2>2, <2>3, <2>4, <2>5, <2>6, ConstantTypes DEF Less, HoldsLease
<1>5. ToldIsKnown'
  <2>1. \A n \in Node : leaseLeft'[n] = CountDown(leaseLeft[n]) /\ told'[n] = CountDown(told[n])
    BY DEF Tick
  <2>2. \A n \in Node : HoldsLease(n)' <=> HoldsLease(n)
    BY DEF HoldsLease, Tick, election
  <2>3. \A n \in Node : told[n] <= leaseLeft[n] /\ (HoldsLease(n) => told[n] = 0)
    BY DEF LeaseInv, ToldIsKnown
  <2> QED
    BY <1>1, <2>1, <2>2, <2>3, ConstantTypes DEF ToldIsKnown, CountDown, HoldsLease
<1>6. HeardInTime'
  <2> SUFFICES ASSUME NEW n \in Node, state[n] = "LEADER",
                      has_lease[n] \/ leaseLeft'[n] < Forever
               PROVE  since'[n] + leaseLeft'[n] <= LEASE_TIMEOUT
    BY DEF HeardInTime, Tick, election
  <2>1. leaseLeft[n] # 0
    BY DEF Tick, Due
  <2>2. leaseLeft'[n] = CountDown(leaseLeft[n])
    BY DEF Tick
  <2>3. has_lease[n] \/ leaseLeft[n] < Forever
    BY <1>1, <2>2, ConstantTypes DEF CountDown
  <2>4. since[n] + leaseLeft[n] <= LEASE_TIMEOUT
    BY <2>3 DEF LeaseInv, HeardInTime
  <2>5. since'[n] = IF since[n] > LEASE_TIMEOUT THEN since[n] ELSE since[n] + 1
    BY DEF Tick
  <2> QED
    BY <1>1, <2>1, <2>2, <2>4, <2>5, ConstantTypes DEF CountDown
<1> QED
  BY <1>3, <1>4, <1>5, <1>6 DEF LeaseInv

\* Every step keeps the invariant.
LEMMA LeaseInvNext == LeaseInv /\ [Next]_vars => LeaseInv'
<1> SUFFICES ASSUME LeaseInv, [Next]_vars PROVE LeaseInv'
  OBVIOUS
<1>1. ASSUME NEW n \in Node, Timer(n) PROVE LeaseInv'
  BY <1>1, LeaseExpiredInv, LeaseAcquiredInv, HeartbeatInv, InitiateElectionInv DEF Timer
<1>2. CASE UNCHANGED vars
  BY <1>2 DEF LeaseInv, TypeOK, CallsInTime, ToldIsKnown, HeardInTime, HoldsLease, IsAppend,
              Caller, vars, election, lease, history
<1> QED
  BY <1>1, <1>2, TickInv, RequestVoteInv, HandleVoteInv, AppendEntriesInv, HandleAppendedInv
     DEF Next

\* The invariant holds in every behaviour.
THEOREM LeaseInvariance == Spec => []LeaseInv
BY LeaseInvInit, LeaseInvNext, PTL DEF Spec

\* Every variable keeps its type: leases count down to 0 and no further.
THEOREM LeaseTypes == Spec => []TypeOK
<1>1. LeaseInv => TypeOK
  BY DEF LeaseInv
<1> QED
  BY <1>1, LeaseInvariance, PTL

\* Whoever takes itself for the lease holder was heard not longer ago than a lease lasts.
THEOREM HoldersAreHeard == Spec => []HolderIsHeard
<1>1. LeaseInv => HolderIsHeard
  BY ConstantTypes DEF LeaseInv, TypeOK, HeardInTime, HolderIsHeard, HoldsLease
<1> QED
  BY <1>1, LeaseInvariance, PTL

\* A leader does not wait longer than a lease for its own one.
THEOREM LeadersAcquire == Spec => []LeaderAcquires
<1>1. LeaseInv => LeaderAcquires
  BY ConstantTypes DEF LeaseInv, TypeOK, HeardInTime, LeaderAcquires
<1> QED
  BY <1>1, LeaseInvariance, PTL

\* A lease is acquired only after every lease its new holder was told of.
THEOREM LeasesWait == Spec => ToldLeasesAreOver
<1>1. ASSUME LeaseInv, LeaseInv', [Next]_vars, NEW n \in Node, ~has_lease[n], has_lease'[n]
      PROVE  told'[n] = 0
  <2>1. state'[n] = "LEADER"
    <3>1. CASE \E p \in Node : LeaseAcquired(p)
      BY <1>1, <3>1 DEF LeaseAcquired, AcquireLease, election, LeaseInv, TypeOK
    <3>2. CASE \E m \in calls : HandleVote(m)
      BY <1>1, <3>2 DEF HandleVote, AcquireLease, LeaseInv, TypeOK, Call, lease
    <3> QED
      BY <1>1, <3>1, <3>2
         DEF Next, vars, lease, Tick, Timer, LeaseExpired, Heartbeat, InitiateElection,
             RequestVote, AppendEntries, HandleAppended, LeaseInv, TypeOK
  <2> QED
    BY <1>1, <2>1 DEF LeaseInv, ToldIsKnown, HoldsLease
<1>2. LeaseInv /\ LeaseInv' /\ [Next]_vars
        => [\A n \in Node : ~has_lease[n] /\ has_lease'[n] => told'[n] = 0]_vars
  BY <1>1
<1> QED
  BY <1>2, LeaseInvariance, PTL DEF Spec, ToldLeasesAreOver
=============================================================================

--------------------------- MODULE KVStore_proofs ---------------------------
(***************************************************************************)
(* Proofs about KVStore.tla, for any number of nodes and clients, any      *)
(* bounds and any schedule of calls: the types, the bound on the worker    *)
(* threads, and that servers and clients implement Register.tla whenever   *)
(* the stores of the nodes agree.  Agreement is the business of the log,   *)
(* which does not always give it; what clients are told on top of it is    *)
(* proved here.                                                            *)
(***************************************************************************)
EXTENDS KVStore, Raft_proofs, WellFoundedInduction

-----------------------------------------------------------------------------
(***************************************************************************)
(* Types and threads                                                       *)
(***************************************************************************)

HandlersAt(n) == {h \in handlers : h.node = n}
ReadersAt(n) == {c \in Client : pc[c] = "reading" /\ leader_id[c] = n}

\* What Set hands to write_to_raft is a value, and a handler waits for a write.
SetsValues ==
  /\ \A c \in Client : pc[c] \in {"set", "setting"} => arg[c] \in Value
  /\ \A h \in handlers : h.write.idx > 0 /\ h.write.entry.cmd # NOOP

\* Get reads from a server.
ReadsSomewhere == \A c \in Client : pc[c] = "reading" => leader_id[c] \in Node

KVTypeInv ==
  /\ TypeInv /\ KVTypeOK
  /\ IsFiniteSet(handlers)
  /\ got \in [Client -> (SUBSET Write) \cup {Nil}]
  /\ SetsValues /\ ReadsSomewhere

\* A set does not grow when its members are changed.
LEMMA ImageBound ==
  ASSUME NEW S, IsFiniteSet(S), NEW f
  PROVE  /\ IsFiniteSet({f[x] : x \in S})
         /\ Cardinality({f[x] : x \in S}) \in Nat
         /\ Cardinality({f[x] : x \in S}) <= Cardinality(S)
<1> DEFINE T == {f[x] : x \in S}
           g == [x \in S |-> f[x]]
<1>1. g \in Surjection(S, T)
  BY DEF Surjection
<1>. QED
  BY <1>1, FS_Surjection, FS_CardinalityType

\* Whoever has a handler or a read under way has a thread.
LEMMA ThreadTaken ==
  ASSUME KVTypeInv, NEW n \in Node, Free(n)
  PROVE  Cardinality(HandlersAt(n)) < MAX_WORKERS
<1>1. IsFiniteSet(HandlersAt(n)) /\ IsFiniteSet(ReadersAt(n))
  BY FS_Subset, KVAssumption DEF KVTypeInv, HandlersAt, ReadersAt
<1>2. Cardinality(HandlersAt(n)) \in Nat /\ Cardinality(ReadersAt(n)) \in Nat
  BY <1>1, FS_CardinalityType
<1>3. Cardinality(HandlersAt(n)) + Cardinality(ReadersAt(n)) < MAX_WORKERS
  BY DEF Free, HandlersAt, ReadersAt
<1>. QED
  BY <1>2, <1>3, KVAssumption

\* Fewer handlers need fewer threads.
LEMMA FewerHandlers ==
  ASSUME KVTypeInv, handlers' \subseteq handlers
  PROVE  /\ IsFiniteSet(handlers') /\ handlers' \subseteq Handler
         /\ \A n \in Node : Cardinality(HandlersAt(n)') <= MAX_WORKERS
<1>1. IsFiniteSet(handlers')
  BY FS_Subset DEF KVTypeInv
<1>2. ASSUME NEW n \in Node PROVE Cardinality(HandlersAt(n)') <= MAX_WORKERS
  <2>1. IsFiniteSet(HandlersAt(n)) /\ HandlersAt(n)' \subseteq HandlersAt(n)
    BY FS_Subset DEF KVTypeInv, HandlersAt
  <2>2. /\ Cardinality(HandlersAt(n)') <= Cardinality(HandlersAt(n))
        /\ Cardinality(HandlersAt(n)') \in Nat /\ Cardinality(HandlersAt(n)) \in Nat
    BY <2>1, FS_Subset, FS_CardinalityType
  <2>3. Cardinality(HandlersAt(n)) <= MAX_WORKERS
    BY DEF KVTypeInv, KVTypeOK, HandlersAt
  <2>. QED
    BY <2>2, <2>3, KVAssumption
<1>. QED
  BY <1>1, <1>2 DEF KVTypeInv, KVTypeOK

\* A handler whose client has gone keeps its thread, and no other has its place.
LEMMA OrphansTyped ==
  ASSUME KVTypeInv, NEW c \in Client, handlers' = Orphaned(c)
  PROVE  /\ IsFiniteSet(handlers') /\ handlers' \subseteq Handler
         /\ \A n \in Node : Cardinality(HandlersAt(n)') <= MAX_WORKERS
         /\ \A h \in handlers' : h.write.idx > 0 /\ h.write.entry.cmd # NOOP
<1> DEFINE f == [h \in handlers |-> IF h.client = c THEN [h EXCEPT !.client = Nil] ELSE h]
<1>1. handlers' = {f[h] : h \in handlers}
  BY DEF Orphaned
<1>2. \A h \in handlers : h \in Handler /\ f[h] \in Handler /\ f[h].node = h.node /\ f[h].write = h.write
  BY DEF KVTypeInv, KVTypeOK, Handler
<1> HIDE DEF f
<1>3. ASSUME NEW n \in Node PROVE Cardinality(HandlersAt(n)') <= MAX_WORKERS
  <2>1. HandlersAt(n)' = {f[h] : h \in HandlersAt(n)}
    BY <1>1, <1>2 DEF HandlersAt
  <2>2. IsFiniteSet(HandlersAt(n))
    BY FS_Subset DEF KVTypeInv, HandlersAt
  <2>3. /\ Cardinality(HandlersAt(n)') <= Cardinality(HandlersAt(n))
        /\ Cardinality(HandlersAt(n)') \in Nat /\ Cardinality(HandlersAt(n)) \in Nat
    BY <2>1, <2>2, ImageBound, FS_CardinalityType
  <2>4. Cardinality(HandlersAt(n)) <= MAX_WORKERS
    BY DEF KVTypeInv, KVTypeOK, HandlersAt
  <2>. QED
    BY <2>3, <2>4, KVAssumption
<1>4. IsFiniteSet(handlers')
  BY <1>1, ImageBound DEF KVTypeInv
<1>. QED
  BY <1>1, <1>2, <1>3, <1>4 DEF KVTypeInv, SetsValues

LEMMA KVTypeInit == KVInit => KVTypeInv
<1> SUFFICES ASSUME KVInit PROVE KVTypeInv
  OBVIOUS
<1>1. TypeInv
  BY TypeInit DEF KVInit
<1>2. handlers = {} /\ IsFiniteSet(handlers)
  BY FS_EmptySet DEF KVInit
<1>3. ASSUME NEW n \in Node PROVE Cardinality({h \in handlers : h.node = n}) <= MAX_WORKERS
  <2>1. {h \in handlers : h.node = n} = {}
    BY <1>2
  <2>2. Cardinality({}) <= MAX_WORKERS
    BY FS_EmptySet, KVAssumption
  <2>. QED
    BY <2>1, <2>2
<1>4. KVTypeOK
  BY <1>2, <1>3 DEF KVInit, KVTypeOK
<1>. QED
  BY <1>1, <1>2, <1>4 DEF KVInit, KVTypeInv, SetsValues, ReadsSomewhere

\* A write that was handed to the log is its last entry.
LEMMA WrittenEntry ==
  ASSUME KVTypeInv, NEW n \in Node, NEW v \in Value, WriteToRaft(n, v)
  PROVE  /\ [idx |-> Len(logs'[n]), entry |-> logs'[n][Len(logs'[n])]] \in Write
         /\ Len(logs'[n]) > 0
         /\ logs'[n][Len(logs'[n])].cmd # NOOP
         /\ UNCHANGED <<applied, leaderId>>
<1> DEFINE e == [term |-> currentTerm[n], cmd |-> v]
<1>1. e \in Entry /\ e.cmd # NOOP
  BY KVAssumption DEF KVTypeInv, TypeInv, TypeOK, Entry
<1>2. logs[n] \in Seq(Entry) /\ logs'[n] = Append(logs[n], e)
  BY DEF KVTypeInv, TypeInv, TypeOK, WriteToRaft, AppendEntry
<1> HIDE DEF e
<1>3. /\ Len(logs[n]) \in Nat /\ Len(logs'[n]) = Len(logs[n]) + 1
      /\ logs'[n][Len(logs[n]) + 1] = e
  BY <1>1, <1>2, AppendProperties, LenProperties
<1>. QED
  BY <1>1, <1>3 DEF WriteToRaft, Write

LEMMA CallSetTyped ==
  ASSUME KVTypeInv, TypeInv', NEW c \in Client, CallSet(c)
  PROVE  KVTypeInv'
<1> DEFINE n == leader_id[c]
<1>1. n \in Node /\ pc[c] = "set" /\ Free(n) /\ arg[c] \in Value
  BY DEF CallSet, KVTypeInv, KVTypeOK, SetsValues
<1>2. UNCHANGED <<arg, leader_id, asked, acked, refused, got>>
  BY DEF CallSet, outcomes
<1>3. CASE ~Accepts(n) /\ pc' = [pc EXCEPT ![c] = "idle"] /\ UNCHANGED <<handlers, vars>>
  <2>1. KVTypeOK'
    BY <1>2, <1>3 DEF KVTypeInv, KVTypeOK
  <2>2. SetsValues' /\ ReadsSomewhere'
    BY <1>2, <1>3 DEF KVTypeInv, KVTypeOK, SetsValues, ReadsSomewhere
  <2>. QED
    BY <1>2, <1>3, <2>1, <2>2 DEF KVTypeInv
<1>4. CASE /\ WriteToRaft(n, arg[c])
           /\ handlers' = handlers \cup
                {[node |-> n, client |-> c,
                  write |-> [idx |-> Len(logs'[n]), entry |-> logs'[n][Len(logs'[n])]]]}
           /\ pc' = [pc EXCEPT ![c] = "setting"]
  <2> DEFINE w == [idx |-> Len(logs'[n]), entry |-> logs'[n][Len(logs'[n])]]
             h == [node |-> n, client |-> c, write |-> w]
  <2>1. w \in Write /\ w.idx > 0 /\ w.entry.cmd # NOOP
    BY <1>1, <1>4, WrittenEntry
  <2> HIDE DEF w
  <2>2. h \in Handler /\ h.node = n /\ h.write = w
    BY <1>1, <2>1 DEF Handler
  <2>3. handlers' = handlers \cup {h}
    BY <1>4 DEF w
  <2> HIDE DEF h
  <2>4. IsFiniteSet(handlers') /\ handlers' \subseteq Handler
    BY <2>2, <2>3, FS_AddElement DEF KVTypeInv, KVTypeOK
  <2>5. ASSUME NEW p \in Node PROVE Cardinality(HandlersAt(p)') <= MAX_WORKERS
    <3>1. IsFiniteSet(HandlersAt(p)) /\ Cardinality(HandlersAt(p)) \in Nat
      BY FS_Subset, FS_CardinalityType DEF KVTypeInv, HandlersAt
    <3>2. Cardinality(HandlersAt(p)) <= MAX_WORKERS
      BY DEF KVTypeInv, KVTypeOK, HandlersAt
    <3>3. CASE p = n
      <4>1. HandlersAt(p)' = HandlersAt(p) \cup {h}
        BY <2>2, <2>3, <3>3 DEF HandlersAt
      <4>2. Cardinality(HandlersAt(p)') <= Cardinality(HandlersAt(p)) + 1
        <5> DEFINE S == HandlersAt(p)
        <5>1. IsFiniteSet(S) /\ Cardinality(S) \in Nat
          BY <3>1
        <5>2. Cardinality(HandlersAt(p)') = Cardinality(S \cup {h})
          BY <4>1
        <5> HIDE DEF S
        <5>3. Cardinality(S \cup {h}) = Cardinality(S) \/ Cardinality(S \cup {h}) = Cardinality(S) + 1
          BY <5>1, FS_AddElement
        <5>. QED
          BY <5>1, <5>2, <5>3 DEF S
      <4>3. Cardinality(HandlersAt(p)) < MAX_WORKERS
        BY <1>1, <3>3, ThreadTaken
      <4>4. Cardinality(HandlersAt(p)') \in Nat
        BY <3>1, <4>1, FS_AddElement, FS_CardinalityType
      <4>. QED
        BY <3>1, <4>2, <4>3, <4>4, KVAssumption
    <3>4. CASE p # n
      <4>1. HandlersAt(p)' = HandlersAt(p)
        BY <2>2, <2>3, <3>4 DEF HandlersAt
      <4>. QED
        BY <3>2, <4>1
    <3>. QED
      BY <3>3, <3>4
  <2>6. KVTypeOK'
    <3>1. \A p \in Node : Cardinality({g \in handlers' : g.node = p}) <= MAX_WORKERS
      BY <2>5 DEF HandlersAt
    <3>2. pc' \in [Client -> {"idle", "set", "setting", "get", "reading"}]
      BY <1>4 DEF KVTypeInv, KVTypeOK
    <3>. QED
      BY <1>2, <2>4, <3>1, <3>2 DEF KVTypeInv, KVTypeOK
  <2>7. SetsValues'
    <3>1. \A d \in Client : pc'[d] \in {"set", "setting"} => arg'[d] \in Value
      BY <1>1, <1>2, <1>4 DEF KVTypeInv, KVTypeOK, SetsValues
    <3>2. \A g \in handlers' : g.write.idx > 0 /\ g.write.entry.cmd # NOOP
      BY <2>1, <2>2, <2>3 DEF KVTypeInv, SetsValues
    <3>. QED
      BY <3>1, <3>2 DEF SetsValues
  <2>8. ReadsSomewhere'
    BY <1>2, <1>4 DEF KVTypeInv, KVTypeOK, ReadsSomewhere
  <2>. QED
    BY <1>2, <2>4, <2>6, <2>7, <2>8 DEF KVTypeInv
<1>. QED
  BY <1>3, <1>4 DEF CallSet

LEMMA SetReturnsTyped ==
  ASSUME KVTypeInv, NEW h \in handlers, SetReturns(h) \/ SetTimesOut(h)
  PROVE  KVTypeInv'
<1>1. h.client \in Client \cup {Nil} /\ h.write \in Write
  BY DEF KVTypeInv, KVTypeOK, Handler
<1>2. handlers' = handlers \ {h} /\ UNCHANGED <<arg, leader_id, asked, got, vars>>
  BY DEF SetReturns, SetTimesOut, outcomes
<1>3. IsFiniteSet(handlers') /\ handlers' \subseteq Handler
      /\ \A n \in Node : Cardinality({g \in handlers' : g.node = n}) <= MAX_WORKERS
  BY <1>2, FewerHandlers DEF HandlersAt
<1>4. pc' = pc \/ \E c \in Client : pc' = [pc EXCEPT ![c] = "idle"]
  BY <1>1 DEF SetReturns, SetTimesOut
<1>5. acked' \subseteq Write /\ refused' \subseteq Write
  BY <1>1 DEF SetReturns, SetTimesOut, outcomes, KVTypeInv, KVTypeOK
<1>6. pc' \in [Client -> {"idle", "set", "setting", "get", "reading"}]
      /\ \A c \in Client : pc'[c] = pc[c] \/ pc'[c] = "idle"
  BY <1>4 DEF KVTypeInv, KVTypeOK
<1>7. KVTypeOK'
  BY <1>2, <1>3, <1>5, <1>6 DEF KVTypeInv, KVTypeOK
<1>8. SetsValues' /\ ReadsSomewhere'
  BY <1>2, <1>6 DEF KVTypeInv, SetsValues, ReadsSomewhere
<1>9. TypeInv'
  BY <1>2, TypeStep DEF KVTypeInv
<1>. QED
  BY <1>2, <1>3, <1>7, <1>8, <1>9 DEF KVTypeInv

\* What a read returns is a write the store was given.
LEMMA ReadIsWrite ==
  ASSUME KVTypeInv, NEW n \in Node
  PROVE  /\ WritesAt(n) \subseteq Write
         /\ GetValue(n) \subseteq WritesAt(n)
         /\ \A w : w \in WritesAt(n) <=>
              /\ w.idx \in 1..Len(applied[n]) /\ applied[n][w.idx] = w.entry
              /\ w.entry.cmd # NOOP /\ w = [idx |-> w.idx, entry |-> w.entry]
<1>1. applied[n] \in Seq(Entry) /\ Len(applied[n]) \in Nat
  BY LenProperties DEF KVTypeInv, TypeInv, TypeOK
<1>2. \A i \in 1..Len(applied[n]) : applied[n][i] \in Entry /\ i \in Nat
  BY <1>1, ElementOfSeq
<1>. QED
  BY <1>2 DEF WritesAt, GetValue, Write

\* The steps of a client that leave the handlers alone
LEMMA ClientTyped ==
  ASSUME KVTypeInv, NEW c \in Client,
         \/ \E v \in Value : StartSet(c, v)
         \/ StartGet(c)
         \/ \E n \in Node : AskForLeader(c, n) \/ AskFails(c, n)
         \/ CallGet(c) \/ GetReturns(c)
  PROVE  KVTypeInv'
<1> DEFINE ClientTypes ==
      /\ pc' \in [Client -> {"idle", "set", "setting", "get", "reading"}]
      /\ arg' \in [Client -> Value \cup {Nil}]
      /\ leader_id' \in [Client -> Node \cup {Nil}]
      /\ asked' \in [Client -> SUBSET Node]
      /\ got' \in [Client -> (SUBSET Write) \cup {Nil}]
      /\ \A d \in Client : pc'[d] \in {"set", "setting"} => arg'[d] \in Value
      /\ ReadsSomewhere'
<1>1. UNCHANGED <<handlers, acked, refused, vars>>
  BY DEF StartSet, StartGet, AskForLeader, AskFails, CallGet, GetReturns, outcomes
<1>2. TypeInv'
  BY <1>1, TypeStep DEF KVTypeInv
<1>3. \A n \in Node : leaderId[n] \in Node \cup {Nil}
  BY DEF KVTypeInv, TypeInv, TypeOK
<1> USE DEF outcomes, KVTypeInv, KVTypeOK, SetsValues, ReadsSomewhere
<1>4. ASSUME NEW v \in Value, StartSet(c, v) PROVE ClientTypes
  BY <1>4 DEF StartSet
<1>5. ASSUME StartGet(c) PROVE ClientTypes
  BY <1>5 DEF StartGet
<1>6. ASSUME NEW n \in Node, AskForLeader(c, n) \/ AskFails(c, n) PROVE ClientTypes
  BY <1>3, <1>6 DEF AskForLeader, AskFails, Asks, AskNext
<1>7. ASSUME CallGet(c) PROVE ClientTypes
  BY <1>3, <1>7 DEF CallGet
<1>8. ASSUME GetReturns(c) PROVE ClientTypes
  <2>1. leader_id[c] \in Node /\ GetValue(leader_id[c]) \subseteq Write
    BY <1>8, ReadIsWrite DEF GetReturns
  <2>. QED
    BY <1>8, <2>1 DEF GetReturns
<1>9. ClientTypes
  BY <1>4, <1>5, <1>6, <1>7, <1>8
<1>. QED
  BY <1>1, <1>2, <1>9

LEMMA GivesUpTyped ==
  ASSUME KVTypeInv, NEW c \in Client, ConnectionLost(c) \/ ClientTimesOut(c)
  PROVE  KVTypeInv'
<1>1. UNCHANGED <<arg, acked, refused, got, vars>> /\ handlers' = Orphaned(c)
  BY DEF ConnectionLost, ClientTimesOut, outcomes
<1>2. TypeInv'
  BY <1>1, TypeStep DEF KVTypeInv
<1>3. /\ pc' \in [Client -> {"idle", "set", "setting", "get", "reading"}]
      /\ leader_id' \in [Client -> Node \cup {Nil}]
      /\ asked' \in [Client -> SUBSET Node]
      /\ \A d \in Client : pc'[d] \in {"set", "setting"} => arg'[d] \in Value
      /\ ReadsSomewhere'
  BY <1>1 DEF ConnectionLost, ClientTimesOut, KVTypeInv, KVTypeOK, SetsValues, ReadsSomewhere
<1>4. /\ IsFiniteSet(handlers') /\ handlers' \subseteq Handler
      /\ \A n \in Node : Cardinality({h \in handlers' : h.node = n}) <= MAX_WORKERS
      /\ \A h \in handlers' : h.write.idx > 0 /\ h.write.entry.cmd # NOOP
  BY <1>1, OrphansTyped DEF HandlersAt
<1>. QED
  BY <1>1, <1>2, <1>3, <1>4 DEF KVTypeInv, KVTypeOK, SetsValues

\* What is not a step of a node alone is none of a node, but for the write of a SET.
LEMMA ServiceKeepsNodes ==
  ASSUME KVTypeInv, [KVNext]_<<vars, kvvars>>
  PROVE  [Next]_vars
<1>1. ASSUME NEW c \in Client, CallSet(c) PROVE [Next]_vars
  <2>1. leader_id[c] \in Node /\ arg[c] \in Value
    BY <1>1 DEF CallSet, KVTypeInv, KVTypeOK, SetsValues
  <2>. QED
    BY <1>1, <2>1 DEF CallSet, Next
<1>2. ASSUME ServiceNext, ~\E c \in Client : CallSet(c) PROVE UNCHANGED vars
  BY <1>2 DEF ServiceNext, StartSet, StartGet, AskForLeader, SetReturns, CallGet, GetReturns
<1>3. ASSUME ServiceFails PROVE UNCHANGED vars
  BY <1>3 DEF ServiceFails, AskFails, ConnectionLost, ClientTimesOut, SetTimesOut
<1>. QED
  BY <1>1, <1>2, <1>3 DEF KVNext

LEMMA KVTypeStep == KVTypeInv /\ [KVNext]_<<vars, kvvars>> => KVTypeInv'
<1> SUFFICES ASSUME KVTypeInv, [KVNext]_<<vars, kvvars>> PROVE KVTypeInv'
  OBVIOUS
<1>1. TypeInv'
  BY ServiceKeepsNodes, TypeStep DEF KVTypeInv, NextRestart
<1>2. CASE UNCHANGED kvvars
  BY <1>1, <1>2 DEF kvvars, clients, outcomes, KVTypeInv, KVTypeOK, SetsValues, ReadsSomewhere
<1>3. CASE ServiceNext
  BY <1>1, <1>3, ClientTyped, CallSetTyped, SetReturnsTyped DEF ServiceNext
<1>4. CASE ServiceFails
  BY <1>4, ClientTyped, GivesUpTyped, SetReturnsTyped DEF ServiceFails
<1>. QED
  BY <1>2, <1>3, <1>4 DEF KVNext

LEMMA KVTypeInvariant == KVSpec => []KVTypeInv
<1>. QED
  BY KVTypeInit, KVTypeStep, PTL DEF KVSpec

\* What clients and servers know keeps its type, and no server has more handlers
\* under way than threads, whoever gives up, is lost or retries.
THEOREM KVTypes == KVSpec => []KVTypeOK
<1>1. KVTypeInv => KVTypeOK
  BY DEF KVTypeInv
<1>. QED
  BY KVTypeInvariant, <1>1, PTL

-----------------------------------------------------------------------------
(***************************************************************************)
(* The stores                                                              *)
(***************************************************************************)

\* Some member of a finite set has the greatest value.
LEMMA GreatestExists ==
  ASSUME NEW S, IsFiniteSet(S), S # {}, NEW f \in [S -> Nat]
  PROVE  \E n \in S : \A p \in S : f[p] <= f[n]
<1> DEFINE HasNone(U) == U # {} /\ \A n \in U : \E p \in U : f[p] > f[n]
           Sizes == {Cardinality(U) : U \in {V \in SUBSET S : HasNone(V)}}
<1>1. \A U \in SUBSET S : IsFiniteSet(U) /\ Cardinality(U) \in Nat
  BY FS_Subset, FS_CardinalityType
<1>2. SUFFICES ASSUME HasNone(S) PROVE FALSE
  OBVIOUS
<1>3. Sizes \in SUBSET Nat /\ Sizes # {}
  BY <1>1, <1>2
<1>4. PICK k \in Sizes : \A j \in Sizes : ~(<<j, k>> \in OpToRel(<, Nat))
  BY <1>3, NatLessThanWellFounded, WFMin, Zenon
<1>5. PICK U \in SUBSET S : HasNone(U) /\ Cardinality(U) = k
  BY <1>4
<1>6. PICK x \in U : TRUE
  BY <1>5
<1> DEFINE V == U \ {x}
<1>7. V \in SUBSET S /\ Cardinality(V) < Cardinality(U)
  BY <1>1, <1>6, FS_RemoveElement
<1>8. ~HasNone(V)
  <2>1. HasNone(V) => Cardinality(V) \in Sizes /\ Cardinality(V) \in Nat
    BY <1>1, <1>7
  <2>. QED
    BY <1>1, <1>4, <1>5, <1>7, <2>1 DEF OpToRel
<1>9. PICK p \in U : f[p] > f[x]
  BY <1>5, <1>6
<1>10. V # {}
  BY <1>6, <1>9
<1>11. PICK m \in V : \A q \in V : f[q] <= f[m]
  BY <1>8, <1>10
<1>12. f[x] <= f[m]
  BY <1>6, <1>9, <1>11
<1>13. \A q \in U : f[q] <= f[m]
  BY <1>11, <1>12
<1>. QED
  BY <1>5, <1>11, <1>13

\* Some store has applied most.
LEMMA LongestExists ==
  ASSUME NEW a \in [Node -> Seq(Entry)]
  PROVE  \E n \in Node : \A p \in Node : Len(a[p]) <= Len(a[n])
<1> DEFINE f == [n \in Node |-> Len(a[n])]
<1>1. f \in [Node -> Nat]
  BY LenProperties
<1>2. Node # {}
  BY NodeAssumption, FS_EmptySet
<1>3. \E n \in Node : \A p \in Node : f[p] <= f[n]
  BY <1>1, <1>2, NodeAssumption, GreatestExists
<1>. QED
  BY <1>3

\* When of two stores one is always a prefix of the other, the longest one holds
\* what any of them holds.
LEMMA LongestStore ==
  ASSUME NEW a \in [Node -> Seq(Entry)],
         \A p, q \in Node : IsPrefixOf(a[p], a[q]) \/ IsPrefixOf(a[q], a[p]),
         NEW l \in Node, \A p \in Node : Len(a[p]) <= Len(a[l])
  PROVE  /\ a[l] \in Seq(Entry) /\ Len(a[l]) \in Nat
         /\ \A p \in Node : \A i \in 1..Len(a[p]) : i \in 1..Len(a[l]) /\ a[l][i] = a[p][i]
<1>1. ASSUME NEW s \in Seq(Entry), NEW u \in Seq(Entry), IsPrefixOf(s, u), NEW i \in 1..Len(s)
      PROVE  s[i] = u[i]
  <2>1. Len(s) \in Nat /\ Len(u) \in Nat /\ Len(s) <= Len(u) /\ SubSeq(u, 1, Len(s)) = s
    BY <1>1, LenProperties DEF IsPrefixOf
  <2>2. SubSeq(u, 1, Len(s))[i] = u[i]
    BY <1>1, <2>1, SubSeqProperties
  <2>. QED
    BY <2>1, <2>2
<1>2. ASSUME NEW p \in Node, NEW i \in 1..Len(a[p])
      PROVE  i \in 1..Len(a[l]) /\ a[l][i] = a[p][i]
  <2>1. a[p] \in Seq(Entry) /\ a[l] \in Seq(Entry) /\ Len(a[p]) \in Nat /\ Len(a[l]) \in Nat
    BY LenProperties
  <2>2. i \in 1..Len(a[l])
    BY <1>2, <2>1
  <2>. QED
    BY <1>1, <1>2, <2>1, <2>2
<1>. QED
  BY <1>2, LenProperties

\* A step of a node adds to what its store was given, or leaves it alone.
LEMMA StoresGrow ==
  ASSUME TypeInv, [Next]_vars, NEW n \in Node
  PROVE  /\ Len(applied[n]) <= Len(applied'[n])
         /\ \A i \in 1..Len(applied[n]) : applied'[n][i] = applied[n][i]
<1>0. applied \in [Node -> Seq(Entry)] /\ Len(applied[n]) \in Nat
  BY LenProperties DEF TypeInv, TypeOK
<1>1. CASE UNCHANGED applied
  BY <1>0, <1>1
<1>2. ASSUME NEW p \in Node, ApplyLogs(p)
      PROVE  /\ Len(applied[n]) <= Len(applied'[n])
             /\ \A i \in 1..Len(applied[n]) : applied'[n][i] = applied[n][i]
  <2> DEFINE end == IF commitIndex[p] <= Len(logs[p]) THEN commitIndex[p] ELSE Len(logs[p])
             new == SubSeq(logs[p], Len(applied[p]) + 1, end)
  <2>1. logs[p] \in Seq(Entry) /\ applied[p] \in Seq(Entry) /\ commitIndex[p] \in Nat
    BY DEF TypeInv, TypeOK
  <2>2. end \in Nat /\ end <= Len(logs[p]) /\ Len(applied[p]) \in Nat /\ Len(applied[p]) < end
    BY <1>2, <2>1, LenProperties DEF ApplyLogs
  <2>3. new \in Seq(Entry)
    <3>1. \A i \in Len(applied[p]) + 1 .. end : logs[p][i] \in Entry
      BY <2>1, <2>2, ElementOfSeq
    <3>. QED
      BY <2>2, <3>1, SubSeqProperties
  <2>4. applied'[p] = applied[p] \o new /\ (n # p => applied'[n] = applied[n])
    BY <1>0, <1>2 DEF ApplyLogs
  <2> HIDE DEF new
  <2>5. /\ Len(applied[p] \o new) = Len(applied[p]) + Len(new) /\ Len(new) \in Nat
        /\ \A i \in 1..Len(applied[p]) : (applied[p] \o new)[i] = applied[p][i]
    BY <2>1, <2>2, <2>3, ConcatProperties, LenProperties
  <2>. QED
    BY <1>0, <2>2, <2>4, <2>5
<1>3. [Next]_vars => UNCHANGED applied \/ \E p \in Node : ApplyLogs(p)
  BY DEF Next, vars, WriteToRaft, InitiateElection, HandleRequestVote, HandleVoteReply, LeaseExpired,
     AcquireLease, Heartbeat, HandleAppendEntries, HandleAppendReply, LoseAppendCall
<1>. QED
  BY <1>1, <1>2, <1>3

-----------------------------------------------------------------------------
(***************************************************************************)
(* What clients are told                                                   *)
(***************************************************************************)

\* A SET that returned true is in a store at its place.
AckedApplied == \A w \in acked : \E n \in Node : w \in WritesAt(n)

\* Where one that returned CMD_CHANGED would be, a store has something else.
RefusedReplaced ==
  \A w \in refused : \E n \in Node : w.idx \in 1..Len(applied[n]) /\ applied[n][w.idx] # w.entry

KVInv == KVTypeInv /\ AckedApplied /\ RefusedReplaced

\* What was applied stays where it is.
LEMMA AppliedStays ==
  ASSUME KVTypeInv, [KVNext]_<<vars, kvvars>>, NEW n \in Node
  PROVE  /\ Len(applied[n]) <= Len(applied'[n])
         /\ \A i \in 1..Len(applied[n]) : i \in 1..Len(applied'[n]) /\ applied'[n][i] = applied[n][i]
         /\ WritesAt(n) \subseteq WritesAt(n)'
<1>1. [Next]_vars /\ KVTypeInv'
  BY ServiceKeepsNodes, KVTypeStep
<1>2. Len(applied[n]) \in Nat /\ Len(applied'[n]) \in Nat
  BY <1>1, LenProperties DEF KVTypeInv, TypeInv, TypeOK
<1>3. /\ Len(applied[n]) <= Len(applied'[n])
      /\ \A i \in 1..Len(applied[n]) : applied'[n][i] = applied[n][i]
  BY <1>1, StoresGrow DEF KVTypeInv
<1>. QED
  BY <1>2, <1>3 DEF WritesAt

LEMMA AnswersStep == KVInv /\ [KVNext]_<<vars, kvvars>> => KVInv'
<1> SUFFICES ASSUME KVInv, [KVNext]_<<vars, kvvars>> PROVE KVInv'
  OBVIOUS
<1>1. KVTypeInv /\ KVTypeInv'
  BY KVTypeStep DEF KVInv
<1>2. ASSUME NEW w, NEW n \in Node, w \in WritesAt(n) PROVE w \in WritesAt(n)'
  BY <1>1, <1>2, AppliedStays
<1>3. ASSUME NEW w, NEW n \in Node, w.idx \in 1..Len(applied[n]), applied[n][w.idx] # w.entry
      PROVE  w.idx \in 1..Len(applied'[n]) /\ applied'[n][w.idx] # w.entry
  BY <1>1, <1>3, AppliedStays
<1>4. ASSUME UNCHANGED <<acked, refused>> PROVE KVInv'
  BY <1>1, <1>2, <1>3, <1>4 DEF KVInv, AckedApplied, RefusedReplaced
<1>5. ASSUME NEW h \in handlers, SetReturns(h) PROVE KVInv'
  <2> DEFINE n == h.node
             w == h.write
  <2>1. n \in Node /\ w \in Write /\ w.idx > 0 /\ w.entry.cmd # NOOP
    BY <1>1 DEF KVTypeInv, KVTypeOK, SetsValues, Handler
  <2>2. UNCHANGED applied /\ w.idx \in 1..Len(applied[n])
    BY <1>5, <2>1 DEF SetReturns, vars, Write
  <2>3. SameCommand(h) => w \in WritesAt(n)
    BY <2>1, <2>2 DEF SameCommand, WritesAt, Write
  <2>4. ~SameCommand(h) => applied[n][w.idx] # w.entry
    BY DEF SameCommand
  <2>5. \/ UNCHANGED <<acked, refused>>
        \/ SameCommand(h) /\ acked' = acked \cup {w} /\ UNCHANGED refused
        \/ ~SameCommand(h) /\ refused' = refused \cup {w} /\ UNCHANGED acked
    BY <1>5 DEF SetReturns
  <2>6. AckedApplied'
    <3> SUFFICES ASSUME NEW u \in acked' PROVE \E p \in Node : u \in WritesAt(p)'
      BY DEF AckedApplied
    <3>1. \E p \in Node : u \in WritesAt(p)
      BY <2>1, <2>3, <2>5 DEF KVInv, AckedApplied
    <3>. QED
      BY <1>2, <3>1
  <2>7. RefusedReplaced'
    <3> SUFFICES ASSUME NEW u \in refused'
                 PROVE  \E p \in Node : u.idx \in 1..Len(applied'[p]) /\ applied'[p][u.idx] # u.entry
      BY DEF RefusedReplaced
    <3>1. \E p \in Node : u.idx \in 1..Len(applied[p]) /\ applied[p][u.idx] # u.entry
      BY <2>1, <2>2, <2>4, <2>5 DEF KVInv, RefusedReplaced
    <3>. QED
      BY <1>3, <3>1
  <2>. QED
    BY <1>1, <2>6, <2>7 DEF KVInv
<1>6. UNCHANGED <<acked, refused>> \/ \E h \in handlers : SetReturns(h)
  BY DEF KVNext, ServiceNext, ServiceFails, kvvars, outcomes, StartSet, StartGet, AskForLeader, CallSet,
     CallGet, GetReturns, AskFails, ConnectionLost, ClientTimesOut, SetTimesOut
<1>. QED
  BY <1>4, <1>5, <1>6

LEMMA KVInvariant == KVSpec => []KVInv
<1>1. KVInit => KVInv
  BY KVTypeInit DEF KVInit, KVInv, AckedApplied, RefusedReplaced
<1>. QED
  BY <1>1, AnswersStep, PTL DEF KVSpec

-----------------------------------------------------------------------------
(***************************************************************************)
(* Servers and clients implement the register, when the stores agree       *)
(***************************************************************************)

LEMMA RegisterStep ==
  ASSUME KVInv, StateMachineSafety, StateMachineSafety', [KVNext]_<<vars, kvvars>>
  PROVE  [R!RNext]_(R!rvars)
<1> DEFINE Place(w, a, n) == /\ w.idx \in 1..Len(a[n]) /\ a[n][w.idx] = w.entry
                             /\ w.entry.cmd # NOOP /\ w = [idx |-> w.idx, entry |-> w.entry]
<1>1. KVInv' /\ KVTypeInv /\ KVTypeInv'
  BY AnswersStep DEF KVInv
<1>2. applied \in [Node -> Seq(Entry)] /\ applied' \in [Node -> Seq(Entry)]
  BY <1>1 DEF KVTypeInv, TypeInv, TypeOK
<1>3. PICK l : l = CHOOSE n \in Node : \A p \in Node : Len(applied[p]) <= Len(applied[n])
  OBVIOUS
<1>4. PICK k : k = CHOOSE n \in Node : \A p \in Node : Len(applied'[p]) <= Len(applied'[n])
  OBVIOUS
<1>5. /\ l \in Node /\ Len(applied[l]) \in Nat
      /\ \A p \in Node : \A i \in 1..Len(applied[p]) :
           i \in 1..Len(applied[l]) /\ applied[l][i] = applied[p][i]
  <2>1. \E n \in Node : \A p \in Node : Len(applied[p]) <= Len(applied[n])
    BY <1>2, LongestExists
  <2>2. l \in Node /\ \A p \in Node : Len(applied[p]) <= Len(applied[l])
    BY <1>3, <2>1
  <2>3. \A p, q \in Node : IsPrefixOf(applied[p], applied[q]) \/ IsPrefixOf(applied[q], applied[p])
    BY DEF StateMachineSafety
  <2>. QED
    BY <1>2, <2>2, <2>3, LongestStore
<1>6. /\ k \in Node /\ Len(applied'[k]) \in Nat
      /\ \A p \in Node : \A i \in 1..Len(applied'[p]) :
           i \in 1..Len(applied'[k]) /\ applied'[k][i] = applied'[p][i]
  <2>1. \E n \in Node : \A p \in Node : Len(applied'[p]) <= Len(applied'[n])
    BY <1>2, LongestExists
  <2>2. k \in Node /\ \A p \in Node : Len(applied'[p]) <= Len(applied'[k])
    BY <1>4, <2>1
  <2>3. \A p, q \in Node : IsPrefixOf(applied'[p], applied'[q]) \/ IsPrefixOf(applied'[q], applied'[p])
    BY DEF StateMachineSafety
  <2>. QED
    BY <1>2, <2>2, <2>3, LongestStore
<1>7. \A w : w \in Writes <=> Place(w, applied, l)
  <2>1. Writes = WritesAt(l)
    BY <1>3 DEF Writes
  <2>. QED
    BY <2>1 DEF WritesAt
<1>8. \A w : w \in Writes' <=> Place(w, applied', k)
  <2>1. Writes' = {[idx |-> i, entry |-> applied'[k][i]] : i \in
                     {j \in 1..Len(applied'[k]) : applied'[k][j].cmd # NOOP}}
    BY <1>4 DEF Writes, WritesAt
  <2>. QED
    BY <2>1
<1>9. \A n \in Node : WritesAt(n) \subseteq Writes
  <2>1. ASSUME NEW n \in Node, NEW w \in WritesAt(n) PROVE Place(w, applied, n)
    BY <2>1 DEF WritesAt
  <2>. QED
    BY <1>5, <1>7, <2>1
<1>10. \A i \in 1..Len(applied[l]) : i \in 1..Len(applied'[k]) /\ applied'[k][i] = applied[l][i]
  BY <1>1, <1>5, <1>6, AppliedStays
<1>11. Writes' \cap refused' = {}
  <2> SUFFICES ASSUME NEW w \in refused', w \in Writes' PROVE FALSE
    OBVIOUS
  <2>1. PICK n \in Node : w.idx \in 1..Len(applied'[n]) /\ applied'[n][w.idx] # w.entry
    BY <1>1 DEF KVInv, RefusedReplaced
  <2>. QED
    BY <1>6, <1>8, <2>1
<1> HIDE DEF Place
<1>12. ASSUME UNCHANGED <<acked, refused, got>> PROVE R!TakeEffect
  <2>1. Writes \subseteq Writes'
    BY <1>7, <1>8, <1>10 DEF Place
  <2>2. ASSUME NEW w \in Writes' \ Writes, NEW u \in Writes PROVE u.idx < w.idx
    <3>1. Place(w, applied', k) /\ ~Place(w, applied, l) /\ Place(u, applied, l)
      BY <1>7, <1>8, <2>2
    <3>2. w.idx \notin 1..Len(applied[l])
      BY <1>10, <3>1 DEF Place
    <3>. QED
      BY <1>5, <1>6, <3>1, <3>2 DEF Place
  <2>3. \A u, w \in Writes' : u.idx = w.idx => u = w
    BY <1>8 DEF Place
  <2>. QED
    BY <1>11, <1>12, <2>1, <2>2, <2>3 DEF R!TakeEffect
<1>13. UNCHANGED vars => Writes' = Writes
  BY DEF vars, Writes, WritesAt
<1>14. ASSUME NEW h \in handlers, SetReturns(h) PROVE [R!RNext]_(R!rvars)
  <2>1. Writes' = Writes /\ got' = got
    BY <1>13, <1>14 DEF SetReturns
  <2>2. CASE UNCHANGED <<acked, refused>>
    BY <2>1, <2>2 DEF R!rvars
  <2>3. CASE acked' = acked \cup {h.write} /\ UNCHANGED refused /\ SameCommand(h)
    <3>1. h.node \in Node /\ h.write \in Write /\ h.write.idx > 0 /\ h.write.entry.cmd # NOOP
      BY <1>1 DEF KVTypeInv, KVTypeOK, SetsValues, Handler
    <3>2. h.write \in WritesAt(h.node)
      BY <1>2, <1>14, <2>3, <3>1, LenProperties DEF SetReturns, SameCommand, WritesAt, Write
    <3>. QED
      BY <1>9, <2>1, <2>3, <3>1, <3>2 DEF R!RNext, R!Acknowledge
  <2>4. CASE refused' = refused \cup {h.write} /\ UNCHANGED acked
    BY <1>11, <2>1, <2>4 DEF R!RNext, R!Refuse
  <2>. QED
    BY <1>14, <2>2, <2>3, <2>4 DEF SetReturns
<1>15. ASSUME NEW c \in Client, StartGet(c) PROVE [R!RNext]_(R!rvars)
  BY <1>13, <1>15 DEF StartGet, R!RNext, R!Ask
<1>16. ASSUME NEW c \in Client, GetReturns(c) PROVE [R!RNext]_(R!rvars)
  <2> DEFINE n == leader_id[c]
  <2>1. n \in Node /\ got' = [got EXCEPT ![c] = GetValue(n)] /\ got \in [Client -> (SUBSET Write) \cup {Nil}]
    BY <1>1, <1>16 DEF GetReturns, KVTypeInv, ReadsSomewhere
  <2>2. GetValue(n) \subseteq Writes /\ \A u, w \in GetValue(n) : u.idx = w.idx
    <3>1. GetValue(n) \subseteq WritesAt(n) /\ WritesAt(n) \subseteq Write
      BY <1>1, <2>1, ReadIsWrite
    <3>2. \A u, w \in GetValue(n) : u.idx <= w.idx /\ w.idx <= u.idx /\ u.idx \in Nat /\ w.idx \in Nat
      BY <3>1 DEF GetValue, Write
    <3>. QED
      BY <1>9, <2>1, <3>1, <3>2
  <2>3. \A u, w \in Writes : u.idx = w.idx => u = w
    BY <1>7 DEF Place
  <2>4. GetValue(n) = {} \/ \E w \in Writes : GetValue(n) = {w}
    BY <2>2, <2>3
  <2>5. got'[c] = GetValue(n) /\ got' = [got EXCEPT ![c] = got'[c]]
    BY <2>1
  <2>6. UNCHANGED <<acked, refused>> /\ Writes' = Writes
    BY <1>13, <1>16 DEF GetReturns
  <2>7. R!Answer(c)
    BY <2>4, <2>5, <2>6 DEF R!Answer
  <2>. QED
    BY <2>7 DEF R!RNext
<1>17. \/ UNCHANGED <<acked, refused, got>>
       \/ \E h \in handlers : SetReturns(h)
       \/ \E c \in Client : StartGet(c) \/ GetReturns(c)
  BY DEF KVNext, ServiceNext, ServiceFails, kvvars, outcomes, StartSet, AskForLeader, CallSet,
     CallGet, AskFails, ConnectionLost, ClientTimesOut, SetTimesOut
<1>. QED
  BY <1>12, <1>14, <1>15, <1>16, <1>17 DEF R!RNext

\* Whenever the log gives all nodes the same entries in the same order, the servers
\* and the clients are a register: an acknowledged SET is in effect and stays, over
\* retries, lost connections and changes of leader, one that returned CMD_CHANGED
\* never takes effect, and reads return what is in effect (Set, __wait_for_apply,
\* __is_command_applied, Get).
THEOREM RegisterIfStoresAgree == KVSpec /\ []StateMachineSafety => ImplementsRegister
<1>1. KVInit => R!RInit
  <2> SUFFICES ASSUME KVInit PROVE R!RInit
    OBVIOUS
  <2>1. \A n : n \in Node => WritesAt(n) = {}
    BY DEF KVInit, Init, WritesAt
  <2>2. (CHOOSE n \in Node : \A p \in Node : Len(applied[p]) <= Len(applied[n])) \in Node
    <3>1. \A p, n \in Node : Len(applied[p]) <= Len(applied[n])
      BY DEF KVInit, Init
    <3>2. Node # {}
      BY NodeAssumption, FS_EmptySet
    <3>. QED
      BY <3>1, <3>2
  <2>3. Writes = {}
    BY <2>1, <2>2 DEF Writes
  <2>. QED
    BY <2>3 DEF KVInit, R!RInit
<1>2. KVInv /\ StateMachineSafety /\ StateMachineSafety' /\ [KVNext]_<<vars, kvvars>> => [R!RNext]_(R!rvars)
  BY RegisterStep
<1>. QED
  BY <1>1, <1>2, KVInvariant, PTL DEF KVSpec, ImplementsRegister, R!RSpec

=============================================================================

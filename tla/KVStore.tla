------------------------------- MODULE KVStore -------------------------------
(***************************************************************************)
(* assignment-2/kvserver.py and client.py on top of Raft.tla: a key-value  *)
(* server beside each node, and clients that look for the leader, write    *)
(* and read, with their timeouts and retries.  One key is modelled.        *)
(*                                                                         *)
(* data_store and applied_indices follow from what the node applied.  A    *)
(* call of a client begins with the step of the server's handler and ends  *)
(* with the answer; Set waits in between, Get takes two mutexes one after  *)
(* the other.                                                              *)
(***************************************************************************)
EXTENDS Raft

CONSTANTS
  Client,
  MAX_WORKERS,  \* threads of one server
  MaxOps        \* bound: SETs and GETs of one client

ASSUME KVAssumption == /\ MAX_WORKERS \in Nat \ {0} /\ MaxOps \in Nat
                       /\ IsFiniteSet(Client) /\ Nil \notin Client
                       /\ NOOP \notin Value

VARIABLES
  pc,           \* what a client is doing
  arg,          \* the value it SETs
  leader_id,    \* KVClient.leader_id
  asked,        \* the nodes get_leader has asked in vain
  handlers,     \* Set handlers that wait for their command
  ops,          \* how many operations a client began (bound)
  acked, refused,  \* history: writes a client was told succeeded, CMD_CHANGED
  got, floor    \* history: the last read, the newest write acknowledged before it

clients == <<pc, arg, leader_id, asked, ops>>
outcomes == <<acked, refused, got, floor>>
kvvars == <<clients, handlers, outcomes>>

\* A write is a command at its place in the log.
Write == [idx: Nat, entry: Entry]
Handler == [node: Node, client: Client \cup {Nil}, write: Write]

-----------------------------------------------------------------------------
\* The writes that have reached the store of n
WritesAt(n) == {[idx |-> i, entry |-> applied[n][i]] : i \in
                  {j \in 1..Len(applied[n]) : applied[n][j].cmd # NOOP}}

\* __get_value: the value of the last write applied, {} when the key is not present
GetValue(n) == {w \in WritesAt(n) : \A u \in WritesAt(n) : u.idx <= w.idx}

\* Mistaken variant: a handler that waits does not keep its thread.
Free_Waiting(n) ==
  Cardinality({c \in Client : pc[c] = "reading" /\ leader_id[c] = n}) < MAX_WORKERS

\* Every handler takes a thread of its server; this is one.
Free(n) == Cardinality({h \in handlers : h.node = n})
             + Cardinality({c \in Client : pc[c] = "reading" /\ leader_id[c] = n}) < MAX_WORKERS

-----------------------------------------------------------------------------
(***************************************************************************)
(* The client                                                              *)
(***************************************************************************)
StartSet(c, v) ==
  /\ pc[c] = "idle" /\ ops[c] < MaxOps
  /\ pc' = [pc EXCEPT ![c] = "set"]
  /\ arg' = [arg EXCEPT ![c] = v]
  /\ asked' = [asked EXCEPT ![c] = {}]
  /\ ops' = [ops EXCEPT ![c] = @ + 1]
  /\ UNCHANGED <<leader_id, handlers, outcomes, vars>>

StartGet(c) ==
  /\ pc[c] = "idle" /\ ops[c] < MaxOps
  /\ pc' = [pc EXCEPT ![c] = "get"]
  /\ asked' = [asked EXCEPT ![c] = {}]
  /\ ops' = [ops EXCEPT ![c] = @ + 1]
  /\ got' = [got EXCEPT ![c] = Nil]
  /\ floor' = [floor EXCEPT ![c] = {w \in acked : \A u \in acked : u.idx <= w.idx}]
  /\ UNCHANGED <<arg, leader_id, handlers, acked, refused, vars>>

Asks(c, n) == pc[c] \in {"set", "get"} /\ leader_id[c] = Nil /\ n \notin asked[c]

\* get_leader goes on to the next node; after the last one the operation has failed.
AskNext(c, n) ==
  /\ asked' = [asked EXCEPT ![c] = @ \cup {n}]
  /\ pc' = [pc EXCEPT ![c] = IF asked'[c] = Node THEN "idle" ELSE @]
  /\ UNCHANGED leader_id

\* One round of get_leader
AskForLeader(c, n) ==
  /\ Asks(c, n) /\ Free(n)
  /\ \/ /\ leaderId[n] # Nil
        /\ leader_id' = [leader_id EXCEPT ![c] = leaderId[n]]
        /\ UNCHANGED <<pc, asked>>
     \/ /\ leaderId[n] = Nil
        /\ AskNext(c, n)
  /\ UNCHANGED <<arg, ops, handlers, outcomes, vars>>

AskFails(c, n) == Asks(c, n) /\ AskNext(c, n) /\ UNCHANGED <<arg, ops, handlers, outcomes, vars>>

\* Whoever waits for a handler's answer does so no more.
Orphaned(c) == {IF h.client = c THEN [h EXCEPT !.client = Nil] ELSE h : h \in handlers}

\* UNAVAILABLE: the client forgets the leader and begins again, while a handler
\* that was reached goes on.
ConnectionLost(c) ==
  /\ pc[c] # "idle" /\ leader_id[c] # Nil
  /\ pc' = [pc EXCEPT ![c] = IF @ = "setting" THEN "set" ELSE IF @ = "reading" THEN "get" ELSE @]
  /\ leader_id' = [leader_id EXCEPT ![c] = Nil]
  /\ asked' = [asked EXCEPT ![c] = {}]
  /\ handlers' = Orphaned(c)
  /\ UNCHANGED <<arg, ops, outcomes, vars>>

\* DEADLINE_EXCEEDED: SET_TIMEOUT or GET_TIMEOUT
ClientTimesOut(c) ==
  /\ pc[c] # "idle" /\ leader_id[c] # Nil
  /\ pc' = [pc EXCEPT ![c] = "idle"]
  /\ handlers' = Orphaned(c)
  /\ UNCHANGED <<arg, leader_id, asked, ops, outcomes, vars>>

-----------------------------------------------------------------------------
(***************************************************************************)
(* Set                                                                     *)
(***************************************************************************)
Accepts(n) == state[n] = "LEADER" /\ has_lease[n]

\* The handler up to its wait.  When the node refuses, the client compares the
\* error's text with the member of KVErrors: it neither redirects nor forgets
\* the leader, the SET has just failed.
CallSet(c) ==
  LET n == leader_id[c]
  IN  /\ pc[c] = "set" /\ n # Nil /\ Free(n)
      /\ \/ /\ WriteToRaft(n, arg[c])
            /\ handlers' = handlers \cup
                 {[node |-> n, client |-> c,
                   write |-> [idx |-> Len(logs'[n]), entry |-> logs'[n][Len(logs'[n])]]]}
            /\ pc' = [pc EXCEPT ![c] = "setting"]
         \/ /\ ~Accepts(n)
            /\ pc' = [pc EXCEPT ![c] = "idle"]
            /\ UNCHANGED <<handlers, vars>>
  /\ UNCHANGED <<arg, leader_id, asked, ops, outcomes>>

\* Mistaken variant: a command at that index is enough.
SameCommand_AnyAtIndex(h) == TRUE

\* Command.__eq__, on what was applied at the handler's index
SameCommand(h) == applied[h.node][h.write.idx] = h.write.entry

\* A round of __wait_for_apply that finds the index applied
SetReturns(h) ==
  /\ Len(applied[h.node]) >= h.write.idx
  /\ handlers' = handlers \ {h}
  /\ IF h.client = Nil
     THEN UNCHANGED <<pc, acked, refused>>
     ELSE /\ pc' = [pc EXCEPT ![h.client] = "idle"]
          /\ IF SameCommand(h)
             THEN acked' = acked \cup {h.write} /\ UNCHANGED refused
             ELSE refused' = refused \cup {h.write} /\ UNCHANGED acked
  /\ UNCHANGED <<arg, leader_id, asked, ops, got, floor, vars>>

\* OP_TIME_OUT
SetTimesOut(h) ==
  /\ handlers' = handlers \ {h}
  /\ pc' = IF h.client = Nil THEN pc ELSE [pc EXCEPT ![h.client] = "idle"]
  /\ UNCHANGED <<arg, leader_id, asked, ops, outcomes, vars>>

-----------------------------------------------------------------------------
(***************************************************************************)
(* Get                                                                     *)
(***************************************************************************)

\* is_leader_with_lease.  Only NOT_LEADER sends the client on.
CallGet(c) ==
  LET n == leader_id[c]
  IN  /\ pc[c] = "get" /\ n # Nil /\ Free(n)
      /\ \/ /\ Accepts(n)
            /\ pc' = [pc EXCEPT ![c] = "reading"]
            /\ UNCHANGED leader_id
         \/ /\ ~Accepts(n)
            /\ IF state[n] = "LEADER" \/ leaderId[n] = Nil
               THEN pc' = [pc EXCEPT ![c] = "idle"] /\ UNCHANGED leader_id
               ELSE leader_id' = [leader_id EXCEPT ![c] = leaderId[n]] /\ UNCHANGED pc
      /\ UNCHANGED <<arg, asked, ops, handlers, outcomes, vars>>

\* __get_value, under another mutex and maybe much later
GetReturns(c) ==
  /\ pc[c] = "reading"
  /\ pc' = [pc EXCEPT ![c] = "idle"]
  /\ got' = [got EXCEPT ![c] = GetValue(leader_id[c])]
  /\ UNCHANGED <<arg, leader_id, asked, ops, handlers, acked, refused, floor, vars>>

-----------------------------------------------------------------------------
KVInit ==
  /\ Init
  /\ pc = [c \in Client |-> "idle"]
  /\ arg = [c \in Client |-> Nil]
  /\ leader_id = [c \in Client |-> Nil]
  /\ asked = [c \in Client |-> {}]
  /\ handlers = {}
  /\ ops = [c \in Client |-> 0]
  /\ acked = {} /\ refused = {}
  /\ got = [c \in Client |-> {}] /\ floor = [c \in Client |-> {}]

\* What is not a step of a node alone
ServiceNext ==
  \/ \E c \in Client, v \in Value : StartSet(c, v)
  \/ \E c \in Client : StartGet(c)
  \/ \E c \in Client, n \in Node : AskForLeader(c, n)
  \/ \E c \in Client : CallSet(c)
  \/ \E h \in handlers : SetReturns(h)
  \/ \E c \in Client : CallGet(c)
  \/ \E c \in Client : GetReturns(c)

\* What a client or a server does when it has waited too long
ServiceFails ==
  \/ \E c \in Client, n \in Node : AskFails(c, n)
  \/ \E c \in Client : ConnectionLost(c)
  \/ \E c \in Client : ClientTimesOut(c)
  \/ \E h \in handlers : SetTimesOut(h)

\* Nodes, servers and clients, without restarts
KVNext ==
  \/ Next /\ UNCHANGED kvvars
  \/ ServiceNext
  \/ ServiceFails

KVSpec == KVInit /\ [][KVNext]_<<vars, kvvars>>

-----------------------------------------------------------------------------
(***************************************************************************)
(* Properties                                                              *)
(***************************************************************************)

\* The values of the client's and the server's state
KVTypeOK ==
  /\ pc \in [Client -> {"idle", "set", "setting", "get", "reading"}]
  /\ arg \in [Client -> Value \cup {Nil}]
  /\ leader_id \in [Client -> Node \cup {Nil}]
  /\ asked \in [Client -> SUBSET Node]
  /\ handlers \subseteq Handler
  /\ \A n \in Node : Cardinality({h \in handlers : h.node = n}) <= MAX_WORKERS
  /\ acked \subseteq Write /\ refused \subseteq Write

\* The writes of the store that applied most
Writes == WritesAt(CHOOSE n \in Node : \A p \in Node : Len(applied[p]) <= Len(applied[n]))

R == INSTANCE Register WITH Pending <- Nil, writes <- Writes

\* The servers and clients together implement the register: all stores take the
\* same writes in the same order, a SET that returned true stands whatever leader
\* comes next, and one that returned CMD_CHANGED never takes effect, not even by
\* a retry's or an old leader's copy (__wait_for_apply, __is_command_applied).
ImplementsRegister == R!RSpec

\* What README.md says of a SET that returned true: a read that begins after it
\* returns this or a further value.
ReadsFollowWrites ==
  \A c \in Client : got[c] # Nil => \A w \in floor[c] : \E u \in got[c] : u.idx >= w.idx
=============================================================================

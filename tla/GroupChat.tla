------------------------------ MODULE GroupChat ------------------------------
(***************************************************************************)
(* assignment-1/part-2: message_server.py, the list of groups; group.py, a *)
(* group with its members and messages; client.py.                         *)
(*                                                                         *)
(* Every client waits for the answer to its one request, without a         *)
(* deadline; the server and each group answer one request at a time.       *)
(* Groups stamp a message with the time of day, which starts again every   *)
(* midnight.  A group that dies takes its messages with it.                *)
(***************************************************************************)
EXTENDS Integers, Sequences, FiniteSets, SequencesExt, FiniteSetsExt

CONSTANTS
  Group, Member,   \* group and client processes
  SECONDS,         \* of a day
  NoAnswer

ASSUME ChatAssumption ==
  /\ SECONDS \in Nat \ {0} /\ Group \cap Member = {}
  /\ NoAnswer \notin Group \cup {"server"} /\ "server" \notin Group

VARIABLES
  groups,          \* message_server.py: the groups, in the order they registered
  group,           \* [Group -> {"off", "registering", "serving", "dead"}]
  clients,         \* [Group -> Seq(Member)]
  message_store,   \* [Group -> Seq(message)]: its number, its time, and the day
  now,             \* the time of day, and the day
  asks,            \* [Member -> request]
  shown            \* history: [Member -> [Group -> the messages it was shown]]

chatvars == <<groups, group, clients, message_store, now, asks, shown>>

Nothing == [to |-> NoAnswer]

ChatInit ==
  /\ groups = <<>>
  /\ group = [g \in Group |-> "off"]
  /\ clients = [g \in Group |-> <<>>]
  /\ message_store = [g \in Group |-> <<>>]
  /\ now = [time |-> 0, day |-> 0]
  /\ asks = [c \in Member |-> Nothing]
  /\ shown = [c \in Member |-> [g \in Group |-> {}]]

-----------------------------------------------------------------------------
\* group.py binds its socket, sends its address, and serves only after the answer.
StartGroup(g) ==
  /\ group[g] = "off"
  /\ group' = [group EXCEPT ![g] = "registering"]
  /\ UNCHANGED <<groups, clients, message_store, now, asks, shown>>

\* message_server.py: a group is appended, and never taken from the list.
RegisterGroup(g) ==
  /\ group[g] = "registering"
  /\ groups' = Append(groups, g)
  /\ group' = [group EXCEPT ![g] = "serving"]
  /\ UNCHANGED <<clients, message_store, now, asks, shown>>

GroupDies(g) ==
  /\ group[g] \in {"registering", "serving"}
  /\ group' = [group EXCEPT ![g] = "dead"]
  /\ clients' = [clients EXCEPT ![g] = <<>>]
  /\ message_store' = [message_store EXCEPT ![g] = <<>>]
  /\ UNCHANGED <<groups, now, asks, shown>>

\* The clock of the groups
Tick ==
  /\ now' = IF now.time + 1 = SECONDS THEN [time |-> 0, day |-> now.day + 1]
            ELSE [now EXCEPT !.time = @ + 1]
  /\ UNCHANGED <<groups, group, clients, message_store, asks, shown>>

-----------------------------------------------------------------------------
(***************************************************************************)
(* client.py: a choice is one request; the next one waits for the answer.  *)
(***************************************************************************)
Ask(c, r) ==
  /\ asks[c] = Nothing
  /\ asks' = [asks EXCEPT ![c] = r]
  /\ UNCHANGED <<groups, group, clients, message_store, now, shown>>

GetList(c) == Ask(c, [to |-> "server"])
JoinGroup(c, g) == group[g] # "off" /\ Ask(c, [to |-> g, op |-> "join"])
LeaveGroup(c, g) == group[g] # "off" /\ Ask(c, [to |-> g, op |-> "leave"])
SendMessage(c, g) == group[g] # "off" /\ Ask(c, [to |-> g, op |-> "send"])

\* The user types the time of the newest message on the screen, or nothing, which is
\* 00:00:00.
GetMessages(c, g) ==
  /\ group[g] # "off"
  /\ \E m \in shown[c][g] \cup {[nr |-> 0, time |-> 0, day |-> now.day]} :
       /\ m.nr = 0 \/ \A u \in shown[c][g] : u.nr <= m.nr
       /\ Ask(c, [to |-> g, op |-> "get", since |-> m])

-----------------------------------------------------------------------------
(***************************************************************************)
(* The message server and the groups: one request, one answer              *)
(***************************************************************************)
Answered(c) == asks' = [asks EXCEPT ![c] = Nothing]

\* The list is formatted: it names the groups that are gone, too.
AnswerList(c) ==
  /\ asks[c].to = "server"
  /\ Answered(c)
  /\ UNCHANGED <<groups, group, clients, message_store, now, shown>>

\* Mistaken variant: whoever is not a member gets no answer.
Serves_Members(g, c, op) ==
  /\ group[g] = "serving" /\ asks[c].to = g /\ asks[c].op = op
  /\ op = "join" \/ Contains(clients[g], c)

Serves(g, c, op) == group[g] = "serving" /\ asks[c].to = g /\ asks[c].op = op
IsMember(c, g) == Contains(clients[g], c)

\* A client that joins again is in the list twice.
AnswerJoin(g, c) ==
  /\ Serves(g, c, "join")
  /\ clients' = [clients EXCEPT ![g] = Append(@, c)]
  /\ Answered(c)
  /\ UNCHANGED <<groups, group, message_store, now, shown>>

AnswerLeave(g, c) ==
  /\ Serves(g, c, "leave")
  /\ clients' = [clients EXCEPT ![g] = RemoveFirst(@, c)]
  /\ Answered(c)
  /\ UNCHANGED <<groups, group, message_store, now, shown>>

\* Mistaken variant: the time of the last message is not asked for again.
IsSince_Later(m, since) == m.time > since

\* The texts are compared: a message of the same second is shown again.
IsSince(m, since) == m.time >= since

\* get_messages
AnswerGet(g, c) ==
  /\ Serves(g, c, "get")
  /\ LET messages == {m \in Range(message_store[g]) : IsSince(m, asks[c].since.time)}
     IN  shown' = IF IsMember(c, g) THEN [shown EXCEPT ![c][g] = @ \cup messages] ELSE shown
  /\ Answered(c)
  /\ UNCHANGED <<groups, group, clients, message_store, now>>

\* Mistaken variant: the newest message is kept first.
Stored_First(store, m) == <<m>> \o store

Stored(store, m) == Append(store, m)

\* store_string_with_timestamp
AnswerSend(g, c) ==
  /\ Serves(g, c, "send")
  /\ LET m == [nr |-> Len(message_store[g]) + 1, time |-> now.time, day |-> now.day]
     IN  message_store' = IF IsMember(c, g) THEN [message_store EXCEPT ![g] = Stored(@, m)]
                          ELSE message_store
  /\ Answered(c)
  /\ UNCHANGED <<groups, group, clients, now, shown>>

ServeChat(g, c) == AnswerJoin(g, c) \/ AnswerLeave(g, c) \/ AnswerGet(g, c) \/ AnswerSend(g, c)

ChatServes ==
  \/ \E g \in Group : RegisterGroup(g)
  \/ \E c \in Member : AnswerList(c)
  \/ \E g \in Group, c \in Member : ServeChat(g, c)

\* Anyone does anything the programs allow, any number of times.
ChatNext ==
  \/ ChatServes \/ Tick
  \/ \E g \in Group : StartGroup(g) \/ GroupDies(g)
  \/ \E c \in Member : GetList(c)
  \/ \E c \in Member, g \in Group :
       JoinGroup(c, g) \/ LeaveGroup(c, g) \/ SendMessage(c, g) \/ GetMessages(c, g)

ChatSpec == ChatInit /\ [][ChatNext]_chatvars

\* The server and the groups do not rest while there is a request to be answered.
ChatFairness == WF_chatvars(ChatServes)

-----------------------------------------------------------------------------
(***************************************************************************)
(* Properties                                                              *)
(***************************************************************************)
\* Every variable has its type; a group that serves is in the list once, and the times
\* of the messages of a day are in order.
ChatTypeOK ==
  /\ IsInjective(groups)
  /\ \A g \in Group :
       /\ group[g] \in {"off", "registering", "serving", "dead"}
       /\ group[g] = "serving" => Contains(groups, g)
       /\ clients[g] \in Seq(Member)
       /\ \A i, j \in DOMAIN message_store[g] :
            LET m == message_store[g][i] u == message_store[g][j]
            IN  i <= j /\ m.day = u.day => m.time <= u.time
  /\ now.time \in 0..SECONDS - 1
  /\ \A c \in Member : asks[c].to \in Group \cup {"server", NoAnswer}

\* A member that asks for the messages since the newest it has seen is shown all that
\* came after it on that day, those of the same second too (group.py:38).
NothingMissed ==
  [][\A g \in Group, c \in Member : AnswerGet(g, c) /\ IsMember(c, g) =>
       \A m \in Range(message_store[g]) :
         m.nr >= asks[c].since.nr /\ m.day = asks[c].since.day => m \in shown'[c][g]]_chatvars

\* The requests that wait are answered, but for those to a group that is dead, listed or
\* not: the client then waits for ever.
RequestsAnswered ==
  (\E c \in Member : asks[c] # Nothing) ~>
    \A c \in Member : asks[c] # Nothing => \E g \in Group : asks[c].to = g /\ group[g] = "dead"
=============================================================================

# A TLA+ model of DSCD-2024

This directory verifies the programs of the repository's three assignments:
TLA+ modules translated from the Python code, TLC configurations that check
them on small instances, and proofs checked by TLAPS.  Paths are relative to
the repository; `raft.py:552` is `assignment-2/raft.py`, line 552.

## 1. Inventory

### assignment-2: a key-value store over Raft with leader leases

| part | state | operations |
|---|---|---|
| `raft.py` (one `Raft` object per node) | `currentTerm`, `votedFor`, `logs` (also in files), `state`, `commitIndex`, `lastApplied`, `nextIndex`, `votes_received`, `leaderId`, `has_lease`, lease times, timer | RPC handlers `RequestVote`, `AppendEntries`; the sender threads `__send_request_vote`, `send_append_entries`; the timer thread `__timer`; the apply thread `__apply_logs`; `write_to_raft`, `get_leader_id`, `is_leader_with_lease`; `__replay`, `__persist` |
| `kvserver.py` | `data_store`, `applied_indices` | `Set`, `Get`, `GetLeader`, `apply` |
| `client.py` | `leader_id` | `get`, `set`, `ask_for_leader`, with retries |
| `command.py`, `main.py`, `util.py`, `logger.py` | none | commands and their text form, start, stop, configuration |

Nodes talk by gRPC calls with deadlines (0.9 s for AppendEntries, 4 s for
RequestVote).  Within a node four kinds of threads share the state under one
mutex.  The key-value server calls `write_to_raft` and waits until the apply
thread has handed its command to `apply`.

Hard here: calls that are late, lost, repeated or answered out of order; a
leader that was deposed and does not know; several open calls to one peer;
restarts; leases that depend on clocks of different nodes; reads that are
served without asking the log.  What makes it correct: one leader per term,
votes that stand, logs that match, committed entries that stay, stores that
never differ, files that hold what a restart needs, a lease that only one node
holds, and reads and writes that behave like one register.  The code does not give all
of this: sections 3 and 6 say what holds, under which condition, and what does not.

### assignment-3: k-means by MapReduce

| part | state | operations |
|---|---|---|
| `master.py` | map and reduce tasks with their status, workers with theirs, `centroids`, `new_centroids` | `run`, `__run_map`, `__run_reduce`, `__submit_map_task`, `__submit_reduce_task`, `check_convergence` |
| `mapper.py` | the partition files | `DoMap`, `GetData` |
| `reducer.py` | one task's data | `DoReduce`, which calls `GetData` of every mapper |

The master sends tasks to free workers in a thread pool and repeats map and
reduce until the centroids no longer change or `I` iterations are over.  Hard
here: workers that fail, die, or answer after their deadline and go on writing
files that others read; a phase that must not begin before the one before is
complete; a cluster that gets no point.  What makes it correct: a running task
and a busy worker belong to each other, each iteration is a k-means step on all
the points, and the job ends when enough workers live.

### assignment-1: three message-based programs

| part | state | operations |
|---|---|---|
| `part-1/market.py` | sellers, items, wish lists, ratings | register, sell, update, delete, display, search, buy, wish list, rate, notifications to `seller.py`/`buyer.py` |
| `part-2/message_server.py`, `group.py`, `client.py` | group list; members and messages of a group | register a group, list; join, leave, get, send |
| `part-3/youtubeser.py`, `user.py`, `youtuber.py` | users with their subscriptions, uploads, queues | subscribe, unsubscribe, upload, notify |

Hard here: notifications sent while the market's only mutex is held; requests
and notifications that cross in queues; time stamps that compare as text;
messages lost with a queue that nobody declared.

What makes it correct: no more is sold than there is, no listing shows new stock at
the old price, whoever wishes for an item is called about its updates, names stay unique;
a member of a group misses no message; a follower sees every video of whom it
follows, in order and once; and every call comes to an end unless the process it
waits for is gone.

`PROJECT.json` lists the components with their status, and as "hazards" what in
this code a test would hardly reach, each at its line.

## 2. Plan and order

1. **Raft**: `Raft.tla` with `MCRaft.tla`; type correctness, election safety, the
   durability of the files, and what a leader can rely on under prompt calls proved;
   what votes promise of logs proved without conditions; what does not hold of the log
   shown by runs that end with a violation.
2. **Leases**: `Lease.tla`, the same nodes with a clock and without the log;
   its safety properties proved.
3. **The key-value store**: `KVStore.tla`, which extends `Raft`, and
   `Register.tla`, what it promises; that one implements the other is checked, and
   proved of any nodes whose stores agree.
4. **MapReduce**: `Clustering.tla`, the arithmetic; `KMeans.tla`, the abstract
   iteration; and `MapReduce.tla`, which implements it; all its safety properties,
   the refinement among them, proved.
5. **assignment-1**: `Market.tla`, `GroupChat.tla`, `VideoNotify.tla`, checked by
   scenarios in `MCAssignment1.tla`; their safety properties proved without
   bounds on commands.

What is left, in the order of worth: `Raft` and `Lease` in one model, with logs and
clocks together, so that what the leases do give could be said of the log; a late mapper
on the machine of another (section 4); and the steps inside `__persist`, with a crash
between any two of them.

## 3. The modules of assignment-2

### `Raft.tla`

A variable has the name of the field it models.  `logs` are sequences of
entries `[term, cmd]`; `lastApplied` is `Len(applied)`, and `applied` is what
`apply` was given.  `disk` is the pair of files of `__persist`.  `timerAlive` is
whether the timer thread still runs.  The network is four sets of calls and
replies; the calls of a leader to a peer have a number each (`slot`), the least that is
free: a heartbeat submits a call to every peer whatever is still under way (774-777).
`voters` is a history variable: the peers whose grants were counted.

Every handler holds `self.mutex` from its first read of the state to its last
write, so each is one action:

| action | code |
|---|---|
| `WriteToRaft` | `write_to_raft`, `__append_entry` |
| `ApplyLogs` | one round of `__apply_logs` and `KVServer.apply` |
| `InitiateElection` | `__timer` of a node that does not lead, `__initiate_election` |
| `HandleRequestVote` | `RequestVote` |
| `HandleVoteReply` | the rest of `__send_request_vote`, `__change_state_to_leader`, `__action_on_lease` |
| `LeaseExpired`, `AcquireLease`, `Heartbeat` | `__timer` of a leader: `__action_on_lease`, `__acquire_lease`, `__send_heartbeat` |
| `HandleAppendEntries` | `AppendEntries` |
| `HandleAppendReply` | the rest of `send_append_entries` |
| `LoseAppendCall` | a call that ends UNAVAILABLE or DEADLINE_EXCEEDED, request or answer lost |
| `Restart` | `stop` or a kill, then `__init__` with `__replay` (`main.py --rejoin`) |

What the code does not do is not in the model either: `AppendEntries` does not
raise the follower's term, only a CANDIDATE changes state, a refusal other than
for a lower term carries no term, and the commit rule counts peers whose
`nextIndex` is *equal*.

Abstractions: a timer that may have expired is an action that may happen at any
time; the lease is the flag `has_lease` and nothing forces or forbids its expiry;
a command is a model value; a lost RequestVote call is one that is never
handled.  A reply that comes after the sender stopped is dropped (`Restart`
removes the replies to the node).  A sender ignores answers of another term: the
code checks only that the node leads, but its calls are over after 0.9 s, and it
takes at least one election timeout, 5 s, to lead again.

*Bounds.* `MaxTerm`, `MaxLog` and `MaxRestarts` are guards of `Raft.tla`.  `MCRaft.tla`
gives each behaviour a `budget` of elections, heartbeats, lease expiries, lost calls and
restarts, which bounds the calls too.  Two terms are one change of leader, three are needed
for two logs of one length that differ in a term.  Two entries are the NO-OP and a write,
or two NO-OPs.  Runs are symmetric in the nodes, which no definition tells apart, and the
view leaves out the numbers of calls, how many say the same excepted, and replies that
their receiver will ignore.  Every behaviour ends at the bounds, so deadlock is not
checked: the system as modelled has no other end.

A budget also says what is assumed of a behaviour (`assumed`).  None of this is enforced
by the code, and what is only claimed under it says so:

- `prompt`: when a node becomes leader no AppendEntries call of another leader is on its
  way any more (`PromptStep` in `Raft.tla`).  The deadline of 0.9 s against an election
  timeout of 5 s makes it likely, but a deadline is the caller's, and a handler of a
  stalled process runs after it.
- `apart`: an election begins when the RequestVote calls of the one before are over (4 s,
  against random timeouts of 5 to 10 s).
- `serial`: a call to a peer is over before the leader makes the next.  Only `kv` and
  `kv_stale_read` assume it.

`raft_log` begins with any of five budgets: two elections that overlap at will, with a
heartbeat, or with a lease expiry and a lost call; three elections apart; one leader with
several heartbeats whose calls overlap; and two elections apart with an expiry, a lost
call and a restart of any node between any two handlers.  All five are `prompt`.
`VotesStand` excepts voters that restarted, which forget their vote; `OneLeaderPerTerm`
holds in the run because no restart falls between two elections of one term, and
`raft_forgotten_vote` is the run where one does.

`LeaderKeepsLog`, `NewestTermAgrees` and `NoRedirectLoop` need `prompt`.  Without it a
call of a deposed leader reaches a later one: TLC violates the first two with two
elections and a heartbeat.  For the third, a deposed leader forgets its vote without a new
term and may give it again, to a second leader of a term that has none left.
`OneLeaderPerTerm`, `VotesStand`, `WinnerUpToDate`, `DiskMatchesMemory` and
`TermNeverDecreases` need none of the three assumptions, as their proofs show (section 7).

*What does not hold of the log.* Raft promises that logs match, that a leader has
all that was committed, that a committed entry is on a majority and stays, and that stores
agree.  This code does not keep these promises, so no run and no theorem claims them:

- *A late call cuts what is committed* (run `raft_late_call`).  A receiver that accepts a
  later leader's call does not take over its term (493), so it still accepts a call of the
  leader before, and replaces whatever differs (552), committed or not.  The comment at
  568-569 says of `log_cut` that the entries cut "are not committed yet".
- *A guess is counted as copies* (run `raft_five_nodes`).  `nextIndex` begins as the length
  of the new leader's log, and with the five nodes of `config.yaml` three peers that
  answered nothing are a majority of equal values once one node has answered: a leader
  commits an entry of the leader before it which two nodes of five have.
- *Two open calls to a peer.*  `nextIndex` grows by the length of every successful answer
  (652), also when two calls carried the same entry.  The leader then counts a copy that
  does not exist and may commit a write that only it has; and its next heartbeat reads
  `self.logs[prevIndex]` out of range (749), which ends the timer thread, the only sender
  of AppendEntries.  Calls overlap when heartbeats are less than 0.9 s apart, which times
  in whole seconds (`util.current_time_second`) and the heartbeat at the acquisition of a
  lease allow, and when a call was queued; the check of futures that would exclude it is a
  TODO (607-614).  The authors met the read: the lines 746-748, a comment, log it as a
  CRASH.  `SendHeartbeat` has it (`timerAlive`), and a leader that was overtaken and had
  its log cut by the later leader's call comes to it as well.
- *An old leader appends.*  A leader that is deposed but does not know it keeps its term
  even when it accepts a later leader's call, has its log cut, and may then append at a
  place it used before.  Three nodes, three changes of leader, prompt calls and logs of
  three lose a committed entry so: p leads term 1; q leads term 2, and its NO-OP reaches
  the third node n; n leads term 3, and its entries of the terms 2 and 3 replace p's log;
  p is still the LEADER of term 1 and appends a write; n commits both entries by p's
  answer; q campaigns in term 4, p grants, because the last entry of its log is of term 1,
  and q leads without the entry that n committed.  A lease is what should prevent it
  (281), and the run `lease_two_holders` shows two leaders with a lease.

What can be said of the log is less.  `WinnerUpToDate` is what the votes promise: who wins
an election has a log as up to date as the one each of its voters has by then, although
voters go on taking entries of leaders whose term they do not take over; the exception,
entries of the election's own term or a later one, is what such a leader may have sent
meanwhile.  It holds without conditions and is not enough for the promises above.
`NewestTermAgrees` relates a leader nobody has overtaken to all logs: whatever any of them
has of that term the leader has at the same place, although a lease that expires lets two
nodes lead one term, one after the other.

### `Lease.tla`

The leases with their clocks; the log is left out, and whether it allows a vote is
a choice.  A pair (time, duration) of the code is what is left of it, in ticks.

| action | code |
|---|---|
| `LeaseExpired`, `LeaseAcquired` | `__action_on_lease`, called by `__timer` |
| `Heartbeat`, `InitiateElection` | what `__timer` does when `wait_duration` is over |
| `RequestVote`, `HandleVote` | the handler, and the rest of `__send_request_vote` with `__change_state_to_leader` |
| `AppendEntries`, `HandleAppended` | the handler, and the rest of `send_append_entries` |
| `Tick` | time: what is due is done first; a call whose deadline is over is gone |

`told` (the longest lease a node was told of since, counted down) and `since` (ticks
since it won, acquired, or was answered) are history.  The times of raft.py:22-26 are
scaled down, their order kept: a lease is two ticks, an election timeout two or three, a
heartbeat and a RequestVote call one, and an AppendEntries call is over within its tick.
Three nodes and two elections give a deposed leader, its successor and a voter of both.
Here deadlock *is* checked: time can always pass.

`Forever` is what line 712 makes of a clock reading: a leader that learns of a
higher term passes `lease_access_time`, a time since the epoch, as a duration, and
then knows of a lease that outlasts the process.  If it is elected later it never
acquires a lease, nor does whoever hears of it as a candidate.  The model has this,
and `LeaderAcquires` is about every node that was not told of such a lease; no
text of the repository says otherwise of this case, so it is no finding.

### `KVStore.tla` and `Register.tla`

`KVStore` extends `Raft` with the clients and the handlers of the key-value
servers.  One key is modelled; its value in a store is the last write applied.

| action | code |
|---|---|
| `StartSet`, `StartGet` | `KVClient.set`, `get` begin |
| `AskForLeader`, `AskFails` | a round of `get_leader` |
| `CallSet` | `Set` up to `__wait_for_apply`; a refusal ends the SET (client.py:171 compares a text with an Enum) |
| `SetReturns`, `SetTimesOut` | the end of `__wait_for_apply` and `Set` |
| `CallGet`, `GetReturns` | `is_leader_with_lease`, then, under another mutex, `__get_value` |
| `ConnectionLost`, `ClientTimesOut` | UNAVAILABLE and DEADLINE_EXCEEDED at the client; the handler goes on |

`Register` is what this promises for a key: writes, which are a set in which each has a
place of its own, take effect in one order for all, a SET that returned true is in
effect and stays, one whose client was told CMD_CHANGED never takes effect, and a read
returns a write in effect, though it may be an old one.  `ImplementsRegister` is
`Register!RSpec` with `writes` mapped to the writes of the store that applied most.
That a read is not older than the last acknowledged SET is *not* part of it:
`kv_stale_read` shows it false.

`MCKV` lets elections and answers take no time, so that calls that carry entries
interleave with clients; a client does two operations, the first a SET; two
elections are one change of leader.  What a client loses and what it gives up share
the budget of one expiry.  One worker thread is the smallest pool that can be used
up; the code has two (kvserver.py:19).  The run assumes `prompt`, `apart` and `serial`:
without them the log itself does not keep one order (above), and no register can be built
on it.  Which part of the claim is the log's and which is that of servers and clients the
theorem `RegisterIfStoresAgree` tells apart (section 7).

## 4. The modules of assignment-3

### `Clustering.tla` and `KMeans.tla`

`Clustering` is the arithmetic both other modules use: which centroid a point is
closest to (`cluster_points`, `Closest`), which points of a file that gives a cluster
(`Cluster`), and their mean (`Mean`, `RoundedMean`).  `KMeans` is what the three
programs compute together.  Its one action, `Iterate`, is a round
of `run` as if it were atomic: every point to its closest centroid, the first one
on a tie (`cluster_points`), every centroid to the rounded mean of its points
(`find_mean_keywise`), a cluster without points unchanged (`new_centroids` is
not reset), and the end by `check_convergence`, which is asked from the second
iteration on.  Coordinates are integers in units of 0.0001, the precision to
which the code rounds centroids; `RoundedMean` rounds a tie up, where Python's
`round` depends on the binary fraction: either neighbour is at the same distance
from the mean.  Input points with more decimals, and float32 in the messages,
are left out.

The run `kmeans` takes every file of five points of a 4 x 2 grid, with three
centroids.  `CostNeverGrows`: the sum of squared distances never grows, although
means are rounded (the old centroid is itself rounded, so the nearest rounded
value to the mean is at least as good).  `FirstClustersNonEmpty`: only input
whose first K points repeat leaves a cluster empty in the first iteration.

### `MapReduce.tla`

| action | code |
|---|---|
| `AssignMaps`, `AssignReduces` | a round of `__run_map`, `__run_reduce` that hands out tasks |
| `StartReduce` | the last round of `__run_map` and `run` up to `__run_reduce` |
| `EndIteration` | the last round of `__run_reduce`, `check_convergence`, the end of `run` |
| `OpenPartition`, `ClosePartition` | `partition_points` for one file: emptied by `open`, filled by the close |
| `MapReply`, `MapCallFails` | `DoMap` returns, or the call fails; `__submit_map_task` under the mutex |
| `Fetch` | one round of `do_reduce_task`: `GetData` of one mapper |
| `ReduceReply`, `ReduceCallFails` | `DoReduce` returns, or the call fails; `__submit_reduce_task` |
| `MapperDies`, `ReducerDies` | a process that ends; for a reducer also one that is too late |

The master's threads change tasks and workers only under `self.mutex`, so one
critical section is one action; a round of `__run_map` is one critical section.
Handlers on workers take several steps.  A mapper's reply and what the master
does with it are one action: what lies between them, only the pool thread sees.
`phase` is where the main thread is; `"failed"` is the TypeError of the
centroid 0, raised with the mutex held.

Parameters: `Late` are mappers that may miss the deadline of 5 s; the master
then holds them for DEAD while they finish and write their files.  `HostOf` says
which mappers share a directory `Data/Mappers` (in `config.yaml` all do; the README
has one address per worker, on any machine).  `MortalMapper` and `MortalReducer`
bound who may die.  A reducer that is late needs no more than to be counted as
dead, as its reply reaches nobody and its file is read by nobody.  Workers do not
come back: the code never makes a DEAD worker FREE.

| run | instance | shows |
|---|---|---|
| `mapreduce_late` | a machine per mapper; mapper 0 late or dead, reducer 0 mortal; M = 3, K = 3, R = 2; a file that converges and one with equal starting points | `TypeOK`, `TasksMatchWorkers`, `FailsOnlyOnDuplicates`, `ComputesKMeans` |
| `mapreduce_deaths` | `FairSpec`, one machine; mapper 0 and both reducers mortal; M = K = R = 2; a file of two iterations and one of three | `MapOutputReady`, `JobEnds`, `EndsOrWorkersGone` |

`ComputesKMeans` is `KMeans!Spec` with `done` mapped to `phase = "done"`: the job
is k-means step by step although tasks are retried, workers die, and clusters are
averaged by different reducers.  The refinement mapping gives a cluster that never
had a point, for which the code has the integer 0, its starting point; such a job
fails at the next `AssignMaps` (`FailsOnlyOnDuplicates`), which is a stutter of
`KMeans`.  `JobEnds` is conditional: mappers live and a reducer is not DEAD.
`EndsOrWorkersGone` has none, and counts as an end the failure of a job whose first K
points repeat.

The instances are two workers of a kind (one more than fails), more map tasks than
mappers, so that a worker takes a second task, two partitions for three clusters,
and files that take two or three iterations, so that stale files and a stale
`mapper_id` of an earlier iteration exist.  The points are on a line, at multiples
that keep the means whole: rounding is the matter of `kmeans`.

The input is cut in pieces of ceil(n / M) points.  The code asserts that these are
M pieces, and so does `InputsAssumption`; the assertion fails, and the job does
not start, for some files with enough points (4 points and M = 3, or the 30 points
of `Data/points.txt` and M = 12).

*One machine and late mappers together* is the combination no run has, because
the code does not survive it: a mapper that was given up after 5 s empties and
rewrites `Data/Mappers/M<i>/partition_<j>.txt` while reducers read the other
attempt's file, or in a later iteration, and neither `MapOutputReady` nor
`ComputesKMeans` holds.  No document of the repository says otherwise, so this is
a limit noted here and not a finding.

*Fairness* (`FairSpec`).  The main thread loops, handlers run, pool threads wait
with a deadline: weak fairness of each.  A mapper that is only late may always
answer in time instead, so only calls to the dead must end.  `DoMap` and
`DoReduce` fail on a coin toss (`random.random() < 0.5`), so a worker that is
asked for ever succeeds at some time: strong fairness of success.  Deadlock is not
checked, because a job ends, fails, or waits for workers that are gone.

## 5. The modules of assignment-1

### `Market.tla`

A call of a seller or buyer is `sent`, then takes a thread and the mutex together.
What another client could see or what may block is an action of its own:

| action | code |
|---|---|
| `StartSeller`, `StartBuyer`, `Command` | `start_service`, of a first process or a later one at the same address, and a command of `Dialogue.start` that becomes a call |
| `RegisterSeller`, `SellItem`, `DeleteItem`, `AddToWishList`, `RateItem` | the RPC, whole, under the mutex |
| `BeginUpdate`, `EndUpdate` | `Item.update`: price and quantity are set one after the other |
| `BeginBuy`, `EndBuy` | `buy_item`: the check for stock, and the new quantity |
| `Notify`, `Notified` | one call of `__send_client_notification`, without a deadline; the mutex is given back |
| `DisplaySellerItems`, `SearchItem`, `BeginView` | the list, under the mutex, or (search for everything) the live view of the dictionary |
| `ReadItem`, `ReadOn`, `EndListing` | the conversion to messages, without the mutex |
| `Goes`, `Hangs`, `Resumes` | client processes that end, stop, go on |

A price is the number of the update that set it, so that an old one is told from a
new one; a rating is in tenths, rounded at a tie to either neighbour.

`called` is history: of each buyer and item, the last update the shop called the buyer
about, or that was before its wish.  What the buyer *knows* is another matter.  The answer
to a wish is a status without a price (316-318), and a call that fails, of a buyer that
lives too, is logged and never repeated (683): so nothing is claimed of what buyers know.
`WishersCalled` says what the shop does: whoever is in a wish list has been called about
every update since, whether others in the list were gone, failed or came back.  A buyer
that starts again at its address is still in the wish lists; one that ends while its own
call waits may start again when that is answered.

A command with an id that is not there gets `False`, but `add_to_wish_list` returns the
pair `(False, DEFAULT_ITEM_ID)` for it, which `ItemOpResp` refuses with a TypeError: the
call fails and ends the buyer's dialogue (`AddToWishList`), where the docstring (607) says
it "Returns false".

### `GroupChat.tla`

The list of groups, groups with members and messages, clients with one request at a
time.  `RegisterGroup` and `AnswerList` are the message server; `AnswerJoin`,
`AnswerLeave`, `AnswerGet`, `AnswerSend` a round of `group.py`.  Messages are stamped
with the second of the day; `Tick` passes midnight.  A number and a day tell
messages apart for the properties, the code sees neither.  `NothingMissed` is about
messages of one day: after midnight the texts compare the other way round, and a
member that asks since yesterday evening is shown nothing of the morning.

### `VideoNotify.tla`

The queues of the broker are sequences, a queue that nobody declared drops what is
sent to it, and a consumer that ends takes with it what it was delivered
(`Leftover`).  `ConsumeUserRequest` and `ConsumeYoutuberRequest` are the callbacks
of the server, `ServerDies` forgets every subscription, `StartUser` and `LogIn` are
the two halves of `user.py`, which publishes its request before its queue exists.

### Scenarios and fairness

The three programs share nothing; `MCAssignment1` runs them in one state space, one
at a time.  A scenario is a `plan`, the sets of commands each client chooses from,
one after the other, and how often each of the `events` may happen: a client that
ends, hangs or starts again, a group that starts or dies, a second
that passes, a user that logs in or out, a server that goes down.  There is a
scenario per question: two buyers and an update at one item; listings while items
come and go; wish lists with a client that hangs, or is gone and comes back; three
raters; names offered twice over a restart; two members over midnight (a day of three
seconds); followers of two youtubers.

*Fairness* is weak, of the steps of each program's services as a whole
(`MarketFairness`, `ChatFairness`, `VideoFairness`): they do not rest while there is
something to be served.  No fairness is assumed of any one caller, as neither the
thread pool nor the mutex gives it; this is enough because plans are finite.  That
clients go on giving commands, or that a client that hangs resumes, is not assumed.
`CallsEnd` therefore excepts the handler that notifies a client that hangs
(market.py:458): all other calls wait for its mutex.  `RequestsAnswered` excepts
requests to a group that is dead, for whose answer a client waits without a
deadline.

## 6. Runs

| run | instance | shows |
|---|---|---|
| `raft_log` | three nodes, up to three leaders, prompt calls that may overlap, a lost call, a restart of any node | `TypeOK`, `OneLeaderPerTerm`, `VotesStand`, `WinnerUpToDate`, `LeaderKeepsLog`, `NewestTermAgrees`, `NoRedirectLoop`, `DiskMatchesMemory`, `TermNeverDecreases` |
| `lease` | three nodes, two elections, every tick | `TypeOK`, `HolderIsHeard`, `LeaderAcquires`, `ToldLeasesAreOver` |
| `kv` | a client with two operations over two leaders, prompt and serial calls | `KVTypeOK`, `ImplementsRegister` |
| `kmeans` | every file of five points of a grid, three centroids | `FirstClustersNonEmpty`, `CostNeverGrows` |
| `mapreduce_late` | a machine per mapper, one late or dead, one reducer mortal | `TypeOK`, `TasksMatchWorkers`, `FailsOnlyOnDuplicates`, `ComputesKMeans` |
| `mapreduce_deaths` | one machine, a mapper and both reducers mortal, `FairSpec` | `MapOutputReady`, `JobEnds`, `EndsOrWorkersGone` |
| `assignment1` | the scenarios of section 5 | `MarketTypeOK`, `OneOfAName`, `NeverOversold`, `NoStockAtOldPrice`, `WishersCalled`, `RatingDrift`, `CallsEnd`; `ChatTypeOK`, `NothingMissed`, `RequestsAnswered`; `SeenInOrder`, `FollowsAsAsked`, `FollowersSee` |

Five runs end with a violation, each a disagreement of the code with a comment or
the README (`PROJECT.json`, "findings"):

| run | what TLC finds |
|---|---|
| `raft_late_call` | a call of a deposed leader is handled after a later leader committed, and cuts what it committed (552, against the comment at 568-569) |
| `raft_five_nodes` | a leader of five commits an entry that two nodes have: values of `nextIndex` that nobody answered for are a majority (`raft.py:687`, with the guess at 305, against the comments at 679 and 684) |
| `raft_forgotten_vote` | a voter that restarts has lost its "persistent" vote (319, called at 100, against 62) and two nodes lead one term |
| `lease_two_holders` | only a CANDIDATE takes over the lease of an AppendEntries call (501), so voters know of none, and a new leader acquires a lease while the old one holds its own (282 against the comment at 281) |
| `kv_stale_read` | a new leader with a lease that has not applied its log answers a read with an older value than a SET returned true for (`kvserver.py:215` against assignment-2/README.md:36) |

Deadlock is checked where the system never stops (`lease`); elsewhere the bounds, the
end of a job or of the commands stop it.

## 7. Proofs

Every theorem is about all values of the constants that satisfy the module's named
assumptions and the hypotheses it states; none has a bound on the number of steps, calls
or commands.

### assignment-3

`Clustering_proofs.tla` has the lemmas about distances, clusters and means, for
`KMeans_proofs.tla` and `MapReduce_proofs.tla`.

| theorem | statement |
|---|---|
| `EachPointOnce` | every point of an input file is in `Split` of exactly one map task, and no piece is empty |
| `TablesAgree` | `Spec => []TasksMatchWorkers`, for any tasks, workers, hosts, late and mortal sets |
| `TypeCorrect` | `Spec => []TypeOK` |
| `OutputsReady` | `LateApart => (Spec => []MapOutputReady)` |
| `DuplicatesOnly` | `LateApart => (Spec => []FailsOnlyOnDuplicates)` |
| `ImplementsKMeans` | `LateApart => (Spec => ComputesKMeans)`: `MapReduce` implements `KMeans` |
| `NoClusterEmpty` | `Spec => []FirstClustersNonEmpty`, of `KMeans` |
| `CostFallsOrStays` | `Spec => CostNeverGrows`, of `KMeans` |

*Splitting.* Point `i` is in piece `(i - 1) \div s`, where `s` is the size of a
piece; M pieces are enough because `s` is rounded up (`CeilingQuotient`), and
none is empty because of the code's assertion (`InputsAssumption`).

*Tables.* `IInv` has the types of the tables, the two halves of
`TasksMatchWorkers` and `ReduceCallsInPhase`: outside the reduce phase no reduce
call is open, which is why `StartReduce` may make the table of reduce tasks anew,
and whatever a reducer runs is awaited.  `AssignTables` and `EndTables` are about
any pair of tables and serve both phases.  That a round gives no task to two
workers rests on `RankInjective`: the i-th open task gets the i-th FREE worker.
The assumptions are those of `SizesAssumption`.

*The job.* `Inv` adds `TypeInv` and `JobInv`.  `JobInv` says what the tables mean for
files and results: a run on a mapper is one the master awaits, or that of a mapper it
gave up (`RunsKnown`); the files of a COMPLETED map task on its mapper's machine are
whole and of the current centroids; what a reducer has fetched are parts of the clusters
of its partition; and what is in `new_centroids` are means of this iteration, or, for a
cluster without points, what was there before.  The step that needs care is a mapper
that was given up and goes on writing: it must not open a file another run completed.
`LateApart`, a mapper that may be late shares its directory with no other, is what that
needs, and no more; without it the statements are false (section 4).  It is a condition
on the constants `Late` and `HostOf`: with no late mapper it always holds, as in
`mapreduce_deaths`, and in `mapreduce_late` it holds of the mapper that is late.
For the refinement, a step of the job is mapped to a stutter, except `EndIteration`,
where `JobInv` gives that the reducers' means are those of `Iterate`.

*Cost.* An iteration is two moves.  Taking the closest centroid lowers the distance of
each point; and within a cluster the rounded mean is at least as good as the old
centroid: for a sum s of n coordinates the cost of m less that of c is
(m - c)(n(m + c) - 2s), and no c that is a whole number of units is nearer to s / n than
the rounded mean is (`RoundedMeanNearest`, `MeanIsBest`).  The sums over a set of points are taken apart
point by point; where that is an induction over a set, the proof takes a least set for
which the claim fails and derives a contradiction, as induction theorems that take an
operator cannot be used.

### Raft

`Raft_proofs.tla` proves, for every finite set of at least two nodes,
every set of values and every bound:

| theorem | statement |
|---|---|
| `TypeCorrect` | `SpecRestart => []TypeOK` |
| `ElectionSafety` | `Spec => []OneLeaderPerTerm` |
| `VotesAreKept` | `Spec => []VotesStand` |
| `FilesMatchMemory` | `SpecRestart => []DiskMatchesMemory` |
| `TermsGrow` | `SpecRestart => TermNeverDecreases` |
| `LeaderAppendOnly` | `PromptSpec => LeaderKeepsLog` |
| `RedirectsEnd` | `PromptSpec => []NoRedirectLoop` |

`PromptSpec` is `Spec` with `PromptStep` in every step, an assumption about behaviours
(section 3); elections, and the calls of a leader, may overlap at will.

*Types.* `TypeOK` is not inductive: `nextIndex` takes the `conflictIndex` of a
refusal, which is -1 in a refusal for a lower term.  `TypeInv` adds
`ConflictKnown`: a refusal whose term is not above the call's has a length in
`conflictIndex`, and only such a refusal is used.

*Elections.* `ElectionInv` has five parts.  `Granted(p, n, t)`: `p`'s vote of
term `t` for `n` is in a reply under way or counted by `n`, which still
campaigns or leads in `t`.  `GrantsStand`: `p` then has `votedFor = n` in `t`
(and is `n` itself or a FOLLOWER), or a later term.  `GrantedOnce`: one vote of
one term is granted to one candidate.  `VoteCalls` and `AskedOnce`: a candidate
asks each peer once per term, so no vote is counted twice.  `VotesCounted`:
`votes_received` is the number of `voters`, and a leader has a majority of them.
Two leaders of one term would share a voter, against `GrantedOnce`.  The role in
`GrantsStand` is the point that needs care in this code:
`__change_state_to_follower` forgets the vote also in the current term (a
deposed candidate, an expired lease), which is harmless only because the node
that does so was a CANDIDATE or LEADER and the vote it forgets its own.
Restarts are excluded because with them the theorem is false
(`raft_forgotten_vote`).

*Files.* `DiskInv` adds to `DiskMatchesMemory` that a sender of a call has a
non-empty log and that calls carry it: `__persist` leaves the log file alone
when the log is empty, so the theorem needs that no log is cut to nothing.

*A leader's log.* AppendEntries has no check of the receiver's role, so a leader would
take a call of its own term and have its log cut.  `LeaderInv` excludes that: calls
are no newer than their sender (`CallTerms`), and those on their way to a leader that no
node has overtaken are of earlier terms (`NoRival`).  When the leader wins, `PromptStep`
gives this; afterwards a new call is of another leader, which has another term by
`ElectionSafety` and a lower one as nobody is ahead.

*Redirects.* A node that names a leader is not ahead of it (`NamesNoOlder`), though
AppendEntries does not raise the receiver's term.  So a loop of nodes that do not lead
would be of one term, led by each in turn.  `CallersNameNewer` breaks it: who gave up
a term but still has a call of that term under way knows of no leader, or of one of a
later term, because calls of one term are of one leader (`OneSource`), which rests on
`PromptStep` again.  Two nodes can lead one term after the other since an expired lease
has the node forget its vote and keep its term; without prompt calls `RedirectsEnd` is
false (section 3).

### Logs and votes

`RaftLog_proofs.tla` proves, for any number of nodes and values, any bounds, any delay,
loss and overlap of calls, and any restarts:

| theorem | statement |
|---|---|
| `WinnersUpToDate` | `SpecRestart => WinnerUpToDate` |

The textbook argument is not available, because AppendEntries does not raise the
receiver's term: a voter that granted a vote in term t may go on taking entries of a leader
of t or a later one before the candidate counts the vote, and the comparison of the logs is
then out of date.  `OrderInv` says what is left of it.  `VotesOrdered`: while a vote of
term t is on its way to a candidate of t or counted by it, the candidate's log is as up to
date as the voter's, unless the voter's ends with an entry of t or a later term.
`CallsEndNew` is why that stays so: whatever call a node in term t accepts is of t or a
later term, and brings the whole log of a leader that has a lease, or ends where that ends;
and such a log ends with an entry of the leader's term or a later one (`LeadersEndNew`),
because the lease is acquired with a NO-OP.  The candidate's log stays what its requests
say (`RequestsMatch`): a call it accepts has it campaign no longer.  `VoteTerms` is what a
restart leaves of a vote, the term; it is why the theorem, unlike `ElectionSafety`, needs
no exception for restarts.

### The key-value store

`KVStore_proofs.tla` proves, for any nodes, clients, values and sizes of the thread pool:

| theorem | statement |
|---|---|
| `KVTypes` | `KVSpec => []KVTypeOK`: types, and no server has more handlers waiting than threads |
| `RegisterIfStoresAgree` | `KVSpec /\ []StateMachineSafety => ImplementsRegister` |

`KVTypeInv` adds to `TypeInv` of `Raft` what a waiting handler is for: a SET of a value at
a place of the log (`SetsValues`), which a NO-OP is not.

*Register.* The second theorem takes the log's promise as its hypothesis,
`[]StateMachineSafety`, which the code does not keep in every behaviour (section 3), and
shows that nothing else is needed: whatever clients, handlers and lost connections do,
they add no fault to a log that keeps its promise.  The run `kv` checks the conclusion
without that hypothesis, over two prompt leaders with serial calls.
`KVInv` has `AckedApplied`, an acknowledged write is in some store, and
`RefusedReplaced`, where a refused write should be some store has another entry; both
stay, as a step of a node only adds to its store (`StoresGrow`).  The writes of the
mapping are those of the longest store, of which all others are prefixes
(`LongestStore`): so what any store takes is a `TakeEffect` or a stutter, also when
another store becomes the longest, an acknowledged write is in effect, and a refused one
has its place taken.

### Leases

`Lease_proofs.tla`, from `LeaseAssumption`, of which the part that matters says that
an election timeout is longer than the deadline of AppendEntries:

| theorem | statement |
|---|---|
| `LeaseTypes` | `Spec => []TypeOK` |
| `HoldersAreHeard` | `Spec => []HolderIsHeard` |
| `LeadersAcquire` | `Spec => []LeaderAcquires` |
| `LeasesWait` | `Spec => ToldLeasesAreOver` |

The invariant is `LeaseInv`.  `HeardInTime`: what is left of a leader's lease and the
time since it was heard add up to at most a lease, unless the lease is endless.
`ToldIsKnown`: a node knows of at least what it was told.  `CallsInTime` is why both
are kept: an answer could reach a leader of a later term and renew a lease it does not
have; but a call is in flight only while its leader leads with a lease, or is a
follower that waits longer than the call has left, so it cannot lead again before.

### assignment-1

`Assignment1_proofs.tla` is about the market first, then about the two programs that
pass messages.  The specifications proved about (`MarketSpec`, `ChatSpec`,
`VideoSpec`) let anyone do anything the programs allow, any number of times; the run
`assignment1` bounds the same actions by scenarios.

| theorem | statement |
|---|---|
| `MarketTypes` | `MarketSpec => []MarketTypeOK` |
| `MutexHeld` | `MarketSpec => []ChangesHoldMutex`: who is in the middle of a change holds the mutex |
| `NamesAreUnique` | `MarketSpec => []OneOfAName` |
| `StockSuffices` | `MarketSpec => []NeverOversold` |
| `ListingsAreSafe` | `MarketSpec => []NoStockAtOldPrice` |
| `WishersAreCalled` | `MarketSpec => []WishersCalled` |
| `RatingsStayNear` | `MarketSpec => []RatingDrift` |
| `ChatTypes` | `ChatSpec => []ChatTypeOK` |
| `NoMessageMissed` | `ChatSpec => NothingMissed` |
| `VideosInOrder` | `VideoSpec => []SeenInOrder` |
| `SubscriptionsFollow` | `VideoSpec => []FollowsAsAsked` |

*Market.* `MarketInv` has a conjunct for each promise and what they need of each
other.  The mutex is the base: since only its holder is in the middle of a change,
what `BeginBuy` checked still holds at `EndBuy` (`Steps`), and an item whose price is a
version ahead of its quantity belongs to the one update under way (`ItemsOK`).  A
reader reads quantity first and price second while the writer writes them in the
opposite order, and versions only grow, hence `Listings`.  `Wishes` says of a buyer
that was not called about the newest price of what it wishes for that the handler with the
mutex still has it to call.  The bound on ratings is by induction on the steps: each
rounding adds at most half a tenth, weighted by the raters so far.

*Chat.* `ChatInv`: messages of a group are numbered in the order they are stored, and
times of one day are in that order (`Stores`); what a member was shown is still in the
store unless the group died (`Kept`); a member asks since a message it was shown
(`AsksSinceSeen`).  So a message with a later number on that day has no earlier time.

*Videos.* `VideoInv`: along what a user has seen, its mailbox, and the uploads the
server has not consumed, numbers grow.  Losing the front of a queue keeps this.
`FollowInv`: the last request of a user about a youtuber that is still in the queue asks
for what the user last asked for, and if there is none the server has it, unless the
server went down; so the order of requests decides, however many cross.

### Only model-checked

Out of the prover's reach, and so for TLC alone: liveness under fairness (`JobEnds`,
`EndsOrWorkersGone`, `CallsEnd`, `RequestsAnswered`, `FollowersSee`).  Not proved, though it
could be: `NewestTermAgrees`.

## 8. Not modelled, and why

- A crash inside `__persist`: restarts happen between handlers.  What `__replay` makes
  of a file cut in the middle depends on where its buffers were flushed, and it fails
  on most of them.
- Text: commands as strings (`command.py` splits at blanks), addresses, the files'
  format, what is printed.  A value with a blank is a matter of parsing, not of the
  protocol.
- Raft with five nodes beyond the one run that ends with a violation: the state space of
  more elections with five nodes is too large to be checked completely.
- Several keys: stores apply one log, and keys do not interact.
- Part 2, two clients with one identity: `client.py` names its socket after its process
  id, so clients on different machines can have the same one, and the router drops one
  of them.  Clients in `GroupChat` have identities of their own.
- Part 3, a second session of one user at a time, which shares its queue.
- Late mappers on one machine (section 4).
- Stubs generated by protoc, `logger.py`, `main.py` beyond the restart it makes
  possible, makefiles and shell scripts.

## 9. Files

A model and its properties are in one module, and next to some definitions there is
a "mistaken variant": the definition as a plausible bug would have it.  The
project's manifest pairs each property with a variant under which TLC finds it
violated, so that no property holds for want of a way to fail.  `MC*.tla` and
`*.cfg` are the instances, each of which takes TLC at most a few minutes.
`*_proofs.tla` are the proofs.

Run `tlc -config raft_log.cfg MCRaft` for a check and `tlapm Raft_proofs.tla` for
a proof.

-------------------------- MODULE MapReduce_proofs --------------------------
(***************************************************************************)
(* Proofs for any numbers of tasks, mappers and reducers, whichever        *)
(* workers die or are late: the map tasks share out the points, the        *)
(* master's tables of tasks and of workers agree, and, when no late mapper *)
(* shares its files with another, the job is k-means (KMeans.tla).         *)
(***************************************************************************)
EXTENDS MapReduce, Clustering_proofs

\* The two tables of one phase agree, as in TasksMatchWorkers.
Match(Worker, Task, status, workers, call) ==
  /\ \A w \in Worker : workers[w] = "BUSY" <=> call[w] # None
  /\ \A t \in Task : status[t] = "RUNNING" <=> \E w \in Worker : call[w] = t
  /\ \A v, w \in Worker : call[v] = call[w] => v = w \/ call[v] = None

Tables(Worker, Task, status, workers, call) ==
  /\ status \in [Task -> TaskStatus]
  /\ workers \in [Worker -> WorkerStatus]
  /\ call \in [Worker -> Task \cup {None}]
  /\ Match(Worker, Task, status, workers, call)

MapTables == Tables(Mapper, MapTask, mapStatus, mapperStatus, mapCall)
ReduceTables == Tables(Reducer, ReduceTask, reduceStatus, reducerStatus, reduceCall)

\* The reply of every reduce task at work is awaited, and outside the reduce
\* phase there is none: a task table is only made anew when no call is open.
ReduceCallsInPhase ==
  /\ DOMAIN reduceRun = Reducer
  /\ \A w \in Reducer : reduceRun[w] # None => reduceCall[w] # None
  /\ phase # "reduce" => \A w \in Reducer : reduceCall[w] = None

IInv == MapTables /\ ReduceTables /\ ReduceCallsInPhase

-----------------------------------------------------------------------------
(***************************************************************************)
(* The pieces of the input                                                 *)
(***************************************************************************)

LEMMA TimesMonotone ==
  ASSUME NEW a \in Int, NEW b \in Int, NEW s \in Nat, a <= b
  PROVE  a * s <= b * s
<1>1. (b - a) * s >= 0
  OBVIOUS
<1>. QED
  BY <1>1

\* What math.ceil does in __init_clustering_params
LEMMA CeilingQuotient ==
  ASSUME NEW n \in Nat \ {0}, NEW m \in Nat \ {0}
  PROVE  /\ (n + m - 1) \div m \in Nat
         /\ (n + m - 1) \div m > 0
         /\ n <= m * ((n + m - 1) \div m)
<1> DEFINE a == n + m - 1
           q == a \div m
<1>1. a \in Int /\ a >= m
  OBVIOUS
<1>2. q \in Int /\ a = m * q + (a % m) /\ a % m \in 0..(m - 1)
  BY <1>1
<1>3. q > 0
  <2>1. SUFFICES ASSUME q <= 0 PROVE FALSE
    BY <1>2
  <2>2. m * q <= 0
    BY <1>2, <2>1
  <2>. QED
    BY <1>1, <1>2, <2>2
<1>. QED
  BY <1>2, <1>3

\* Every point of a file is in the piece of exactly one map task, and no piece is
\* empty, whatever the numbers of points and map tasks (start_idx, end_idx).
THEOREM EachPointOnce ==
  ASSUME NEW file \in Inputs
  PROVE  /\ \A i \in 1..Len(file) : \E t \in MapTask :
              i \in Split(file, t) /\ \A u \in MapTask : i \in Split(file, u) => u = t
         /\ \A t \in MapTask : Split(file, t) # {}
<1> DEFINE n == Len(file)
           s == SplitSize(file)
<1>1. n \in Nat \ {0} /\ M \in Nat \ {0}
  BY InputsAssumption, SizesAssumption, KAssumption
<1>2. s \in Nat /\ s > 0 /\ n <= M * s
  BY <1>1, CeilingQuotient DEF SplitSize
<1>3. (M - 1) * s < n
  BY InputsAssumption
<1>4. \A t \in MapTask, i \in 1..n :
        i \in Split(file, t) <=> t * s < i /\ i <= (t + 1) * s
  BY DEF Split
<1> HIDE DEF n, s
<1>5. ASSUME NEW i \in 1..n
      PROVE  \E t \in MapTask :
               i \in Split(file, t) /\ \A u \in MapTask : i \in Split(file, u) => u = t
  <2> DEFINE t == (i - 1) \div s
  <2>1. t \in Int /\ t * s <= i - 1 /\ i - 1 < (t + 1) * s
    <3>1. t \in Int /\ i - 1 = s * t + ((i - 1) % s) /\ (i - 1) % s \in 0..(s - 1)
      BY <1>1, <1>2
    <3>. QED
      BY <1>2, <3>1
  <2> HIDE DEF t
  <2>2. t >= 0
    <3>1. SUFFICES ASSUME t + 1 <= 0 PROVE FALSE
      BY <2>1
    <3>2. (t + 1) * s <= 0 * s
      BY <1>2, <2>1, <3>1, TimesMonotone
    <3>. QED
      BY <1>1, <1>2, <2>1, <3>2
  <2>3. t < M
    <3>1. SUFFICES ASSUME M <= t PROVE FALSE
      BY <1>1, <2>1
    <3>2. M * s <= t * s
      BY <1>1, <1>2, <2>1, <3>1, TimesMonotone
    <3>. QED
      BY <1>1, <1>2, <2>1, <3>2
  <2>4. t \in MapTask
    BY <1>1, <2>1, <2>2, <2>3 DEF MapTask
  <2>5. i \in Split(file, t)
    BY <1>1, <1>2, <1>4, <2>1, <2>4
  <2>6. ASSUME NEW u \in MapTask, i \in Split(file, u)
        PROVE  u = t
    <3>1. u \in Int /\ u * s < i /\ i <= (u + 1) * s
      BY <1>1, <1>4, <2>6 DEF MapTask
    <3>2. ~(u + 1 <= t)
      <4>1. SUFFICES ASSUME u + 1 <= t PROVE FALSE
        OBVIOUS
      <4>2. (u + 1) * s <= t * s
        BY <1>2, <2>1, <3>1, <4>1, TimesMonotone
      <4>. QED
        BY <1>1, <1>2, <2>1, <3>1, <4>2
    <3>3. ~(t + 1 <= u)
      <4>1. SUFFICES ASSUME t + 1 <= u PROVE FALSE
        OBVIOUS
      <4>2. (t + 1) * s <= u * s
        BY <1>2, <2>1, <3>1, <4>1, TimesMonotone
      <4>. QED
        BY <1>1, <1>2, <2>1, <3>1, <4>2
    <3>. QED
      BY <2>1, <3>1, <3>2, <3>3
  <2>. QED
    BY <2>4, <2>5, <2>6
<1>6. ASSUME NEW t \in MapTask
      PROVE  Split(file, t) # {}
  <2>1. t \in Int /\ t <= M - 1 /\ t >= 0
    BY <1>1 DEF MapTask
  <2>2. t * s <= (M - 1) * s
    BY <1>1, <1>2, <2>1, TimesMonotone
  <2>3. t * s \in Int /\ t * s >= 0 /\ (t + 1) * s = t * s + s
    BY <1>2, <2>1
  <2>4. (M - 1) * s \in Int
    BY <1>1, <1>2
  <2>5. t * s + 1 \in 1..n
    BY <1>1, <1>3, <2>2, <2>3, <2>4
  <2>. QED
    BY <1>2, <1>4, <2>3, <2>5
<1>. QED
  BY <1>5, <1>6 DEF n

-----------------------------------------------------------------------------
(***************************************************************************)
(* Steps of one pair of tables                                             *)
(***************************************************************************)

\* No two members of a finite set of numbers have the same place in it: the
\* first FREE worker is another one for each task of a round.
LEMMA RankInjective ==
  ASSUME NEW S \in SUBSET Nat, IsFiniteSet(S), NEW v \in S, NEW w \in S, Rank(v, S) = Rank(w, S)
  PROVE  v = w
<1>1. ASSUME NEW x \in S, NEW y \in S, x < y
      PROVE  Rank(x, S) # Rank(y, S)
  <2> DEFINE below(z) == {u \in S : u < z}
  <2>1. IsFiniteSet(below(y))
    BY FS_Subset
  <2>2. below(x) \subseteq below(y)
    <3>1. ASSUME NEW u \in S, u < x PROVE u < y
      BY <1>1, <3>1
    <3>. QED
      BY <3>1
  <2>3. x \in below(y) /\ x \notin below(x)
    BY <1>1
  <2>4. below(x) # below(y)
    BY <2>3
  <2>5. Cardinality(below(x)) # Cardinality(below(y))
    <3> HIDE DEF below
    <3>. QED
      BY <2>1, <2>2, <2>4, FS_Subset
  <2>. QED
    BY <2>5 DEF Rank
<1>2. ~(v < w) /\ ~(w < v)
  BY <1>1
<1>. QED
  BY <1>2

\* A round gives each worker of busy the task given to it, and no task to two
\* of them (__run_map, __run_reduce).
Assigned(Worker, Task, status, workers, call, busy, task, status1, workers1, call1) ==
  /\ busy \subseteq FreeWorkers(workers)
  /\ \A w \in busy : task[w] \in OpenTasks(status)
  /\ \A v, w \in busy : task[v] = task[w] => v = w
  /\ status1 = [t \in Task |-> IF \E w \in busy : task[w] = t THEN "RUNNING" ELSE status[t]]
  /\ workers1 = [w \in Worker |-> IF w \in busy THEN "BUSY" ELSE workers[w]]
  /\ call1 = [w \in Worker |-> IF w \in busy THEN task[w] ELSE call[w]]

LEMMA AssignTables ==
  ASSUME NEW Worker, NEW Task, NEW status, NEW workers, NEW call, NEW busy, NEW task,
         NEW status1, NEW workers1, NEW call1,
         None \notin Task,
         Tables(Worker, Task, status, workers, call),
         Assigned(Worker, Task, status, workers, call, busy, task, status1, workers1, call1)
  PROVE  Tables(Worker, Task, status1, workers1, call1)
<1>1. busy \subseteq Worker /\ \A w \in busy : workers[w] = "FREE" /\ call[w] = None
  BY DEF Assigned, FreeWorkers, Tables, Match
<1>2. \A w \in busy : task[w] \in Task /\ status[task[w]] # "RUNNING" /\ task[w] # None
  BY DEF Assigned, OpenTasks, Tables
<1>3. /\ status1 \in [Task -> TaskStatus]
      /\ workers1 \in [Worker -> WorkerStatus]
      /\ call1 \in [Worker -> Task \cup {None}]
  BY <1>2 DEF Assigned, Tables, TaskStatus, WorkerStatus
<1>4. \A w \in Worker : workers1[w] = "BUSY" <=> call1[w] # None
  BY <1>2 DEF Assigned, Tables, Match
<1>5. ASSUME NEW t \in Task
      PROVE  status1[t] = "RUNNING" <=> \E w \in Worker : call1[w] = t
  <2>1. CASE \E w \in busy : task[w] = t
    BY <2>1, <1>1 DEF Assigned
  <2>2. CASE ~ \E w \in busy : task[w] = t
    <3>1. status1[t] = "RUNNING" <=> \E w \in Worker : call[w] = t
      BY <2>2 DEF Assigned, Tables, Match
    <3>2. \A w \in Worker : call1[w] = t <=> call[w] = t
      BY <2>2, <1>1 DEF Assigned
    <3>. QED
      BY <3>1, <3>2
  <2>. QED
    BY <2>1, <2>2
<1>6. ASSUME NEW v \in Worker, NEW w \in Worker, call1[v] = call1[w], call1[v] # None
      PROVE  v = w
  <2>1. ASSUME NEW x \in busy, NEW y \in Worker \ busy, task[x] = call[y]
        PROVE  FALSE
    BY <2>1, <1>2 DEF Tables, Match
  <2>. QED
    BY <1>6, <2>1 DEF Assigned, Tables, Match
<1>7. Match(Worker, Task, status1, workers1, call1)
  BY <1>4, <1>5, <1>6 DEF Match
<1>. QED
  BY <1>3, <1>7 DEF Tables

\* The end of a call: its task is no longer RUNNING, its worker no longer BUSY.
Ended(w, status, workers, call, status1, workers1, call1) ==
  /\ call[w] # None
  /\ \E s \in TaskStatus \ {"RUNNING"} : status1 = [status EXCEPT ![call[w]] = s]
  /\ \E f \in WorkerStatus \ {"BUSY"} : workers1 = [workers EXCEPT ![w] = f]
  /\ call1 = [call EXCEPT ![w] = None]

LEMMA EndTables ==
  ASSUME NEW Worker, NEW Task, NEW status, NEW workers, NEW call, NEW w \in Worker,
         NEW status1, NEW workers1, NEW call1,
         None \notin Task,
         Tables(Worker, Task, status, workers, call),
         Ended(w, status, workers, call, status1, workers1, call1)
  PROVE  Tables(Worker, Task, status1, workers1, call1)
<1>a. PICK s \in TaskStatus \ {"RUNNING"} : status1 = [status EXCEPT ![call[w]] = s]
  BY DEF Ended
<1>b. PICK f \in WorkerStatus \ {"BUSY"} : workers1 = [workers EXCEPT ![w] = f]
  BY DEF Ended
<1>c. call[w] # None /\ call1 = [call EXCEPT ![w] = None]
  BY DEF Ended
<1>1. call[w] \in Task
  BY <1>a, <1>b, <1>c DEF Tables
<1>2. /\ status1 \in [Task -> TaskStatus]
      /\ workers1 \in [Worker -> WorkerStatus]
      /\ call1 \in [Worker -> Task \cup {None}]
  BY <1>a, <1>b, <1>c DEF Tables
<1>3. \A v \in Worker : workers1[v] = "BUSY" <=> call1[v] # None
  BY <1>a, <1>b, <1>c DEF Tables, Match
<1>4. \A t \in Task : status1[t] = "RUNNING" <=> \E v \in Worker : call1[v] = t
  <2>1. \A v \in Worker : call[v] = call[w] => v = w
    BY <1>a, <1>b, <1>c DEF Tables, Match
  <2>. QED
    BY <1>a, <1>c, <1>1, <2>1 DEF Tables, Match
<1>5. \A u, v \in Worker : call1[u] = call1[v] => u = v \/ call1[u] = None
  BY <1>a, <1>b, <1>c DEF Tables, Match
<1>. QED
  BY <1>2, <1>3, <1>4, <1>5 DEF Tables, Match
-----------------------------------------------------------------------------
(***************************************************************************)
(* The steps of the master                                                 *)
(***************************************************************************)

LEMMA InitIInv == Init => IInv
BY SizesAssumption DEF Init, IInv, MapTables, ReduceTables, ReduceCallsInPhase,
   Tables, Match, TaskStatus, WorkerStatus, MapTask, ReduceTask

LEMMA MapsUnchanged ==
  MapTables /\ UNCHANGED <<mapStatus, mapperStatus, mapCall>> => MapTables'
BY DEF MapTables, Tables, Match

LEMMA ReducesUnchanged ==
  ReduceTables /\ UNCHANGED <<reduceStatus, reducerStatus, reduceCall>> => ReduceTables'
BY DEF ReduceTables, Tables, Match

LEMMA AssignMapsIInv == IInv /\ AssignMaps => IInv'
<1> SUFFICES ASSUME IInv, AssignMaps PROVE IInv'
  OBVIOUS
<1>1. ReduceTables'
  BY ReducesUnchanged DEF IInv, AssignMaps, reduces
<1>2. ReduceCallsInPhase'
  BY DEF IInv, ReduceCallsInPhase, AssignMaps, reduces
<1>3. MapTables'
  <2>1. CASE \E k \in Key : centroids[1][k] = None
    BY <2>1, MapsUnchanged DEF IInv, AssignMaps, maps
  <2>2. CASE ~ \E k \in Key : centroids[1][k] = None
    <3> DEFINE tasks == OpenTasks(mapStatus)
               workers == FreeWorkers(mapperStatus)
               busy == {w \in workers : Given(w, tasks, workers) # {}}
               task == [w \in busy |-> CHOOSE t \in Given(w, tasks, workers) : TRUE]
    <3>1. tasks \subseteq Nat /\ workers \subseteq Nat /\ workers \subseteq Mapper
      <4>1. DOMAIN mapStatus = MapTask /\ DOMAIN mapperStatus = Mapper
        BY DEF IInv, MapTables, Tables
      <4>2. MapTask \subseteq Nat /\ Mapper \subseteq Nat
        BY SizesAssumption DEF MapTask
      <4>. QED
        BY <4>1, <4>2 DEF OpenTasks, FreeWorkers
    <3>2. IsFiniteSet(workers)
      BY <3>1, SizesAssumption, FS_Subset
    <3>3. \A w \in busy : task[w] \in tasks /\ Rank(task[w], tasks) = Rank(w, workers)
      BY DEF Given
    <3>4. \A v, w \in busy : task[v] = task[w] => v = w
      BY <3>1, <3>2, <3>3, RankInjective
    <3>5. /\ mapStatus' = [t \in MapTask |-> IF \E w \in busy : task[w] = t
                                             THEN "RUNNING" ELSE mapStatus[t]]
          /\ mapperStatus' = [w \in Mapper |-> IF w \in busy THEN "BUSY" ELSE mapperStatus[w]]
          /\ mapCall' = [w \in Mapper |-> IF w \in busy THEN task[w] ELSE mapCall[w]]
      BY <2>2 DEF AssignMaps
    <3>6. None \notin MapTask
      BY SizesAssumption
    <3> HIDE DEF tasks, workers, busy, task
    <3>7. busy \in SUBSET FreeWorkers(mapperStatus)
      BY DEF busy, workers
    <3>8. \A w \in busy : task[w] \in OpenTasks(mapStatus)
      BY <3>3 DEF tasks
    <3>9. Tables(Mapper, MapTask, mapStatus, mapperStatus, mapCall)
      BY DEF IInv, MapTables
    <3>10. Assigned(Mapper, MapTask, mapStatus, mapperStatus, mapCall, busy, task,
                    mapStatus', mapperStatus', mapCall')
      BY <3>4, <3>5, <3>7, <3>8 DEF Assigned
    <3>. QED
      BY <3>6, <3>9, <3>10, AssignTables DEF MapTables
  <2>. QED
    BY <2>1, <2>2
<1>. QED
  BY <1>1, <1>2, <1>3 DEF IInv

LEMMA StartReduceIInv == IInv /\ StartReduce => IInv'
<1> SUFFICES ASSUME IInv, StartReduce PROVE IInv'
  OBVIOUS
<1>1. \A w \in Mapper : mapCall[w] = None
  BY DEF IInv, MapTables, Tables, Match, StartReduce, AllCompleted
<1>2. MapTables'
  BY <1>1, SizesAssumption DEF IInv, MapTables, Tables, Match, StartReduce, TaskStatus
<1>3. \A w \in Reducer : reduceCall[w] = None
  BY DEF IInv, ReduceCallsInPhase, StartReduce
<1>4. ReduceTables'
  BY <1>3, SizesAssumption DEF IInv, ReduceTables, Tables, Match, StartReduce, TaskStatus
<1>5. ReduceCallsInPhase'
  BY DEF IInv, ReduceCallsInPhase, StartReduce
<1>. QED
  BY <1>2, <1>4, <1>5 DEF IInv

LEMMA AssignReducesIInv == IInv /\ AssignReduces => IInv'
<1> SUFFICES ASSUME IInv, AssignReduces PROVE IInv'
  OBVIOUS
<1> DEFINE tasks == OpenTasks(reduceStatus)
           workers == FreeWorkers(reducerStatus)
           busy == {w \in workers : Given(w, tasks, workers) # {}}
           task == [w \in busy |-> CHOOSE r \in Given(w, tasks, workers) : TRUE]
<1>1. tasks \subseteq Nat /\ workers \subseteq Nat /\ workers \subseteq Reducer
  <2>1. DOMAIN reduceStatus = ReduceTask /\ DOMAIN reducerStatus = Reducer
    BY DEF IInv, ReduceTables, Tables
  <2>2. ReduceTask \subseteq Nat /\ Reducer \subseteq Nat
    BY SizesAssumption DEF ReduceTask
  <2>. QED
    BY <2>1, <2>2 DEF OpenTasks, FreeWorkers
<1>2. IsFiniteSet(workers)
  BY <1>1, SizesAssumption, FS_Subset
<1>3. \A w \in busy : task[w] \in tasks /\ Rank(task[w], tasks) = Rank(w, workers)
  BY DEF Given
<1>4. \A v, w \in busy : task[v] = task[w] => v = w
  BY <1>1, <1>2, <1>3, RankInjective
<1>5. /\ reduceStatus' = [r \in ReduceTask |-> IF \E w \in busy : task[w] = r
                                              THEN "RUNNING" ELSE reduceStatus[r]]
      /\ reducerStatus' = [w \in Reducer |-> IF w \in busy THEN "BUSY" ELSE reducerStatus[w]]
      /\ reduceCall' = [w \in Reducer |-> IF w \in busy THEN task[w] ELSE reduceCall[w]]
  <2>1. reduceStatus' = [r \in ReduceTask |-> IF \E w \in busy : task[w] = r
                                             THEN "RUNNING" ELSE reduceStatus[r]]
    BY DEF AssignReduces
  <2>2. reducerStatus' = [w \in Reducer |-> IF w \in busy THEN "BUSY" ELSE reducerStatus[w]]
    BY DEF AssignReduces
  <2>3. reduceCall' = [w \in Reducer |-> IF w \in busy THEN task[w] ELSE reduceCall[w]]
    BY DEF AssignReduces
  <2>. QED
    BY <2>1, <2>2, <2>3
<1>6. None \notin ReduceTask
  BY SizesAssumption
<1>7. \A w \in busy : task[w] \in ReduceTask
  BY <1>3 DEF OpenTasks, IInv, ReduceTables, Tables
<1>8. /\ phase' = "reduce" /\ DOMAIN reduceRun' = Reducer
      /\ \A w \in Reducer \ busy : reduceRun'[w] = reduceRun[w]
  BY DEF AssignReduces, master
<1>9. MapTables'
  BY MapsUnchanged DEF IInv, AssignReduces, maps
<1> HIDE DEF tasks, workers, busy, task
<1>10. ReduceCallsInPhase'
  BY <1>5, <1>6, <1>7, <1>8 DEF IInv, ReduceCallsInPhase
<1>11. busy \in SUBSET FreeWorkers(reducerStatus)
  BY DEF busy, workers
<1>12. \A w \in busy : task[w] \in OpenTasks(reduceStatus)
  BY <1>3 DEF tasks
<1>13. ReduceTables'
  <2>1. Tables(Reducer, ReduceTask, reduceStatus, reducerStatus, reduceCall)
    BY DEF IInv, ReduceTables
  <2>2. Assigned(Reducer, ReduceTask, reduceStatus, reducerStatus, reduceCall, busy, task,
                 reduceStatus', reducerStatus', reduceCall')
    BY <1>4, <1>5, <1>11, <1>12 DEF Assigned
  <2>. QED
    BY <1>6, <2>1, <2>2, AssignTables DEF ReduceTables
<1>. QED
  BY <1>9, <1>10, <1>13 DEF IInv

LEMMA EndIterationIInv == IInv /\ EndIteration => IInv'
<1> SUFFICES ASSUME IInv, EndIteration PROVE IInv'
  OBVIOUS
<1>1. MapTables' /\ ReduceTables'
  BY MapsUnchanged, ReducesUnchanged DEF IInv, EndIteration, maps, reduces
<1>2. \A w \in Reducer : reduceCall[w] = None
  BY DEF IInv, ReduceTables, Tables, Match, EndIteration, AllCompleted
<1>3. ReduceCallsInPhase'
  BY <1>2 DEF IInv, ReduceCallsInPhase, EndIteration, reduces
<1>. QED
  BY <1>1, <1>3 DEF IInv

-----------------------------------------------------------------------------
(***************************************************************************)
(* The steps of calls and handlers                                         *)
(***************************************************************************)

LEMMA NoneNoTask == None \notin MapTask /\ None \notin ReduceTask
BY SizesAssumption

LEMMA MapReplyIInv ==
  ASSUME IInv, NEW w \in Mapper, NEW success \in BOOLEAN, MapReply(w, success)
  PROVE  IInv'
<1>1. ReduceTables' /\ ReduceCallsInPhase'
  BY ReducesUnchanged DEF IInv, ReduceCallsInPhase, MapReply, reduces, master
<1>2. MapTables'
  <2>1. CASE mapCall[w] = None
    <3>1. mapCall' = mapCall
      BY <2>1 DEF MapReply, IInv, MapTables, Tables
    <3>. QED
      BY <2>1, <3>1, MapsUnchanged DEF IInv, MapReply
  <2>2. CASE mapCall[w] # None
    <3>1. Ended(w, mapStatus, mapperStatus, mapCall, mapStatus', mapperStatus', mapCall')
      BY <2>2 DEF MapReply, Ended, TaskStatus, WorkerStatus
    <3>. QED
      BY <3>1, NoneNoTask, EndTables DEF IInv, MapTables
  <2>. QED
    BY <2>1, <2>2
<1>. QED
  BY <1>1, <1>2 DEF IInv

LEMMA MapCallFailsIInv ==
  ASSUME IInv, NEW w \in Mapper, MapCallFails(w)
  PROVE  IInv'
<1>1. ReduceTables' /\ ReduceCallsInPhase'
  BY ReducesUnchanged DEF IInv, ReduceCallsInPhase, MapCallFails, reduces, master
<1>2. Ended(w, mapStatus, mapperStatus, mapCall, mapStatus', mapperStatus', mapCall')
  BY DEF MapCallFails, Ended, TaskStatus, WorkerStatus
<1>3. MapTables'
  BY <1>2, NoneNoTask, EndTables DEF IInv, MapTables
<1>. QED
  BY <1>1, <1>3 DEF IInv

\* What goes on inside a mapper is nothing to the tables.
LEMMA MapperStepIInv ==
  ASSUME IInv, NEW w \in Mapper, OpenPartition(w) \/ ClosePartition(w) \/ MapperDies(w)
  PROVE  IInv'
<1>1. UNCHANGED <<master, mapStatus, mapperStatus, mapCall, reduces>>
  BY DEF OpenPartition, ClosePartition, MapperDies
<1>. QED
  BY <1>1, MapsUnchanged, ReducesUnchanged DEF IInv, ReduceCallsInPhase, reduces, master

\* Nor what goes on inside a reducer, which never begins a task by itself.
LEMMA ReducerStepIInv ==
  ASSUME IInv, NEW w \in Reducer, Fetch(w) \/ ReducerDies(w)
  PROVE  IInv'
<1>1. UNCHANGED <<master, mapStatus, mapperStatus, mapCall, reduceStatus, reducerStatus, reduceCall>>
  BY DEF Fetch, ReducerDies, maps
<1>2. /\ DOMAIN reduceRun' = DOMAIN reduceRun
      /\ \A v \in Reducer : reduceRun'[v] # None => reduceRun[v] # None
  BY DEF Fetch, ReducerDies, IInv, ReduceCallsInPhase
<1>. QED
  BY <1>1, <1>2, MapsUnchanged, ReducesUnchanged DEF IInv, ReduceCallsInPhase, master

\* A reduce call of w ends with what it runs.
LEMMA ReduceEnds ==
  ASSUME IInv, NEW w \in Reducer,
         Ended(w, reduceStatus, reducerStatus, reduceCall, reduceStatus', reducerStatus', reduceCall'),
         DOMAIN reduceRun' = Reducer, reduceRun'[w] = None,
         \A v \in Reducer \ {w} : reduceRun'[v] = reduceRun[v],
         UNCHANGED <<phase, mapStatus, mapperStatus, mapCall>>
  PROVE  IInv'
<1>1. MapTables'
  BY MapsUnchanged DEF IInv
<1>2. ReduceTables'
  BY NoneNoTask, EndTables DEF IInv, ReduceTables
<1>3. reduceCall' = [reduceCall EXCEPT ![w] = None] /\ DOMAIN reduceCall = Reducer
  BY DEF Ended, IInv, ReduceTables, Tables
<1>4. ReduceCallsInPhase'
  BY <1>3 DEF IInv, ReduceCallsInPhase
<1>. QED
  BY <1>1, <1>2, <1>4 DEF IInv

LEMMA ReduceReplyIInv ==
  ASSUME IInv, NEW w \in Reducer, NEW success \in BOOLEAN, ReduceReply(w, success)
  PROVE  IInv'
<1>1. reduceCall[w] # None
  BY DEF IInv, ReduceCallsInPhase, ReduceReply
<1>2. Ended(w, reduceStatus, reducerStatus, reduceCall, reduceStatus', reducerStatus', reduceCall')
  BY <1>1 DEF ReduceReply, Ended, TaskStatus, WorkerStatus
<1>3. reduceRun' = [reduceRun EXCEPT ![w] = None] /\ DOMAIN reduceRun = Reducer
  BY DEF ReduceReply, IInv, ReduceCallsInPhase
<1>4. UNCHANGED <<phase, mapStatus, mapperStatus, mapCall>>
  BY DEF ReduceReply, maps
<1>. QED
  BY <1>2, <1>3, <1>4, ReduceEnds

LEMMA ReduceCallFailsIInv ==
  ASSUME IInv, NEW w \in Reducer, ReduceCallFails(w)
  PROVE  IInv'
<1>1. Ended(w, reduceStatus, reducerStatus, reduceCall, reduceStatus', reducerStatus', reduceCall')
  BY DEF ReduceCallFails, Ended, TaskStatus, WorkerStatus
<1>2. reduceRun' = reduceRun /\ reduceRun[w] = None /\ DOMAIN reduceRun = Reducer
  BY DEF ReduceCallFails, IInv, ReduceCallsInPhase
<1>3. UNCHANGED <<phase, mapStatus, mapperStatus, mapCall>>
  BY DEF ReduceCallFails, maps, master
<1>. QED
  BY <1>1, <1>2, <1>3, ReduceEnds

-----------------------------------------------------------------------------
LEMMA NextIInv == IInv /\ [Next]_vars => IInv'
<1> SUFFICES ASSUME IInv, [Next]_vars PROVE IInv'
  OBVIOUS
<1>1. CASE AssignMaps
  BY <1>1, AssignMapsIInv
<1>2. CASE StartReduce
  BY <1>2, StartReduceIInv
<1>3. CASE AssignReduces
  BY <1>3, AssignReducesIInv
<1>4. CASE EndIteration
  BY <1>4, EndIterationIInv
<1>5. CASE \E w \in Mapper : OpenPartition(w) \/ ClosePartition(w) \/ MapperDies(w)
  BY <1>5, MapperStepIInv
<1>6. CASE \E w \in Mapper, success \in BOOLEAN : MapReply(w, success)
  BY <1>6, MapReplyIInv
<1>7. CASE \E w \in Mapper : MapCallFails(w)
  BY <1>7, MapCallFailsIInv
<1>8. CASE \E w \in Reducer : Fetch(w) \/ ReducerDies(w)
  BY <1>8, ReducerStepIInv
<1>9. CASE \E w \in Reducer, success \in BOOLEAN : ReduceReply(w, success)
  BY <1>9, ReduceReplyIInv
<1>10. CASE \E w \in Reducer : ReduceCallFails(w)
  BY <1>10, ReduceCallFailsIInv
<1>11. CASE UNCHANGED vars
  BY <1>11, MapsUnchanged, ReducesUnchanged
  DEF vars, master, maps, reduces, IInv, ReduceCallsInPhase
<1>. QED
  BY <1>1, <1>2, <1>3, <1>4, <1>5, <1>6, <1>7, <1>8, <1>9, <1>10, <1>11 DEF Next

\* In every reachable state of a job of any size the master's tables agree:
\* no task is with two workers that count, none is RUNNING with nobody, and no
\* worker stays BUSY with nothing (__run_map, __submit_map_task and their like).
THEOREM TablesAgree == Spec => []TasksMatchWorkers
<1>1. IInv => TasksMatchWorkers
  BY Zenon DEF IInv, MapTables, ReduceTables, Tables, Match, TasksMatchWorkers
<1>. QED
  BY <1>1, InitIInv, NextIInv, PTL DEF Spec

-----------------------------------------------------------------------------
(***************************************************************************)
(* Type correctness                                                        *)
(***************************************************************************)

\* What of TypeOK is not in IInv
MasterTyped ==
  /\ points \in Inputs
  /\ phase \in {"map", "reduce", "done", "failed"}
  /\ centroids \in Seq([Key -> Point \cup {None}]) /\ centroids # <<>>
  /\ new_centroids \in [Key -> Point \cup {None}]
MapsTyped ==
  /\ mapper_id \in [MapTask -> Mapper \cup {None}]
  /\ alive \subseteq Mapper
  /\ mapRun \in [Mapper -> MapRun \cup {None}]
  /\ files \in [Host -> [MapTask -> [ReduceTask -> SUBSET Data]]]
ReducesTyped ==
  /\ mapper_address \in [MapTask -> Mapper \cup {None}]
  /\ reduceRun \in [Reducer -> ReduceRun \cup {None}]

\* Who writes has a partition to write and is alive.
RunsUseful ==
  \A w \in Mapper : mapRun[w] # None => w \in alive /\ (mapRun[w].opened => mapRun[w].part < R)

TypeInv == MasterTyped /\ MapsTyped /\ ReducesTyped /\ RunsUseful

LEMMA PointsFile ==
  ASSUME points \in Inputs
  PROVE  points \in File /\ Len(points) \in Nat /\ Len(points) >= K
         /\ \A i \in 1..Len(points) : points[i] \in Point
BY InputsAssumption DEF File, Point

\* What partition_points writes
LEMMA PartitionMembers ==
  ASSUME points \in Inputs, NEW t \in MapTask, NEW r \in ReduceTask, NEW cs \in [Key -> Point]
  PROVE  /\ Partition(points, t, r, cs) \in SUBSET Data
         /\ \A i, k : <<i, k>> \in Partition(points, t, r, cs) <=>
              i \in Split(points, t) /\ Closest(points[i], cs) = k /\ k % R = r
<1>1. \A i \in Split(points, t) : i \in 1..Len(points) /\ i \in Nat /\ points[i] \in Point
  BY PointsFile DEF Split
<1>2. \A i \in Split(points, t) : Closest(points[i], cs) \in Key
  BY <1>1, ClosestIsLeast
<1>. QED
  BY <1>1, <1>2 DEF Partition, Data

LEMMA TypeInit == Init => TypeInv
<1> SUFFICES ASSUME Init PROVE TypeInv
  OBVIOUS
<1>1. points \in Inputs
  BY DEF Init
<1>2. \A k \in Key : k + 1 \in 1..Len(points)
  BY <1>1, PointsFile, KAssumption DEF Key
<1>3. [k \in Key |-> points[k + 1]] \in [Key -> Point \cup {None}]
  BY <1>1, <1>2, PointsFile
<1>4. MasterTyped
  BY <1>1, <1>3 DEF Init, MasterTyped
<1>5. MapsTyped /\ ReducesTyped /\ RunsUseful
  BY DEF Init, MapsTyped, ReducesTyped, RunsUseful
<1>. QED
  BY <1>4, <1>5 DEF TypeInv

LEMMA AssignMapsType == IInv /\ TypeInv /\ AssignMaps => TypeInv'
<1> SUFFICES ASSUME IInv, TypeInv, AssignMaps PROVE TypeInv'
  OBVIOUS
<1>1. /\ MasterTyped' /\ ReducesTyped'
  BY DEF TypeInv, MasterTyped, ReducesTyped, AssignMaps, reduces
<1>2. CASE \E k \in Key : centroids[1][k] = None
  BY <1>1, <1>2 DEF TypeInv, MapsTyped, RunsUseful, AssignMaps, maps
<1>3. CASE ~ \E k \in Key : centroids[1][k] = None
  <2> DEFINE tasks == OpenTasks(mapStatus)
             workers == FreeWorkers(mapperStatus)
             busy == {w \in workers : Given(w, tasks, workers) # {}}
             task == [w \in busy |-> CHOOSE t \in Given(w, tasks, workers) : TRUE]
  <2>1. \A w \in busy : task[w] \in MapTask
    BY DEF Given, OpenTasks, IInv, MapTables, Tables
  <2>2. centroids[1] \in [Key -> Point]
    <3>1. centroids[1] \in [Key -> Point \cup {None}]
      BY DEF TypeInv, MasterTyped
    <3>. QED
      BY <1>3, <3>1
  <2>3. mapRun' = [w \in Mapper |->
                   IF w \in busy /\ w \in alive
                   THEN [task |-> task[w], centroids |-> centroids[1], part |-> 0, opened |-> FALSE]
                   ELSE mapRun[w]]
    BY <1>3 DEF AssignMaps
  <2>4. UNCHANGED <<mapper_id, alive, files>>
    BY <1>3 DEF AssignMaps
  <2> HIDE DEF tasks, workers, busy, task
  <2>5. \A w \in busy :
          [task |-> task[w], centroids |-> centroids[1], part |-> 0, opened |-> FALSE] \in MapRun
    BY <2>1, <2>2, SizesAssumption DEF MapRun, Point
  <2>6. MapsTyped'
    BY <2>3, <2>4, <2>5 DEF TypeInv, MapsTyped
  <2>7. RunsUseful'
    BY <2>3, <2>4 DEF TypeInv, RunsUseful
  <2>. QED
    BY <1>1, <2>6, <2>7 DEF TypeInv
<1>. QED
  BY <1>2, <1>3

LEMMA StartReduceType == TypeInv /\ StartReduce => TypeInv'
BY DEF TypeInv, MasterTyped, MapsTyped, ReducesTyped, RunsUseful, StartReduce

LEMMA AssignReducesType == IInv /\ TypeInv /\ AssignReduces => TypeInv'
<1> SUFFICES ASSUME IInv, TypeInv, AssignReduces PROVE TypeInv'
  OBVIOUS
<1>1. MasterTyped' /\ MapsTyped' /\ RunsUseful'
  BY DEF TypeInv, MasterTyped, MapsTyped, RunsUseful, AssignReduces, master, maps
<1> DEFINE tasks == OpenTasks(reduceStatus)
           workers == FreeWorkers(reducerStatus)
           busy == {w \in workers : Given(w, tasks, workers) # {}}
           task == [w \in busy |-> CHOOSE r \in Given(w, tasks, workers) : TRUE]
<1>2. \A w \in busy : task[w] \in ReduceTask
  BY DEF Given, OpenTasks, IInv, ReduceTables, Tables
<1>3. reduceRun' = [w \in Reducer |-> IF w \in busy THEN [task |-> task[w], next |-> 0, data |-> {}]
                                      ELSE reduceRun[w]]
  BY DEF AssignReduces
<1>4. mapper_address' = mapper_address
  BY DEF AssignReduces
<1> HIDE DEF tasks, workers, busy, task
<1>5. \A w \in busy : [task |-> task[w], next |-> 0, data |-> {}] \in ReduceRun
  BY <1>2, SizesAssumption DEF ReduceRun
<1>6. ReducesTyped'
  BY <1>3, <1>4, <1>5 DEF TypeInv, ReducesTyped
<1>. QED
  BY <1>1, <1>6 DEF TypeInv

LEMMA EndIterationType == TypeInv /\ EndIteration => TypeInv'
<1> SUFFICES ASSUME TypeInv, EndIteration PROVE TypeInv'
  OBVIOUS
<1>1. centroids' \in Seq([Key -> Point \cup {None}]) /\ centroids' # <<>>
  BY DEF TypeInv, MasterTyped, EndIteration
<1>2. MasterTyped'
  BY <1>1 DEF TypeInv, MasterTyped, EndIteration
<1>3. MapsTyped' /\ ReducesTyped' /\ RunsUseful'
  BY DEF TypeInv, MapsTyped, ReducesTyped, RunsUseful, EndIteration, maps, reduces
<1>. QED
  BY <1>2, <1>3 DEF TypeInv

LEMMA RunOfMapper ==
  ASSUME TypeInv, NEW w \in Mapper, mapRun[w] # None
  PROVE  mapRun[w] \in MapRun /\ HostOf[w] \in Host
BY SizesAssumption DEF TypeInv, MapsTyped

LEMMA MapStepsType ==
  ASSUME TypeInv, NEW w \in Mapper,
         \/ OpenPartition(w) \/ ClosePartition(w) \/ MapCallFails(w) \/ MapperDies(w)
         \/ \E success \in BOOLEAN : MapReply(w, success)
  PROVE  TypeInv'
<1>1. MasterTyped' /\ ReducesTyped'
  BY DEF TypeInv, MasterTyped, ReducesTyped, OpenPartition, ClosePartition, MapCallFails, MapperDies,
     MapReply, master, reduces
<1>2. CASE OpenPartition(w)
  <2>1. mapRun[w] \in MapRun /\ HostOf[w] \in Host
    BY <1>2, RunOfMapper DEF OpenPartition
  <2>2. mapRun[w].task \in MapTask /\ mapRun[w].part \in 0..R
    BY <2>1 DEF MapRun
  <2>3. [mapRun[w] EXCEPT !.opened = TRUE] \in MapRun
    BY <2>1 DEF MapRun
  <2>4. mapRun' \in [Mapper -> MapRun \cup {None}]
    BY <1>2, <2>3 DEF OpenPartition, TypeInv, MapsTyped
  <2>5. files' \in [Host -> [MapTask -> [ReduceTask -> SUBSET Data]]]
    BY <1>2, <2>1, <2>2 DEF OpenPartition, TypeInv, MapsTyped
  <2>6. RunsUseful'
    <3>1. mapRun'[w].opened => mapRun'[w].part < R
      BY <1>2, <2>1 DEF OpenPartition, PartitionsLeft, TypeInv, MapsTyped, MapRun
    <3>. QED
      BY <1>2, <3>1 DEF OpenPartition, TypeInv, MapsTyped, RunsUseful
  <2>. QED
    BY <1>1, <1>2, <2>4, <2>5, <2>6 DEF OpenPartition, TypeInv, MapsTyped
<1>3. CASE ClosePartition(w)
  <2>1. mapRun[w] \in MapRun /\ HostOf[w] \in Host
    BY <1>3, RunOfMapper DEF ClosePartition
  <2>2. /\ mapRun[w].task \in MapTask /\ mapRun[w].part \in Nat /\ mapRun[w].part < R
        /\ mapRun[w].centroids \in [Key -> Point]
    BY <1>3, <2>1 DEF MapRun, ClosePartition, TypeInv, RunsUseful, Point
  <2>3. [mapRun[w] EXCEPT !.opened = FALSE, !.part = @ + 1] \in MapRun
    <3>1. mapRun[w].part + 1 \in 0..R /\ mapRun[w].part \in ReduceTask
      BY <2>2, SizesAssumption DEF ReduceTask
    <3>. QED
      BY <2>1, <3>1 DEF MapRun
  <2>4. mapRun' = [mapRun EXCEPT ![w] = [mapRun[w] EXCEPT !.opened = FALSE, !.part = @ + 1]]
    BY <1>3, <2>1 DEF ClosePartition, TypeInv, MapsTyped, MapRun
  <2>5. mapRun' \in [Mapper -> MapRun \cup {None}]
    BY <2>3, <2>4 DEF TypeInv, MapsTyped
  <2>6. Partition(points, mapRun[w].task, mapRun[w].part, mapRun[w].centroids) \in SUBSET Data
    <3>1. mapRun[w].part \in ReduceTask
      BY <2>2, SizesAssumption DEF ReduceTask
    <3>. QED
      BY <2>2, <3>1, PartitionMembers DEF TypeInv, MasterTyped
  <2>7. files' \in [Host -> [MapTask -> [ReduceTask -> SUBSET Data]]]
    BY <1>3, <2>1, <2>2, <2>6 DEF ClosePartition, TypeInv, MapsTyped
  <2>8. RunsUseful'
    <3>1. ~mapRun'[w].opened
      BY <2>1, <2>4 DEF TypeInv, MapsTyped, MapRun
    <3>. QED
      BY <1>3, <2>4, <3>1 DEF ClosePartition, TypeInv, MapsTyped, RunsUseful
  <2>. QED
    BY <1>1, <1>3, <2>5, <2>7, <2>8 DEF ClosePartition, TypeInv, MapsTyped
<1>4. CASE MapCallFails(w) \/ MapperDies(w)
  BY <1>1, <1>4 DEF MapCallFails, MapperDies, TypeInv, MapsTyped, RunsUseful
<1>5. CASE \E success \in BOOLEAN : MapReply(w, success)
  <2>1. mapper_id' \in [MapTask -> Mapper \cup {None}]
    BY <1>5 DEF MapReply, TypeInv, MapsTyped
  <2>. QED
    BY <1>1, <1>5, <2>1 DEF MapReply, TypeInv, MapsTyped, RunsUseful
<1>. QED
  BY <1>2, <1>3, <1>4, <1>5

LEMMA ReduceStepsType ==
  ASSUME IInv, TypeInv, NEW w \in Reducer,
         \/ Fetch(w) \/ ReduceCallFails(w) \/ ReducerDies(w)
         \/ \E success \in BOOLEAN : ReduceReply(w, success)
  PROVE  TypeInv'
<1>1. MapsTyped' /\ RunsUseful'
  BY DEF TypeInv, MapsTyped, RunsUseful, Fetch, ReduceCallFails, ReducerDies, ReduceReply, maps
<1>2. CASE Fetch(w)
  <2>1. reduceRun[w] \in ReduceRun /\ reduceRun[w].next < M
    BY <1>2 DEF Fetch, TypeInv, ReducesTyped
  <2> DEFINE t == reduceRun[w].next
             from == mapper_address[t]
             got == files[HostOf[from]][t][reduceRun[w].task]
  <2>2. t \in MapTask /\ t + 1 \in 0..M /\ reduceRun[w].task \in ReduceTask
    BY <2>1, SizesAssumption DEF ReduceRun, MapTask
  <2>3. from \in alive => got \in SUBSET Data
    <3>1. from \in alive => HostOf[from] \in Host
      BY SizesAssumption DEF TypeInv, MapsTyped
    <3> HIDE DEF from, t
    <3>. QED
      BY <2>2, <3>1 DEF TypeInv, MapsTyped
  <2> DEFINE run == IF from \in alive
                    THEN [task |-> reduceRun[w].task, next |-> t + 1, data |-> reduceRun[w].data \cup got]
                    ELSE None
  <2>4. reduceRun' = [reduceRun EXCEPT ![w] = run]
    BY <1>2 DEF Fetch
  <2> HIDE DEF from, got, t
  <2>5. run \in ReduceRun \cup {None}
    BY <2>1, <2>2, <2>3 DEF ReduceRun
  <2> HIDE DEF run
  <2>6. reduceRun' \in [Reducer -> ReduceRun \cup {None}]
    BY <2>4, <2>5 DEF TypeInv, ReducesTyped
  <2>7. ReducesTyped'
    BY <1>2, <2>6 DEF Fetch, TypeInv, ReducesTyped
  <2>. QED
    BY <1>1, <1>2, <2>7 DEF Fetch, TypeInv, MasterTyped, master
<1>3. CASE ReduceCallFails(w) \/ ReducerDies(w)
  BY <1>1, <1>3 DEF ReduceCallFails, ReducerDies, TypeInv, MasterTyped, ReducesTyped, master
<1>4. CASE \E success \in BOOLEAN : ReduceReply(w, success)
  <2>1. \A k : /\ Members(reduceRun[w], k) \in SUBSET (1..Len(points))
               /\ IsFiniteSet(Members(reduceRun[w], k))
    <3>1. IsFiniteSet(1..Len(points))
      BY PointsFile, FS_Interval DEF TypeInv, MasterTyped
    <3>2. \A k : Members(reduceRun[w], k) \in SUBSET (1..Len(points))
      BY DEF Members
    <3>. QED
      BY <3>1, <3>2, FS_Subset
  <2>2. \A k : Members(reduceRun[w], k) # {} => Mean(points, Members(reduceRun[w], k)) \in Point
    BY <2>1, PointsFile, MeanIsPoint DEF TypeInv, MasterTyped
  <2>3. new_centroids' \in [Key -> Point \cup {None}]
    BY <1>4, <2>2 DEF ReduceReply, TypeInv, MasterTyped
  <2>. QED
    BY <1>1, <1>4, <2>3 DEF ReduceReply, TypeInv, MasterTyped, ReducesTyped
<1>. QED
  BY <1>2, <1>3, <1>4

LEMMA TypeStep == IInv /\ TypeInv /\ [Next]_vars => TypeInv'
<1> SUFFICES ASSUME IInv, TypeInv, [Next]_vars PROVE TypeInv'
  OBVIOUS
<1>1. CASE AssignMaps \/ StartReduce \/ AssignReduces \/ EndIteration
  BY <1>1, AssignMapsType, StartReduceType, AssignReducesType, EndIterationType
<1>2. CASE \E w \in Mapper : \/ OpenPartition(w) \/ ClosePartition(w) \/ MapCallFails(w) \/ MapperDies(w)
                             \/ \E success \in BOOLEAN : MapReply(w, success)
  BY <1>2, MapStepsType
<1>3. CASE \E w \in Reducer : \/ Fetch(w) \/ ReduceCallFails(w) \/ ReducerDies(w)
                              \/ \E success \in BOOLEAN : ReduceReply(w, success)
  BY <1>3, ReduceStepsType
<1>4. CASE UNCHANGED vars
  BY <1>4 DEF vars, master, maps, reduces, TypeInv, MasterTyped, MapsTyped, ReducesTyped, RunsUseful
<1>. QED
  BY <1>1, <1>2, <1>3, <1>4 DEF Next

\* Every field of the master and of the handlers keeps its type, whatever fails
\* and however late: no task or worker is looked up that does not exist, no run
\* is given a centroid that is None, and every mean is a pair of numbers.
THEOREM TypeCorrect == Spec => []TypeOK
<1>1. IInv /\ TypeInv => TypeOK
  BY DEF IInv, MapTables, ReduceTables, Tables, TypeInv, MasterTyped, MapsTyped, ReducesTyped, TypeOK, Point
<1>. QED
  BY <1>1, InitIInv, NextIInv, TypeInit, TypeStep, PTL DEF Spec

-----------------------------------------------------------------------------
(***************************************************************************)
(* What the phases of an iteration hand to each other.  A mapper that is   *)
(* late goes on writing, so this needs that it shares its files with no    *)
(* other mapper.                                                           *)
(***************************************************************************)

LateApart == \A v \in Late, w \in Mapper : HostOf[v] = HostOf[w] => v = w

\* Every cluster has a centroid.
AllSet == \A k \in Key : centroids[1][k] # None

\* The file of map task t for partition r on host h is whole and of this iteration.
WholeFile(h, t, r) == files[h][t][r] = Partition(points, t, r, centroids[1])

\* The master waits for what w does ...
Awaited(w) ==
  /\ mapCall[w] = mapRun[w].task /\ mapRun[w].centroids = centroids[1]
  /\ \A r \in ReduceTask : r < mapRun[w].part => WholeFile(HostOf[w], mapRun[w].task, r)

\* ... or has given it up.
Stray(w) == w \in Late /\ mapCall[w] = None /\ mapperStatus[w] = "DEAD"

RunsKnown == \A w \in Mapper : mapRun[w] # None => Awaited(w) \/ Stray(w)

MapPhase ==
  /\ phase # "map" => /\ \A w \in Mapper : mapCall[w] = None
                      /\ \A t \in MapTask : mapStatus[t] = "PENDING"
  /\ phase = "map" /\ (\E t \in MapTask : mapStatus[t] # "PENDING") => AllSet
  /\ phase = "reduce" => AllSet
  /\ phase = "failed" => ~AllSet

\* w has done map task t and does not write to its files.
Done(w, t) ==
  /\ w \in Mapper
  /\ \A r \in ReduceTask : WholeFile(HostOf[w], t, r)
  /\ mapRun[w] # None => mapRun[w].task # t

OutputsKept ==
  /\ phase = "map" => \A t \in MapTask : mapStatus[t] = "COMPLETED" => Done(mapper_id[t], t)
  /\ phase = "reduce" => \A t \in MapTask : Done(mapper_address[t], t)

\* What a reducer has read is what the map tasks up to there made of the points.
ReducersRead ==
  \A w \in Reducer : reduceRun[w] # None =>
    /\ reduceRun[w].task = reduceCall[w]
    /\ reduceRun[w].data = UNION {Partition(points, t, reduceRun[w].task, centroids[1]) :
                                    t \in 0..(reduceRun[w].next - 1)}

\* What new_centroids was when the reduce phase began, and what it is at its end
Base == IF Len(centroids) = 1 THEN [k \in Key |-> None] ELSE centroids[1]
Means == [k \in Key |-> IF Cluster(points, centroids[1], k) = {} THEN Base[k]
                        ELSE Mean(points, Cluster(points, centroids[1], k))]

NewCentroids ==
  /\ phase # "reduce" => new_centroids = Base
  /\ phase = "reduce" =>
       \A k \in Key : \/ new_centroids[k] = Means[k]
                      \/ new_centroids[k] = Base[k] /\ reduceStatus[k % R] # "COMPLETED"

Starting ==
  /\ Len(centroids) = 1 => centroids[1] = [k \in Key |-> points[k + 1]]
  /\ ~AllSet => ~DistinctStart(points)

JobInv == MapPhase /\ RunsKnown /\ OutputsKept /\ ReducersRead /\ NewCentroids /\ Starting

Inv == IInv /\ TypeInv /\ JobInv

LEMMA FirstCentroid ==
  ASSUME TypeInv
  PROVE  /\ centroids[1] \in [Key -> Point \cup {None}] /\ Len(centroids) \in Nat \ {0}
         /\ AllSet => centroids[1] \in [Key -> Point]
         /\ points \in Inputs
<1>1. centroids[1] \in [Key -> Point \cup {None}] /\ Len(centroids) \in Nat \ {0}
  BY DEF TypeInv, MasterTyped
<1>. QED
  BY <1>1 DEF AllSet, TypeInv, MasterTyped

\* Outside the map phase no run is awaited; what is there is a late mapper's.
LEMMA OnlyStrays ==
  ASSUME IInv, TypeInv, MapPhase, RunsKnown, phase # "map", NEW w \in Mapper, mapRun[w] # None
  PROVE  Stray(w)
<1>1. mapRun[w].task \in MapTask
  BY RunOfMapper DEF MapRun
<1>. QED
  BY <1>1, NoneNoTask DEF MapPhase, RunsKnown, Awaited

\* The files of a map task that is COMPLETED are nobody's who still writes.
LEMMA WritesElsewhere ==
  ASSUME LateApart, Inv, NEW w \in Mapper, mapRun[w] # None, NEW t \in MapTask, NEW v \in Mapper,
         HostOf[v] = HostOf[w], mapRun[w].task = t
  PROVE  /\ mapRun[v] # None /\ Awaited(v) /\ mapRun[v].task = t => v = w
         /\ phase = "map" /\ mapStatus[t] = "COMPLETED" /\ Done(v, t) => FALSE
         /\ phase = "reduce" /\ Done(v, t) => FALSE
<1>1. Awaited(w) \/ Stray(w)
  BY DEF Inv, JobInv, RunsKnown
<1>2. CASE Stray(w)
  BY <1>2 DEF LateApart, Stray, Done
<1>3. CASE Awaited(w)
  <2>1. mapCall[w] = t /\ t # None
    BY <1>3, NoneNoTask DEF Awaited
  <2>2. mapRun[v] # None /\ Awaited(v) /\ mapRun[v].task = t => v = w
    BY <2>1 DEF Awaited, Inv, IInv, MapTables, Tables, Match
  <2>3. mapStatus[t] = "RUNNING" /\ phase = "map"
    BY <2>1 DEF Inv, IInv, MapTables, Tables, Match, JobInv, MapPhase
  <2>. QED
    BY <2>2, <2>3
<1>. QED
  BY <1>1, <1>2, <1>3

LEMMA JobInit == Init => JobInv
<1> SUFFICES ASSUME Init PROVE JobInv
  OBVIOUS
<1>1. \A k \in Key : points[k + 1] \in Point
  <2>1. points \in Inputs
    BY DEF Init
  <2>. QED
    BY <2>1, PointsFile, KAssumption DEF Key
<1>2. Len(centroids) = 1 /\ centroids[1] = [k \in Key |-> points[k + 1]]
  BY DEF Init
<1>3. AllSet
  BY <1>1, <1>2, SizesAssumption DEF AllSet, Point
<1>4. MapPhase /\ RunsKnown /\ OutputsKept /\ ReducersRead
  BY DEF Init, MapPhase, RunsKnown, OutputsKept, ReducersRead
<1>5. NewCentroids /\ Starting
  BY <1>2, <1>3 DEF Init, NewCentroids, Base, Starting
<1>. QED
  BY <1>4, <1>5 DEF JobInv

LEMMA AssignMapsJob ==
  ASSUME Inv, AssignMaps
  PROVE  JobInv'
<1>1. /\ phase = "map" /\ UNCHANGED <<points, centroids, new_centroids, reduces, alive, files>>
  BY DEF AssignMaps
<1>2. Starting' /\ ReducersRead'
  BY <1>1 DEF Inv, JobInv, Starting, AllSet, ReducersRead, reduces
<1>3. CASE \E k \in Key : centroids[1][k] = None
  <2>1. phase' = "failed" /\ UNCHANGED maps
    BY <1>3 DEF AssignMaps
  <2>2. \A t \in MapTask : mapStatus[t] = "PENDING"
    BY <1>1, <1>3 DEF Inv, JobInv, MapPhase, AllSet
  <2>3. \A w \in Mapper : mapCall[w] = None
    BY <2>2 DEF Inv, IInv, MapTables, Tables, Match
  <2>4. MapPhase'
    BY <1>1, <1>3, <2>1, <2>2, <2>3 DEF MapPhase, AllSet, maps
  <2>5. RunsKnown'
    BY <1>1, <2>1 DEF Inv, JobInv, RunsKnown, Awaited, Stray, WholeFile, maps
  <2>6. OutputsKept' /\ NewCentroids'
    BY <1>1, <2>1 DEF Inv, JobInv, OutputsKept, NewCentroids, Base
  <2>. QED
    BY <1>2, <2>4, <2>5, <2>6 DEF JobInv
<1>4. CASE ~ \E k \in Key : centroids[1][k] = None
  <2> DEFINE tasks == OpenTasks(mapStatus)
             workers == FreeWorkers(mapperStatus)
             busy == {w \in workers : Given(w, tasks, workers) # {}}
             task == [w \in busy |-> CHOOSE t \in Given(w, tasks, workers) : TRUE]
  <2>1. \A w \in busy : task[w] \in MapTask /\ mapStatus[task[w]] \in {"PENDING", "FAILED"}
    BY DEF Given, OpenTasks, Inv, IInv, MapTables, Tables
  <2>2. \A w \in busy : w \in Mapper /\ mapperStatus[w] = "FREE" /\ mapCall[w] = None
    BY DEF FreeWorkers, Inv, IInv, MapTables, Tables, Match
  <2>3. /\ mapStatus' = [t \in MapTask |-> IF \E w \in busy : task[w] = t
                                           THEN "RUNNING" ELSE mapStatus[t]]
        /\ mapperStatus' = [w \in Mapper |-> IF w \in busy THEN "BUSY" ELSE mapperStatus[w]]
        /\ mapCall' = [w \in Mapper |-> IF w \in busy THEN task[w] ELSE mapCall[w]]
        /\ mapRun' = [w \in Mapper |->
             IF w \in busy /\ w \in alive
             THEN [task |-> task[w], centroids |-> centroids[1], part |-> 0, opened |-> FALSE]
             ELSE mapRun[w]]
        /\ UNCHANGED <<phase, mapper_id>>
    BY <1>4 DEF AssignMaps
  <2> HIDE DEF tasks, workers, busy, task
  <2>4. AllSet /\ AllSet'
    BY <1>1, <1>4 DEF AllSet
  <2>5. MapPhase'
    BY <1>1, <2>3, <2>4 DEF MapPhase
  \* A FREE worker runs nothing yet.
  <2>6. \A w \in busy : mapRun[w] = None
    <3>1. \A w \in Mapper : mapRun[w] # None => mapRun[w].task \in MapTask
      BY RunOfMapper DEF Inv, MapRun
    <3>. QED
      BY <2>2, <3>1, NoneNoTask DEF Inv, JobInv, RunsKnown, Awaited, Stray
  <2>7. RunsKnown'
    <3>1. ASSUME NEW w \in busy, w \in alive
          PROVE  Awaited(w)'
      <4>1. mapRun'[w].part = 0 /\ mapRun'[w].task = task[w] /\ mapRun'[w].centroids = centroids[1]
            /\ mapCall'[w] = task[w]
        BY <2>2, <2>3, <3>1
      <4>2. \A r \in ReduceTask : ~(r < 0)
        BY SizesAssumption DEF ReduceTask
      <4>. QED
        BY <1>1, <4>1, <4>2 DEF Awaited
    <3>2. ASSUME NEW w \in busy, w \notin alive
          PROVE  mapRun'[w] = None
      BY <2>2, <2>3, <2>6, <3>2
    <3>3. ASSUME NEW w \in Mapper \ busy, mapRun'[w] # None
          PROVE  Awaited(w)' \/ Stray(w)'
      BY <1>1, <2>3, <3>3 DEF Inv, JobInv, RunsKnown, Awaited, Stray, WholeFile
    <3>. QED
      BY <3>1, <3>2, <3>3 DEF RunsKnown
  <2>8. OutputsKept'
    <3>1. ASSUME NEW t \in MapTask, mapStatus'[t] = "COMPLETED"
          PROVE  Done(mapper_id[t], t)'
      <4>1. mapStatus[t] = "COMPLETED" /\ \A w \in busy : task[w] # t
        BY <2>3, <3>1
      <4>2. Done(mapper_id[t], t)
        BY <1>1, <4>1 DEF Inv, JobInv, OutputsKept
      <4>. QED
        BY <1>1, <2>3, <4>1, <4>2 DEF Done, WholeFile
    <3>. QED
      BY <1>1, <2>3, <3>1 DEF OutputsKept
  <2>9. NewCentroids'
    BY <1>1, <2>3 DEF Inv, JobInv, NewCentroids, Base
  <2>. QED
    BY <1>2, <2>5, <2>7, <2>8, <2>9 DEF JobInv
<1>. QED
  BY <1>3, <1>4

LEMMA StartReduceJob ==
  ASSUME Inv, StartReduce
  PROVE  JobInv'
<1>1. /\ phase = "map" /\ phase' = "reduce" /\ \A t \in MapTask : mapStatus[t] = "COMPLETED"
      /\ reduceStatus' = [r \in ReduceTask |-> "PENDING"]
      /\ mapper_address' = mapper_id
      /\ mapStatus' = [t \in MapTask |-> "PENDING"]
      /\ UNCHANGED <<points, centroids, new_centroids, mapperStatus, mapCall, mapRun,
                     reduceCall, reduceRun, files>>
  BY DEF StartReduce, AllCompleted, Inv, IInv, MapTables, Tables
<1>2. AllSet
  <2>1. 0 \in MapTask
    BY SizesAssumption DEF MapTask
  <2>. QED
    BY <1>1, <2>1 DEF Inv, JobInv, MapPhase
<1>3. \A w \in Mapper : mapCall[w] = None
  BY <1>1 DEF Inv, IInv, MapTables, Tables, Match
<1>4. MapPhase'
  BY <1>1, <1>2, <1>3 DEF MapPhase, AllSet
<1>5. RunsKnown'
  BY <1>1 DEF Inv, JobInv, RunsKnown, Awaited, Stray, WholeFile
<1>6. OutputsKept'
  BY <1>1 DEF Inv, JobInv, OutputsKept, Done, WholeFile
<1>7. ReducersRead'
  BY <1>1 DEF Inv, JobInv, ReducersRead
<1>8. NewCentroids'
  <2>1. \A k \in Key : k % R \in ReduceTask
    BY KAssumption, SizesAssumption DEF Key, ReduceTask
  <2>. QED
    BY <1>1, <2>1 DEF Inv, JobInv, NewCentroids, Base
<1>9. Starting'
  BY <1>1 DEF Inv, JobInv, Starting, AllSet
<1>. QED
  BY <1>4, <1>5, <1>6, <1>7, <1>8, <1>9 DEF JobInv

\* Steps of reducers and the assignment of reduce tasks leave the map phase alone.
LEMMA MapSideUnchanged ==
  ASSUME Inv, UNCHANGED <<points, phase, centroids, maps, mapper_address, alive, files>>
  PROVE  MapPhase' /\ RunsKnown' /\ OutputsKept' /\ Starting'
<1>1. MapPhase' /\ Starting'
  BY DEF Inv, JobInv, MapPhase, Starting, AllSet, maps
<1>2. RunsKnown'
  BY DEF Inv, JobInv, RunsKnown, Awaited, Stray, WholeFile, maps
<1>3. OutputsKept'
  BY DEF Inv, JobInv, OutputsKept, Done, WholeFile, maps
<1>. QED
  BY <1>1, <1>2, <1>3

LEMMA AssignReducesJob ==
  ASSUME Inv, AssignReduces
  PROVE  JobInv'
<1>1. phase = "reduce" /\ UNCHANGED <<master, maps, mapper_address, alive, files>>
  BY DEF AssignReduces
<1>2. MapPhase' /\ RunsKnown' /\ OutputsKept' /\ Starting'
  BY <1>1, MapSideUnchanged DEF master
<1> DEFINE tasks == OpenTasks(reduceStatus)
           workers == FreeWorkers(reducerStatus)
           busy == {w \in workers : Given(w, tasks, workers) # {}}
           task == [w \in busy |-> CHOOSE r \in Given(w, tasks, workers) : TRUE]
<1>3. reduceStatus' = [r \in ReduceTask |-> IF \E w \in busy : task[w] = r
                                            THEN "RUNNING" ELSE reduceStatus[r]]
  BY DEF AssignReduces
<1>4. reduceCall' = [w \in Reducer |-> IF w \in busy THEN task[w] ELSE reduceCall[w]]
  BY DEF AssignReduces
<1>5. reduceRun' = [w \in Reducer |-> IF w \in busy THEN [task |-> task[w], next |-> 0, data |-> {}]
                                      ELSE reduceRun[w]]
  BY DEF AssignReduces
<1> HIDE DEF tasks, workers, busy, task
<1>6. ReducersRead'
  <2>1. ASSUME NEW w \in Reducer, w \in busy
        PROVE  /\ reduceRun'[w].task = reduceCall'[w]
               /\ reduceRun'[w].data = UNION {Partition(points', t, reduceRun'[w].task, centroids'[1]) :
                                                t \in 0..(reduceRun'[w].next - 1)}
    <3>1. reduceRun'[w].task = task[w] /\ reduceRun'[w].next = 0 /\ reduceRun'[w].data = {}
          /\ reduceCall'[w] = task[w]
      BY <1>4, <1>5, <2>1
    <3>2. 0..(0 - 1) = {}
      OBVIOUS
    <3>. QED
      BY <3>1, <3>2
  <2>2. ASSUME NEW w \in Reducer, w \notin busy
        PROVE  reduceRun'[w] = reduceRun[w] /\ reduceCall'[w] = reduceCall[w]
    BY <1>4, <1>5, <2>2
  <2>. QED
    BY <1>1, <2>1, <2>2 DEF Inv, JobInv, ReducersRead, master
<1>7. NewCentroids'
  <2>1. \A k \in Key : k % R \in ReduceTask
    BY KAssumption, SizesAssumption DEF Key, ReduceTask
  <2>2. \A k \in Key : reduceStatus'[k % R] = "COMPLETED" => reduceStatus[k % R] = "COMPLETED"
    BY <1>3, <2>1
  <2>. QED
    BY <1>1, <2>2 DEF Inv, JobInv, NewCentroids, Base, Means, master
<1>. QED
  BY <1>2, <1>6, <1>7 DEF JobInv

\* When all reduce tasks are completed the new centroids are the means.
LEMMA AllReduced ==
  ASSUME Inv, EndIteration
  PROVE  /\ phase = "reduce" /\ AllSet
         /\ new_centroids = Means
         /\ \A w \in Reducer : reduceCall[w] = None /\ reduceRun[w] = None
<1>1. phase = "reduce" /\ \A r \in ReduceTask : reduceStatus[r] = "COMPLETED"
  BY DEF EndIteration, AllCompleted, Inv, IInv, ReduceTables, Tables
<1>2. \A w \in Reducer : reduceCall[w] = None /\ reduceRun[w] = None
  BY <1>1 DEF Inv, IInv, ReduceTables, Tables, Match, ReduceCallsInPhase
<1>3. AllSet
  BY <1>1 DEF Inv, JobInv, MapPhase
<1>4. \A k \in Key : k % R \in ReduceTask
  BY KAssumption, SizesAssumption DEF Key, ReduceTask
<1>5. \A k \in Key : new_centroids[k] = Means[k]
  BY <1>1, <1>4 DEF Inv, JobInv, NewCentroids
<1>6. new_centroids \in [Key -> Point \cup {None}]
  BY DEF Inv, TypeInv, MasterTyped
<1>7. new_centroids = Means
  BY <1>5, <1>6 DEF Means
<1>. QED
  BY <1>1, <1>2, <1>3, <1>7

\* A cluster without a mean is one that no point is next to, in the first
\* iteration: it is so because another one starts at the same point.
LEMMA MeanMissing ==
  ASSUME Inv, AllSet, NEW k \in Key, Means[k] = None
  PROVE  ~DistinctStart(points) /\ Len(centroids) = 1
<1>1. points \in File /\ Len(points) >= K
  BY FirstCentroid, PointsFile DEF Inv
<1>2. Cluster(points, centroids[1], k) = {} /\ Base[k] = None
  <2>1. Cluster(points, centroids[1], k) # {} => Mean(points, Cluster(points, centroids[1], k)) \in Point
    BY <1>1, ClusterFinite, MeanIsPoint
  <2>2. None \notin Point
    BY SizesAssumption DEF Point
  <2>. QED
    BY <2>1, <2>2 DEF Means
<1>3. Len(centroids) = 1
  BY <1>2 DEF Base, AllSet
<1>4. centroids[1] = [j \in Key |-> points[j + 1]]
  BY <1>3 DEF Inv, JobInv, Starting
<1>5. ~DistinctStart(points)
  <2>1. SUFFICES ASSUME DistinctStart(points) PROVE FALSE
    OBVIOUS
  <2>. QED
    BY <1>1, <1>2, <1>4, <2>1, FirstClusters
<1>. QED
  BY <1>3, <1>5

LEMMA EndIterationJob ==
  ASSUME Inv, EndIteration
  PROVE  JobInv'
<1>1. /\ phase' \in {"map", "done"} /\ centroids' = <<new_centroids>> \o centroids
      /\ UNCHANGED <<points, new_centroids, maps, reduces, alive, files>>
  BY DEF EndIteration
<1>2. /\ centroids'[1] = new_centroids /\ Len(centroids') = Len(centroids) + 1
      /\ Len(centroids) \in Nat \ {0}
  BY <1>1, FirstCentroid DEF Inv, TypeInv, MasterTyped
<1>3. /\ phase = "reduce" /\ AllSet /\ new_centroids = Means
      /\ \A w \in Reducer : reduceRun[w] = None
  BY AllReduced
<1>4. \A w \in Mapper : mapCall[w] = None
  BY <1>3 DEF Inv, JobInv, MapPhase
<1>5. \A t \in MapTask : mapStatus[t] = "PENDING"
  BY <1>3 DEF Inv, JobInv, MapPhase
<1>6. MapPhase'
  BY <1>1, <1>4, <1>5 DEF MapPhase, maps
<1>7. RunsKnown'
  BY <1>1, <1>3, OnlyStrays DEF Inv, JobInv, RunsKnown, Stray, maps
<1>8. OutputsKept'
  BY <1>1, <1>5 DEF OutputsKept, maps
<1>9. ReducersRead'
  BY <1>1, <1>3 DEF ReducersRead, reduces
<1>10. NewCentroids'
  BY <1>1, <1>2 DEF NewCentroids, Base
<1>11. Starting'
  <2>1. ASSUME ~AllSet' PROVE ~DistinctStart(points)
    <3>1. PICK k \in Key : Means[k] = None
      BY <1>2, <1>3, <2>1 DEF AllSet
    <3>. QED
      BY <1>3, <3>1, MeanMissing
  <2>. QED
    BY <1>1, <1>2, <2>1 DEF Starting
<1>. QED
  BY <1>6, <1>7, <1>8, <1>9, <1>10, <1>11 DEF JobInv

-----------------------------------------------------------------------------
\* A mapper writes: what others have done or are doing is not touched.
LEMMA WriteJob ==
  ASSUME LateApart, Inv, NEW w \in Mapper, OpenPartition(w) \/ ClosePartition(w)
  PROVE  JobInv'
<1> DEFINE h == HostOf[w]
           t == mapRun[w].task
           p == mapRun[w].part
<1>1. /\ mapRun[w] # None /\ mapRun[w] \in MapRun /\ h \in Host /\ t \in MapTask
      /\ p \in ReduceTask
  <2>1. mapRun[w] # None /\ p < R
    BY DEF OpenPartition, ClosePartition, PartitionsLeft, Inv, TypeInv, RunsUseful
  <2>2. mapRun[w] \in MapRun /\ h \in Host
    BY <2>1, RunOfMapper DEF Inv
  <2>3. p \in 0..R /\ t \in MapTask
    BY <2>2 DEF MapRun
  <2>. QED
    BY <2>1, <2>2, <2>3, SizesAssumption DEF ReduceTask
<1>2. UNCHANGED <<master, mapStatus, mapper_id, mapperStatus, mapCall, reduces, alive>>
  BY DEF OpenPartition, ClosePartition
<1>3. PICK data : files' = [files EXCEPT ![h][t][p] = data]
  BY DEF OpenPartition, ClosePartition
<1>4. \A g \in Host, u \in MapTask, r \in ReduceTask :
        g # h \/ u # t \/ r # p => files'[g][u][r] = files[g][u][r]
  BY <1>1, <1>3 DEF Inv, TypeInv, MapsTyped
<1>5. /\ mapRun'[w].task = t /\ mapRun'[w].centroids = mapRun[w].centroids
      /\ \A v \in Mapper \ {w} : mapRun'[v] = mapRun[v]
      /\ mapRun'[w].part = p \/ (mapRun'[w].part = p + 1 /\ ClosePartition(w))
  BY <1>1 DEF OpenPartition, ClosePartition, Inv, TypeInv, MapsTyped, MapRun
<1>6. \A v \in Mapper : HostOf[v] \in Host
  BY SizesAssumption
<1>7. ClosePartition(w) => files'[h][t][p] = Partition(points, t, p, mapRun[w].centroids)
  BY <1>1 DEF ClosePartition, Inv, TypeInv, MapsTyped
<1> HIDE DEF h, t, p
<1>8. MapPhase' /\ ReducersRead' /\ NewCentroids' /\ Starting'
  BY <1>2 DEF Inv, JobInv, MapPhase, ReducersRead, NewCentroids, Base, Means, Starting, AllSet,
     master, reduces
<1>9. RunsKnown'
  <2>1. ASSUME Awaited(w)
        PROVE  Awaited(w)'
    <3>1. /\ mapCall'[w] = mapRun'[w].task /\ mapRun'[w].centroids = centroids'[1]
      BY <1>2, <1>5, <2>1 DEF Awaited, master, t
    <3>2. ASSUME NEW r \in ReduceTask, r < mapRun'[w].part
          PROVE  files'[h][t][r] = Partition(points, t, r, centroids[1])
      <4>1. CASE r # p
        <5>1. r < p
          BY <1>1, <1>5, <3>2, <4>1, SizesAssumption DEF ReduceTask
        <5>. QED
          BY <1>1, <1>4, <2>1, <4>1, <5>1 DEF Awaited, WholeFile, h, t, p
      <4>2. CASE r = p
        <5>1. ClosePartition(w)
          BY <1>1, <1>5, <3>2, <4>2, SizesAssumption DEF ReduceTask
        <5>. QED
          BY <1>7, <2>1, <4>2, <5>1 DEF Awaited
      <4>. QED
        BY <4>1, <4>2
    <3>3. \A r \in ReduceTask : r < mapRun'[w].part => WholeFile(HostOf[w], mapRun[w].task, r)'
      BY <1>2, <1>5, <3>2 DEF WholeFile, h, t, master
    <3>. QED
      BY <1>5, <3>1, <3>3 DEF Awaited, WholeFile, t
  <2>2. ASSUME NEW v \in Mapper, v # w, mapRun[v] # None, Awaited(v)
        PROVE  Awaited(v)'
    <3>1. mapRun[v].task \in MapTask
      BY <2>2, RunOfMapper DEF Inv, MapRun
    <3>2. HostOf[v] # h \/ mapRun[v].task # t
      BY <1>1, <2>2, <3>1, WritesElsewhere DEF h, t
    <3>. QED
      BY <1>2, <1>4, <1>5, <1>6, <2>2, <3>1, <3>2 DEF Awaited, WholeFile, master
  <2>3. \A v \in Mapper : Stray(v) => Stray(v)'
    BY <1>2 DEF Stray
  <2>. QED
    BY <1>1, <1>5, <2>1, <2>2, <2>3 DEF RunsKnown, Inv, JobInv
<1>10. OutputsKept'
  <2>1. ASSUME NEW v \in Mapper, NEW u \in MapTask, Done(v, u),
               phase = "reduce" \/ (phase = "map" /\ mapStatus[u] = "COMPLETED")
        PROVE  Done(v, u)'
    <3>1. HostOf[v] # h \/ u # t
      BY <1>1, <2>1, WritesElsewhere DEF h, t
    <3>2. mapRun'[v] # None => mapRun'[v].task # u
      BY <1>1, <1>5, <2>1 DEF Done, t
    <3>. QED
      BY <1>2, <1>4, <1>6, <2>1, <3>1, <3>2 DEF Done, WholeFile, master
  <2>2. \A v, u : Done(v, u) => v \in Mapper
    BY DEF Done
  <2>. QED
    BY <1>2, <2>1, <2>2 DEF OutputsKept, Inv, JobInv, master, reduces
<1>. QED
  BY <1>8, <1>9, <1>10 DEF JobInv

LEMMA MapReplyJob ==
  ASSUME Inv, NEW w \in Mapper, NEW success \in BOOLEAN, MapReply(w, success)
  PROVE  JobInv'
<1>1. /\ mapRun[w] # None /\ mapRun[w].part = R
      /\ mapRun[w] \in MapRun
      /\ mapRun' = [mapRun EXCEPT ![w] = None]
      /\ UNCHANGED <<master, reduces, alive, files>>
  BY RunOfMapper DEF MapReply, Inv
<1>2. ReducersRead' /\ NewCentroids' /\ Starting'
  BY <1>1 DEF Inv, JobInv, ReducersRead, NewCentroids, Base, Means, Starting, AllSet, master, reduces
<1>3. mapRun'[w] = None /\ \A v \in Mapper \ {w} : mapRun'[v] = mapRun[v]
  BY <1>1 DEF Inv, TypeInv, MapsTyped
<1>4. CASE mapCall[w] = None
  <2>1. mapCall' = mapCall /\ UNCHANGED <<mapStatus, mapper_id, mapperStatus>>
    BY <1>4 DEF MapReply, Inv, IInv, MapTables, Tables
  <2>2. MapPhase'
    BY <1>1, <2>1 DEF Inv, JobInv, MapPhase, AllSet, master
  <2>3. RunsKnown'
    BY <1>1, <1>3, <2>1 DEF Inv, JobInv, RunsKnown, Awaited, Stray, WholeFile, master
  <2>4. OutputsKept'
    <3>1. \A v, u : Done(v, u) => Done(v, u)'
      BY <1>1, <1>3, <2>1 DEF Done, WholeFile, master
    <3>. QED
      BY <1>1, <2>1, <3>1 DEF Inv, JobInv, OutputsKept, master, reduces
  <2>. QED
    BY <1>2, <2>2, <2>3, <2>4 DEF JobInv
<1>5. CASE mapCall[w] # None
  <2> DEFINE t == mapCall[w]
  <2>1. /\ mapCall' = [mapCall EXCEPT ![w] = None]
        /\ mapStatus' = [mapStatus EXCEPT ![t] = IF success THEN "COMPLETED" ELSE "FAILED"]
        /\ mapper_id' = IF success THEN [mapper_id EXCEPT ![t] = w] ELSE mapper_id
        /\ mapperStatus' = [mapperStatus EXCEPT ![w] = "FREE"]
    BY <1>5 DEF MapReply
  <2>2. t \in MapTask /\ mapStatus[t] = "RUNNING"
    BY <1>5 DEF Inv, IInv, MapTables, Tables, Match
  <2>3. phase = "map" /\ AllSet
    BY <1>5, <2>2 DEF Inv, JobInv, MapPhase
  <2>4. \A r \in ReduceTask : WholeFile(HostOf[w], t, r)
    <3>1. Awaited(w)
      BY <1>1, <1>5 DEF Inv, JobInv, RunsKnown, Stray
    <3>2. \A r \in ReduceTask : r < R
      BY SizesAssumption DEF ReduceTask
    <3>. QED
      BY <1>1, <3>1, <3>2 DEF Awaited
  <2>5. MapPhase'
    BY <1>1, <2>3 DEF MapPhase, AllSet, master
  <2>6. \A v \in Mapper \ {w} : mapCall'[v] = mapCall[v] /\ mapperStatus'[v] = mapperStatus[v]
    BY <2>1 DEF Inv, IInv, MapTables, Tables
  <2> HIDE DEF t
  <2>7. RunsKnown'
    BY <1>1, <1>3, <2>6 DEF Inv, JobInv, RunsKnown, Awaited, Stray, WholeFile, master
  <2>8. \A v, u : Done(v, u) => Done(v, u)'
    BY <1>1, <1>3 DEF Done, WholeFile, master
  <2>9. OutputsKept'
    <3>1. ASSUME NEW u \in MapTask, NEW v, v = mapper_id'[u], mapStatus'[u] = "COMPLETED"
          PROVE  Done(v, u)'
      <4>1. CASE u = t
        <5>1. v = w
          BY <2>1, <2>2, <3>1, <4>1 DEF Inv, IInv, MapTables, Tables, TypeInv, MapsTyped
        <5>. QED
          BY <1>1, <1>3, <2>4, <4>1, <5>1 DEF Done, WholeFile, master
      <4>2. CASE u # t
        <5>1. mapStatus[u] = "COMPLETED" /\ v = mapper_id[u]
          BY <2>1, <2>2, <3>1, <4>2 DEF Inv, IInv, MapTables, Tables, TypeInv, MapsTyped
        <5>2. Done(v, u)
          BY <2>3, <5>1 DEF Inv, JobInv, OutputsKept
        <5>. QED
          BY <2>8, <5>2
      <4>. QED
        BY <4>1, <4>2
    <3>. QED
      BY <1>1, <2>3, <3>1 DEF OutputsKept, Done, WholeFile, master
  <2>. QED
    BY <1>2, <2>5, <2>7, <2>9 DEF JobInv
<1>. QED
  BY <1>4, <1>5

LEMMA MapCallFailsJob ==
  ASSUME Inv, NEW w \in Mapper, MapCallFails(w)
  PROVE  JobInv'
<1>1. /\ mapCall[w] # None /\ (mapRun[w] = None \/ w \in Late)
      /\ mapStatus' = [mapStatus EXCEPT ![mapCall[w]] = "FAILED"]
      /\ mapperStatus' = [mapperStatus EXCEPT ![w] = "DEAD"]
      /\ mapCall' = [mapCall EXCEPT ![w] = None]
      /\ UNCHANGED <<master, mapper_id, mapRun, reduces, alive, files>>
  BY DEF MapCallFails
<1>2. ReducersRead' /\ NewCentroids' /\ Starting'
  BY <1>1 DEF Inv, JobInv, ReducersRead, NewCentroids, Base, Means, Starting, AllSet, master, reduces
<1>3. mapCall[w] \in MapTask /\ mapStatus[mapCall[w]] = "RUNNING"
  BY <1>1 DEF Inv, IInv, MapTables, Tables, Match
<1>4. phase = "map" /\ AllSet
  BY <1>1, <1>3 DEF Inv, JobInv, MapPhase
<1>5. MapPhase'
  BY <1>1, <1>4 DEF MapPhase, AllSet, master
<1>6. /\ mapCall'[w] = None /\ mapperStatus'[w] = "DEAD"
      /\ \A v \in Mapper \ {w} : mapCall'[v] = mapCall[v] /\ mapperStatus'[v] = mapperStatus[v]
      /\ \A t \in MapTask : mapStatus'[t] = "COMPLETED" => mapStatus[t] = "COMPLETED"
  BY <1>1, <1>3 DEF Inv, IInv, MapTables, Tables
<1>7. RunsKnown'
  BY <1>1, <1>6 DEF Inv, JobInv, RunsKnown, Awaited, Stray, WholeFile, master
<1>8. OutputsKept'
  <2>1. \A v, u : Done(v, u) => Done(v, u)'
    BY <1>1 DEF Done, WholeFile, master
  <2>. QED
    BY <1>1, <1>4, <1>6, <2>1 DEF Inv, JobInv, OutputsKept, master
<1>. QED
  BY <1>2, <1>5, <1>7, <1>8 DEF JobInv

LEMMA MapperDiesJob ==
  ASSUME Inv, NEW w \in Mapper, MapperDies(w)
  PROVE  JobInv'
<1>1. /\ mapRun' = [mapRun EXCEPT ![w] = None]
      /\ UNCHANGED <<master, mapStatus, mapper_id, mapperStatus, mapCall, reduces, files>>
  BY DEF MapperDies
<1>2. MapPhase' /\ ReducersRead' /\ NewCentroids' /\ Starting'
  BY <1>1 DEF Inv, JobInv, MapPhase, ReducersRead, NewCentroids, Base, Means, Starting, AllSet,
     master, reduces
<1>3. mapRun'[w] = None /\ \A v \in Mapper \ {w} : mapRun'[v] = mapRun[v]
  BY <1>1 DEF Inv, TypeInv, MapsTyped
<1>4. RunsKnown'
  BY <1>1, <1>3 DEF Inv, JobInv, RunsKnown, Awaited, Stray, WholeFile, master
<1>5. OutputsKept'
  <2>1. \A v, u : Done(v, u) => Done(v, u)'
    BY <1>1, <1>3 DEF Done, WholeFile, master
  <2>. QED
    BY <1>1, <2>1 DEF Inv, JobInv, OutputsKept, master, reduces
<1>. QED
  BY <1>2, <1>4, <1>5 DEF JobInv

-----------------------------------------------------------------------------
LEMMA ReducePhase ==
  ASSUME Inv, NEW w \in Reducer, reduceRun[w] # None
  PROVE  /\ phase = "reduce" /\ AllSet
         /\ reduceRun[w] \in ReduceRun /\ reduceCall[w] \in ReduceTask
         /\ reduceRun[w].task = reduceCall[w]
BY DEF Inv, IInv, ReduceCallsInPhase, ReduceTables, Tables, TypeInv, ReducesTyped, JobInv, MapPhase,
   ReducersRead

\* A reducer reads the next file, which is whole, or gives up.
LEMMA FetchJob ==
  ASSUME Inv, NEW w \in Reducer, Fetch(w)
  PROVE  JobInv'
<1> DEFINE t == reduceRun[w].next
           from == mapper_address[t]
           r == reduceRun[w].task
           got == files[HostOf[from]][t][r]
           run == IF from \in alive THEN [task |-> r, next |-> t + 1, data |-> reduceRun[w].data \cup got]
                                    ELSE None
<1>1. /\ reduceRun[w] # None /\ t < M
      /\ reduceRun' = [reduceRun EXCEPT ![w] = run]
      /\ UNCHANGED <<master, maps, reduceStatus, mapper_address, reduceCall, alive, files>>
  BY DEF Fetch
<1>2. MapPhase' /\ RunsKnown' /\ OutputsKept' /\ Starting'
  BY <1>1, MapSideUnchanged DEF master
<1>3. NewCentroids'
  BY <1>1 DEF Inv, JobInv, NewCentroids, Base, Means, master
<1>4. phase = "reduce" /\ reduceRun[w] \in ReduceRun /\ r = reduceCall[w] /\ r \in ReduceTask
  BY <1>1, ReducePhase
<1>5. t \in MapTask /\ t \in Nat
  BY <1>1, <1>4, SizesAssumption DEF ReduceRun, MapTask
<1>6. got = Partition(points, t, r, centroids[1])
  BY <1>4, <1>5 DEF Inv, JobInv, OutputsKept, Done, WholeFile
<1>7. reduceRun[w].data = UNION {Partition(points, u, r, centroids[1]) : u \in 0..(t - 1)}
  BY <1>1 DEF Inv, JobInv, ReducersRead
<1>8. /\ reduceRun'[w] = run
      /\ \A v \in Reducer \ {w} : reduceRun'[v] = reduceRun[v]
  BY <1>1 DEF Inv, TypeInv, ReducesTyped
<1>9. run # None => /\ run.task = r /\ run.next = t + 1
                    /\ run.data = reduceRun[w].data \cup got
  OBVIOUS
<1> HIDE DEF run, got, from, t, r
<1>10. reduceRun[w].data \cup got = UNION {Partition(points, u, r, centroids[1]) : u \in 0..((t + 1) - 1)}
  <2>1. \A u : u \in 0..((t + 1) - 1) <=> u \in 0..(t - 1) \/ u = t
    BY <1>5
  <2>. QED
    BY <1>6, <1>7, <2>1
<1>11. ReducersRead'
  BY <1>1, <1>4, <1>8, <1>9, <1>10 DEF Inv, JobInv, ReducersRead, master
<1>. QED
  BY <1>2, <1>3, <1>11 DEF JobInv

\* The points a reducer that is done has for a cluster: all of them when the
\* cluster is of its task, else none.
LEMMA MembersOfCluster ==
  ASSUME Inv, NEW w \in Reducer, reduceRun[w] # None, reduceRun[w].next = M, NEW k \in Key
  PROVE  Members(reduceRun[w], k) = IF k % R = reduceCall[w] THEN Cluster(points, centroids[1], k)
                                                            ELSE {}
<1> DEFINE r == reduceCall[w]
           cs == centroids[1]
<1>1. r \in ReduceTask /\ reduceRun[w].task = r /\ AllSet
  BY ReducePhase
<1>2. points \in Inputs /\ cs \in [Key -> Point]
  BY <1>1, FirstCentroid DEF Inv
<1>3. reduceRun[w].data = UNION {Partition(points, t, r, cs) : t \in MapTask}
  BY <1>1 DEF Inv, JobInv, ReducersRead, MapTask
<1> HIDE DEF r, cs
<1>4. \A i : <<i, k>> \in reduceRun[w].data <=>
        k % R = r /\ Closest(points[i], cs) = k /\ \E t \in MapTask : i \in Split(points, t)
  <2>1. \A i, t : t \in MapTask => (<<i, k>> \in Partition(points, t, r, cs) <=>
          i \in Split(points, t) /\ Closest(points[i], cs) = k /\ k % R = r)
    BY <1>1, <1>2, PartitionMembers
  <2>. QED
    BY <1>3, <2>1
<1>5. \A i \in 1..Len(points) : \E t \in MapTask : i \in Split(points, t)
  BY <1>2, EachPointOnce
<1>6. \A i \in 1..Len(points) : i \in Members(reduceRun[w], k) <=>
        k % R = r /\ i \in Cluster(points, cs, k)
  BY <1>4, <1>5 DEF Members, Cluster
<1>. QED
  BY <1>6 DEF Members, Cluster, r, cs

LEMMA ReduceReplyJob ==
  ASSUME Inv, NEW w \in Reducer, NEW success \in BOOLEAN, ReduceReply(w, success)
  PROVE  JobInv'
<1> DEFINE r == reduceCall[w]
           members(k) == Members(reduceRun[w], k)
<1>1. /\ reduceRun[w] # None /\ reduceRun[w].next = M
      /\ reduceStatus' = [reduceStatus EXCEPT ![r] = IF success THEN "COMPLETED" ELSE "FAILED"]
      /\ new_centroids' = [k \in Key |-> IF success /\ members(k) # {}
                                         THEN Mean(points, members(k)) ELSE new_centroids[k]]
      /\ reduceCall' = [reduceCall EXCEPT ![w] = None]
      /\ reduceRun' = [reduceRun EXCEPT ![w] = None]
      /\ UNCHANGED <<points, phase, centroids, maps, mapper_address, alive, files>>
  BY DEF ReduceReply
<1>2. MapPhase' /\ RunsKnown' /\ OutputsKept' /\ Starting'
  BY <1>1, MapSideUnchanged
<1>3. phase = "reduce" /\ r \in ReduceTask
  BY <1>1, ReducePhase
<1>4. /\ reduceRun'[w] = None
      /\ \A v \in Reducer \ {w} : reduceRun'[v] = reduceRun[v] /\ reduceCall'[v] = reduceCall[v]
  BY <1>1 DEF Inv, TypeInv, ReducesTyped, IInv, ReduceTables, Tables
<1>5. ReducersRead'
  BY <1>1, <1>4 DEF Inv, JobInv, ReducersRead
<1>6. \A k \in Key : k % R \in ReduceTask
  BY KAssumption, SizesAssumption DEF Key, ReduceTask
<1>7. reduceStatus'[r] = (IF success THEN "COMPLETED" ELSE "FAILED")
      /\ \A q \in ReduceTask \ {r} : reduceStatus'[q] = reduceStatus[q]
  BY <1>1, <1>3 DEF Inv, IInv, ReduceTables, Tables
<1>8. ASSUME NEW k \in Key
      PROVE  \/ new_centroids'[k] = Means[k]
             \/ new_centroids'[k] = Base[k] /\ reduceStatus'[k % R] # "COMPLETED"
  <2>1. \/ new_centroids[k] = Means[k]
        \/ new_centroids[k] = Base[k] /\ reduceStatus[k % R] # "COMPLETED"
    BY <1>3 DEF Inv, JobInv, NewCentroids
  <2>2. members(k) = IF k % R = r THEN Cluster(points, centroids[1], k) ELSE {}
    BY <1>1, MembersOfCluster
  <2>3. Means[k] = IF Cluster(points, centroids[1], k) = {} THEN Base[k]
                   ELSE Mean(points, Cluster(points, centroids[1], k))
    BY DEF Means
  <2>4. new_centroids'[k] = IF success /\ members(k) # {} THEN Mean(points, members(k))
                            ELSE new_centroids[k]
    BY <1>1
  <2>5. k % R \in ReduceTask
    BY <1>6
  <2> HIDE DEF members, r
  <2>6. CASE success /\ k % R = r
    BY <2>1, <2>2, <2>3, <2>4, <2>6
  <2>7. CASE ~success
    BY <1>7, <2>1, <2>4, <2>5, <2>7
  <2>8. CASE k % R # r
    BY <1>7, <2>1, <2>2, <2>4, <2>5, <2>8
  <2>. QED
    BY <2>6, <2>7, <2>8
<1>9. NewCentroids'
  BY <1>1, <1>3, <1>8 DEF NewCentroids, Base, Means
<1>. QED
  BY <1>2, <1>5, <1>9 DEF JobInv

LEMMA ReducerGoneJob ==
  ASSUME Inv, NEW w \in Reducer, ReduceCallFails(w) \/ ReducerDies(w)
  PROVE  JobInv'
<1>1. UNCHANGED <<master, maps, mapper_address, alive, files>>
  BY DEF ReduceCallFails, ReducerDies
<1>2. MapPhase' /\ RunsKnown' /\ OutputsKept' /\ Starting'
  BY <1>1, MapSideUnchanged DEF master
<1>3. /\ reduceRun'[w] = None
      /\ \A v \in Reducer \ {w} : reduceRun'[v] = reduceRun[v] /\ reduceCall'[v] = reduceCall[v]
      /\ \A q \in ReduceTask : reduceStatus'[q] = "COMPLETED" => reduceStatus[q] = "COMPLETED"
  BY DEF ReduceCallFails, ReducerDies, Inv, TypeInv, ReducesTyped, IInv, ReduceTables, Tables
<1>4. ReducersRead'
  BY <1>1, <1>3 DEF Inv, JobInv, ReducersRead, master
<1>5. \A k \in Key : k % R \in ReduceTask
  BY KAssumption, SizesAssumption DEF Key, ReduceTask
<1>6. NewCentroids'
  BY <1>1, <1>3, <1>5 DEF Inv, JobInv, NewCentroids, Base, Means, master
<1>. QED
  BY <1>2, <1>4, <1>6 DEF JobInv

-----------------------------------------------------------------------------
LEMMA JobStep ==
  ASSUME LateApart, Inv, [Next]_vars
  PROVE  JobInv'
<1>1. CASE AssignMaps \/ StartReduce \/ AssignReduces \/ EndIteration
  BY <1>1, AssignMapsJob, StartReduceJob, AssignReducesJob, EndIterationJob
<1>2. CASE \E w \in Mapper : OpenPartition(w) \/ ClosePartition(w)
  BY <1>2, WriteJob
<1>3. CASE \E w \in Mapper : \/ MapCallFails(w) \/ MapperDies(w)
                             \/ \E success \in BOOLEAN : MapReply(w, success)
  BY <1>3, MapCallFailsJob, MapperDiesJob, MapReplyJob
<1>4. CASE \E w \in Reducer : \/ Fetch(w) \/ ReduceCallFails(w) \/ ReducerDies(w)
                              \/ \E success \in BOOLEAN : ReduceReply(w, success)
  BY <1>4, FetchJob, ReducerGoneJob, ReduceReplyJob
<1>5. CASE UNCHANGED vars
  <2>1. MapPhase' /\ RunsKnown' /\ OutputsKept' /\ Starting'
    BY <1>5, MapSideUnchanged DEF vars, master, reduces
  <2>2. ReducersRead' /\ NewCentroids'
    BY <1>5 DEF vars, master, reduces, Inv, JobInv, ReducersRead, NewCentroids, Base, Means
  <2>. QED
    BY <2>1, <2>2 DEF JobInv
<1>. QED
  BY <1>1, <1>2, <1>3, <1>4, <1>5 DEF Next

LEMMA Invariance == LateApart => (Spec => []Inv)
<1> SUFFICES ASSUME LateApart PROVE Spec => []Inv
  OBVIOUS
<1>1. Init => Inv
  BY InitIInv, TypeInit, JobInit DEF Inv
<1>2. Inv /\ [Next]_vars => Inv'
  BY NextIInv, TypeStep, JobStep DEF Inv
<1>. QED
  BY <1>1, <1>2, PTL DEF Spec

\* Whoever dies, fails or is late, a reducer only reads whole files of the current
\* centroids, as long as a late mapper shares its files with no other: the file of
\* a completed map task is nobody's who still writes (run, __run_map, GetData).
THEOREM OutputsReady == LateApart => (Spec => []MapOutputReady)
<1> SUFFICES ASSUME LateApart PROVE Spec => []MapOutputReady
  OBVIOUS
<1>1. Inv => MapOutputReady
  BY SizesAssumption DEF Inv, JobInv, OutputsKept, Done, WholeFile, MapOutputReady
<1>. QED
  BY <1>1, Invariance, PTL

\* Only two equal ones of the first K points make the main thread fail, in files,
\* clusters and pools of any size, as long as a late mapper shares its files with no
\* other (__submit_reduce_task, __run_map).
THEOREM DuplicatesOnly == LateApart => (Spec => []FailsOnlyOnDuplicates)
<1> SUFFICES ASSUME LateApart PROVE Spec => []FailsOnlyOnDuplicates
  OBVIOUS
<1>1. Inv => FailsOnlyOnDuplicates
  BY DEF Inv, JobInv, MapPhase, Starting, FailsOnlyOnDuplicates
<1>. QED
  BY <1>1, Invariance, PTL

-----------------------------------------------------------------------------
(***************************************************************************)
(* The job implements KMeans.tla.                                          *)
(***************************************************************************)

\* What Abstract has for the centroids
Filled(c, file) == [k \in Key |-> IF c[k] = None THEN file[k + 1] ELSE c[k]]
Mapped == [i \in DOMAIN centroids |-> Filled(centroids[i], points)]

\* The abstract job uses the same arithmetic.
LEMMA SameArithmetic ==
  /\ \A file, cs : Abstract!NextCentroids(file, cs) = NextCentroids(file, cs)
  /\ Abstract!Key = Key
<1>1. \A file, S : Abstract!Mean(file, S) = Mean(file, S)
  BY DEF Abstract!Mean, Mean, Abstract!RoundedMean, RoundedMean,
         Abstract!MapThenSumSet, MapThenSumSet, Abstract!MapThenFoldSet, MapThenFoldSet,
         Abstract!Cardinality, Cardinality
<1>2. \A p, cs : Abstract!Closest(p, cs) = Closest(p, cs)
  BY DEF Abstract!Closest, Closest, Abstract!Distance, Distance, Abstract!Key, Key
<1>3. \A file, cs, k : Abstract!Cluster(file, cs, k) = Cluster(file, cs, k)
  BY <1>2 DEF Abstract!Cluster, Cluster
<1>. QED
  BY <1>1, <1>3 DEF Abstract!NextCentroids, NextCentroids, Abstract!Key, Key

\* The end of an iteration is one iteration of k-means: where no mean came in, the
\* cluster had no point, and its centroid stays.
LEMMA MeansAreNext ==
  ASSUME Inv, AllSet
  PROVE  Filled(Means, points) = NextCentroids(points, centroids[1])
<1>1. points \in File /\ centroids[1] \in [Key -> Point] /\ None \notin Point
  BY FirstCentroid, PointsFile, SizesAssumption DEF Inv, Point
<1>2. ASSUME NEW k \in Key
      PROVE  Filled(Means, points)[k] = NextCentroids(points, centroids[1])[k]
  <2>1. Filled(Means, points)[k] = IF Means[k] = None THEN points[k + 1] ELSE Means[k]
    BY DEF Filled
  <2>2. CASE Cluster(points, centroids[1], k) = {}
    <3>1. Means[k] = Base[k] /\ NextCentroids(points, centroids[1])[k] = centroids[1][k]
      BY <2>2 DEF Means, NextCentroids
    <3>2. CASE Len(centroids) = 1
      <4>1. Base[k] = None /\ centroids[1][k] = points[k + 1]
        BY <3>2 DEF Base, Inv, JobInv, Starting
      <4>. QED
        BY <2>1, <3>1, <4>1
    <3>3. CASE Len(centroids) # 1
      <4>1. Base[k] = centroids[1][k] /\ centroids[1][k] # None
        BY <3>3 DEF Base, AllSet
      <4>. QED
        BY <2>1, <3>1, <4>1
    <3>. QED
      BY <3>2, <3>3
  <2>3. CASE Cluster(points, centroids[1], k) # {}
    <3>1. /\ Means[k] = Mean(points, Cluster(points, centroids[1], k))
          /\ NextCentroids(points, centroids[1])[k] = Mean(points, Cluster(points, centroids[1], k))
      BY <2>3 DEF Means, NextCentroids
    <3>2. Mean(points, Cluster(points, centroids[1], k)) \in Point
      BY <1>1, <2>3, ClusterFinite, MeanIsPoint
    <3>. QED
      BY <1>1, <2>1, <3>1, <3>2
  <2>. QED
    BY <2>2, <2>3
<1>. QED
  BY <1>2 DEF Filled, NextCentroids

\* A centroid that is missing never decides whether the job is over.
LEMMA SameEnd ==
  ASSUME Inv, EndIteration
  PROVE  Abstract!Over(centroids') <=> Abstract!Over(Mapped')
<1>1. /\ centroids' = <<new_centroids>> \o centroids
      /\ points' = points
      /\ new_centroids \in [Key -> Point \cup {None}]
      /\ centroids \in Seq([Key -> Point \cup {None}]) /\ centroids # <<>>
  BY DEF EndIteration, Inv, TypeInv, MasterTyped
<1>2. AllSet /\ new_centroids = Means
  BY AllReduced
<1>3. /\ centroids' \in Seq([Key -> Point \cup {None}])
      /\ centroids'[1] = new_centroids /\ centroids'[2] = centroids[1]
      /\ Len(centroids') = Len(centroids) + 1 /\ Len(centroids) \in Nat \ {0}
      /\ DOMAIN centroids' = 1..Len(centroids')
  BY <1>1
<1>4. /\ Mapped' = [i \in 1..Len(centroids') |-> Filled(centroids'[i], points)]
      /\ Len(Mapped') = Len(centroids')
  BY <1>1, <1>3 DEF Mapped, Filled
<1>5. ASSUME 2 < Len(centroids')
      PROVE  Mapped'[1] = centroids'[1] /\ Mapped'[2] = centroids'[2]
  <2>1. \A k \in Key : Means[k] # None /\ centroids[1][k] # None
    <3>1. \A n \in Nat : 2 < n + 1 => n # 1
      OBVIOUS
    <3>2. Len(centroids) # 1
      BY <1>3, <1>5, <3>1, Zenon
    <3>. QED
      BY <1>2, <3>2, MeanMissing DEF AllSet
  <2>2. Filled(new_centroids, points) = new_centroids
        /\ Filled(centroids[1], points) = centroids[1]
    BY <1>1, <1>2, <2>1 DEF Filled
  <2>. QED
    BY <1>3, <1>4, <1>5, <2>2
<1>. QED
  BY <1>4, <1>5 DEF Abstract!Over

LEMMA EndIterates ==
  ASSUME Inv, EndIteration
  PROVE  Abstract!Iterate
<1>1. /\ centroids' = <<new_centroids>> \o centroids
      /\ points' = points
      /\ phase = "reduce" /\ phase' = IF Abstract!Over(centroids') THEN "done" ELSE "map"
      /\ new_centroids \in [Key -> Point \cup {None}]
      /\ centroids \in Seq([Key -> Point \cup {None}]) /\ centroids # <<>>
  BY DEF EndIteration, Inv, TypeInv, MasterTyped
<1>2. AllSet /\ new_centroids = Means
  BY AllReduced
<1>3. Mapped[1] = centroids[1]
  BY <1>1, <1>2 DEF Mapped, Filled, AllSet
<1>4. Mapped' = <<NextCentroids(points, Mapped[1])>> \o Mapped
  <2> DEFINE T == [Key -> Point \cup {None}]
             n == Len(centroids)
             next == NextCentroids(points, Mapped[1])
  <2>1. /\ n \in Nat \ {0} /\ DOMAIN centroids = 1..n
        /\ DOMAIN centroids' = 1..(n + 1)
        /\ centroids'[1] = new_centroids
        /\ \A i \in 2..(n + 1) : centroids'[i] = centroids[i - 1]
    BY <1>1
  <2>2. Mapped = [i \in 1..n |-> Filled(centroids[i], points)]
    BY <2>1 DEF Mapped
  <2>3. Mapped' = [i \in 1..(n + 1) |-> Filled(centroids'[i], points)]
    BY <1>1, <2>1 DEF Mapped, Filled
  <2>4. Filled(new_centroids, points) = next
    BY <1>2, <1>3, MeansAreNext
  <2>5. <<next>> \o Mapped = [i \in 1..(n + 1) |-> IF i = 1 THEN next ELSE Mapped[i - 1]]
    <3> HIDE DEF next, n
    <3>. QED
      BY <2>1, <2>2
  <2>6. ASSUME NEW i \in 1..(n + 1)
        PROVE  Filled(centroids'[i], points) = IF i = 1 THEN next ELSE Mapped[i - 1]
    <3>1. CASE i = 1
      BY <2>1, <2>4, <3>1
    <3>2. CASE i # 1
      <4>1. i \in 2..(n + 1) /\ i - 1 \in 1..n
        BY <2>1, <3>2
      <4>. QED
        BY <2>1, <2>2, <3>2, <4>1
    <3>. QED
      BY <3>1, <3>2
  <2>7. Mapped' = [i \in 1..(n + 1) |-> IF i = 1 THEN next ELSE Mapped[i - 1]]
    <3> HIDE DEF next, n
    <3>. QED
      BY <2>3, <2>6
  <2>. QED
    BY <2>5, <2>7
<1>5. (phase' = "done") = Abstract!Over(Mapped')
  <2>1. (phase' = "done") <=> Abstract!Over(Mapped')
    BY <1>1, SameEnd
  <2>2. Abstract!Over(Mapped') \in BOOLEAN
    BY DEF Abstract!Over
  <2>. QED
    BY <2>1, <2>2
<1>. QED
  BY <1>1, <1>4, <1>5, SameArithmetic DEF Abstract!Iterate, Mapped, Filled

LEMMA StepMaps ==
  ASSUME Inv, [Next]_vars
  PROVE  [Abstract!Iterate]_(Abstract!vars)
<1>1. CASE EndIteration
  BY <1>1, EndIterates
<1>2. CASE ~EndIteration
  <2>1. points' = points /\ centroids' = centroids /\ ((phase = "done") <=> (phase' = "done"))
    BY <1>2 DEF Next, vars, master, AssignMaps, StartReduce, AssignReduces, OpenPartition,
                ClosePartition, MapReply, MapCallFails, MapperDies, Fetch, ReduceReply,
                ReduceCallFails, ReducerDies
  <2>2. UNCHANGED Abstract!vars
    BY <2>1 DEF Abstract!vars
  <2>. QED
    BY <2>2
<1>. QED
  BY <1>1, <1>2

\* Whichever workers die, fail or are late, what the master has after an iteration
\* is what k-means has, for jobs, pools and files of every size, as long as a late
\* mapper shares its files with no other: the end of a reduce phase is an iteration
\* and nothing else changes a centroid (run).
THEOREM ImplementsKMeans == LateApart => (Spec => ComputesKMeans)
<1> SUFFICES ASSUME LateApart PROVE Spec => Abstract!Spec
  BY DEF ComputesKMeans
<1>1. Init => Abstract!Init
  <2> SUFFICES ASSUME Init PROVE Abstract!Init
    OBVIOUS
  <2>1. \A k \in Key : points[k + 1] \in Point
    BY PointsFile, KAssumption DEF Init, Key
  <2>2. Mapped = <<[k \in Key |-> points[k + 1]]>>
    BY <2>1 DEF Init, Mapped, Filled
  <2>. QED
    BY <2>2, SameArithmetic DEF Init, Abstract!Init, Mapped, Filled
<1>2. Inv /\ [Next]_vars => [Abstract!Iterate]_(Abstract!vars)
  BY StepMaps
<1>. QED
  BY <1>1, <1>2, Invariance, PTL DEF Spec, Abstract!Spec
=============================================================================

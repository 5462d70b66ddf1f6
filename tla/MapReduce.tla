----------------------------- MODULE MapReduce -----------------------------
(***************************************************************************)
(* assignment-3: the master, the mappers and the reducers of a k-means     *)
(* job.  The master's main thread runs the phases; a thread of its pool    *)
(* waits for each DoMap and DoReduce call; mappers write partition files   *)
(* that reducers fetch with GetData.                                       *)
(*                                                                         *)
(* The master's threads share the tasks and workers under self.mutex: one  *)
(* critical section is one action.  Mappers write files step by step, and  *)
(* reducers read them mapper by mapper.  Any worker may die, and a mapper  *)
(* of Late may also be slower than its deadline of 5 s: the master then    *)
(* takes it for dead while it goes on.                                     *)
(*                                                                         *)
(* Tasks, workers and centroids have the indices of the code, from 0.      *)
(***************************************************************************)
EXTENDS Clustering

CONSTANTS
  Iterations, Inputs,        \* as in KMeans
  M, R,                      \* number of map and of reduce tasks
  Mapper, Reducer,           \* the workers of config.yaml: 0, 1, ...
  Host, HostOf,              \* which mappers share a file system
  Late,                      \* the mappers that may miss a deadline
  MortalMapper, MortalReducer,  \* bound: the workers that may die
  None                       \* no call, no run, no centroid yet

VARIABLES
  points,          \* the input file, the same for all
  phase,           \* of the master's main thread
  centroids,       \* one function on Key per iteration, the newest first
  new_centroids,
  mapStatus, mapper_id,           \* the map tasks
  reduceStatus, mapper_address,   \* the reduce tasks, which all have the same addresses
  mapperStatus, reducerStatus,    \* the workers, as the master sees them
  mapCall, reduceCall,            \* the task whose reply the master awaits from a worker
  alive,                          \* the mappers that have not died
  mapRun, reduceRun,              \* what DoMap and DoReduce are doing on a worker
  files                           \* partition files: host, map task, partition

master  == <<points, phase, centroids, new_centroids>>
maps    == <<mapStatus, mapper_id, mapperStatus, mapCall, mapRun>>
reduces == <<reduceStatus, mapper_address, reducerStatus, reduceCall, reduceRun>>
vars    == <<master, maps, reduces, alive, files>>

MapTask    == 0..(M - 1)
ReduceTask == 0..(R - 1)

\* Abstractly, the job computes k-means.  A cluster that never had a point still
\* has its starting point there.
Abstract == INSTANCE KMeans WITH
  done <- phase = "done",
  centroids <- [i \in DOMAIN centroids |-> [k \in Key |->
    IF centroids[i][k] = None THEN points[k + 1] ELSE centroids[i][k]]]

TaskStatus == {"PENDING", "RUNNING", "FAILED", "COMPLETED"}
WorkerStatus == {"FREE", "BUSY", "DEAD"}

\* The points of map task t: the file is cut into pieces of ceil(n / M).
SplitSize(file) == (Len(file) + M - 1) \div M

\* Mistaken variant: the end of a piece, which is exclusive in the code, is
\* taken for its last point.
Split_Short(file, t) == {i \in 1..Len(file) : t * SplitSize(file) < i /\ i < (t + 1) * SplitSize(file)}

Split(file, t) == {i \in 1..Len(file) : t * SplitSize(file) < i /\ i <= (t + 1) * SplitSize(file)}

\* The assertions of __init_clustering_params, that there are M pieces and K
\* centroids
ASSUME InputsAssumption ==
  \A file \in Inputs : /\ file \in Seq(Int \X Int) /\ Len(file) >= K
                         /\ (M - 1) * SplitSize(file) < Len(file)
ASSUME SizesAssumption == /\ M \in Nat \ {0} /\ R \in Nat \ {0}
                          /\ Mapper \subseteq Nat /\ Reducer \subseteq Nat
                          /\ IsFiniteSet(Mapper) /\ IsFiniteSet(Reducer)
                          /\ HostOf \in [Mapper -> Host]
                          /\ None \notin MapTask \cup ReduceTask \cup Mapper \cup (Int \X Int)
                          /\ Late \subseteq Mapper

\* DoMap of task t with centroids cs: what it writes to partition r, by
\* cluster_points and partition_points.
Partition(file, t, r, cs) ==
  LET key(i) == Closest(file[i], cs)
  IN  {<<i, key(i)>> : i \in {j \in Split(file, t) : key(j) % R = r}}

Rank(x, S) == Cardinality({y \in S : y < x})

\* The task that a round of __run_map or __run_reduce gives worker w, if any: it
\* walks through the open tasks in order and each gets the first FREE worker.
Given(w, tasks, workers) == {t \in tasks : Rank(t, tasks) = Rank(w, workers)}

-----------------------------------------------------------------------------
(***************************************************************************)
(* The main thread of the master                                           *)
(***************************************************************************)

OpenTasks(status) == {t \in DOMAIN status : status[t] \in {"PENDING", "FAILED"}}

\* Mistaken variant: whoever is not dead may get a task.
FreeWorkers_NotDead(status) == {w \in DOMAIN status : status[w] # "DEAD"}

FreeWorkers(status) == {w \in DOMAIN status : status[w] = "FREE"}

\* Mistaken variant: what is neither pending nor failed counts as completed.
AllCompleted_NoneOpen(status) == \A t \in DOMAIN status : status[t] \notin {"PENDING", "FAILED"}

AllCompleted(status) == \A t \in DOMAIN status : status[t] = "COMPLETED"

\* A round of __run_map that finds a task and a worker.  The centroid of a
\* cluster that never had a point is no pair of numbers: the TypeError ends the
\* main thread, which holds the mutex.
AssignMaps ==
  LET tasks == OpenTasks(mapStatus)
      workers == FreeWorkers(mapperStatus)
      busy == {w \in workers : Given(w, tasks, workers) # {}}
      task(w) == CHOOSE t \in Given(w, tasks, workers) : TRUE
  IN  /\ phase = "map" /\ busy # {}
      /\ IF \E k \in Key : centroids[1][k] = None
         THEN /\ phase' = "failed"
              /\ UNCHANGED maps
         ELSE /\ mapStatus' = [t \in MapTask |-> IF \E w \in busy : task(w) = t
                                                 THEN "RUNNING" ELSE mapStatus[t]]
              /\ mapperStatus' = [w \in Mapper |-> IF w \in busy THEN "BUSY" ELSE mapperStatus[w]]
              /\ mapCall' = [w \in Mapper |-> IF w \in busy THEN task(w) ELSE mapCall[w]]
              /\ mapRun' = [w \in Mapper |->
                   IF w \in busy /\ w \in alive
                   THEN [task |-> task(w), centroids |-> centroids[1], part |-> 0, opened |-> FALSE]
                   ELSE mapRun[w]]
              /\ UNCHANGED <<phase, mapper_id>>
      /\ UNCHANGED <<points, centroids, new_centroids, reduces, alive, files>>

\* The round of __run_map that finds all tasks completed, and the part of run
\* up to __run_reduce, which sees the same state
StartReduce ==
  /\ phase = "map" /\ AllCompleted(mapStatus)
  /\ phase' = "reduce"
  /\ reduceStatus' = [r \in ReduceTask |-> "PENDING"]
  /\ mapper_address' = mapper_id
  /\ mapStatus' = [t \in MapTask |-> "PENDING"]
  /\ UNCHANGED <<points, centroids, new_centroids, mapper_id, mapperStatus, mapCall, mapRun,
                 reducerStatus, reduceCall, reduceRun, alive, files>>

\* A round of __run_reduce that finds a task and a worker
AssignReduces ==
  LET tasks == OpenTasks(reduceStatus)
      workers == FreeWorkers(reducerStatus)
      busy == {w \in workers : Given(w, tasks, workers) # {}}
      task(w) == CHOOSE r \in Given(w, tasks, workers) : TRUE
  IN  /\ phase = "reduce" /\ busy # {}
      /\ reduceStatus' = [r \in ReduceTask |-> IF \E w \in busy : task(w) = r
                                               THEN "RUNNING" ELSE reduceStatus[r]]
      /\ reducerStatus' = [w \in Reducer |-> IF w \in busy THEN "BUSY" ELSE reducerStatus[w]]
      /\ reduceCall' = [w \in Reducer |-> IF w \in busy THEN task(w) ELSE reduceCall[w]]
      /\ reduceRun' = [w \in Reducer |->
           IF w \in busy
           THEN [task |-> task(w), next |-> 0, data |-> {}]
           ELSE reduceRun[w]]
      /\ UNCHANGED <<master, maps, mapper_address, alive, files>>

\* The round of __run_reduce that finds all tasks completed, and the end of
\* the iteration in run.  Clusters without points keep what new_centroids has.
EndIteration ==
  /\ phase = "reduce" /\ AllCompleted(reduceStatus)
  /\ centroids' = <<new_centroids>> \o centroids
  /\ phase' = IF Abstract!Over(centroids') THEN "done" ELSE "map"
  /\ UNCHANGED <<points, new_centroids, maps, reduces, alive, files>>

-----------------------------------------------------------------------------
(***************************************************************************)
(* Map tasks: DoMap on a mapper, __submit_map_task in the master           *)
(***************************************************************************)

\* Mistaken variant: one partition too many.
PartitionsLeft_OneMore(run) == run.part <= R

PartitionsLeft(run) == run.part < R

\* open(partition_filename, "w") empties the file ...
OpenPartition(w) ==
  /\ mapRun[w] # None /\ PartitionsLeft(mapRun[w]) /\ ~mapRun[w].opened
  /\ files' = [files EXCEPT ![HostOf[w]][mapRun[w].task][mapRun[w].part] = {}]
  /\ mapRun' = [mapRun EXCEPT ![w].opened = TRUE]
  /\ UNCHANGED <<master, mapStatus, mapper_id, mapperStatus, mapCall, reduces, alive>>

\* ... and what was written reaches it when it is closed.
ClosePartition(w) ==
  /\ mapRun[w] # None /\ mapRun[w].opened
  /\ files' = [files EXCEPT ![HostOf[w]][mapRun[w].task][mapRun[w].part] =
                 Partition(points, mapRun[w].task, mapRun[w].part, mapRun[w].centroids)]
  /\ mapRun' = [mapRun EXCEPT ![w].opened = FALSE, ![w].part = @ + 1]
  /\ UNCHANGED <<master, mapStatus, mapper_id, mapperStatus, mapCall, reduces, alive>>

\* DoMap returns; half of the times it says FAILED.  The master hears of it
\* unless it has given up the call.
MapReply(w, success) ==
  /\ mapRun[w] # None /\ mapRun[w].part = R
  /\ mapRun' = [mapRun EXCEPT ![w] = None]
  /\ mapCall' = [mapCall EXCEPT ![w] = None]
  /\ IF mapCall[w] = None
     THEN UNCHANGED <<mapStatus, mapper_id, mapperStatus>>
     ELSE /\ mapStatus' = [mapStatus EXCEPT ![mapCall[w]] =
                             IF success THEN "COMPLETED" ELSE "FAILED"]
          /\ mapper_id' = IF success THEN [mapper_id EXCEPT ![mapCall[w]] = w] ELSE mapper_id
          /\ mapperStatus' = [mapperStatus EXCEPT ![w] = "FREE"]
  /\ UNCHANGED <<master, reduces, alive, files>>

\* Mistaken variant: the worker may be asked again.
MapCallFails_WorkerFree(w) ==
  /\ mapCall[w] # None
  /\ mapRun[w] = None \/ w \in Late
  /\ mapStatus' = [mapStatus EXCEPT ![mapCall[w]] = "FAILED"]
  /\ mapperStatus' = [mapperStatus EXCEPT ![w] = "FREE"]
  /\ mapCall' = [mapCall EXCEPT ![w] = None]
  /\ UNCHANGED <<master, mapper_id, mapRun, reduces, alive, files>>

\* The call ends UNAVAILABLE or DEADLINE_EXCEEDED: "consider the worker as down".
MapCallFails(w) ==
  /\ mapCall[w] # None
  /\ mapRun[w] = None \/ w \in Late
  /\ mapStatus' = [mapStatus EXCEPT ![mapCall[w]] = "FAILED"]
  /\ mapperStatus' = [mapperStatus EXCEPT ![w] = "DEAD"]
  /\ mapCall' = [mapCall EXCEPT ![w] = None]
  /\ UNCHANGED <<master, mapper_id, mapRun, reduces, alive, files>>

MapperDies(w) ==
  /\ w \in alive \cap MortalMapper
  /\ alive' = alive \ {w}
  /\ mapRun' = [mapRun EXCEPT ![w] = None]
  /\ UNCHANGED <<master, mapStatus, mapper_id, mapperStatus, mapCall, reduces, files>>

-----------------------------------------------------------------------------
(***************************************************************************)
(* Reduce tasks: DoReduce on a reducer, __submit_reduce_task in the master *)
(***************************************************************************)

\* Mistaken variant: all files are asked from one mapper.
Fetch_FirstAddress(w) ==
  /\ reduceRun[w] # None /\ reduceRun[w].next < M
  /\ LET run == reduceRun[w]
         t == run.next
         from == mapper_address[0]
         file == files[HostOf[from]][t][run.task]
     IN  reduceRun' = [reduceRun EXCEPT ![w] =
           IF from \in alive THEN [task |-> run.task, next |-> t + 1, data |-> run.data \cup file]
                             ELSE None]
  /\ UNCHANGED <<master, maps, reduceStatus, mapper_address, reducerStatus, reduceCall, alive, files>>

\* GetData of the next map task's file, which the mapper that completed it
\* reads.  When that mapper is gone the handler exits and never replies.
Fetch(w) ==
  /\ reduceRun[w] # None /\ reduceRun[w].next < M
  /\ LET run == reduceRun[w]
         t == run.next
         from == mapper_address[t]
         file == files[HostOf[from]][t][run.task]
     IN  reduceRun' = [reduceRun EXCEPT ![w] =
           IF from \in alive THEN [task |-> run.task, next |-> t + 1, data |-> run.data \cup file]
                             ELSE None]
  /\ UNCHANGED <<master, maps, reduceStatus, mapper_address, reducerStatus, reduceCall, alive, files>>

\* Mistaken variant: keys count from 1.
Members_NextKey(run, k) == {i \in 1..Len(points) : <<i, k + 1>> \in run.data}

\* The points a reducer has for cluster k (format_data_keywise)
Members(run, k) == {i \in 1..Len(points) : <<i, k>> \in run.data}

\* DoReduce returns; half of the times it says FAILED.  The master takes over
\* the means of the clusters that have points.
ReduceReply(w, success) ==
  /\ reduceRun[w] # None /\ reduceRun[w].next = M
  /\ LET r == reduceCall[w]
         members(k) == Members(reduceRun[w], k)
     IN  /\ reduceStatus' = [reduceStatus EXCEPT ![r] = IF success THEN "COMPLETED" ELSE "FAILED"]
         /\ new_centroids' = [k \in Key |-> IF success /\ members(k) # {}
                                            THEN Mean(points, members(k))
                                            ELSE new_centroids[k]]
  /\ reducerStatus' = [reducerStatus EXCEPT ![w] = "FREE"]
  /\ reduceCall' = [reduceCall EXCEPT ![w] = None]
  /\ reduceRun' = [reduceRun EXCEPT ![w] = None]
  /\ UNCHANGED <<points, phase, centroids, maps, mapper_address, alive, files>>

\* Mistaken variant: the task is not marked.
ReduceCallFails_TaskRunning(w) ==
  /\ reduceCall[w] # None /\ reduceRun[w] = None
  /\ reducerStatus' = [reducerStatus EXCEPT ![w] = "DEAD"]
  /\ reduceCall' = [reduceCall EXCEPT ![w] = None]
  /\ UNCHANGED <<master, maps, reduceStatus, mapper_address, reduceRun, alive, files>>

\* As MapCallFails.  What a late reducer still does reaches nobody.
ReduceCallFails(w) ==
  /\ reduceCall[w] # None /\ reduceRun[w] = None
  /\ reduceStatus' = [reduceStatus EXCEPT ![reduceCall[w]] = "FAILED"]
  /\ reducerStatus' = [reducerStatus EXCEPT ![w] = "DEAD"]
  /\ reduceCall' = [reduceCall EXCEPT ![w] = None]
  /\ UNCHANGED <<master, maps, mapper_address, reduceRun, alive, files>>

\* A reducer dies in a task, or is too late for the master.
ReducerDies(w) ==
  /\ w \in MortalReducer /\ reduceRun[w] # None
  /\ reduceRun' = [reduceRun EXCEPT ![w] = None]
  /\ UNCHANGED <<master, maps, reduceStatus, mapper_address, reducerStatus, reduceCall, alive, files>>

-----------------------------------------------------------------------------
Init ==
  /\ points \in Inputs
  /\ phase = "map"
  /\ centroids = <<[k \in Key |-> points[k + 1]]>>
  /\ new_centroids = [k \in Key |-> None]
  /\ mapStatus = [t \in MapTask |-> "PENDING"]
  /\ mapper_id = [t \in MapTask |-> None]
  /\ reduceStatus = [r \in ReduceTask |-> "PENDING"]
  /\ mapper_address = [t \in MapTask |-> None]
  /\ mapperStatus = [w \in Mapper |-> "FREE"]
  /\ reducerStatus = [w \in Reducer |-> "FREE"]
  /\ mapCall = [w \in Mapper |-> None] /\ reduceCall = [w \in Reducer |-> None]
  /\ alive = Mapper
  /\ mapRun = [w \in Mapper |-> None] /\ reduceRun = [w \in Reducer |-> None]
  /\ files = [h \in Host |-> [t \in MapTask |-> [r \in ReduceTask |-> {}]]]

Next ==
  \/ AssignMaps
  \/ StartReduce
  \/ AssignReduces
  \/ EndIteration
  \/ \E w \in Mapper : OpenPartition(w)
  \/ \E w \in Mapper : ClosePartition(w)
  \/ \E w \in Mapper, success \in BOOLEAN : MapReply(w, success)
  \/ \E w \in Mapper : MapCallFails(w)
  \/ \E w \in Mapper : MapperDies(w)
  \/ \E w \in Reducer : Fetch(w)
  \/ \E w \in Reducer, success \in BOOLEAN : ReduceReply(w, success)
  \/ \E w \in Reducer : ReduceCallFails(w)
  \/ \E w \in Reducer : ReducerDies(w)

Spec == Init /\ [][Next]_vars

\* The main thread and the handlers go on, calls to the dead end, and a worker
\* that is asked again and again does not say FAILED every time (random.random).
Fairness ==
  /\ WF_vars(AssignMaps \/ StartReduce \/ AssignReduces \/ EndIteration)
  /\ \A w \in Mapper : /\ WF_vars(OpenPartition(w) \/ ClosePartition(w))
                       /\ WF_vars(\E success \in BOOLEAN : MapReply(w, success))
                       /\ SF_vars(MapReply(w, TRUE))
                       /\ WF_vars(mapRun[w] = None /\ MapCallFails(w))
  /\ \A w \in Reducer : /\ WF_vars(Fetch(w))
                        /\ WF_vars(\E success \in BOOLEAN : ReduceReply(w, success))
                        /\ SF_vars(ReduceReply(w, TRUE))
                        /\ WF_vars(ReduceCallFails(w))

FairSpec == Spec /\ Fairness

-----------------------------------------------------------------------------
(***************************************************************************)
(* Properties                                                              *)
(***************************************************************************)

MapRun == [task: MapTask, centroids: [Key -> Int \X Int], part: 0..R, opened: BOOLEAN]
Data == (Nat \X Key)
ReduceRun == [task: ReduceTask, next: 0..M, data: SUBSET Data]

\* The values of the fields of Master and of what the handlers work on
TypeOK ==
  /\ points \in Inputs
  /\ phase \in {"map", "reduce", "done", "failed"}
  /\ centroids \in Seq([Key -> (Int \X Int) \cup {None}]) /\ centroids # <<>>
  /\ new_centroids \in [Key -> (Int \X Int) \cup {None}]
  /\ mapStatus \in [MapTask -> TaskStatus]
  /\ mapper_id \in [MapTask -> Mapper \cup {None}]
  /\ reduceStatus \in [ReduceTask -> TaskStatus]
  /\ mapper_address \in [MapTask -> Mapper \cup {None}]
  /\ mapperStatus \in [Mapper -> WorkerStatus]
  /\ reducerStatus \in [Reducer -> WorkerStatus]
  /\ mapCall \in [Mapper -> MapTask \cup {None}]
  /\ reduceCall \in [Reducer -> ReduceTask \cup {None}]
  /\ alive \subseteq Mapper
  /\ mapRun \in [Mapper -> MapRun \cup {None}]
  /\ reduceRun \in [Reducer -> ReduceRun \cup {None}]
  /\ files \in [Host -> [MapTask -> [ReduceTask -> SUBSET Data]]]

\* The master's two tables agree: a worker is BUSY exactly while its reply is
\* awaited, a task RUNNING exactly while one worker's is, and no task is with
\* two workers that count (__run_map, __submit_map_task and their like).
TasksMatchWorkers ==
  /\ \A w \in Mapper : mapperStatus[w] = "BUSY" <=> mapCall[w] # None
  /\ \A t \in MapTask : mapStatus[t] = "RUNNING" <=> \E w \in Mapper : mapCall[w] = t
  /\ \A v, w \in Mapper : mapCall[v] = mapCall[w] => v = w \/ mapCall[v] = None
  /\ \A w \in Reducer : reducerStatus[w] = "BUSY" <=> reduceCall[w] # None
  /\ \A r \in ReduceTask : reduceStatus[r] = "RUNNING" <=> \E w \in Reducer : reduceCall[w] = r
  /\ \A v, w \in Reducer : reduceCall[v] = reduceCall[w] => v = w \/ reduceCall[v] = None

\* While reducers may read, the file they are sent to for a map task is whole
\* and of this iteration's centroids (run, __run_map, GetData).
MapOutputReady ==
  phase = "reduce" =>
    \A t \in MapTask, r \in ReduceTask :
      /\ mapper_address[t] # None
      /\ files[HostOf[mapper_address[t]]][t][r] = Partition(points, t, r, centroids[1])

\* The job only fails when two of the first K points are the same: no other
\* input leaves a centroid unset (__submit_reduce_task).
FailsOnlyOnDuplicates == phase = "failed" => ~DistinctStart(points)

\* Every iteration of the job is one of k-means on all the points, in order,
\* whatever workers fail, and the job ends when k-means does.
ComputesKMeans == Abstract!Spec

\* As long as the mappers live the job ends, although reducers die but for one
\* and tasks fail any number of times.
JobEnds == [](alive = Mapper /\ \E w \in Reducer : reducerStatus[w] # "DEAD") => <>(phase = "done")

\* The job ends, or there is no mapper or no reducer left that the master
\* thinks alive: nothing else makes __run_map or __run_reduce loop for ever.
EndsOrWorkersGone ==
  <>(\/ phase = "done"
     \/ \A w \in Mapper : mapperStatus[w] = "DEAD"
     \/ \A w \in Reducer : reducerStatus[w] = "DEAD")
=============================================================================

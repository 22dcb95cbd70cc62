-------------------------- MODULE ResultStreamProofs --------------------------
(***************************************************************************)
(* The result of a data request, for any number of tasks, threads, chunks  *)
(* and batches and for any size of the buffers.                            *)
(*                                                                         *)
(* The argument.  Where a task is and what the queue holds is the same for *)
(* all three plans (TasksPlaced).  A sink that is refused registers before *)
(* its task is descheduled, and only the client takes an entry out again,  *)
(* with the task it puts back into the queue: no task is blocked unknown.  *)
(* The collector's lock lets one task at a time between the look at a      *)
(* simple buffer and the chunk that goes into it (OneSink), so that only   *)
(* the last chunk passes the bound; that the counter is the bytes of the   *)
(* chunks is said with the partial sums of their sizes (Filled), which a   *)
(* chunk at the end extends and one fewer at the front shifts.  Each chunk *)
(* of a simple plan is in one place at a time (ChunksInOnePlace), which    *)
(* makes Fetch the one of ChunkStream.                                     *)
(***************************************************************************)
EXTENDS ResultStream, TLAPS, WellFoundedInduction, FiniteSetTheorems

TaskPlaces == {"start", "head", "push", "should", "block", "append", "desched", "retry",
               "last", "combine", "nextmin", "reindex", "done", "threw"}

\* The queue holds the tasks that are queued, each once, and a task that is being
\* descheduled is in a thread's hands.
TasksPlaced ==
  /\ loc \in [Tasks -> Locations]
  /\ tpc \in [Tasks -> TaskPlaces]
  /\ queue \in Seq(Tasks)
  /\ \A i \in 1..Len(queue) : loc[queue[i]] = "queue"
  /\ \A i, j \in 1..Len(queue) : queue[i] = queue[j] => i = j
  /\ \A t \in Tasks : tpc[t] = "desched" =>
       loc[t] = "pool" \/ (loc[t] = "client" /\ cpc \in {"run", "drain"})

\* The sink has refused the task's chunk.
Refused(t) == loc[t] = "blocked" \/ tpc[t] = "desched"

NoneRefusedNew == \A t \in Tasks : Refused(t)' => Refused(t)

\* What ExecuteTask returned, and why tasks are cancelled.
ResultKnown ==
  /\ cpc = "ran" => res \in {"not_ready", "no_tasks", "ready", "finished", "error"}
  /\ cpc \in {"cancel", "draining", "drain"} => res \in {"error", "interrupt", "abandoned"}

\* A task that the batched buffer has refused is registered with its batch.
BatchedKnown == ~cancelled => \A t \in Tasks : Refused(t) => <<batch[t], t>> \in blockedSinks

BatchedInv ==
  /\ nextBatch \in Nat
  /\ batch \in [Tasks -> Nat] /\ target \in [Tasks -> Nat]
  /\ blockedSinks \subseteq Nat \X Tasks /\ todo \subseteq Nat \X Tasks
  /\ cpc = "waking" => todo # {}
  /\ BatchedKnown

\* A task that a simple buffer has refused is in its queue of blocked sinks.
SimpleKnown ==
  ~cancelled => \A t \in Tasks : Refused(t) => \E i \in 1..Len(blockedSinks) : blockedSinks[i] = t

SimpleTypes ==
  /\ bytes \in [1..NumChunks -> 1..MaxBytes]
  /\ nextChunk \in 1..NumChunks + 1
  /\ held \in [Tasks -> 0..NumChunks]
  /\ buffered \in Seq(1..NumChunks) /\ delivered \in Seq(1..NumChunks)
  /\ blockedSinks \in Seq(Tasks)
  /\ cpc = "waking" => blockedSinks # <<>>

\* The collector's lock.
OneSink ==
  \A t, u \in Tasks : tpc[t] \in {"append", "block"} /\ tpc[u] \in {"append", "block"} => t = u

\* The bytes of the first chunks of a queue, so many each.
Adds(q, b, f) ==
  /\ f \in [0..Len(q) -> Nat] /\ f[0] = 0
  /\ \A i \in 1..Len(q) : f[i] = f[i - 1] + b[q[i]]
  /\ \A i, j \in 0..Len(q) : i <= j => f[i] <= f[j]

\* A queue of c bytes, which was not full before its last chunk.
Filled(q, b, c) ==
  \E f : Adds(q, b, f) /\ c = f[Len(q)] /\ (q # <<>> => f[Len(q) - 1] < BufferSize)

\* Scan only makes room, so there still is some for a chunk that has been let in.
RoomKept ==
  /\ count \in Nat /\ Filled(buffered, bytes, count)
  /\ \A t \in Tasks : tpc[t] = "append" => count < BufferSize

\* Where a task has a chunk, and that the first task ends only behind the last one.
ChunkPlaces ==
  /\ \A t \in Tasks :
       /\ tpc[t] \notin {"should", "combine", "nextmin", "reindex"}
       /\ tpc[t] \in {"start", "head", "last", "done"} => held[t] = 0
       /\ tpc[t] \in {"push", "append", "block", "desched", "retry"} => held[t] # 0
  /\ tpc[1] \in {"last", "done"} => nextChunk = NumChunks + 1

AllDone == \A t \in Tasks : tpc[t] = "done"

\* What the client knows when it stops fetching.
EndKnown ==
  /\ ~success => (cpc = "ran" /\ res = "error") \/ cpc \in {"scan", "ended", "refused"}
  /\ cpc = "ran" /\ res = "error" => ~success
  /\ cpc = "ran" /\ res = "finished" => AllDone
  /\ cpc = "scan" => ~success \/ buffered # <<>> \/ AllDone
  /\ res = "abandoned" => cpc \in {"cancel", "draining", "drain", "ended"}

\* The chunks that the tasks have given away.
Out == delivered \o buffered

Holders == {t \in Tasks : held[t] # 0}

\* Every chunk that has left the source is in one place: delivered, buffered, or
\* with a task; with one task they are in order.
ChunksInOnePlace ==
  /\ \A i, j \in 1..Len(Out) : Out[i] = Out[j] => i = j
  /\ \A i \in 1..Len(Out) : Out[i] < nextChunk
  /\ \A t \in Holders : held[t] < nextChunk /\ \A i \in 1..Len(Out) : Out[i] # held[t]
  /\ \A t, u \in Holders : held[t] = held[u] => t = u
  /\ Len(Out) + Cardinality(Holders) = nextChunk - 1
  /\ plan = "ordered" =>
       /\ \A t \in Tasks \ {1} : tpc[t] = "done"
       /\ \A i \in 1..Len(Out) : Out[i] = i
       /\ held[1] # 0 => held[1] = nextChunk - 1

SimpleInv ==
  SimpleTypes /\ SimpleKnown /\ OneSink /\ RoomKept /\ ChunkPlaces /\ EndKnown

-----------------------------------------------------------------------------
\* A step of a task that a thread runs and goes on running.
LEMMA MovesKeep ==
  ASSUME TasksPlaced, NEW t \in Tasks, NEW q \in TaskPlaces, Runs(t), Goes(t, q),
         UNCHANGED <<loc, queue, cpc>>
  PROVE  /\ TasksPlaced'
         /\ \A u \in Tasks : Refused(u)' => Refused(u) \/ (u = t /\ q = "desched")
         /\ q # "desched" => ~Refused(t)'
  BY DEF TasksPlaced, Refused, Runs, Goes

\* A task ends, or is blocked, or dropped: the thread puts it away.
LEMMA LeavesKeep ==
  ASSUME TasksPlaced, NEW t \in Tasks, NEW q \in TaskPlaces \ {"desched"}, Runs(t), Goes(t, q),
         NEW l \in {"gone", "blocked"}, loc' = [loc EXCEPT ![t] = l],
         UNCHANGED <<queue, cpc>>
  PROVE  /\ TasksPlaced'
         /\ \A u \in Tasks : Refused(u)' => Refused(u) \/ (u = t /\ l = "blocked")
  BY DEF TasksPlaced, Refused, Runs, Goes, Locations

LEMMA PoolTakesKeeps ==
  ASSUME TasksPlaced, NEW t \in Tasks, queue # <<>>, t = Head(queue), queue' = Tail(queue),
         loc' = [loc EXCEPT ![t] = "pool"], UNCHANGED <<tpc, cpc>>
  PROVE  TasksPlaced' /\ NoneRefusedNew
  BY DEF TasksPlaced, Refused, NoneRefusedNew, Locations

\* The client's own steps.
LEMMA ClientTakesKeeps ==
  ASSUME TasksPlaced, queue # <<>>, cpc' \in {"run", "drain"}, UNCHANGED tpc,
         cpc \notin {"run", "drain"},
         loc' = [loc EXCEPT ![Head(queue)] = "client"], queue' = Tail(queue)
  PROVE  TasksPlaced' /\ NoneRefusedNew
  BY DEF TasksPlaced, Refused, NoneRefusedNew, Locations

LEMMA ClientMovesKeeps ==
  ASSUME TasksPlaced, UNCHANGED <<loc, tpc, queue>>,
         cpc \in {"run", "drain"} => \A t \in Tasks : loc[t] = "client" => tpc[t] \in Heads
  PROVE  TasksPlaced' /\ NoneRefusedNew
  BY DEF TasksPlaced, Refused, NoneRefusedNew, Heads

LEMMA ReschedulesKeeps ==
  ASSUME TasksPlaced, NEW t \in Tasks, Reschedules(t), cpc \notin {"run", "drain"}
  PROVE  TasksPlaced' /\ NoneRefusedNew /\ ~Refused(t)'
  BY DEF TasksPlaced, Refused, NoneRefusedNew, Reschedules, Locations

LEMMA ClientStepKeeps ==
  ASSUME TasksPlaced, ClientStep
  PROVE  TasksPlaced' /\ NoneRefusedNew /\ UNCHANGED tpc
  <1>1. CASE ClientTakes
    <2>1. CASE UNCHANGED <<loc, queue>>
      BY <1>1, <2>1, ClientMovesKeeps DEF ClientTakes
    <2>2. CASE queue # <<>> /\ loc' = [loc EXCEPT ![Head(queue)] = "client"] /\ queue' = Tail(queue)
      BY <1>1, <2>2, ClientTakesKeeps DEF ClientTakes
    <2> QED BY <1>1, <2>1, <2>2 DEF ClientTakes
  <1>2. CASE ClientFindsNone
    BY <1>2, ClientMovesKeeps DEF ClientFindsNone, executor
  <1>3. CASE ClientFinished
    BY <1>3, ClientMovesKeeps DEF ClientFinished, executor
  <1>4. CASE ClientLooks
    BY <1>4, ClientMovesKeeps DEF ClientLooks, executor
  <1>5. CASE ClientRan
    BY <1>5, ClientMovesKeeps DEF ClientRan, executor
  <1>6. CASE CancelTasks
    BY <1>6 DEF CancelTasks, TasksPlaced, Refused, NoneRefusedNew, Locations
  <1>7. CASE DrainTakes
    BY <1>7, ClientTakesKeeps DEF DrainTakes
  <1>8. CASE DrainRan
    BY <1>8, ClientMovesKeeps DEF DrainRan, executor
  <1>9. CASE Drained
    BY <1>9, ClientMovesKeeps DEF Drained, executor
  <1>10. CASE SendLoops
    BY <1>10, ClientMovesKeeps DEF SendLoops, executor
  <1> QED
    BY <1>1, <1>2, <1>3, <1>4, <1>5, <1>6, <1>7, <1>8, <1>9, <1>10 DEF ClientStep

LEMMA ClientStepKnows ==
  ASSUME ResultKnown, ClientStep
  PROVE  ResultKnown' /\ cpc' # "waking"
  BY DEF ResultKnown, ClientStep, ClientTakes, ClientFindsNone, ClientFinished, ClientLooks,
         ClientRan, CancelTasks, DrainTakes, DrainRan, Drained, SendLoops, Returns

\* The buffers are instances of modules that extend DuckExecutor: the client's steps
\* are the same in both.
LEMMA SameClientStep == (Batched!ClientStep <=> ClientStep) /\ (Simple!ClientStep <=> ClientStep)
  <1>1. (Batched!ClientTakes <=> ClientTakes) /\ (Simple!ClientTakes <=> ClientTakes)
    BY DEF ClientTakes, Completed, Tasks,
         Batched!ClientTakes, Batched!Completed, Batched!Tasks,
         Simple!ClientTakes, Simple!Completed, Simple!Tasks
  <1>2. (Batched!ClientFindsNone <=> ClientFindsNone) /\ (Simple!ClientFindsNone <=> ClientFindsNone)
    BY DEF ClientFindsNone, Completed, executor, Tasks,
         Batched!ClientFindsNone, Batched!Completed, Batched!executor, Batched!Tasks,
         Simple!ClientFindsNone, Simple!Completed, Simple!executor, Simple!Tasks
  <1>3. (Batched!ClientFinished <=> ClientFinished) /\ (Simple!ClientFinished <=> ClientFinished)
    BY DEF ClientFinished, Completed, Returns, executor, Tasks,
         Batched!ClientFinished, Batched!Completed, Batched!Returns, Batched!executor, Batched!Tasks,
         Simple!ClientFinished, Simple!Completed, Simple!Returns, Simple!executor, Simple!Tasks
  <1>4. (Batched!ClientLooks <=> ClientLooks) /\ (Simple!ClientLooks <=> ClientLooks)
    BY DEF ClientLooks, Returns, executor, Tasks,
         Batched!ClientLooks, Batched!Returns, Batched!executor, Batched!Tasks,
         Simple!ClientLooks, Simple!Returns, Simple!executor, Simple!Tasks
  <1>5. (Batched!ClientRan <=> ClientRan) /\ (Simple!ClientRan <=> ClientRan)
    BY DEF ClientRan, Returns, Heads, executor, Tasks,
         Batched!ClientRan, Batched!Returns, Batched!Heads, Batched!executor, Batched!Tasks,
         Simple!ClientRan, Simple!Returns, Simple!Heads, Simple!executor, Simple!Tasks
  <1>6. (Batched!CancelTasks <=> CancelTasks) /\ (Simple!CancelTasks <=> CancelTasks)
    BY DEF CancelTasks, Tasks,
         Batched!CancelTasks, Batched!Tasks,
         Simple!CancelTasks, Simple!Tasks
  <1>7. (Batched!DrainTakes <=> DrainTakes) /\ (Simple!DrainTakes <=> DrainTakes)
    BY DEF DrainTakes, Tasks,
         Batched!DrainTakes, Batched!Tasks,
         Simple!DrainTakes, Simple!Tasks
  <1>8. (Batched!DrainRan <=> DrainRan) /\ (Simple!DrainRan <=> DrainRan)
    BY DEF DrainRan, executor, Tasks,
         Batched!DrainRan, Batched!executor, Batched!Tasks,
         Simple!DrainRan, Simple!executor, Simple!Tasks
  <1>9. (Batched!Drained <=> Drained) /\ (Simple!Drained <=> Drained)
    BY DEF Drained, executor, Tasks,
         Batched!Drained, Batched!executor, Batched!Tasks,
         Simple!Drained, Simple!executor, Simple!Tasks
  <1>10. (Batched!SendLoops <=> SendLoops) /\ (Simple!SendLoops <=> SendLoops)
    BY DEF SendLoops, executor, Tasks,
         Batched!SendLoops, Batched!executor, Batched!Tasks,
         Simple!SendLoops, Simple!executor, Simple!Tasks
  <1> QED
    BY <1>1, <1>2, <1>3, <1>4, <1>5, <1>6, <1>7, <1>8, <1>9, <1>10
       DEF ClientStep, Batched!ClientStep, Simple!ClientStep
-----------------------------------------------------------------------------
\* A set of numbers has a least one.
LEMMA HasLeast ==
  ASSUME NEW S \in SUBSET Nat, S # {}
  PROVE  \E x \in S : \A y \in S : x <= y
  <1>1. \E R : IsWellFoundedOn(R, Nat) /\ (\A x, y \in Nat : y < x => <<y, x>> \in R)
    <2>1. \A x, y \in Nat : y < x => <<y, x>> \in OpToRel(<, Nat)
      BY DEF OpToRel
    <2> QED
      BY <2>1, NatLessThanWellFounded
  <1>2. PICK R : IsWellFoundedOn(R, Nat) /\ (\A x, y \in Nat : y < x => <<y, x>> \in R)
    BY <1>1
  <1>3. PICK x \in S : \A y \in S : ~(<<y, x>> \in R)
    BY <1>2, WFMin
  <1>4. \A y \in S : x <= y
    <2> TAKE y \in S
    <2>1. x \in Nat /\ y \in Nat /\ ~(y < x)
      BY <1>2, <1>3
    <2> QED
      BY <2>1
  <1> QED
    BY <1>4

LEMMA LeastIsIn ==
  ASSUME NEW S \in SUBSET Nat, S # {}
  PROVE  Batched!Min(S) \in S
  BY HasLeast DEF Batched!Min

\* What a step of a task leaves alone, when its sink is not refused.
LEMMA BatchedMoves ==
  ASSUME TasksPlaced, BatchedInv, NEW t \in Tasks, NEW q \in TaskPlaces \ {"desched"},
         Runs(t), Goes(t, q), UNCHANGED <<loc, queue, cancelled, cpc, blockedSinks, todo>>,
         nextBatch' \in Nat, batch' \in [Tasks -> Nat], target' \in [Tasks -> Nat],
         \A u \in Tasks \ {t} : batch'[u] = batch[u]
  PROVE  TasksPlaced' /\ BatchedInv'
  <1>1. TasksPlaced' /\ (\A u \in Tasks : Refused(u)' => Refused(u)) /\ ~Refused(t)'
    BY MovesKeep
  <1> QED
    BY <1>1 DEF BatchedInv, BatchedKnown

LEMMA BatchedTaskStep ==
  ASSUME TasksPlaced, ResultKnown, BatchedInv, NEW t \in Tasks, Batched!TaskStep(t)
  PROVE  TasksPlaced' /\ ResultKnown' /\ BatchedInv'
  <1> USE DEF Batched!At, Batched!Runs, Runs, Batched!Goes, Goes, Batched!RoundStarts,
              Batched!client, Batched!source, Batched!task, Batched!data, Batched!sinks
  <1>a. ResultKnown'
    <2>1. UNCHANGED <<cpc, res>>
      BY DEF Batched!TaskStep, Batched!Starts, Batched!FetchesSame, Batched!FetchesNext,
             Batched!UpdatesMin, Batched!Reindexes, Batched!Fails, Batched!Pushes,
             Batched!Decides, Batched!Blocks, Batched!Appends, Batched!Retries,
             Batched!Combines, Batched!Ends, Batched!Finishes, Batched!Rest,
             Batched!Interrupted, Batched!Deschedules, Batched!PoolTakes
    <2> QED
      BY <2>1 DEF ResultKnown
  <1> SUFFICES TasksPlaced' /\ BatchedInv'
    BY <1>a
  <1>0. /\ nextBatch \in Nat /\ batch \in [Tasks -> Nat] /\ target \in [Tasks -> Nat]
        /\ Batched!Tasks = Tasks /\ NumBatches \in Nat
    BY ResultAssumption DEF BatchedInv, Batched!Tasks, Tasks
  <1>1. CASE Batched!Starts(t)
    <2>1. Batched!Registered \subseteq Nat
      BY <1>0 DEF Batched!Registered
    <2>2. (IF Batched!Registered = {} THEN 0 ELSE Batched!Min(Batched!Registered)) \in Nat
      BY <2>1, LeastIsIn
    <2>3. batch' \in [Tasks -> Nat] /\ \A u \in Tasks \ {t} : batch'[u] = batch[u]
      BY <1>0, <1>1, <2>2 DEF Batched!Starts, Batched!NoBatch
    <2> QED
      BY <1>0, <1>1, <2>3, BatchedMoves DEF Batched!Starts, TaskPlaces
  <1>2. CASE Batched!FetchesSame(t)
    BY <1>0, <1>2, BatchedMoves DEF Batched!FetchesSame, TaskPlaces
  <1>3. CASE Batched!FetchesNext(t)
    <2>1. nextBatch' \in Nat
      <3>1. {nextBatch + 1, NumBatches + 1} \in SUBSET Nat
        BY <1>0
      <3> QED
        BY <1>3, <3>1, LeastIsIn DEF Batched!FetchesNext, Batched!MaxBatch
    <2>2. target' \in [Tasks -> Nat]
      BY <1>0, <1>3 DEF Batched!FetchesNext
    <2> QED
      BY <1>0, <1>3, <2>1, <2>2, BatchedMoves DEF Batched!FetchesNext, TaskPlaces
  <1>4. CASE Batched!UpdatesMin(t)
    BY <1>0, <1>4, BatchedMoves DEF Batched!UpdatesMin, TaskPlaces
  <1>5. CASE Batched!Reindexes(t)
    <2>1. batch' \in [Tasks -> Nat] /\ \A u \in Tasks \ {t} : batch'[u] = batch[u]
      BY <1>0, <1>5 DEF Batched!Reindexes
    <2>2. PICK q \in {"last", "head", "push"} : Goes(t, q)
      BY <1>5 DEF Batched!Reindexes
    <2> QED
      BY <1>0, <1>5, <2>1, <2>2, BatchedMoves DEF Batched!Reindexes, TaskPlaces
  <1>6. CASE Batched!Fails(t)
    BY <1>0, <1>6, LeavesKeep DEF Batched!Fails, Batched!Throws, TaskPlaces, BatchedInv, BatchedKnown
  <1>7. CASE Batched!Pushes(t)
    BY <1>0, <1>7, BatchedMoves DEF Batched!Pushes, TaskPlaces
  <1>8. CASE Batched!Decides(t)
    <2>1. PICK q \in {"block", "append"} : Goes(t, q)
      BY <1>8 DEF Batched!Decides
    <2> QED
      BY <1>0, <1>8, <2>1, BatchedMoves DEF Batched!Decides, TaskPlaces
  <1>9. CASE Batched!Blocks(t)
    <2>1. TasksPlaced' /\ \A u \in Tasks : Refused(u)' => Refused(u) \/ u = t
      BY ZenonT(60), <1>9, MovesKeep DEF Batched!Blocks, TaskPlaces
    <2> QED
      BY <1>0, <1>9, <2>1 DEF Batched!Blocks, BatchedInv, BatchedKnown
  <1>10. CASE Batched!Appends(t)
    BY <1>0, <1>10, BatchedMoves DEF Batched!Appends, TaskPlaces
  <1>11. CASE Batched!Retries(t)
    BY <1>0, <1>11, BatchedMoves DEF Batched!Retries, TaskPlaces
  <1>12. CASE Batched!Combines(t)
    BY <1>0, <1>12, BatchedMoves DEF Batched!Combines, TaskPlaces
  <1>13. CASE Batched!Ends(t)
    BY <1>0, <1>13, LeavesKeep DEF Batched!Ends, Batched!Finishes, TaskPlaces, BatchedInv, BatchedKnown
  <1>14. CASE Batched!Rest(t)
    <2>1. CASE Batched!Interrupted(t)
      BY <1>0, <1>14, <2>1, LeavesKeep
      DEF Batched!Rest, Batched!Interrupted, Batched!Throws, TaskPlaces, BatchedInv, BatchedKnown
    <2>2. CASE Batched!Deschedules(t)
      <3>1. TasksPlaced' /\ \A u \in Tasks : Refused(u)' => Refused(u) \/ u = t
        BY <2>2, LeavesKeep DEF Batched!Deschedules, TaskPlaces
      <3>2. Refused(t)
        BY <2>2 DEF Batched!Deschedules, Refused
      <3> QED
        BY <1>0, <1>14, <2>2, <3>1, <3>2 DEF Batched!Rest, Batched!Deschedules, BatchedInv, BatchedKnown
    <2>3. CASE Batched!PoolTakes(t)
      BY <1>0, <1>14, <2>3, PoolTakesKeeps
      DEF Batched!Rest, Batched!PoolTakes, BatchedInv, BatchedKnown, NoneRefusedNew
    <2> QED
      BY <1>14, <2>1, <2>2, <2>3 DEF Batched!Rest
  <1> QED
    BY <1>1, <1>2, <1>3, <1>4, <1>5, <1>6, <1>7, <1>8, <1>9, <1>10, <1>11, <1>12, <1>13, <1>14
    DEF Batched!TaskStep

LEMMA BatchedClientWorks ==
  ASSUME TasksPlaced, ResultKnown, BatchedInv, Batched!ClientWorks
  PROVE  TasksPlaced' /\ ResultKnown' /\ BatchedInv'
  <1> USE DEF Batched!executor, Batched!source, Batched!task, Batched!data, Batched!sinks,
              Batched!Unaffected, Batched!AfterUnblocking
  <1>1. CASE Batched!Checks
    BY <1>1, ClientMovesKeeps
    DEF Batched!Checks, BatchedInv, BatchedKnown, NoneRefusedNew, ResultKnown
  <1>2. CASE Batched!Unblocks
    <2>1. TasksPlaced' /\ NoneRefusedNew
      BY <1>2, ClientMovesKeeps DEF Batched!Unblocks
    <2>2. blockedSinks \subseteq Nat \X Tasks
      BY DEF BatchedInv
    <2> QED
      BY <1>2, <2>1, <2>2
      DEF Batched!Unblocks, BatchedInv, BatchedKnown, NoneRefusedNew, ResultKnown
  <1>3. CASE Batched!Wakes
    <2> DEFINE b == Batched!Min({s[1] : s \in todo})
               t == CHOOSE u \in Batched!Tasks : <<b, u>> \in todo
    <2>1. t \in Tasks
      <3>1. {s[1] : s \in todo} \in SUBSET Nat /\ {s[1] : s \in todo} # {}
        BY <1>3 DEF Batched!Wakes, BatchedInv
      <3>2. b \in {s[1] : s \in todo}
        BY <3>1, LeastIsIn
      <3> HIDE DEF b
      <3>3. PICK s \in todo : b = s[1]
        BY <3>2
      <3>4. s[2] \in Tasks /\ <<b, s[2]>> \in todo
        BY <3>3 DEF BatchedInv
      <3> QED
        BY <3>4 DEF Batched!Tasks, Tasks
    <2>2. /\ Reschedules(t)
          /\ todo' = todo \ {<<b, t>>}
          /\ blockedSinks' = blockedSinks \ {<<b, t>>}
      BY <1>3 DEF Batched!Wakes, Batched!Reschedules, Reschedules
    <2>3. /\ cpc = "waking"
          /\ IF todo' = {} THEN Batched!AfterUnblocking ELSE UNCHANGED <<cpc, res>>
          /\ UNCHANGED <<batch, target, nextBatch, cancelled>>
      BY <1>3 DEF Batched!Wakes, Batched!Reschedules
    <2>4. PICK c, u :
                               /\ u \in Tasks /\ Reschedules(u)
                               /\ todo' = todo \ {<<c, u>>}
                               /\ blockedSinks' = blockedSinks \ {<<c, u>>}
      <3> HIDE DEF b, t
      <3> QED
        BY <2>1, <2>2
    <2>5. TasksPlaced' /\ NoneRefusedNew /\ ~Refused(u)'
      BY <2>3, <2>4, ReschedulesKeeps
    <2>6. BatchedKnown'
      BY <2>3, <2>4, <2>5 DEF BatchedKnown, BatchedInv, NoneRefusedNew
    <2> QED
      BY <2>3, <2>4, <2>5, <2>6 DEF BatchedInv, ResultKnown
  <1>4. CASE Batched!Rechecks
    BY <1>4, ClientMovesKeeps
    DEF Batched!Rechecks, BatchedInv, BatchedKnown, NoneRefusedNew, ResultKnown
  <1>5. CASE Batched!Scans
    BY <1>5, ClientMovesKeeps
    DEF Batched!Scans, BatchedInv, BatchedKnown, NoneRefusedNew, ResultKnown
  <1>6. CASE Batched!ClientRest
    <2>1. ClientStep
      BY <1>6, SameClientStep DEF Batched!ClientRest
    <2>2. TasksPlaced' /\ NoneRefusedNew /\ ResultKnown' /\ cpc' # "waking"
      BY <2>1, ClientStepKeeps, ClientStepKnows
    <2>3. cancelled => cancelled'
      BY <2>1 DEF ClientStep, ClientTakes, ClientFindsNone, ClientFinished, ClientLooks,
         ClientRan, CancelTasks, DrainTakes, DrainRan, Drained, SendLoops, executor
    <2> QED
      BY <1>6, <2>2, <2>3 DEF Batched!ClientRest, BatchedInv, BatchedKnown, NoneRefusedNew
  <1> QED
    BY <1>1, <1>2, <1>3, <1>4, <1>5, <1>6 DEF Batched!ClientWorks

LEMMA BatchedCalls ==
  ASSUME TasksPlaced, ResultKnown, BatchedInv, Batched!Calls
  PROVE  TasksPlaced' /\ ResultKnown' /\ BatchedInv'
  BY ClientMovesKeeps
  DEF Batched!Calls, Batched!Fetches, Batched!Abandons, Batched!FetchThrows, Batched!Unaffected,
      Batched!executor, Batched!source, Batched!task, Batched!sinks,
      BatchedInv, BatchedKnown, NoneRefusedNew, ResultKnown

-----------------------------------------------------------------------------
LEMMA NothingFills ==
  ASSUME NEW b
  PROVE  Filled(<<>>, b, 0)
  <1>1. Adds(<<>>, b, [i \in 0..0 |-> 0])
    BY DEF Adds
  <1> QED
    BY <1>1 DEF Filled

LEMMA ChunkFills ==
  ASSUME NEW S, NEW q \in Seq(S), NEW x \in S, NEW b \in [S -> Nat], NEW c \in Nat,
         Filled(q, b, c), c < BufferSize
  PROVE  Filled(Append(q, x), b, c + b[x])
  <1>1. PICK f : Adds(q, b, f) /\ c = f[Len(q)]
    BY DEF Filled
  <1>2. PICK n \in Nat : n = Len(q)
    OBVIOUS
  <1>3. PICK y \in Nat : y = b[x]
    OBVIOUS
  <1>4. PICK r : r = Append(q, x)
    OBVIOUS
  <1>5. Len(r) = n + 1 /\ r[n + 1] = x /\ (\A i \in 1..n : r[i] = q[i]) /\ r # <<>>
    BY <1>2, <1>4
  <1>6. PICK g : g = [i \in 0..n + 1 |-> IF i = n + 1 THEN c + y ELSE f[i]]
    OBVIOUS
  <1>7. /\ f \in [0..n -> Nat] /\ f[0] = 0 /\ c = f[n]
        /\ \A i \in 1..n : f[i] = f[i - 1] + b[q[i]]
        /\ \A i, j \in 0..n : i <= j => f[i] <= f[j]
    BY <1>1, <1>2 DEF Adds
  <1>8. g[n + 1] = c + y /\ \A i \in 0..n : g[i] = f[i] /\ g[i] \in Nat /\ g[i] <= c
    BY <1>6, <1>7
  <1>9. Adds(r, b, g)
    <2>1. g \in [0..n + 1 -> Nat] /\ g[0] = 0
      BY <1>6, <1>7, <1>8
    <2>2. ASSUME NEW i \in 1..n + 1 PROVE g[i] = g[i - 1] + b[r[i]]
      <3>1. CASE i = n + 1
        BY <1>3, <1>5, <1>7, <1>8, <3>1
      <3>2. CASE i # n + 1
        <4>1. i \in 1..n /\ i \in 0..n /\ i - 1 \in 0..n
          BY <3>2
        <4> QED
          BY <1>5, <1>7, <1>8, <4>1
      <3> QED
        BY <3>1, <3>2
    <2>3. ASSUME NEW i \in 0..n + 1, NEW j \in 0..n + 1, i <= j PROVE g[i] <= g[j]
      <3>1. CASE j = n + 1
        BY <1>8, <3>1
      <3>2. CASE j # n + 1
        <4>1. i \in 0..n /\ j \in 0..n
          BY <2>3, <3>2
        <4> QED
          BY <1>7, <1>8, <2>3, <4>1
      <3> QED
        BY <3>1, <3>2
    <2> QED
      BY <1>5, <2>1, <2>2, <2>3 DEF Adds
  <1>10. g[Len(r)] = c + b[x] /\ g[Len(r) - 1] < BufferSize
    BY <1>3, <1>5, <1>7, <1>8
  <1> QED
    BY <1>4, <1>9, <1>10 DEF Filled

LEMMA ChunkLeaves ==
  ASSUME NEW S, NEW q \in Seq(S), q # <<>>, NEW b \in [S -> Nat], NEW c \in Nat,
         Filled(q, b, c), BufferSize \in Nat
  PROVE  Filled(Tail(q), b, c - b[Head(q)]) /\ c - b[Head(q)] \in Nat /\ c - b[Head(q)] <= c
  <1>1. PICK f : Adds(q, b, f) /\ c = f[Len(q)] /\ f[Len(q) - 1] < BufferSize
    BY DEF Filled
  <1>2. PICK n \in Nat : Len(q) = n + 1
    <2>1. Len(q) \in Nat /\ Len(q) # 0
      OBVIOUS
    <2>2. Len(q) - 1 \in Nat /\ Len(q) = (Len(q) - 1) + 1
      BY <2>1
    <2> QED
      BY <2>2
  <1>3. PICK y \in Nat : y = b[Head(q)]
    <2>1. Head(q) \in S
      OBVIOUS
    <2> QED
      BY <2>1
  <1>4. PICK r : r = Tail(q)
    OBVIOUS
  <1>5. Len(r) = n /\ (\A i \in 1..n : r[i] = q[i + 1]) /\ (r # <<>> => n # 0) /\ q[1] = Head(q)
    BY <1>2, <1>4
  <1>6. PICK g : g = [i \in 0..n |-> f[i + 1] - y]
    OBVIOUS
  <1>7. /\ f \in [0..n + 1 -> Nat] /\ f[0] = 0 /\ c = f[n + 1] /\ f[n] < BufferSize
        /\ \A i \in 1..n + 1 : f[i] = f[i - 1] + b[q[i]]
        /\ \A i, j \in 0..n + 1 : i <= j => f[i] <= f[j]
    BY <1>1, <1>2 DEF Adds
  <1>8. f[1] = y
    BY <1>3, <1>5, <1>7
  <1>9. ASSUME NEW i \in 0..n
        PROVE  /\ i + 1 \in 1..n + 1 /\ i + 1 \in 0..n + 1 /\ f[i + 1] \in Nat
               /\ g[i] = f[i + 1] - y /\ y <= f[i + 1] /\ g[i] \in Nat
    <2>1. i + 1 \in 1..n + 1 /\ i + 1 \in 0..n + 1 /\ 1 \in 0..n + 1 /\ 1 <= i + 1
      OBVIOUS
    <2>2. f[i + 1] \in Nat /\ f[1] <= f[i + 1]
      BY <1>7, <2>1
    <2>3. g[i] = f[i + 1] - y
      BY <1>6
    <2> QED
      BY <1>8, <2>1, <2>2, <2>3
  <1>10. Adds(r, b, g)
    <2>1. g \in [0..n -> Nat] /\ g[0] = 0
      <3>1. g \in [0..n -> Nat]
        BY <1>6, <1>9
      <3>2. 0 \in 0..n /\ 0 + 1 = 1
        OBVIOUS
      <3>3. g[0] = y - y
        BY <1>8, <1>9, <3>2
      <3> QED
        BY <3>1, <3>3
    <2>2. ASSUME NEW i \in 1..n PROVE g[i] = g[i - 1] + b[r[i]]
      <3>0. /\ i + 1 \in 1..n + 1 /\ (i + 1) - 1 = i /\ i \in 0..n /\ i \in 0..n + 1
            /\ i - 1 \in 0..n /\ (i - 1) + 1 = i
        OBVIOUS
      <3>1. f[i + 1] = f[i] + b[q[i + 1]]
        BY <1>7, <3>0
      <3>2. g[i] = f[i + 1] - y /\ g[i - 1] = f[i] - y
        BY <1>9, <3>0
      <3>3. f[i] \in Nat /\ b[q[i + 1]] \in Nat
        <4>1. q[i + 1] \in S
          BY <1>2, <3>0
        <4> QED
          BY <1>7, <3>0, <4>1
      <3>4. r[i] = q[i + 1]
        BY <1>5
      <3> QED
        BY <3>1, <3>2, <3>3, <3>4
    <2>3. ASSUME NEW i \in 0..n, NEW j \in 0..n, i <= j PROVE g[i] <= g[j]
      <3>1. i + 1 \in 0..n + 1 /\ j + 1 \in 0..n + 1 /\ i + 1 <= j + 1
        BY <2>3
      <3>2. f[i + 1] <= f[j + 1] /\ f[i + 1] \in Nat /\ f[j + 1] \in Nat
        BY <1>7, <3>1
      <3> QED
        BY <1>9, <3>2
    <2> QED
      BY <1>5, <2>1, <2>2, <2>3 DEF Adds
  <1>11. g[n] = c - y /\ y <= c
    BY <1>7, <1>9
  <1>12. ASSUME r # <<>> PROVE g[n - 1] < BufferSize
    <2>1. n - 1 \in 0..n /\ (n - 1) + 1 = n
      BY <1>5, <1>12
    <2>2. g[n - 1] = f[n] - y /\ f[n] \in Nat
      BY <1>9, <2>1
    <2> QED
      BY <1>7, <2>2
  <1>13. Filled(r, b, c - y)
    BY <1>5, <1>10, <1>11, <1>12 DEF Filled
  <1> QED
    BY <1>3, <1>4, <1>11, <1>13

\* The function that MemoryBounded defines.
Total(q, b) ==
  CHOOSE g : g = [n \in 0..Len(q) |-> IF n = 0 THEN 0 ELSE g[n - 1] + b[q[n]]]

LEMMA SumsAreTotal ==
  ASSUME NEW q, NEW b, Len(q) \in Nat, NEW f, Adds(q, b, f)
  PROVE  \A n \in 0..Len(q) : Total(q, b)[n] = f[n]
  <1> DEFINE total == Total(q, b)
  <1>1. f = [n \in 0..Len(q) |-> IF n = 0 THEN 0 ELSE f[n - 1] + b[q[n]]]
    BY DEF Adds
  <1>2. total = [n \in 0..Len(q) |-> IF n = 0 THEN 0 ELSE total[n - 1] + b[q[n]]]
    BY <1>1 DEF Total
  <1> HIDE DEF total
  <1> DEFINE Left == {n \in 0..Len(q) : total[n] # f[n]}
  <1>3. Left = {}
    <2> SUFFICES ASSUME Left # {} PROVE FALSE
      OBVIOUS
    <2>0. Left \in SUBSET Nat
      OBVIOUS
    <2>1. PICK k \in Left : \A j \in Left : k <= j
      <3> HIDE DEF Left
      <3> QED
        BY <2>0, HasLeast
    <2>2. k \in Nat /\ k <= Len(q) /\ k # 0
      BY <1>2, <2>1 DEF Adds
    <2>3. k - 1 \in 0..Len(q) /\ k - 1 < k /\ k \in 1..Len(q)
      BY <2>2
    <2>4. total[k - 1] = f[k - 1]
      BY <2>1, <2>2, <2>3
    <2> QED
      BY <1>2, <2>1, <2>2, <2>3, <2>4 DEF Adds
  <1> QED
    BY <1>3 DEF total

\* What Scan does to the two sequences.
LEMMA TakesHead ==
  ASSUME NEW S, NEW b \in Seq(S), b # <<>>, NEW d \in Seq(S)
  PROVE  /\ Head(b) \in S /\ Tail(b) \in Seq(S) /\ Append(d, Head(b)) \in Seq(S)
         /\ Append(d, Head(b)) \o Tail(b) = d \o b
  <1>1. Head(b) \in S /\ Tail(b) \in Seq(S)
    OBVIOUS
  <1>2. Append(d, Head(b)) \in Seq(S)
    BY <1>1
  <1>3. Append(d, Head(b)) \o Tail(b) = d \o b
    BY <1>1, <1>2
  <1> QED
    BY <1>1, <1>2, <1>3

LEMMA SimpleMoves ==
  ASSUME TasksPlaced, SimpleKnown, NEW t \in Tasks, NEW q \in TaskPlaces \ {"desched"},
         Runs(t), Goes(t, q), UNCHANGED <<loc, queue, cancelled, cpc, blockedSinks>>
  PROVE  TasksPlaced' /\ SimpleKnown'
  BY MovesKeep DEF SimpleKnown

LEMMA SimpleTaskLeaves ==
  ASSUME NEW t \in Tasks, Simple!TaskStep(t)
  PROVE  UNCHANGED <<cpc, res, success, delivered>>
  BY DEF Simple!TaskStep, Simple!Starts, Simple!FetchesSource, Simple!Fails, Simple!Sinks,
         Simple!Appends, Simple!Blocks, Simple!Retries, Simple!Ends, Simple!Finishes,
         Simple!Rest, Simple!Interrupted, Simple!Deschedules, Simple!PoolTakes,
         Simple!Throws, Simple!RoundStarts, Simple!client, Simple!data

LEMMA SimpleTaskStep ==
  ASSUME TasksPlaced, ResultKnown, SimpleInv, NEW t \in Tasks, Simple!TaskStep(t)
  PROVE  TasksPlaced' /\ ResultKnown' /\ SimpleInv'
  <1> USE DEF Simple!At, Simple!Runs, Runs, Simple!Goes, Goes, Simple!RoundStarts,
              Simple!client, Simple!data, Simple!NoChunk
  <1>1. ResultKnown' /\ UNCHANGED <<cpc, res, success, delivered>>
    BY SimpleTaskLeaves DEF ResultKnown
  <1>2. /\ tpc \in [Tasks -> TaskPlaces] /\ NumChunks \in Nat /\ BufferSize \in Nat \ {0}
        /\ Simple!Tasks = Tasks /\ 1 \in Tasks
    BY ResultAssumption, ExecutorAssumption DEF TasksPlaced, Simple!Tasks, Tasks
  <1> SUFFICES TasksPlaced' /\ SimpleInv'
    BY <1>1
  <1>3. CASE Simple!Starts(t)
    <2>1. TasksPlaced' /\ SimpleKnown'
      BY <1>3, SimpleMoves DEF Simple!Starts, TaskPlaces, SimpleInv
    <2> QED
      BY <1>1, <1>2, <1>3, <2>1 DEF Simple!Starts, SimpleInv, SimpleTypes, OneSink, RoomKept,
         ChunkPlaces, EndKnown, AllDone
  <1>4. CASE Simple!FetchesSource(t)
    <2>1. TasksPlaced' /\ SimpleKnown'
      <3>1. PICK q \in {"push", "last"} : Goes(t, q)
        BY <1>4 DEF Simple!FetchesSource
      <3> QED
        BY <1>1, <1>4, <3>1, SimpleMoves DEF Simple!FetchesSource, TaskPlaces, SimpleInv
    <2>2. SimpleTypes'
      <3>1. nextChunk' \in 1..NumChunks + 1
        BY <1>2, <1>4 DEF Simple!FetchesSource, SimpleInv, SimpleTypes
      <3>2. held' \in [Tasks -> 0..NumChunks]
        <4>1. held \in [Tasks -> 0..NumChunks] /\ nextChunk \in 1..NumChunks + 1
          BY DEF SimpleInv, SimpleTypes
        <4>2. held' = held \/ (nextChunk \in 0..NumChunks /\ held' = [held EXCEPT ![t] = nextChunk])
          BY <1>2, <1>4, <4>1 DEF Simple!FetchesSource
        <4> QED
          BY <4>1, <4>2
      <3> QED
        BY <1>1, <1>4, <3>1, <3>2 DEF Simple!FetchesSource, SimpleInv, SimpleTypes
    <2>3. OneSink' /\ RoomKept'
      BY <1>1, <1>2, <1>4 DEF Simple!FetchesSource, SimpleInv, OneSink, RoomKept
    <2>4. ChunkPlaces'
      <3>1. held \in [Tasks -> 0..NumChunks] /\ nextChunk \in 1..NumChunks + 1
        BY DEF SimpleInv, SimpleTypes
      <3> QED
        BY <1>1, <1>2, <1>4, <3>1 DEF Simple!FetchesSource, SimpleInv, ChunkPlaces
    <2>5. EndKnown'
      BY <1>1, <1>2, <1>4 DEF Simple!FetchesSource, SimpleInv, EndKnown, AllDone
    <2> QED
      BY <2>1, <2>2, <2>3, <2>4, <2>5 DEF SimpleInv
  <1>5. CASE Simple!Fails(t) \/ (Simple!Interrupted(t) /\ UNCHANGED Simple!data)
    <2>1. Simple!Throws(t) /\ UNCHANGED <<bytes, nextChunk, held, buffered, count, blockedSinks>>
           /\ Runs(t) /\ tpc[t] \notin {"done"}
      BY <1>5 DEF Simple!Fails, Simple!Interrupted, Simple!Heads
    <2>2. TasksPlaced' /\ SimpleKnown'
      BY <1>1, <2>1, LeavesKeep DEF Simple!Throws, TaskPlaces, SimpleInv, SimpleKnown
    <2> QED
      BY <1>1, <1>2, <2>1, <2>2 DEF Simple!Throws, SimpleInv, SimpleTypes, OneSink, RoomKept,
         ChunkPlaces, EndKnown, AllDone
  <1>6. CASE Simple!Sinks(t)
    <2>0. PICK q \in {"block", "append"} : Goes(t, q) /\ (q = "append" <=> ~Simple!BufferIsFull)
      BY <1>6 DEF Simple!Sinks
    <2>1. TasksPlaced' /\ SimpleKnown'
      BY <1>1, <1>6, <2>0, SimpleMoves DEF Simple!Sinks, TaskPlaces, SimpleInv
    <2>2. SimpleTypes' /\ ChunkPlaces' /\ EndKnown'
      BY <1>1, <1>2, <1>6, <2>0 DEF Simple!Sinks, SimpleInv, SimpleTypes, ChunkPlaces, EndKnown, AllDone
    <2>3. OneSink'
      BY <1>1, <1>2, <1>6, <2>0 DEF Simple!Sinks, Simple!SinkLockFree, Simple!InSink, SimpleInv, OneSink
    <2>4. RoomKept'
      BY <1>1, <1>2, <1>6, <2>0 DEF Simple!Sinks, Simple!BufferIsFull, SimpleInv, SimpleTypes, RoomKept
    <2> QED
      BY <2>1, <2>2, <2>3, <2>4 DEF SimpleInv
  <1>7. CASE Simple!Appends(t)
    <2>0. held[t] \in 1..NumChunks
      BY <1>2, <1>7 DEF Simple!Appends, SimpleInv, SimpleTypes, ChunkPlaces
    <2>1. TasksPlaced' /\ SimpleKnown'
      BY <1>1, <1>7, SimpleMoves DEF Simple!Appends, TaskPlaces, SimpleInv
    <2>2. SimpleTypes' /\ ChunkPlaces'
      BY <1>1, <1>2, <1>7, <2>0 DEF Simple!Appends, SimpleInv, SimpleTypes, ChunkPlaces
    <2>3. OneSink' /\ EndKnown'
      <3>1. OneSink'
        BY <1>2, <1>7 DEF Simple!Appends, SimpleInv, OneSink
      <3>2. buffered' # <<>>
        BY <1>7, <2>0 DEF Simple!Appends, SimpleInv, SimpleTypes
      <3> QED
        BY <1>1, <1>7, <3>1, <3>2 DEF Simple!Appends, SimpleInv, EndKnown, AllDone
    <2>4. RoomKept'
      <3>1. /\ buffered' = Append(buffered, held[t]) /\ count' = count + bytes[held[t]]
            /\ bytes' = bytes /\ count < BufferSize /\ count \in Nat /\ bytes[held[t]] \in Nat
        BY <1>2, <1>7, <2>0 DEF Simple!Appends, SimpleInv, SimpleTypes, RoomKept
      <3>2. buffered \in Seq(1..NumChunks) /\ bytes \in [1..NumChunks -> Nat]
        BY ResultAssumption DEF SimpleInv, SimpleTypes
      <3>3. Filled(buffered, bytes, count)
        BY DEF SimpleInv, RoomKept
      <3>5. Filled(Append(buffered, held[t]), bytes, count + bytes[held[t]])
        BY <2>0, <3>1, <3>2, <3>3, ChunkFills
      <3>4. \A u \in Tasks : tpc'[u] # "append"
        BY <1>2, <1>7 DEF Simple!Appends, SimpleInv, OneSink
      <3> QED
        BY <3>1, <3>4, <3>5 DEF RoomKept
    <2> QED
      BY <2>1, <2>2, <2>3, <2>4 DEF SimpleInv
  <1>8. CASE Simple!Blocks(t)
    <2>1. TasksPlaced' /\ \A u \in Tasks : Refused(u)' => Refused(u) \/ u = t
      BY ZenonT(60), <1>1, <1>8, MovesKeep DEF Simple!Blocks, TaskPlaces
    <2>2. SimpleTypes'
      <3>1. blockedSinks \in Seq(Tasks)
        BY DEF SimpleInv, SimpleTypes
      <3>2. blockedSinks' = Append(blockedSinks, t)
        BY <1>8 DEF Simple!Blocks
      <3>3. blockedSinks' \in Seq(Tasks) /\ blockedSinks' # <<>>
        BY <3>1, <3>2
      <3> QED
        BY <1>1, <1>8, <3>3 DEF Simple!Blocks, SimpleInv, SimpleTypes
    <2>3. SimpleKnown'
      <3>1. /\ Len(blockedSinks') = Len(blockedSinks) + 1
            /\ \A i \in 1..Len(blockedSinks) : blockedSinks'[i] = blockedSinks[i]
            /\ blockedSinks'[Len(blockedSinks) + 1] = t
            /\ Len(blockedSinks) \in Nat
        BY <1>8 DEF Simple!Blocks, SimpleInv, SimpleTypes
      <3> QED
        BY <1>8, <2>1, <3>1 DEF Simple!Blocks, SimpleInv, SimpleKnown
    <2>4. OneSink' /\ RoomKept' /\ ChunkPlaces' /\ EndKnown'
      BY <1>1, <1>2, <1>8 DEF Simple!Blocks, SimpleInv, OneSink, RoomKept, ChunkPlaces, EndKnown, AllDone
    <2> QED
      BY <2>1, <2>2, <2>3, <2>4 DEF SimpleInv
  <1>9. CASE Simple!Retries(t)
    <2>1. TasksPlaced' /\ SimpleKnown'
      BY <1>1, <1>9, SimpleMoves DEF Simple!Retries, TaskPlaces, SimpleInv
    <2> QED
      BY <1>1, <1>2, <1>9, <2>1 DEF Simple!Retries, SimpleInv, SimpleTypes, OneSink, RoomKept,
         ChunkPlaces, EndKnown, AllDone
  <1>10. CASE Simple!Ends(t)
    <2>1. TasksPlaced' /\ SimpleKnown'
      BY <1>1, <1>10, LeavesKeep DEF Simple!Ends, Simple!Finishes, TaskPlaces, SimpleInv, SimpleKnown
    <2> QED
      BY <1>1, <1>2, <1>10, <2>1 DEF Simple!Ends, Simple!Finishes, SimpleInv, SimpleTypes, OneSink,
         RoomKept, ChunkPlaces, EndKnown, AllDone
  <1>11. CASE Simple!Deschedules(t) /\ UNCHANGED Simple!data
    <2>1. TasksPlaced' /\ \A u \in Tasks : Refused(u)' => Refused(u) \/ u = t
      BY <1>1, <1>11, LeavesKeep DEF Simple!Deschedules, TaskPlaces
    <2>2. SimpleKnown'
      BY <1>11, <2>1 DEF Simple!Deschedules, SimpleInv, SimpleKnown, Refused
    <2> QED
      BY <1>1, <1>2, <1>11, <2>1, <2>2 DEF Simple!Deschedules, SimpleInv, SimpleTypes, OneSink,
         RoomKept, ChunkPlaces, EndKnown, AllDone
  <1>12. CASE Simple!PoolTakes(t) /\ UNCHANGED Simple!data
    <2>1. TasksPlaced' /\ NoneRefusedNew
      BY <1>1, <1>12, PoolTakesKeeps DEF Simple!PoolTakes
    <2> QED
      BY <1>1, <1>12, <2>1 DEF Simple!PoolTakes, SimpleInv, SimpleTypes, SimpleKnown, NoneRefusedNew,
         OneSink, RoomKept, ChunkPlaces, EndKnown, AllDone
  <1> QED
    BY <1>3, <1>4, <1>5, <1>6, <1>7, <1>8, <1>9, <1>10, <1>11, <1>12
    DEF Simple!TaskStep, Simple!Rest

\* A full buffer has a chunk.
LEMMA FullHasChunk ==
  ASSUME RoomKept, Simple!BufferIsFull, BufferSize \in Nat \ {0}
  PROVE  buffered # <<>>
  <1>1. PICK f : f[0] = 0 /\ count = f[Len(buffered)]
    BY DEF RoomKept, Filled, Adds
  <1> QED
    BY <1>1 DEF RoomKept, Simple!BufferIsFull

\* The buffer is the same at the end of a step as at its beginning.
LEMMA SimpleClientKeeps ==
  ASSUME SimpleInv, TasksPlaced, NoneRefusedNew, UNCHANGED <<tpc, bytes, nextChunk, held,
         buffered, count, delivered, blockedSinks>>, cpc' # "waking" \/ blockedSinks # <<>>, cancelled => cancelled'
  PROVE  SimpleTypes' /\ SimpleKnown' /\ OneSink' /\ RoomKept' /\ ChunkPlaces' /\ AllDone' = AllDone
  BY DEF SimpleInv, SimpleTypes, SimpleKnown, OneSink, RoomKept, ChunkPlaces, AllDone, NoneRefusedNew

LEMMA ClientStepEnds ==
  ASSUME ClientStep, ResultKnown, EndKnown, UNCHANGED <<tpc, buffered>>
  PROVE  EndKnown'
  <1>1. AllDone' <=> AllDone
    BY DEF AllDone
  <1>2. CASE ClientFinished
    BY <1>1, <1>2 DEF ClientFinished, Completed, AllDone, Returns, EndKnown
  <1>3. CASE Drained
    BY <1>1, <1>3 DEF Drained, EndKnown, ResultKnown
  <1>4. CASE SendLoops
    BY <1>1, <1>4 DEF SendLoops, EndKnown, ResultKnown
  <1> QED
    BY <1>1, <1>2, <1>3, <1>4
    DEF ClientStep, ClientTakes, ClientFindsNone, ClientLooks, ClientRan, CancelTasks,
        DrainTakes, DrainRan, Returns, EndKnown

LEMMA SimpleClientWorks ==
  ASSUME TasksPlaced, ResultKnown, SimpleInv, Simple!ClientWorks
  PROVE  TasksPlaced' /\ ResultKnown' /\ SimpleInv'
  <1> USE DEF Simple!executor, Simple!data, Simple!AfterUnblocking
  <1>0. NumChunks \in Nat /\ BufferSize \in Nat \ {0} /\ buffered \in Seq(1..NumChunks)
    BY ResultAssumption DEF SimpleInv, SimpleTypes
  <1>1. CASE Simple!Checks
    <2>1. TasksPlaced' /\ NoneRefusedNew
      BY <1>1, ClientMovesKeeps DEF Simple!Checks
    <2>2. EndKnown'
      BY <1>0, <1>1, FullHasChunk DEF Simple!Checks, SimpleInv, EndKnown, AllDone
    <2> QED
      BY <1>1, <2>1, <2>2, SimpleClientKeeps DEF Simple!Checks, SimpleInv, ResultKnown
  <1>2. CASE Simple!Unblocks
    <2>1. TasksPlaced' /\ NoneRefusedNew
      BY <1>2, ClientMovesKeeps DEF Simple!Unblocks
    <2>2. EndKnown' /\ ResultKnown'
      BY <1>2 DEF Simple!Unblocks, SimpleInv, EndKnown, AllDone, ResultKnown
    <2> QED
      BY <1>2, <2>1, <2>2, SimpleClientKeeps DEF Simple!Unblocks, SimpleInv
  <1>3. CASE Simple!Wakes
    <2>0. blockedSinks \in Seq(Tasks) /\ blockedSinks # <<>>
      BY <1>3 DEF Simple!Wakes, SimpleInv, SimpleTypes
    <2>1. PICK u \in Tasks : u = Head(blockedSinks)
      BY <2>0
    <2>2. Reschedules(u) /\ cpc = "waking"
      BY <1>3, <2>1 DEF Simple!Wakes, Simple!Reschedules, Reschedules
    <2>3. TasksPlaced' /\ NoneRefusedNew /\ ~Refused(u)' /\ UNCHANGED tpc
      BY <2>2, ReschedulesKeeps DEF Reschedules
    <2>4. SimpleKnown'
      <3>1. \A i \in 2..Len(blockedSinks) : i - 1 \in 1..Len(blockedSinks') /\ blockedSinks'[i - 1] = blockedSinks[i]
        BY <1>3, <2>0 DEF Simple!Wakes
      <3>2. \A i \in 1..Len(blockedSinks) : blockedSinks[i] # u => i \in 2..Len(blockedSinks)
        BY <2>0, <2>1
      <3>3. UNCHANGED cancelled
        BY <1>3 DEF Simple!Wakes, Simple!Reschedules
      <3> QED
        BY <2>3, <3>1, <3>2, <3>3 DEF SimpleInv, SimpleKnown, NoneRefusedNew
    <2>5. SimpleTypes' /\ ResultKnown'
      BY <1>3, <2>0 DEF Simple!Wakes, SimpleInv, SimpleTypes, ResultKnown
    <2>6. OneSink' /\ RoomKept' /\ ChunkPlaces' /\ EndKnown'
      BY <1>3, <2>3 DEF Simple!Wakes, SimpleInv, OneSink, RoomKept, ChunkPlaces, EndKnown, AllDone
    <2> QED
      BY <2>3, <2>4, <2>5, <2>6 DEF SimpleInv
  <1>4. CASE Simple!Rechecks
    <2>1. TasksPlaced' /\ NoneRefusedNew
      BY <1>4, ClientMovesKeeps DEF Simple!Rechecks
    <2>2. EndKnown' /\ ResultKnown'
      BY <1>0, <1>4, FullHasChunk DEF Simple!Rechecks, SimpleInv, EndKnown, AllDone, ResultKnown
    <2>3. cpc' # "waking"
      BY <1>4 DEF Simple!Rechecks, ResultKnown
    <2> QED
      BY <1>4, <2>1, <2>2, <2>3, SimpleClientKeeps DEF Simple!Rechecks, SimpleInv
  <1>5. CASE Simple!Scans
    <2>1. TasksPlaced' /\ NoneRefusedNew /\ UNCHANGED tpc
      BY <1>5, ClientMovesKeeps DEF Simple!Scans
    <2>2. CASE success /\ buffered # <<>>
      <3>1. SimpleTypes'
        <4>1. /\ buffered' \in Seq(1..NumChunks)
              /\ delivered' \in Seq(1..NumChunks)
          <5>1. delivered \in Seq(1..NumChunks)
            BY DEF SimpleInv, SimpleTypes
          <5>2. buffered' = Tail(buffered) /\ delivered' = Append(delivered, Head(buffered))
            BY <1>5, <2>2 DEF Simple!Scans
          <5> QED
            BY <1>0, <2>2, <5>1, <5>2, TakesHead
        <4> QED
          BY <1>5, <2>2, <4>1 DEF Simple!Scans, SimpleInv, SimpleTypes
      <3>2. RoomKept'
        <4>1. /\ buffered' = Tail(buffered) /\ count' = count - bytes[Head(buffered)]
              /\ bytes' = bytes /\ count \in Nat /\ bytes \in [1..NumChunks -> Nat]
          BY <1>5, <2>2, ResultAssumption DEF Simple!Scans, SimpleInv, SimpleTypes, RoomKept
        <4>2. Filled(buffered', bytes', count') /\ count' \in Nat /\ count' <= count
          BY <1>0, <2>2, <4>1, ChunkLeaves DEF SimpleInv, RoomKept
        <4> QED
          BY <1>0, <2>1, <4>1, <4>2 DEF SimpleInv, RoomKept
      <3>3. SimpleKnown' /\ OneSink' /\ ChunkPlaces'
        BY <1>5, <2>1, <2>2
        DEF Simple!Scans, SimpleInv, SimpleKnown, NoneRefusedNew, OneSink, ChunkPlaces
      <3>4. EndKnown' /\ ResultKnown'
        BY <1>5, <2>2 DEF Simple!Scans, SimpleInv, EndKnown, ResultKnown
      <3> QED
        BY <2>1, <3>1, <3>2, <3>3, <3>4 DEF SimpleInv
    <2>3. CASE ~(success /\ buffered # <<>>)
      <3>1. EndKnown' /\ ResultKnown'
        BY <1>5, <2>3 DEF Simple!Scans, SimpleInv, EndKnown, ResultKnown
      <3> QED
        BY <1>5, <2>1, <2>3, <3>1, SimpleClientKeeps DEF Simple!Scans, SimpleInv
    <2> QED
      BY <2>2, <2>3
  <1>6. CASE Simple!ClientRest
    <2>1. ClientStep /\ UNCHANGED <<bytes, nextChunk, held, buffered, count, delivered, blockedSinks>>
      BY <1>6, SameClientStep DEF Simple!ClientRest
    <2>2. TasksPlaced' /\ NoneRefusedNew /\ ResultKnown' /\ cpc' # "waking" /\ UNCHANGED tpc
      BY <2>1, ClientStepKeeps, ClientStepKnows
    <2>3. cancelled => cancelled'
      BY <2>1 DEF ClientStep, ClientTakes, ClientFindsNone, ClientFinished, ClientLooks,
         ClientRan, CancelTasks, DrainTakes, DrainRan, Drained, SendLoops, executor
    <2>4. EndKnown'
      BY <2>1, <2>2, ClientStepEnds DEF SimpleInv
    <2> QED
      BY <2>1, <2>2, <2>3, <2>4, SimpleClientKeeps DEF SimpleInv
  <1> QED
    BY <1>1, <1>2, <1>3, <1>4, <1>5, <1>6 DEF Simple!ClientWorks

LEMMA SimpleCalls ==
  ASSUME TasksPlaced, ResultKnown, SimpleInv, Simple!Calls
  PROVE  TasksPlaced' /\ ResultKnown' /\ SimpleInv'
  <1>1. /\ UNCHANGED <<loc, tpc, queue, cancelled, bytes, nextChunk, held, buffered, count,
                       delivered, blockedSinks>>
        /\ cpc = "idle"
        /\ (cpc' = "check" /\ res' = "none" /\ success) \/ (cpc' = "cancel" /\ res' = "abandoned")
        /\ UNCHANGED success
    BY DEF Simple!Calls, Simple!Fetches, Simple!Abandons, Simple!executor, Simple!data
  <1>2. TasksPlaced' /\ NoneRefusedNew
    BY <1>1, ClientMovesKeeps
  <1>3. EndKnown' /\ ResultKnown'
    BY <1>1 DEF SimpleInv, EndKnown, ResultKnown
  <1> QED
    BY <1>1, <1>2, <1>3, SimpleClientKeeps DEF SimpleInv

-----------------------------------------------------------------------------
\* Nothing happens to the chunks.
LEMMA ChunksStay ==
  ASSUME SimpleTypes, ChunksInOnePlace, UNCHANGED <<plan, Out, held, nextChunk>>,
         \A t \in Tasks : tpc[t] = "done" => tpc'[t] = "done"
  PROVE  ChunksInOnePlace'
  <1>1. Holders' = Holders
    BY DEF Holders
  <1> QED
    BY <1>1 DEF ChunksInOnePlace

LEMMA HoldersFinite ==
  /\ IsFiniteSet(Holders) /\ Cardinality(Holders) \in Nat
  /\ IsFiniteSet(Holders') /\ Cardinality(Holders') \in Nat
  <1>1. IsFiniteSet(Tasks)
    BY FS_Interval, ExecutorAssumption DEF Tasks
  <1> QED
    BY <1>1, FS_Subset, FS_CardinalityType DEF Holders

LEMMA ChunkTaken ==
  ASSUME SimpleTypes, ChunksInOnePlace, NEW t \in Tasks, held[t] = 0, nextChunk \in 1..NumChunks,
         held' = [held EXCEPT ![t] = nextChunk], nextChunk' = nextChunk + 1,
         UNCHANGED <<plan, Out>>, plan = "ordered" => t = 1,
         \A u \in Tasks : tpc[u] = "done" => tpc'[u] = "done"
  PROVE  ChunksInOnePlace'
  <1>0. /\ held \in [Tasks -> 0..NumChunks] /\ Out \in Seq(1..NumChunks) /\ NumChunks \in Nat
        /\ nextChunk \in Nat /\ Out' = Out
    BY ResultAssumption DEF SimpleTypes, Out
  <1>1. Holders' = Holders \cup {t} /\ t \notin Holders
    BY <1>0 DEF Holders
  <1>2. Cardinality(Holders') = Cardinality(Holders) + 1
    BY <1>1, HoldersFinite, FS_AddElement
  <1>3. Len(Out') + Cardinality(Holders') = nextChunk' - 1
    <2>1. Len(Out) + Cardinality(Holders) = nextChunk - 1
      BY DEF ChunksInOnePlace
    <2>2. Len(Out') = Len(Out) /\ Len(Out) \in Nat
      BY <1>0
    <2>3. Cardinality(Holders) \in Nat /\ nextChunk \in Nat
      BY <1>0, HoldersFinite
    <2>4. Len(Out) + (Cardinality(Holders) + 1) = (nextChunk + 1) - 1
      BY <2>1, <2>2, <2>3
    <2> QED
      BY <1>2, <2>2, <2>4
  <1>4. \A i \in 1..Len(Out') : Out'[i] < nextChunk'
    BY <1>0 DEF ChunksInOnePlace
  <1>5. /\ \A u \in Holders' : held'[u] < nextChunk' /\ \A i \in 1..Len(Out') : Out'[i] # held'[u]
        /\ \A u, v \in Holders' : held'[u] = held'[v] => u = v
    <2>1. \A u \in Tasks : held'[u] = IF u = t THEN nextChunk ELSE held[u]
      BY <1>0
    <2>2. \A u \in Holders : held[u] \in Nat /\ held[u] < nextChunk /\ u \in Tasks /\ u # t
      BY <1>0, <1>1 DEF ChunksInOnePlace, Holders
    <2>3. \A u \in Holders : \A i \in 1..Len(Out) : Out[i] # held[u]
      BY DEF ChunksInOnePlace
    <2>4. \A i \in 1..Len(Out) : Out[i] \in Nat /\ Out[i] < nextChunk
      BY <1>0 DEF ChunksInOnePlace
    <2>5. \A u, v \in Holders : held[u] = held[v] => u = v
      BY DEF ChunksInOnePlace
    <2> QED
      BY <1>0, <1>1, <2>1, <2>2, <2>3, <2>4, <2>5
  <1>6. plan' = "ordered" => /\ \A u \in Tasks \ {1} : tpc'[u] = "done"
                             /\ \A i \in 1..Len(Out') : Out'[i] = i
                             /\ held'[1] # 0 => held'[1] = nextChunk' - 1
    BY <1>0 DEF ChunksInOnePlace
  <1>7. \A i, j \in 1..Len(Out') : Out'[i] = Out'[j] => i = j
    BY <1>0 DEF ChunksInOnePlace
  <1> QED
    BY <1>3, <1>4, <1>5, <1>6, <1>7 DEF ChunksInOnePlace

LEMMA ChunkGiven ==
  ASSUME SimpleTypes, ChunksInOnePlace, NEW t \in Tasks, held[t] # 0,
         held' = [held EXCEPT ![t] = 0], Out' = Append(Out, held[t]),
         UNCHANGED <<plan, nextChunk>>, plan = "ordered" => t = 1,
         \A u \in Tasks : tpc[u] = "done" => tpc'[u] = "done",
         plan = "ordered" => \A u \in Tasks \ {1} : held[u] = 0
  PROVE  ChunksInOnePlace'
  <1>0. /\ held \in [Tasks -> 0..NumChunks] /\ Out \in Seq(1..NumChunks) /\ NumChunks \in Nat
        /\ nextChunk \in Nat /\ held[t] \in 1..NumChunks /\ nextChunk' = nextChunk
    BY ResultAssumption DEF SimpleTypes, Out
  <1>1. Holders' = Holders \ {t} /\ t \in Holders
    BY <1>0 DEF Holders
  <1>2. Cardinality(Holders') = Cardinality(Holders) - 1
    BY <1>1, HoldersFinite, FS_RemoveElement
  <1>3. /\ Len(Out') = Len(Out) + 1 /\ Len(Out) \in Nat
        /\ \A i \in 1..Len(Out) : Out'[i] = Out[i]
        /\ Out'[Len(Out) + 1] = held[t]
    BY <1>0
  <1>4. Len(Out') + Cardinality(Holders') = nextChunk' - 1
    BY <1>0, <1>2, <1>3, HoldersFinite DEF ChunksInOnePlace
  <1>5. /\ \A i \in 1..Len(Out) : Out[i] # held[t] /\ Out[i] < nextChunk
        /\ held[t] < nextChunk
        /\ \A u \in Holders' : held'[u] = held[u] /\ u \in Holders /\ u # t
      BY <1>0, <1>1 DEF ChunksInOnePlace, Holders
  <1>6. \A i, j \in 1..Len(Out') : Out'[i] = Out'[j] => i = j
    <2> TAKE i, j \in 1..Len(Out')
    <2>1. (i \in 1..Len(Out) \/ i = Len(Out) + 1) /\ (j \in 1..Len(Out) \/ j = Len(Out) + 1)
      BY <1>3
    <2> QED
      BY <1>3, <1>5, <2>1 DEF ChunksInOnePlace
  <1>7. \A i \in 1..Len(Out') : Out'[i] < nextChunk'
    <2> TAKE i \in 1..Len(Out')
    <2>1. i \in 1..Len(Out) \/ i = Len(Out) + 1
      BY <1>3
    <2> QED
      BY <1>0, <1>3, <1>5, <2>1
  <1>8. /\ \A u \in Holders' : held'[u] < nextChunk' /\ \A i \in 1..Len(Out') : Out'[i] # held'[u]
        /\ \A u, v \in Holders' : held'[u] = held'[v] => u = v
    <2>1. \A u \in Holders' : held[u] < nextChunk /\ held[u] # held[t]
                                /\ \A i \in 1..Len(Out) : Out[i] # held[u]
      BY <1>1, <1>5 DEF ChunksInOnePlace
    <2>2. \A u \in Holders' : \A i \in 1..Len(Out') : Out'[i] # held[u]
      <3> TAKE u \in Holders'
      <3> TAKE i \in 1..Len(Out')
      <3>1. i \in 1..Len(Out) \/ i = Len(Out) + 1
        BY <1>3
      <3> QED
        BY <1>3, <2>1, <3>1
    <2>3. \A u, v \in Holders' : held[u] = held[v] => u = v
      BY <1>5 DEF ChunksInOnePlace
    <2> QED
      BY <1>0, <1>5, <2>1, <2>2, <2>3
  <1>9. plan' = "ordered" => /\ \A u \in Tasks \ {1} : tpc'[u] = "done"
                             /\ \A i \in 1..Len(Out') : Out'[i] = i
                             /\ held'[1] # 0 => held'[1] = nextChunk' - 1
    <2> HAVE plan' = "ordered"
    <2>0. plan = "ordered"
      OBVIOUS
    <2>1. t = 1 /\ Holders' = {}
      BY <1>1, <2>0 DEF Holders
    <2>2. Cardinality(Holders') = 0
      BY <2>1, FS_EmptySet
    <2>3. held[t] = nextChunk - 1 /\ Len(Out) + 1 = nextChunk - 1
      BY <1>0, <1>2, <1>3, <2>1, <2>2, HoldersFinite DEF ChunksInOnePlace
    <2>4. \A i \in 1..Len(Out') : Out'[i] = i
      <3> TAKE i \in 1..Len(Out')
      <3>1. i \in 1..Len(Out) \/ i = Len(Out) + 1
        BY <1>3
      <3> QED
        BY <1>3, <2>0, <2>3, <3>1 DEF ChunksInOnePlace
    <2> QED
      BY <1>0, <2>0, <2>1, <2>4 DEF ChunksInOnePlace
  <1> QED
    BY <1>4, <1>6, <1>7, <1>8, <1>9 DEF ChunksInOnePlace

\* A task that is done stays so, and only one that is not takes or gives a chunk.
LEMMA ChunksTaskStep ==
  ASSUME TasksPlaced, SimpleInv, ChunksInOnePlace, UNCHANGED plan,
         NEW t \in Tasks, Simple!TaskStep(t)
  PROVE  ChunksInOnePlace'
  <1> USE DEF Simple!At, Simple!Runs, Simple!Goes, Simple!client, Simple!data, Simple!NoChunk
  <1>0. SimpleTypes /\ ChunkPlaces /\ tpc \in [Tasks -> TaskPlaces] /\ 1 \in Tasks
    BY ExecutorAssumption DEF SimpleInv, TasksPlaced, Tasks
  <1>1. \A u \in Tasks : tpc[u] = "done" => tpc'[u] = "done"
    BY <1>0 DEF Simple!TaskStep, Simple!Starts, Simple!FetchesSource, Simple!Fails, Simple!Sinks,
           Simple!Appends, Simple!Blocks, Simple!Retries, Simple!Ends, Simple!Finishes,
           Simple!Rest, Simple!Interrupted, Simple!Deschedules, Simple!PoolTakes,
           Simple!Throws, Simple!Heads
  <1>2. CASE Simple!FetchesSource(t) /\ nextChunk <= NumChunks
    <2>1. held[t] = 0 /\ nextChunk \in 1..NumChunks
      BY <1>0, <1>2, ResultAssumption DEF Simple!FetchesSource, ChunkPlaces, SimpleTypes
    <2>2. plan = "ordered" => t = 1
      BY <1>2 DEF Simple!FetchesSource, ChunksInOnePlace
    <2>3. UNCHANGED Out
      BY <1>2 DEF Simple!FetchesSource, Out
    <2> QED
      BY <1>0, <1>1, <1>2, <2>1, <2>2, <2>3, ChunkTaken DEF Simple!FetchesSource
  <1>3. CASE Simple!Appends(t)
    <2>1. held[t] # 0
      BY <1>0, <1>3 DEF Simple!Appends, ChunkPlaces
    <2>2. plan = "ordered" => t = 1 /\ \A u \in Tasks \ {1} : held[u] = 0
      BY <1>0, <1>3 DEF Simple!Appends, ChunksInOnePlace, ChunkPlaces
    <2>3. Out' = Append(Out, held[t])
      <3>1. held[t] \in 0..NumChunks /\ buffered \in Seq(1..NumChunks) /\ delivered \in Seq(1..NumChunks)
        BY <1>0 DEF SimpleTypes
      <3>2. buffered' = Append(buffered, held[t]) /\ delivered' = delivered
        BY <1>3 DEF Simple!Appends
      <3> QED
        BY <3>1, <3>2 DEF Out
    <2> QED
      BY <1>0, <1>1, <1>3, <2>1, <2>2, <2>3, ChunkGiven DEF Simple!Appends
  <1>4. CASE UNCHANGED <<nextChunk, held, buffered, delivered>>
    BY <1>0, <1>1, <1>4, ChunksStay DEF Out
  <1> QED
    BY <1>2, <1>3, <1>4
    DEF Simple!TaskStep, Simple!Starts, Simple!FetchesSource, Simple!Fails, Simple!Sinks,
        Simple!Blocks, Simple!Retries, Simple!Ends, Simple!Rest

LEMMA ChunksClientStep ==
  ASSUME TasksPlaced, SimpleInv, ChunksInOnePlace, UNCHANGED plan,
         Simple!ClientWorks \/ Simple!Calls
  PROVE  ChunksInOnePlace'
  <1> USE DEF Simple!executor, Simple!data
  <1>0. SimpleTypes
    BY DEF SimpleInv
  <1>1. CASE Simple!Scans
    <2>1. UNCHANGED <<tpc, held, nextChunk>>
      BY <1>1 DEF Simple!Scans
    <2>2. UNCHANGED Out
      BY <1>0, <1>1, TakesHead DEF Simple!Scans, SimpleTypes, Out
    <2> QED
      BY <1>0, <2>1, <2>2, ChunksStay
  <1>2. CASE Simple!ClientRest
    <2>1. ClientStep /\ UNCHANGED <<nextChunk, held, buffered, delivered>>
      BY <1>2, SameClientStep DEF Simple!ClientRest
    <2> QED
      BY <1>0, <2>1, ClientStepKeeps, ChunksStay DEF Out
  <1>3. CASE Simple!Checks \/ Simple!Unblocks \/ Simple!Wakes \/ Simple!Rechecks \/ Simple!Calls
    <2>1. UNCHANGED <<tpc, nextChunk, held, buffered, delivered>>
      BY <1>3 DEF Simple!Checks, Simple!Unblocks, Simple!Wakes, Simple!Rechecks, Simple!Calls,
         Simple!Fetches, Simple!Abandons, Simple!Reschedules
    <2> QED
      BY <1>0, <2>1, ChunksStay DEF Out
  <1> QED
    BY <1>1, <1>2, <1>3 DEF Simple!ClientWorks

-----------------------------------------------------------------------------
(***************************************************************************)
(* The invariant of the three plans.                                       *)
(***************************************************************************)

IInv ==
  /\ plan \in {"batched", "parallel", "ordered"}
  /\ TasksPlaced
  /\ ResultKnown
  /\ plan = "batched" => BatchedInv
  /\ plan # "batched" => SimpleInv /\ ChunksInOnePlace

LEMMA LaunchPlaces ==
  ASSUME NEW n \in 1..NumTasks, loc = [t \in Tasks |-> IF t <= n THEN "queue" ELSE "gone"],
         tpc = [t \in Tasks |-> IF t <= n THEN "start" ELSE "done"],
         queue = [i \in 1..n |-> i]
  PROVE  TasksPlaced
  <1>1. queue \in [1..n -> Tasks] /\ n \in Nat
    BY ExecutorAssumption DEF Tasks
  <1>2. queue \in Seq(Tasks) /\ Len(queue) = n
    BY <1>1
  <1> QED
    BY <1>1, <1>2 DEF TasksPlaced, Tasks, Locations, TaskPlaces

LEMMA SimpleStart ==
  ASSUME NEW n \in 1..NumTasks, Simple!Init(n), plan = "ordered" => n = 1
  PROVE  TasksPlaced /\ ResultKnown /\ SimpleInv /\ ChunksInOnePlace
  <1> USE DEF Simple!Tasks, Tasks, Simple!NoChunk
  <1>0. NumTasks \in Nat \ {0} /\ NumChunks \in Nat /\ BufferSize \in Nat \ {0}
    BY ResultAssumption, ExecutorAssumption
  <1>1. TasksPlaced
    BY LaunchPlaces DEF Simple!Init, Simple!ExecutorInit
  <1>2. ResultKnown
    BY DEF Simple!Init, Simple!ExecutorInit, ResultKnown
  <1>3. SimpleInv
    BY <1>0, NothingFills DEF Simple!Init, Simple!ExecutorInit, SimpleInv, SimpleTypes, SimpleKnown, Refused,
       OneSink, RoomKept, ChunkPlaces, EndKnown, Simple!Chunks
  <1>4. ChunksInOnePlace
    <2>1. Holders = {} /\ Len(Out) = 0 /\ nextChunk = 1 /\ held[1] = 0
      BY <1>0 DEF Simple!Init, Holders, Out
    <2>2. Cardinality(Holders) = 0
      BY <2>1, FS_EmptySet
    <2>3. plan = "ordered" => \A t \in Tasks \ {1} : tpc[t] = "done"
      BY <1>0 DEF Simple!Init, Simple!ExecutorInit
    <2> QED
      BY <2>1, <2>2, <2>3 DEF ChunksInOnePlace
  <1> QED
    BY <1>1, <1>2, <1>3, <1>4

LEMMA InitIsSound ==
  ASSUME Init
  PROVE  IInv
  <1> USE ExecutorAssumption
  <1>1. CASE plan = "batched" /\ Batched!Init
    <2>0. NumTasks \in 1..NumTasks
      OBVIOUS
    <2>1. TasksPlaced
      BY <1>1, <2>0, LaunchPlaces DEF Batched!Init, Batched!ExecutorInit, Batched!Tasks, Tasks
    <2>2. ResultKnown
      BY <1>1 DEF Batched!Init, Batched!ExecutorInit, ResultKnown
    <2>3. BatchedInv
      BY <1>1 DEF Batched!Init, Batched!ExecutorInit, Batched!Tasks, Tasks, Batched!NoBatch,
         BatchedInv, BatchedKnown, Refused
    <2> QED
      BY <1>1, <2>1, <2>2, <2>3 DEF IInv
  <1>2. CASE plan = "parallel" /\ Simple!Init(NumTasks)
    BY <1>2, SimpleStart DEF IInv
  <1>3. CASE plan = "ordered" /\ Simple!Init(1)
    BY <1>3, SimpleStart DEF IInv
  <1> QED
    BY <1>1, <1>2, <1>3 DEF Init

LEMMA StutterKeeps ==
  ASSUME IInv, UNCHANGED vars
  PROVE  IInv'
  <1> USE DEF vars, ofBoth, ofBatched, ofSimple, executor, client
  <1>1. TasksPlaced' /\ ResultKnown' /\ UNCHANGED plan
    BY DEF IInv, TasksPlaced, ResultKnown
  <1>2. plan = "batched" => BatchedInv'
    BY DEF IInv, BatchedInv, BatchedKnown, Refused
  <1>3. ASSUME plan # "batched" PROVE SimpleInv'
    <2>1. SimpleInv
      BY <1>3 DEF IInv
    <2>2. SimpleTypes' /\ OneSink' /\ RoomKept' /\ ChunkPlaces'
      BY <2>1 DEF SimpleInv, SimpleTypes, OneSink, RoomKept, ChunkPlaces
    <2>3. SimpleKnown' /\ EndKnown'
      BY <2>1 DEF SimpleInv, SimpleKnown, Refused, EndKnown, AllDone
    <2> QED
      BY <2>2, <2>3 DEF SimpleInv
  <1>4. ASSUME plan # "batched" PROVE ChunksInOnePlace'
    BY <1>4, ChunksStay DEF IInv, SimpleInv, Out
  <1> QED
    BY <1>1, <1>2, <1>3, <1>4 DEF IInv

LEMMA NextKeeps ==
  ASSUME IInv, Next
  PROVE  IInv'
  <1>1. CASE plan = "batched" /\ UNCHANGED plan
             /\ ((\E t \in Tasks : Batched!TaskStep(t)) \/ Batched!ClientWorks \/ Batched!Calls)
    BY <1>1, BatchedTaskStep, BatchedClientWorks, BatchedCalls DEF IInv
  <1>2. CASE plan # "batched" /\ UNCHANGED plan
             /\ ((\E t \in Tasks : Simple!TaskStep(t)) \/ Simple!ClientWorks \/ Simple!Calls)
    BY <1>2, SimpleTaskStep, SimpleClientWorks, SimpleCalls, ChunksTaskStep, ChunksClientStep DEF IInv
  <1>3. CASE Over
    BY <1>3, StutterKeeps DEF Over
  <1> QED
    BY <1>1, <1>2, <1>3 DEF Next, TaskStep, ClientWorks, Calls, IsBatched, IsSimple

\* IInv holds in every state: where tasks and chunks are, who is registered as
\* blocked, and how full a simple buffer is.
THEOREM ResultInvariance == Spec => []IInv
  <1>1. Init => IInv
    BY InitIsSound
  <1>2. IInv /\ [Next]_vars => IInv'
    BY NextKeeps, StutterKeeps
  <1> QED
    BY <1>1, <1>2, PTL DEF Spec

\* A task that a full buffer has put to sleep is known to UnblockSinks.
LEMMA RefusedIsKnown ==
  ASSUME IInv, ~cancelled, NEW t \in Tasks, loc[t] = "blocked" \/ (Runs(t) /\ tpc[t] = "desched")
  PROVE  /\ plan = "batched" => <<batch[t], t>> \in blockedSinks
         /\ plan # "batched" => \E i \in 1..Len(blockedSinks) : blockedSinks[i] = t
  BY DEF IInv, BatchedInv, BatchedKnown, SimpleInv, SimpleKnown, Refused

\* A simple buffer counts the bytes it holds, and had fewer than streaming_buffer_size
\* says before its last chunk, for any number of tasks and chunks of any sizes: the
\* lock of the collector admits one chunk at a time, and Scan only makes room.
THEOREM BufferKeepsItsBound == Spec => []MemoryBounded
  <1>1. ASSUME IInv, plan # "batched" PROVE Simple!MemoryBounded
    <2>1. /\ buffered \in Seq(1..NumChunks) /\ RoomKept
          /\ Simple!Tasks = Tasks /\ Len(buffered) \in Nat
      BY <1>1 DEF IInv, SimpleInv, SimpleTypes, Simple!Tasks, Tasks
    <2>2. PICK f : /\ Adds(buffered, bytes, f) /\ count = f[Len(buffered)]
                   /\ buffered # <<>> => f[Len(buffered) - 1] < BufferSize
      BY <2>1 DEF RoomKept, Filled
    <2>3. PICK total : total = Total(buffered, bytes)
      OBVIOUS
    <2>4. \A n \in 0..Len(buffered) : total[n] = f[n]
      BY <2>1, <2>2, <2>3, SumsAreTotal
    <2>5. /\ count = total[Len(buffered)]
          /\ buffered # <<>> => total[Len(buffered) - 1] < BufferSize
      <3>1. Len(buffered) \in 0..Len(buffered)
        BY <2>1
      <3>2. buffered # <<>> => Len(buffered) - 1 \in 0..Len(buffered)
        BY <2>1
      <3> QED
        BY <2>2, <2>4, <3>1, <3>2
    <2>6. (\E t \in Tasks : tpc[t] = "append") => count < BufferSize
      BY <2>1 DEF RoomKept
    <2> QED
      BY <2>1, <2>3, <2>5, <2>6 DEF Simple!MemoryBounded, Total
  <1>2. IInv => MemoryBounded
    BY <1>1 DEF MemoryBounded
  <1> QED
    BY <1>2, ResultInvariance, PTL

\* After a call of Fetch that returned a chunk of a simple buffer the result is open
\* still, also when a task has failed meanwhile: the next call does not throw.
THEOREM SimpleFetchNeverThrows == Spec => [](plan # "batched" => Simple!ChunkMeansOpen)
  <1>1. IInv => (plan # "batched" => Simple!ChunkMeansOpen)
    BY DEF IInv, SimpleInv, EndKnown, Simple!ChunkMeansOpen
  <1> QED
    BY <1>1, ResultInvariance, PTL

-----------------------------------------------------------------------------
(***************************************************************************)
(* The steps of the simple plans are steps of ChunkStream (the theorem for *)
(* every plan is in BatchedStreamProofs).                                  *)
(***************************************************************************)

\* What ResultStream substitutes for the variables of ChunkStream.
StreamStatus ==
  CASE cpc = "ended" /\ res = "abandoned" -> "dropped"
    [] cpc = "ended" /\ res # "abandoned" /\ success -> "complete"
    [] OTHER -> IF success THEN "open" ELSE "failed"

\* All chunks have been delivered when nothing is left with the tasks, in the
\* source or in the buffer.
LEMMA AllDelivered ==
  ASSUME SimpleInv, ChunksInOnePlace, AllDone, buffered = <<>>
  PROVE  Len(delivered) = NumChunks
  <1>1. 1 \in Tasks
    BY ExecutorAssumption DEF Tasks
  <1>2. Holders = {} /\ nextChunk = NumChunks + 1
    BY <1>1 DEF SimpleInv, ChunkPlaces, AllDone, Holders
  <1>3. Cardinality(Holders) = 0
    BY <1>2, FS_EmptySet
  <1>4. Out = delivered /\ Len(delivered) \in Nat
    BY DEF SimpleInv, SimpleTypes, Out
  <1> QED
    BY <1>2, <1>3, <1>4, ResultAssumption DEF ChunksInOnePlace

\* The head of the buffer is a chunk that was not delivered, and the next one when
\* the order is kept.
LEMMA HeadIsNext ==
  ASSUME SimpleInv, ChunksInOnePlace, buffered # <<>>
  PROVE  /\ Head(buffered) \in 1..NumChunks
         /\ \A j \in DOMAIN delivered : delivered[j] # Head(buffered)
         /\ plan = "ordered" => Head(buffered) = Len(delivered) + 1
  <1>1. buffered \in Seq(1..NumChunks) /\ delivered \in Seq(1..NumChunks)
    BY DEF SimpleInv, SimpleTypes
  <1>2. /\ Len(delivered) + 1 \in 1..Len(Out)
        /\ Out[Len(delivered) + 1] = Head(buffered)
        /\ \A j \in 1..Len(delivered) : j \in 1..Len(Out) /\ Out[j] = delivered[j] /\ j # Len(delivered) + 1
        /\ DOMAIN delivered = 1..Len(delivered)
    BY <1>1 DEF Out
  <1>3. Head(buffered) \in 1..NumChunks
    BY <1>1, TakesHead
  <1> QED
    BY <1>2, <1>3 DEF ChunksInOnePlace

LEMMA StreamStutters ==
  ASSUME plan # "batched", UNCHANGED <<plan, delivered, StreamStatus>>
  PROVE  UNCHANGED Stream!vars
  BY DEF Stream!vars, StreamStatus

LEMMA StreamStepTask ==
  ASSUME plan # "batched", UNCHANGED plan, NEW t \in Tasks, Simple!TaskStep(t)
  PROVE  UNCHANGED Stream!vars
  BY SimpleTaskLeaves, StreamStutters DEF StreamStatus

LEMMA StreamStepScan ==
  ASSUME plan \in {"parallel", "ordered"}, UNCHANGED plan, SimpleInv, ChunksInOnePlace, Simple!Scans
  PROVE  Stream!Next \/ UNCHANGED Stream!vars
  <1> USE DEF Simple!executor, Simple!data
  <1>1. CASE success /\ buffered # <<>>
    <2>1. /\ delivered' = Append(delivered, Head(buffered)) /\ StreamStatus = "open"
          /\ UNCHANGED StreamStatus
      BY <1>1 DEF Simple!Scans, StreamStatus
    <2>2. Stream!Deliver
      BY <2>1, <1>1, HeadIsNext, ResultAssumption DEF Stream!Deliver, StreamStatus
    <2> QED
      BY <2>2 DEF Stream!Next
  <1>2. CASE success /\ buffered = <<>>
    <2>1. Len(delivered) = NumChunks
      BY <1>2, AllDelivered DEF Simple!Scans, SimpleInv, EndKnown
    <2>2. StreamStatus = "open" /\ StreamStatus' = "complete" /\ UNCHANGED delivered
      BY <1>2 DEF Simple!Scans, SimpleInv, EndKnown, StreamStatus
    <2>3. Stream!Complete
      BY <2>1, <2>2, ResultAssumption DEF Stream!Complete, StreamStatus
    <2> QED
      BY <2>3 DEF Stream!Next
  <1>3. CASE ~success
    <2>1. UNCHANGED <<delivered, StreamStatus>>
      BY <1>3 DEF Simple!Scans, SimpleInv, EndKnown, StreamStatus
    <2> QED
      BY <2>1, StreamStutters
  <1> QED
    BY <1>1, <1>2, <1>3

LEMMA StreamStepClient ==
  ASSUME plan \in {"parallel", "ordered"}, UNCHANGED plan, SimpleInv, ResultKnown, ChunksInOnePlace,
         Simple!ClientWorks \/ Simple!Calls
  PROVE  Stream!Next \/ UNCHANGED Stream!vars
  <1> USE DEF Simple!executor, Simple!data
  <1>1. CASE Simple!Scans
    BY <1>1, StreamStepScan
  <1>2. CASE Simple!ClientRest /\ Drained
    <2>1. UNCHANGED delivered /\ StreamStatus \in {"open", "failed"}
          /\ (UNCHANGED StreamStatus \/ StreamStatus' = "dropped"
                \/ (StreamStatus = "open" /\ StreamStatus' = "failed"))
      BY <1>2 DEF Simple!ClientRest, Drained, ResultKnown, StreamStatus
    <2>2. CASE UNCHANGED StreamStatus
      BY <2>1, <2>2, StreamStutters
    <2>3. CASE StreamStatus' = "dropped"
      <3>1. Stream!Drop
        BY <2>1, <2>3 DEF Stream!Drop, StreamStatus
      <3> QED
        BY <3>1 DEF Stream!Next
    <2>4. CASE StreamStatus = "open" /\ StreamStatus' = "failed"
      <3>1. Stream!Fail
        BY <2>1, <2>4 DEF Stream!Fail, StreamStatus
      <3> QED
        BY <3>1 DEF Stream!Next
    <2> QED
      BY <2>1, <2>2, <2>3, <2>4
  <1>3. CASE Simple!ClientRest /\ ~Drained
    <2>1. ClientStep /\ UNCHANGED delivered
      BY <1>3, SameClientStep DEF Simple!ClientRest
    <2>2. cpc # "ended" /\ cpc' # "ended" /\ UNCHANGED success
      BY <1>3, <2>1 DEF ClientStep, ClientTakes, ClientFindsNone, ClientFinished, ClientLooks,
         ClientRan, CancelTasks, DrainTakes, DrainRan, SendLoops, Returns, ResultKnown
    <2> QED
      BY <2>1, <2>2, StreamStutters DEF StreamStatus
  <1>4. CASE Simple!Checks \/ Simple!Unblocks \/ Simple!Wakes \/ Simple!Calls
    <2>1. UNCHANGED <<delivered, success>> /\ cpc # "ended" /\ cpc' # "ended"
      BY <1>4 DEF Simple!Checks, Simple!Unblocks, Simple!Wakes, Simple!Calls, Simple!Fetches,
         Simple!Abandons, Simple!Reschedules, Simple!AfterUnblocking
    <2> QED
      BY <2>1, StreamStutters DEF StreamStatus
  <1>5. CASE Simple!Rechecks
    <2>1. UNCHANGED <<delivered, StreamStatus>>
      BY <1>5 DEF Simple!Rechecks, SimpleInv, EndKnown, ResultKnown, StreamStatus
    <2> QED
      BY <2>1, StreamStutters
  <1> QED
    BY <1>1, <1>2, <1>3, <1>4, <1>5 DEF Simple!ClientWorks

=============================================================================

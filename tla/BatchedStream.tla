---------------------------- MODULE BatchedStream ----------------------------
(***************************************************************************)
(* A streaming query whose pipeline keeps the order of its source with     *)
(* several tasks: PhysicalBufferedBatchCollector and BatchedBufferedData.  *)
(* The source hands out batches of chunks in order, a task at a time.      *)
(* Chunks of the lowest batch at work (min_batch) go to the read queue,    *)
(* from which Fetch takes them; chunks of a later batch wait in a buffer   *)
(* until min_batch has reached it.  A full queue or buffer blocks its      *)
(* task, and the fetching client wakes the task again.                     *)
(*                                                                         *)
(* All chunks are of one size, in which the capacities count.  Each        *)
(* critical section under glock is one action, except UnblockSinks, which  *)
(* holds the lock (glock is taken when cpc is "waking") while it waits for *)
(* the tasks it wakes.                                                     *)
(***************************************************************************)
EXTENDS DuckExecutor, SequencesExt, FiniteSetsExt, Functions

CONSTANTS
  NumBatches,   \* batches of the source
  MaxPer,       \* bound on the chunks a batch has behind the filter
  NumChunks,    \* bound on the chunks of the result
  QueueCap,     \* read_queue_capacity
  BufferCap     \* buffer_capacity

Batches == 1..NumBatches

\* base_batch_index, and the index of a task whose source is exhausted
NoBatch  == 0
MaxBatch == NumBatches + 1

NoChunk == <<0, 0>>

VARIABLES
  size,         \* chunks of each batch that reach the sink
  bad,          \* the chunk at which an operator throws, or NoChunk
  nextBatch,    \* the next batch the source hands out
  batch,        \* partition_info.batch_index of each task
  minSeen,      \* partition_info.min_batch_index
  current,      \* the sink's current_batch
  target,       \* next_data.batch_index while NextBatch runs
  pos,          \* chunks of its batch that the task has appended
  minBatch,     \* BatchedBufferedData::min_batch
  buffer,       \* the chunks of each batch that wait
  readQueue,
  completed,    \* the batches of the buffer with completed = true
  blockedSinks, \* blocked_sinks: pairs of a batch and its task
  todo,         \* the blocked sinks UnblockSinks has still to call back
  delivered     \* the chunks Fetch has returned

source == <<size, bad, nextBatch>>
task   == <<batch, minSeen, current, target, pos>>
data   == <<minBatch, buffer, readQueue, completed>>
sinks  == <<blockedSinks, todo>>

vars == <<executor, client, source, task, data, sinks, delivered>>

ChunksOf(b) == [i \in 1..size[b] |-> <<b, i>>]

Whole == FlattenSeq([b \in Batches |-> ChunksOf(b)])

Init ==
  /\ ExecutorInit(NumTasks)
  /\ size \in {s \in [Batches -> 0..MaxPer] : FoldFunction(+, 0, s) <= NumChunks}
  /\ bad \in {NoChunk} \cup {c \in Batches \X (1..MaxPer) : c[2] <= size[c[1]]}
  /\ nextBatch = 1
  /\ batch = [t \in Tasks |-> NoBatch]
  /\ minSeen = [t \in Tasks |-> NoBatch]
  /\ current = [t \in Tasks |-> NoBatch]
  /\ target = [t \in Tasks |-> NoBatch]
  /\ pos = [t \in Tasks |-> 0]
  /\ minBatch = NoBatch
  /\ buffer = [b \in Batches |-> <<>>]
  /\ readQueue = <<>>
  /\ completed = {}
  /\ blockedSinks = {}
  /\ todo = {}
  /\ delivered = <<>>

-----------------------------------------------------------------------------
(***************************************************************************)
(* The buffer.                                                             *)
(***************************************************************************)

GlockFree == cpc # "waking"

BufferCount == Len(FlattenSeq(buffer))

\* Mutant of MovesUpTo: only the batch that has become the minimum is moved.
MovesOnlyNew(m) ==
  /\ readQueue' = IF m \in Batches THEN readQueue \o buffer[m] ELSE readQueue
  /\ buffer' = [buffer EXCEPT ![m] = <<>>]
  /\ completed' = completed \ {m}

\* MoveCompletedBatches, for the batches up to the new minimum.
MovesUpTo(m) ==
  /\ readQueue' = readQueue \o FlattenSeq([b \in 1..Min({m, NumBatches}) |-> buffer[b]])
  /\ buffer' = [b \in Batches |-> IF b <= m THEN <<>> ELSE buffer[b]]
  /\ completed' = {b \in completed : b > m}

UpdateMinBatchIndex(m) ==
  /\ GlockFree
  /\ IF m > minBatch
       THEN minBatch' = m /\ MovesUpTo(m)
       ELSE UNCHANGED data

\* ShouldBlockBatch, and the same condition in UnblockSinks.
NoRoomFor(b) ==
  IF b = minBatch THEN Len(readQueue) >= QueueCap ELSE BufferCount >= BufferCap

-----------------------------------------------------------------------------
(***************************************************************************)
(* A task: PipelineExecutor and the sink.                                  *)
(***************************************************************************)

\* Pipeline::batch_indexes
Registered == {batch[t] : t \in {u \in Tasks : tpc[u] # "start"}}

\* The constructor of PipelineExecutor: RegisterNewBatchIndex.
Starts(t) ==
  /\ At(t, "start")
  /\ LET least == IF Registered = {} THEN NoBatch ELSE Min(Registered)
     IN  /\ batch' = [batch EXCEPT ![t] = least]
         /\ minSeen' = [minSeen EXCEPT ![t] = least]
  /\ Goes(t, "head")
  /\ UNCHANGED <<loc, queue, failed, cancelled, client, source, current, target, pos,
                 data, sinks, delivered>>

\* FetchFromSource has another chunk of the same batch.
FetchesSame(t) ==
  /\ At(t, "head") /\ ~failed
  /\ RoundStarts(t)
  /\ batch[t] \in Batches /\ current[t] = batch[t] /\ pos[t] < size[batch[t]]
  /\ Goes(t, "push")
  /\ UNCHANGED <<loc, queue, failed, cancelled, source, task, data, sinks, delivered>>

\* It has the first chunk of the next batch, or is exhausted: NextBatch of the
\* executor, up to the sink's CompleteBatch.
FetchesNext(t) ==
  /\ At(t, "head") /\ ~failed /\ GlockFree
  /\ RoundStarts(t)
  /\ ~(batch[t] \in Batches /\ current[t] = batch[t] /\ pos[t] < size[batch[t]])
  /\ nextBatch' = Min({nextBatch + 1, MaxBatch})
  /\ target' = [target EXCEPT ![t] = nextBatch]
  /\ IF nextBatch = batch[t]
       THEN Goes(t, "last") /\ UNCHANGED <<current, completed>>
       ELSE /\ Goes(t, "nextmin")
            /\ current' = [current EXCEPT ![t] = nextBatch]
            /\ completed' = completed \cup
                 {b \in {current[t]} \cap Batches : buffer[b] # <<>>}
  /\ UNCHANGED <<loc, queue, failed, cancelled, size, bad, batch, minSeen, pos,
                 minBatch, buffer, readQueue, sinks, delivered>>

\* Mutant of UpdatesMin: the new batch is announced as the minimum.
UpdatesMinToTarget(t) ==
  /\ At(t, "nextmin")
  /\ UpdateMinBatchIndex(target[t])
  /\ Goes(t, "reindex")
  /\ UNCHANGED <<loc, queue, failed, cancelled, client, source, task, sinks, delivered>>

\* The rest of the sink's NextBatch.
UpdatesMin(t) ==
  /\ At(t, "nextmin")
  /\ UpdateMinBatchIndex(minSeen[t])
  /\ Goes(t, "reindex")
  /\ UNCHANGED <<loc, queue, failed, cancelled, client, source, task, sinks, delivered>>

\* Pipeline::UpdateBatchIndex, behind the sink's NextBatch.
Reindexes(t) ==
  /\ At(t, "reindex")
  /\ batch' = [batch EXCEPT ![t] = target[t]]
  /\ minSeen' = [minSeen EXCEPT ![t] =
       Min({batch'[u] : u \in {v \in Tasks : tpc[v] # "start"}})]
  /\ pos' = [pos EXCEPT ![t] = 0]
  /\ Goes(t, CASE target[t] = MaxBatch  -> "last"
               [] target[t] # MaxBatch /\ size[target[t]] = 0 -> "head"
               [] OTHER -> "push")
  /\ UNCHANGED <<loc, queue, failed, cancelled, client, source, current, target, data,
                 sinks, delivered>>

ChunkAt(t) == <<batch[t], pos[t] + 1>>

\* An operator throws on the chunk.
Fails(t) ==
  /\ At(t, "push")
  /\ ChunkAt(t) = bad
  /\ Throws(t)
  /\ UNCHANGED <<client, source, task, data, sinks, delivered>>

\* Sink, up to UpdateMinBatchIndex.
Pushes(t) ==
  /\ At(t, "push")
  /\ ChunkAt(t) # bad
  /\ UpdateMinBatchIndex(minSeen[t])
  /\ Goes(t, "should")
  /\ UNCHANGED <<loc, queue, failed, cancelled, client, source, task, sinks, delivered>>

\* Sink: ShouldBlockBatch.
Decides(t) ==
  /\ At(t, "should") /\ GlockFree
  /\ Goes(t, IF NoRoomFor(batch[t]) THEN "block" ELSE "append")
  /\ UNCHANGED <<loc, queue, failed, cancelled, client, source, task, data, sinks, delivered>>

\* Mutant of Blocks: a sink is not registered once there is room again.
BlocksUnlessRoom(t) ==
  /\ At(t, "block") /\ GlockFree
  /\ blockedSinks' = IF NoRoomFor(batch[t]) THEN blockedSinks \cup {<<batch[t], t>>}
                                            ELSE blockedSinks
  /\ Goes(t, "desched")
  /\ UNCHANGED <<loc, queue, failed, cancelled, client, source, task, data, todo, delivered>>

\* Sink: BlockSink.  The lock was free in between.
Blocks(t) ==
  /\ At(t, "block") /\ GlockFree
  /\ blockedSinks' = blockedSinks \cup {<<batch[t], t>>}
  /\ Goes(t, "desched")
  /\ UNCHANGED <<loc, queue, failed, cancelled, client, source, task, data, todo, delivered>>

\* Sink: Append.  Whether the batch is the minimum is looked up again.
Appends(t) ==
  /\ At(t, "append") /\ GlockFree
  /\ IF batch[t] = minBatch
       THEN /\ readQueue' = Append(readQueue, ChunkAt(t))
            /\ UNCHANGED <<buffer, completed>>
       ELSE /\ buffer' = [buffer EXCEPT ![batch[t]] = Append(@, ChunkAt(t))]
            /\ completed' = completed \ {batch[t]}
            /\ UNCHANGED readQueue
  /\ pos' = [pos EXCEPT ![t] = @ + 1]
  /\ Goes(t, "head")
  /\ UNCHANGED <<loc, queue, failed, cancelled, client, source, batch, minSeen, current,
                 target, minBatch, sinks, delivered>>

\* The next run of a task that was blocked: remaining_sink_chunk.
Retries(t) ==
  /\ At(t, "retry") /\ ~failed
  /\ RoundStarts(t)
  /\ Goes(t, "push")
  /\ UNCHANGED <<loc, queue, failed, cancelled, source, task, data, sinks, delivered>>

\* Nothing is left to flush: PushFinalize.
Combines(t) ==
  /\ At(t, "last") /\ ~failed
  /\ RoundStarts(t)
  /\ Goes(t, "combine")
  /\ UNCHANGED <<loc, queue, failed, cancelled, source, task, data, sinks, delivered>>

\* Mutant of Ends: Combine does not update the minimum.
EndsWithoutUpdate(t) ==
  /\ At(t, "combine")
  /\ Finishes(t)
  /\ UNCHANGED <<source, task, data, sinks, delivered>>

Ends(t) ==
  /\ At(t, "combine")
  /\ UpdateMinBatchIndex(minSeen[t])
  /\ Finishes(t)
  /\ UNCHANGED <<source, task, sinks, delivered>>

Rest(t) ==
  /\ Interrupted(t) \/ Deschedules(t) \/ PoolTakes(t)
  /\ UNCHANGED <<source, task, data, sinks, delivered>>

TaskStep(t) ==
  \/ Starts(t) \/ FetchesSame(t) \/ FetchesNext(t) \/ UpdatesMin(t) \/ Reindexes(t)
  \/ Fails(t) \/ Pushes(t) \/ Decides(t) \/ Blocks(t) \/ Appends(t)
  \/ Retries(t) \/ Combines(t) \/ Ends(t) \/ Rest(t)

-----------------------------------------------------------------------------
(***************************************************************************)
(* The client: FetchNextInternal, ReplenishBuffer, ExecuteTaskInternal.    *)
(***************************************************************************)

Unaffected == UNCHANGED <<source, task, data, sinks, delivered>>

Fetches ==
  /\ cpc = "idle" /\ success
  /\ cpc' = "check" /\ res' = "none"
  /\ UNCHANGED <<executor, budget, sending, success>> /\ Unaffected

\* BufferIsEmpty, before anything else.
Checks ==
  /\ cpc = "check"
  /\ cpc' = IF readQueue # <<>> THEN "scan" ELSE "unblock"
  /\ UNCHANGED <<executor, res, budget, sending, success>> /\ Unaffected

\* UnblockSinks is called before the executor runs a task, and once more when
\* that found every task blocked; then the loop starts again.
AfterUnblocking ==
  IF res = "ready" THEN cpc' = "check" /\ res' = "none" ELSE cpc' = "get" /\ UNCHANGED res

Unblocks ==
  /\ cpc = "unblock"
  /\ todo' = {s \in blockedSinks : ~NoRoomFor(s[1])}
  /\ IF todo' = {} THEN AfterUnblocking ELSE cpc' = "waking" /\ UNCHANGED res
  /\ UNCHANGED <<executor, budget, sending, success, source, task, data, blockedSinks,
                 delivered>>

\* The callbacks, in the order of the batches.
Wakes ==
  /\ cpc = "waking"
  /\ LET b == Min({s[1] : s \in todo})
         t == CHOOSE u \in Tasks : <<b, u>> \in todo
     IN  /\ Reschedules(t)
         /\ todo' = todo \ {<<b, t>>}
         /\ blockedSinks' = blockedSinks \ {<<b, t>>}
  /\ IF todo' = {} THEN AfterUnblocking ELSE UNCHANGED <<cpc, res>>
  /\ UNCHANGED <<budget, sending, success, source, task, data, delivered>>

\* Behind the executor's ExecuteTask the queue is looked at first: a chunk is
\* "ready" even when the query has just failed.
Rechecks ==
  /\ cpc = "ran" /\ ~sending
  /\ IF readQueue # <<>>
       THEN cpc' = "scan"
       ELSE cpc' = CASE res = "ready" -> "unblock"
                     [] res \in {"not_ready", "no_tasks"} -> "check"
                     [] res = "finished" -> "scan"
                     [] res = "error" -> "ended"
  /\ UNCHANGED <<executor, res, budget, sending, success>> /\ Unaffected

\* Scan; a null chunk ends the query and closes the result.
Scans ==
  /\ cpc = "scan"
  /\ IF readQueue # <<>>
       THEN /\ delivered' = Append(delivered, Head(readQueue))
            /\ readQueue' = Tail(readQueue)
            /\ cpc' = "idle"
       ELSE cpc' = "ended" /\ UNCHANGED <<delivered, readQueue>>
  /\ UNCHANGED <<executor, res, budget, sending, success, source, task, minBatch, buffer,
                 completed, sinks>>

ClientRest ==
  /\ ClientStep
  /\ Unaffected

Calls == Fetches \/ ((Abandons \/ FetchThrows) /\ Unaffected)

ClientWorks == Checks \/ Unblocks \/ Wakes \/ Rechecks \/ Scans \/ ClientRest

-----------------------------------------------------------------------------
(***************************************************************************)
(* Properties.                                                             *)
(***************************************************************************)

TypeOK ==
  /\ ExecutorTypeOK
  /\ nextBatch \in 1..MaxBatch
  /\ \A f \in {batch, minSeen, current, target} : f \in [Tasks -> 0..MaxBatch]
  /\ pos \in [Tasks -> 0..MaxPer]
  /\ minBatch \in 0..MaxBatch
  /\ completed \subseteq Batches
  /\ todo \subseteq blockedSinks /\ blockedSinks \subseteq Batches \X Tasks

\* What the assertions and internal exceptions of BatchedBufferedData say: a
\* batch that will be moved to the read queue is complete; no chunk waits for a
\* batch up to the minimum; a task appends to no batch below it; no two sinks are
\* blocked for the same batch.
BatchesInOrder ==
  /\ \A b \in Batches : buffer[b] # <<>> =>
       /\ b > minBatch
       /\ \A t \in Tasks : tpc[t] \in {"nextmin", "push", "should", "combine"} =>
            (b < minSeen[t] => b \in completed)
  /\ \A t \in Tasks :
       tpc[t] \in {"push", "should", "append", "block", "desched"} => batch[t] >= minBatch
  /\ \A s, r \in blockedSinks : s[1] = r[1] => s = r

\* No wake-up is lost: a task whose sink was refused is known to UnblockSinks, or
\* the query is over, or the task has been queued again.  And none is waited for in
\* vain: the tasks for which UnblockSinks spins, under glock, are blocked or will be.
BlockedIsKnown ==
  /\ ~cancelled => \A t \in Tasks :
       (loc[t] = "blocked" \/ (Runs(t) /\ tpc[t] = "desched")) => <<batch[t], t>> \in blockedSinks
  /\ cpc = "waking" => ~cancelled /\ \A s \in todo : Comes(s[2])

\* In the unlocked gap between ShouldBlockBatch and Append every task may exceed
\* the limit of the chunks that wait by one, save the one that holds the lowest
\* batch and the one that is let in last.
WaitingBounded == BufferCount <= BufferCap + NumTasks - 2

\* When Fetch has returned null without an error, nothing is left behind: no
\* chunk, no blocked sink, no task (the assertions of Scan).
NothingLeft ==
  (cpc = "ended" /\ success /\ res = "finished") =>
    BufferCount = 0 /\ blockedSinks = {} /\ \A t \in Tasks : tpc[t] = "done"

=============================================================================

---------------------------- MODULE SimpleStream -----------------------------
(***************************************************************************)
(* A streaming query whose tasks append to one queue of chunks:            *)
(* PhysicalBufferedCollector and SimpleBufferedData.  One task runs when   *)
(* the order is to be kept, several when it does not matter.  A full queue *)
(* blocks the tasks; Fetch waits until the queue is full or the query is   *)
(* over, and wakes the tasks when it is not.                               *)
(*                                                                         *)
(* A queue is full when its chunks have the capacity's bytes; it is asked  *)
(* before a chunk is appended, whose size does not matter.  The Sink of a  *)
(* task holds the collector's lock (SinkLockFree) while it asks and then   *)
(* appends or registers; UnblockSinks holds the queue's glock (cpc is      *)
(* "waking") while it waits for the tasks it wakes.                        *)
(***************************************************************************)
EXTENDS DuckExecutor

CONSTANTS
  NumChunks,    \* chunks of the result
  MaxBytes,     \* bound: the bytes of a chunk
  BufferSize    \* BufferedData::total_buffer_size

Chunks  == 1..NumChunks
NoChunk == 0

VARIABLES
  bytes,        \* GetAllocationSize of each chunk
  bad,          \* the chunk at which an operator throws, or NoChunk
  nextChunk,    \* the next chunk of the source
  held,         \* the chunk that each task pushes, or NoChunk
  buffered,     \* buffered_chunks
  count,        \* buffered_count
  blockedSinks, \* the tasks in blocked_sinks, a queue
  delivered     \* the chunks Fetch has returned

data == <<bytes, bad, nextChunk, held, buffered, count, blockedSinks, delivered>>
vars == <<executor, client, data>>

\* The collector is parallel, and the pipeline has n tasks.
Init(n) ==
  /\ ExecutorInit(n)
  /\ bytes \in [Chunks -> 1..MaxBytes]
  /\ bad \in Chunks \cup {NoChunk}
  /\ nextChunk = 1
  /\ held = [t \in Tasks |-> NoChunk]
  /\ buffered = <<>>
  /\ count = 0
  /\ blockedSinks = <<>>
  /\ delivered = <<>>

-----------------------------------------------------------------------------
GlockFree == cpc # "waking"

InSink == {"append", "block"}

\* Mutant of SinkLockFree: the collector takes no lock.
NoSinkLock == TRUE

SinkLockFree == \A t \in Tasks : tpc[t] \notin InSink

BufferIsFull == count >= BufferSize

Starts(t) ==
  /\ At(t, "start")
  /\ Goes(t, "head")
  /\ UNCHANGED <<loc, queue, failed, cancelled, client, data>>

\* The source has a chunk, or has no more.
FetchesSource(t) ==
  /\ At(t, "head") /\ ~failed
  /\ RoundStarts(t)
  /\ IF nextChunk <= NumChunks
       THEN /\ held' = [held EXCEPT ![t] = nextChunk]
            /\ nextChunk' = nextChunk + 1
            /\ Goes(t, "push")
       ELSE Goes(t, "last") /\ UNCHANGED <<held, nextChunk>>
  /\ UNCHANGED <<loc, queue, failed, cancelled, bytes, bad, buffered, count, blockedSinks,
                 delivered>>

\* An operator throws on the chunk.
Fails(t) ==
  /\ At(t, "push")
  /\ held[t] = bad
  /\ Throws(t)
  /\ UNCHANGED <<client, data>>

\* Sink takes the collector's lock and looks at the count, which Scan changes
\* under another lock.
Sinks(t) ==
  /\ At(t, "push")
  /\ held[t] # bad
  /\ SinkLockFree
  /\ Goes(t, IF BufferIsFull THEN "block" ELSE "append")
  /\ UNCHANGED <<loc, queue, failed, cancelled, client, data>>

Appends(t) ==
  /\ At(t, "append") /\ GlockFree
  /\ buffered' = Append(buffered, held[t])
  /\ count' = count + bytes[held[t]]
  /\ held' = [held EXCEPT ![t] = NoChunk]
  /\ Goes(t, "head")
  /\ UNCHANGED <<loc, queue, failed, cancelled, client, bytes, bad, nextChunk,
                 blockedSinks, delivered>>

Blocks(t) ==
  /\ At(t, "block") /\ GlockFree
  /\ blockedSinks' = Append(blockedSinks, t)
  /\ Goes(t, "desched")
  /\ UNCHANGED <<loc, queue, failed, cancelled, client, bytes, bad, nextChunk, held,
                 buffered, count, delivered>>

\* The next run of a task that was blocked: remaining_sink_chunk.
Retries(t) ==
  /\ At(t, "retry") /\ ~failed
  /\ RoundStarts(t)
  /\ Goes(t, "push")
  /\ UNCHANGED <<loc, queue, failed, cancelled, data>>

\* PushFinalize; Combine does nothing.
Ends(t) ==
  /\ At(t, "last") /\ ~failed
  /\ Partial(t) => budget > 0
  /\ Finishes(t)
  /\ UNCHANGED data

Rest(t) ==
  /\ Interrupted(t) \/ Deschedules(t) \/ PoolTakes(t)
  /\ UNCHANGED data

TaskStep(t) ==
  \/ Starts(t) \/ FetchesSource(t) \/ Fails(t) \/ Sinks(t) \/ Appends(t)
  \/ Blocks(t) \/ Retries(t) \/ Ends(t) \/ Rest(t)

-----------------------------------------------------------------------------
Fetches ==
  /\ cpc = "idle" /\ success
  /\ cpc' = "check" /\ res' = "none"
  /\ UNCHANGED <<executor, budget, sending, success, data>>

\* An interrupted query throws, which FetchNextInternal turns into an error and a
\* null chunk; a full queue is not waited for.
Checks ==
  /\ cpc = "check"
  /\ IF failed
       THEN cpc' = "cancel" /\ res' = "interrupt"
       ELSE cpc' = (IF BufferIsFull THEN "scan" ELSE "unblock") /\ UNCHANGED res
  /\ UNCHANGED <<executor, budget, sending, success, data>>

AfterUnblocking ==
  IF res = "ready" THEN cpc' = "check" /\ res' = "none" ELSE cpc' = "get" /\ UNCHANGED res

\* UnblockSinks: at once when nobody waits or the queue is full.
Unblocks ==
  /\ cpc = "unblock"
  /\ IF BufferIsFull \/ blockedSinks = <<>>
       THEN AfterUnblocking
       ELSE cpc' = "waking" /\ UNCHANGED res
  /\ UNCHANGED <<executor, budget, sending, success, data>>

\* The callbacks, in the order of blocking; under glock no chunk is appended, so
\* that all are called.
Wakes ==
  /\ cpc = "waking"
  /\ Reschedules(Head(blockedSinks))
  /\ blockedSinks' = Tail(blockedSinks)
  /\ IF blockedSinks' = <<>> THEN AfterUnblocking ELSE UNCHANGED <<cpc, res>>
  /\ UNCHANGED <<budget, sending, success, bytes, bad, nextChunk, held, buffered, count,
                 delivered>>

Rechecks ==
  /\ cpc = "ran" /\ ~sending
  /\ IF BufferIsFull
       THEN cpc' = "scan"
       ELSE cpc' = CASE res = "ready" -> "unblock"
                     [] res \in {"not_ready", "no_tasks"} -> "check"
                     [] res = "finished" -> "scan"
                     [] res = "error" -> "ended"
  /\ UNCHANGED <<executor, res, budget, sending, success, data>>

\* Scan: null when the buffer was closed, as ReplenishBuffer does behind an error,
\* or is empty.
Scans ==
  /\ cpc = "scan"
  /\ IF success /\ buffered # <<>>
       THEN /\ delivered' = Append(delivered, Head(buffered))
            /\ buffered' = Tail(buffered)
            /\ count' = count - bytes[Head(buffered)]
            /\ cpc' = "idle"
       ELSE cpc' = "ended" /\ UNCHANGED <<delivered, buffered, count>>
  /\ UNCHANGED <<executor, res, budget, sending, success, bytes, bad, nextChunk, held,
                 blockedSinks>>

ClientRest == ClientStep /\ UNCHANGED data

\* FetchThrows of the executor is not among them: see ChunkMeansOpen.
Calls == Fetches \/ (Abandons /\ UNCHANGED data)

ClientWorks == Checks \/ Unblocks \/ Wakes \/ Rechecks \/ Scans \/ ClientRest

-----------------------------------------------------------------------------
(***************************************************************************)
(* Properties.                                                             *)
(***************************************************************************)

TypeOK ==
  /\ ExecutorTypeOK
  /\ bytes \in [Chunks -> 1..MaxBytes]
  /\ bad \in Chunks \cup {NoChunk}
  /\ nextChunk \in 1..NumChunks + 1
  /\ held \in [Tasks -> Chunks \cup {NoChunk}]
  /\ buffered \in Seq(Chunks)
  /\ count \in Nat
  /\ blockedSinks \in Seq(Tasks)
  /\ delivered \in Seq(Chunks)

\* The counter is the bytes of the chunks that are there, although tasks count under
\* one lock and Scan under another; and it may pass the capacity by the last of them
\* only, whatever their sizes: a chunk is appended to no queue that is full.
MemoryBounded ==
  LET total[n \in 0..Len(buffered)] ==
        IF n = 0 THEN 0 ELSE total[n - 1] + bytes[buffered[n]]
  IN /\ count = total[Len(buffered)]
     /\ buffered # <<>> => total[Len(buffered) - 1] < BufferSize
     /\ (\E t \in Tasks : tpc[t] = "append") => count < BufferSize

\* No wake-up is lost: a task whose sink was refused is known to UnblockSinks, or
\* the query is over; and those for which UnblockSinks spins are blocked or will be.
BlockedIsKnown ==
  /\ ~cancelled => \A t \in Tasks :
       (loc[t] = "blocked" \/ (Runs(t) /\ tpc[t] = "desched")) =>
         \E i \in 1..Len(blockedSinks) : blockedSinks[i] = t
  /\ cpc = "waking" => ~cancelled /\ \A i \in 1..Len(blockedSinks) : Comes(blockedSinks[i])

\* When Fetch has returned null without an error, nothing is left behind.
NothingLeft ==
  (cpc = "ended" /\ success /\ res = "finished") =>
    buffered = <<>> /\ blockedSinks = <<>> /\ \A t \in Tasks : tpc[t] = "done"

\* A call of Fetch that has returned a chunk leaves the result open: the next call
\* will not throw (CheckExecutableInternal), even when a task fails meanwhile.
ChunkMeansOpen == cpc = "idle" => success

=============================================================================

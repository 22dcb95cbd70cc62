----------------------------- MODULE ResultStream -----------------------------
(***************************************************************************)
(* The streaming result of a data request.  The collector that is planned  *)
(* (PhysicalResultCollector::GetResultCollector) decides what stands       *)
(* between the tasks and Fetch: BatchedStream when the order of a source   *)
(* with batch indices is to be kept, SimpleStream with many tasks when no  *)
(* order is, and with one task otherwise.  The plan is chosen in Init; the *)
(* variables of the buffer that is not there stay as they are.             *)
(***************************************************************************)
EXTENDS DuckExecutor

CONSTANTS
  NumChunks,                               \* chunks of the result
  NumBatches, MaxPer, QueueCap, BufferCap, \* of BatchedStream
  MaxBytes, BufferSize                     \* of SimpleStream

ASSUME ResultAssumption ==
  /\ NumBatches \in Nat /\ MaxPer \in Nat
  /\ QueueCap \in Nat \ {0} /\ BufferCap \in Nat \ {0}
  /\ NumChunks \in Nat /\ MaxBytes \in Nat \ {0} /\ BufferSize \in Nat \ {0}

VARIABLES
  plan,                            \* "batched", "parallel" or "ordered"
  bad, delivered, blockedSinks,    \* of both buffers
  size, nextBatch, batch, minSeen, current, target, pos, minBatch, buffer,
  readQueue, completed, todo,      \* of BatchedStream
  bytes, nextChunk, held, buffered, count  \* of SimpleStream

ofBoth    == <<executor, client, bad, delivered, blockedSinks>>
ofBatched == <<size, nextBatch, batch, minSeen, current, target, pos, minBatch, buffer,
               readQueue, completed, todo>>
ofSimple  == <<bytes, nextChunk, held, buffered, count>>

vars == <<plan, ofBoth, ofBatched, ofSimple>>

Batched == INSTANCE BatchedStream
Simple  == INSTANCE SimpleStream

NoBatchedBuffer ==
  /\ size = <<>> /\ nextBatch = 0 /\ batch = <<>> /\ minSeen = <<>> /\ current = <<>>
  /\ target = <<>> /\ pos = <<>> /\ minBatch = 0 /\ buffer = <<>> /\ readQueue = <<>>
  /\ completed = {} /\ todo = {}

NoSimpleBuffer == bytes = <<>> /\ nextChunk = 0 /\ held = <<>> /\ buffered = <<>> /\ count = 0

\* GetResultCollector.
Init ==
  \/ plan = "batched"  /\ Batched!Init          /\ NoSimpleBuffer
  \/ plan = "parallel" /\ Simple!Init(NumTasks) /\ NoBatchedBuffer
  \/ plan = "ordered"  /\ Simple!Init(1)        /\ NoBatchedBuffer

IsBatched == plan = "batched"  /\ UNCHANGED <<plan, ofSimple>>
IsSimple  == plan # "batched" /\ UNCHANGED <<plan, ofBatched>>

TaskStep(t) ==
  \/ IsBatched /\ Batched!TaskStep(t)
  \/ IsSimple /\ Simple!TaskStep(t)

ClientWorks ==
  \/ IsBatched /\ Batched!ClientWorks
  \/ IsSimple /\ Simple!ClientWorks

Calls ==
  \/ IsBatched /\ Batched!Calls
  \/ IsSimple /\ Simple!Calls

\* The query is over: it stutters.
Over == Stopped /\ UNCHANGED vars

Next ==
  \/ \E t \in Tasks : TaskStep(t)
  \/ ClientWorks
  \/ Calls
  \/ Over

\* The threads run; nobody has to fetch.
Spec ==
  /\ Init /\ [][Next]_vars
  /\ \A t \in Tasks : WF_vars(TaskStep(t))
  /\ WF_vars(ClientWorks)

-----------------------------------------------------------------------------
(***************************************************************************)
(* Properties.                                                             *)
(***************************************************************************)

\* The assertions and internal exceptions of the two buffers hold: batches reach
\* the read queue whole and in order and no more chunks wait for them than the gap
\* between ShouldBlockBatch and Append lets through; a simple buffer that has
\* given out a chunk is still open.
BufferSound ==
  IF plan = "batched"
    THEN Batched!TypeOK /\ Batched!BatchesInOrder /\ Batched!WaitingBounded
    ELSE Simple!TypeOK /\ Simple!ChunkMeansOpen

\* A simple buffer holds less than streaming_buffer_size says before its last chunk,
\* chunks of any sizes, and its counter is what it holds, although Sink asks and
\* appends under one lock and Scan counts down under another.
MemoryBounded == plan # "batched" => Simple!MemoryBounded

\* No wake-up is lost between a sink that is refused, its Deschedule and the
\* client's UnblockSinks: a blocked task is known to the buffer.  And RescheduleTask,
\* which spins under the buffer's lock, spins for no task that will not be blocked.
BlockedIsKnown ==
  IF plan = "batched" THEN Batched!BlockedIsKnown ELSE Simple!BlockedIsKnown

\* When Fetch has returned null without an error, nothing is left behind: no
\* chunk, no blocked sink, no task (the assertions of Scan).
NothingLeft ==
  IF plan = "batched" THEN Batched!NothingLeft ELSE Simple!NothingLeft

\* Fetch delivers every chunk of the result once, in order unless the plan leaves
\* it open, and ends without an error only behind the last one.
Stream == INSTANCE ChunkStream WITH
  ordered <- plan # "parallel",
  whole   <- IF plan = "batched" THEN Batched!Whole ELSE [i \in 1..NumChunks |-> i],
  status  <- CASE cpc = "ended" /\ res = "abandoned" -> "dropped"
               [] cpc = "ended" /\ res # "abandoned" /\ success -> "complete"
               [] OTHER -> IF success THEN "open" ELSE "failed"

ImplementsChunkStream == Stream!Spec

\* A call of Fetch returns, and so does the release of an abandoned query, however
\* the tasks block.
FetchReturns == cpc \in {"check", "cancel"} ~> cpc = "idle" \/ Stopped

=============================================================================

# Cosmograph for DuckDB: verification project

The repository is a DuckDB extension that serves a graph to the browser. The SQL
table function `serve_graph(nodes, edges, click, config)` starts an HTTP server
inside the DuckDB process (the vendored cpp-httplib), prints a link with a fresh
token, and returns; the page behind the link fetches nodes and edges, which the
server streams from queries it runs on connections of their own; `stop_graph()`
stops the server. The program's own logic is `src/src/cosmograph_extension.cpp`
(754 lines) and the two scripts of the page (`src/frontend/main.js`, `worker.js`);
`httplib.h` and DuckDB are vendored, and are modelled as far as the extension's
behaviour rests on them.

All paths below are relative to the repository's root, written as in
`PROJECT.json` (`src/src/...` is `src/...` of the repository).

## 1. Inventory

### Server life cycle: `serve_graph`, `stop_graph`, process exit
*Code*: `ServerState` (cosmograph_extension.cpp:30-46), `ServeGraphFun` (500-669),
`StopGraphFun` (686-709).
*State*: the process-wide `g_state` (server object, its thread, the token, the
queries) and `g_server_mutex`.
*Operations*: refuse, create a server with its routes, try ports 8080 to 8090,
create the listener thread, stop (`Server::stop`, join, destroy), and the same from
the destructor of the static `g_state` when the process leaves `main`.
*Interaction*: calls the HTTP server; its handlers read `g_state.token` from the
pool's threads without the mutex.
*Hard*: two SQL connections at once; a stop that comes before the listener has
begun; the failure of `bind`, of `std::thread`, of `accept`; a join made with the
mutex held; the exit of the process with the server up.
*Correct when*: sessions exclude each other; a server object outlives every request
it accepted; data of a session goes only to its token; ports are given back; stop
returns.

### HTTP server: listener and keep-alive loop
*Code*: httplib.h, `listen_internal`, `stop`, `process_and_close_socket`,
`process_server_socket_core`, `keep_alive`.
*State*: `svr_sock_`, `is_running_`, `is_decommissioned`, the queue of jobs, one
thread per busy connection, the count of requests left on each connection.
*Operations*: bind, accept and enqueue, take a job, wait for a request (with a
time-out and a look at `svr_sock_`), answer, stream, close, stop, drain and join the pool.
*Hard*: two flags written by different threads; a socket closed by one thread and
used by another; all threads of the pool waiting on idle clients.
*Correct when*: stop ends every wait, accepted connections are closed in the end, no
descriptor is closed twice.

### Thread pool
*Code*: httplib.h:10088-10240, the methods of `ThreadPool` (1485).
*State*: `jobs_`, `idle_thread_count_`, `shutdown_`, the lists of base, dynamic and
finished threads; two mutexes and a condition variable.
*Operations*: constructor, `enqueue` (which may add a dynamic thread), `worker`,
`move_to_finished`, `cleanup_finished_threads`, `shutdown`.
*Interaction*: the listener's thread puts one job into it per connection.
*Hard*: the decision to grow rests on a counter; the notification is sent outside the
lock; a dynamic thread times out while a job arrives; `shutdown` while a thread retires.
*Correct when*: no job is left behind, no wake-up is lost, every thread is joined.

### HTTP routes and the token check
*Code*: cosmograph_extension.cpp:534-645: the pre-routing handler, the assets,
`/config`, the `/data/` routes, `/node_details`, `/stop`.
*State*: none of their own. *Hard*: handlers that belong to one session checked
against the token of another.

### Streamed data answers
*Code*: `HandleDataQueryBinary` (128-260), `HandleEdgeQueryBinary` (262-351),
`HandleDataQuery` (353-460), `write_content_without_length` (httplib.h:7502-7535).
*State*: per request: the DuckDB connection and streaming result owned by the
content provider's closure, the flag for the first chunk, the flags of the write loop.
*Operations*: look the columns up, send the query, answer with an error, start the
stream; per call of the provider: fetch a chunk and write it, or end the body.
*Hard*: a stop or a slow or departed client between any two steps; a write that
fails inside a call; the query failing while it runs; an exception that nobody
catches; a body whose length is announced nowhere.
*Correct when*: the client gets a beginning of the one body of the query, cut only
with a cause; the query is released in the end.

### DuckDB streaming result
*Code*: `stream_query_result.cpp`, `buffered_data/*.cpp`, the two buffered
collectors, and of `executor.cpp`, `pipeline_executor.cpp`, `pipeline.cpp` and
`task_scheduler.cpp` what a task with a blocked sink goes through.
*State*: where each task is, the scheduler's queue, `to_be_rescheduled_tasks`, the
buffer and its blocked sinks, the minimum batch.
*Operations*: per task: fetch from the source, push, block, be descheduled, retry,
finish, throw; per client: send, `Fetch` (check, unblock, run a task, scan), abandon.
*Hard*: a sink refused under one lock and descheduled later without it; a buffer
whose limit is looked at under one lock and used under another; batches that finish in
another order; a failure while chunks are still buffered.
*Correct when*: Fetch returns the chunks of the result once, in the order the plan
keeps; no blocked task is forgotten; Fetch returns.

### Query parameters, packing and colours
*Code*: `WrapQuery` (cosmograph_extension.cpp:74-91), the look-up and the bounds in both
handlers, `FastColorMap` (93-126), the records of 20 and 8 bytes, `EscapeJSON` (53-72).
*State*: none between requests. *Hard*: the look-up and the query are two
statements; bounds printed with six decimals and compared with `FLOAT` columns; casts that
one handler makes and the other does not, which round and may fail; NULLs under a
packed record; ids and category numbers cast to 32-bit floats; the palette's wrap-around.
*Correct when*: rows are those of the viewport, as far as rounding leaves it; both
handlers agree up to the casts; what the browser decodes is what was sent.

### Data worker (worker.js) and page (main.js)
*State*: the token of the URL, the loading text, the graph drawn, the tooltip; per
request the outstanding fetch.
*Operations*: fetch the configuration, nodes, edges; decode; post one message; draw;
click and answer.
*Hard*: answers out of order, errors taken for data, nodes and edges of two snapshots,
another session on the same port.
*Correct when*: what is drawn is of one session; the page stops loading; a tooltip
that waits gets its text.

### Outside
The DuckDB engine, the asset bundling, the CI and manual scripts, the rendering
library: see section 7 and the notes in `PROJECT.json`.

## 2. Modules

| Module | What it is |
| --- | --- |
| `HttplibServer` | the server object and its threads: state and one action per step, no specification of its own |
| `GraphServer` | EXTENDS it: `g_state`, the two SQL functions, exit, the routes; `Spec`, `FairSpec`, the properties |
| `GraphService` | abstract: what the two functions and the token promise, without threads, locks and sockets |
| `MCGraphServer` | the symmetry set for TLC |
| `ThreadPool` | the pool with its base and dynamic threads |
| `JobPool` | abstract: what the listener relies on of its pool |
| `StreamResponse` | one streamed request, from the handler to the close of its connection |
| `DuckExecutor` | tasks, scheduler queue, blocking, and the client's thread that sends, fetches and helps; no specification of its own |
| `BatchedStream`, `SimpleStream` | EXTEND it: the two buffers and their collectors |
| `ResultStream` | the choice between the plans; `Spec` and the properties |
| `ChunkStream` | abstract: what a streaming query promises to the one who fetches |
| `DataQuery` | look-up, bounds, WHERE clause and rows of the two handlers for nodes |
| `NodeRecords`, `EdgeRecords`, `EscapeJSON` | a body packed by the server, cut anywhere and decoded by the page; a text through JSON |
| `DataAnswer` | EXTENDS `DataQuery` and instances the three: one specification for the runs |
| `MCDataQuery`, `MCDataAnswer` | the tables of the runs |
| `GraphPage` | main.js, worker.js, and the sessions they talk to |
| `*Proofs` | the theorems about the module they are named after (section 5); `BatchedStreamProofs` has those about `ResultStream` that need the order of the batches |

How they compose:

- `GraphServer` implements `GraphService` (`ImplementsService`); `GraphPage` takes the
  server for what `GraphService` promises: one session at a time, a token for each.
- A connection of `StreamResponse` is one connection of `HttplibServer`
  (`RefinesConnection`, by `INSTANCE HttplibServer WITH ...`): what `HttplibServer` leaves open
  (`StreamDone` or `StreamCut`) `StreamResponse` decides.
- `HttplibServer` takes its pool for `PoolMax` threads that begin jobs in order;
  `ThreadPool` implements that (`ImplementsJobPool`).
- `StreamResponse` takes Fetch for a call that returns the chunks in order, or null;
  `ResultStream` implements that (`ImplementsChunkStream`), and shows where it is
  more: section 6, item 6.
- The bodies that `NodeRecords` and `EdgeRecords` cut behind every byte are the
  beginnings that `StreamResponse` allows.

### How state and actions correspond to the code

**HttplibServer.** A server object, its listening descriptor and its token are named
by the number of the session (the token is 128 random bits in the code; a session
number stands for "drawn anew"). `lpc` is the position of the thread of
`listen_internal`: `spawned` (the thread exists, `is_running_` is not yet set),
`loop`, `accept` (blocked), `drain` (in `task_queue->shutdown()`), `leave`, `done`.
`conn[k].st` is the position of connection k: `backlog` (in the kernel), `queued`
(a job of the pool), then a pool's thread has it: `enter` (the head of the keep-alive
loop, with `keep_alive`'s first `select_read`, which comes *before* its look at
`svr_sock_`), `poll`, `process`, `stream`, `close`. A failure of `accept` is three
steps, `AcceptFails`, `FailingReads` and `FailingCloses` (the look at `svr_sock_`, the
read of it that `close_socket` is given, the close), since a stop may come between any
two of them; the loop leaves the number in `svr_sock_`, as the code does. `lfd` is what
the listener last read from `svr_sock_`. Descriptors are named by sessions, so the
kernel's reuse of a number is not modelled: `doubleClose` records the close that could
hit it.

**GraphServer.** `pc[a]` is the position of each SQL client and of the thread that
leaves `main`. `Server::stop` is three steps (`StopReads`, `StopTakesSocket`,
`StopClosesSocket`): the read of `is_running_`, the exchange of `svr_sock_`, and the
close, with others' steps between; a connection may still be accepted after the
exchange. `StopJoins` waits for the thread with the mutex held. The
request kinds are `data`, `details` (which stands for every short route the token
guards) and `stop` (the unguarded ones). `served` records, for each answer with
data, the token presented and the session whose descriptor the connection came
through. It is a history variable.

**ThreadPool.** `st[t]` is where a thread is in `worker`, `list[t]` in which of the
pool's lists its `std::thread` is. A critical section of `mutex_` is one action; the
lock is held across a step only while the listener joins finished threads under it
(`Locked`). `Enter`, `Resume` and `WaitAgain` are the three ways through the wait;
`SpuriousWakeUp` and `TimeOut` may happen in any wait. A job runs until it ends;
what it does is `HttplibServer`'s matter.

**JobPool.** `queued` and `busy` are what `HttplibServer` has in its queue and with its
pool's threads; `begun` keeps a job from being begun twice. The listener creates the
pool before it accepts, so the abstract pool is `up` while the constructor runs.

**StreamResponse.** `pc` is the position of the pool's thread: `handle` (the route's
handler), `loop` (the head of `write_content_without_length`), `provide` (a call of the
provider), then the keep-alive loop. The look at `svr_sock_` and at the client and the
call of the provider are separate steps, so that a stop and the client's leaving fall
between them. A body is a sequence of tokens (chunk i with or without a leading comma,
the brackets); a call's writes succeed in full unless the client does not read,
and then stop after any of their tokens. A query is what it does: whether it is
empty, whether its columns can be looked up, whether sending it fails, its number of
chunks and the number it returns before it fails; that failure and the end look the same to the
provider, as they do in the code (`FetchNextInternal` returns null for both). `late`
counts the chunks fetched after the stop. It is a history variable.

**DuckExecutor.** `loc[t]` says who has task t (the scheduler's queue, a pool's thread,
the client, or nobody, since it is `blocked` or `gone`), `tpc[t]` where its code is, `cpc`
where the client is: in `ExecuteTask` (`get`, `run`, `look`, `ran`), in `CancelTasks`
(`cancel`, `draining`, `drain`), in `Fetch` (`check`, `unblock`, `waking`, `scan`), or between two
calls (`idle`). A round of `PROCESS_PARTIAL` costs one of `budget`; pool threads have
none to keep. That a task is refused under the buffer's lock and descheduled later
without it are two actions (`block`, then `Deschedules`), and `Reschedules` can only
take a task that is descheduled: where the code spins, the action is not enabled.

**BatchedStream, SimpleStream.** A chunk is a pair of a batch and a position, or a
number. In `SimpleStream` each chunk has its `bytes`, drawn at first, and `count` is
`buffered_count`, the atomic counter that a sink reads before it appends a chunk of
whatever size. In `BatchedStream` all chunks are of one size, in which the capacities count:
there too the code asks before it appends, so the bound of `WaitingBounded` is in chunks. Each critical section under `glock` is one
action, except `UnblockSinks`, which holds the lock while `cpc` is `waking` and waits there
for each task it wakes; `GlockFree` is in the guard of every other section. In
`SimpleStream` the collector's own lock, held from the question to the append,
is `SinkLockFree`. `bad` is the chunk at which an operator throws.

**ResultStream** takes `GetResultCollector`'s decision in `Init` (`plan`); the variables
of the buffer that is not there stay as they are.

**ChunkStream.** The chunks that were returned and a status; the next one returned is
the next of the whole result, or any other of it where the plan keeps no order.

**DataQuery.** `pc[h]` is how far each of the two handlers is with the one request:
`lookup`, `build`, `send`, `done`. A text stands for its kind (`WrapQuery` looks at its
first letters only). A table has its columns, which of them are `FLOAT` and not
`DOUBLE` (`floats`), and rows. Coordinates are integers in a unit finer than the sixth decimal, so that
`Rounded` does what `std::to_string` does to a bound; a `DOUBLE` is any of them, and a `FLOAT`
one of `Reals`, any set of them, as coarse at any place as one likes. `AsReal` is the cast: it
is made of the bounds where they meet a `FLOAT` column (`Compared`; DuckDB compares a `DECIMAL`
with a `FLOAT` as `FLOAT`s) and of the coordinates that the binary handler selects (`Selected`; the
JSON handler selects the row as it is). `casts` says of a row whether the binary handler's
casts take its id, size and coordinates; one that fails while the query runs is, in `Send`,
either an error or the end of an answer with status 200 and any part of the other rows
(`failed`, which no client sees). That `DOUBLE`s are exact leaves out their own rounding,
2^-53 of the number; columns of other types than these two are not modelled. `asked` and
`queried` are history.

**NodeRecords, EdgeRecords.** A word of the body says which field of which row it
holds; the connection may end behind any byte; the worker then does what worker.js
does with a buffer of that length (a `Float32Array` of a length that is not whole words
throws, half a record is dropped, half an edge is not). `FloatMax` and `Exact` are
the 2^24 from which on a 32-bit float is no counter and not every integer.

**EscapeJSON.** A text of character classes (quotation mark, backslash, control
characters, a byte that is negative as a `char`, others) is escaped character by character
and read by a JSON parser that stops at the first unescaped quotation mark.

**DataAnswer** chooses the `part` it runs in `Init`; the variables of the others do not change.

**GraphPage.** `request[a]` and `reply[a]` are the outstanding fetch of main.js, of
worker.js and of each click. The server makes an answer at any time (`Answer`), and
fixes its status, session and version of the database there; the browser uses it at any
later time. A body is what it decodes to: rows, rows with zero ids, nothing, garbage, an exception.

## 3. Runs

| Run | Question | Bounds, and why they are enough |
| --- | --- | --- |
| `life_cycle` | Do two SQL clients exclude each other, are sessions kept apart, ports given back, the token not raced, is `GraphService` implemented? | 2 clients, 3 calls (serve, stop, serve in any order and of either: a second session and a rival), 2 ports, 1 connection kept across the sessions; the clients are symmetric |
| `pool` | Is a server ever taken away under a request; is `Inv` the invariant it is taken for; when is a descriptor closed twice; does a stop return, also with a connection waiting behind a busy thread; is every accepted connection closed? | 2 connections for 1 thread, so that one waits in the queue while the other is served; 2 requests per connection, so that the count reaches 0; 1 call, the stop is that of the exit |
| `stream` | Is the body right, the cut explained, the process safe, the stop prompt, the query released, the connection one of HttplibServer's? | every route, query, kind of bounds; 0 to 3 chunks: none, the first (which is special), a second with a comma and one after it; 2 requests; a stop and a stalled or gone client at any step |
| `result` | Does Fetch deliver the result, in order, and return; is a task forgotten, or waited for in vain under the lock; do the buffers keep their limits? | all three plans; 2 tasks, 2 pool threads and the client, so that both tasks can run while the client fetches; 3 batches of up to 2 chunks and 3 chunks at most, so that a batch waits behind a lower one with one more to come; capacities of 1 (batched) and of 2 bytes for chunks of 1 or 2 (simple), so that both block and the last chunk may pass the limit; every chunk may be the one that throws; about 850 000 states |
| `threads` | Is the count of idle threads right, is a wake-up lost, is everything joined, is `JobPool` implemented, does every queued job begin, does shutdown return? | 2 base and 2 dynamic threads for 4 jobs: one of each kind can wait while the other runs, and the pool can be full; any thread may fail to be created |
| `data_answer` | Do the rows fit the viewport and the two handlers agree; does the browser read what was sent; do categories keep their colours? | the bounds 7 and 38 in units of 4, a tie among them, with `Reals` that are as fine as the units near the lower bound and 9 apart near the upper one: rows that a `FLOAT` bound lets in and a `DOUBLE` one does not, rows that the cast moves over the bound, rows that cannot be cast, NULLs, tables without a coordinate and none; every subset of the four parameters, one change of the table by any other; 5 rows of 5 categories against a palette of 3 and a float that counts to 3, so that both wrap; ids on both sides of `Exact`; texts of up to 3 characters |
| `page` | Is what is drawn of one session; are edges older than nodes; does the page stop loading and a tooltip get its text? | 3 sessions (the page's, one between, one after), 2 changes (one between nodes and edges, one more), 3 clicks, so that answers can come in each order |
| `stop_hangs`, `stop_page`, `port_fallback`, `already_running`, `json_bounds` | see section 6 | the smallest instance that shows the counterexample |

`PROJECT.json` names for each property a mutated definition (a dropped guard, a
forgotten close, an uncounted round, a lock not taken, a swapped bound) under which TLC
finds it violated. Deadlock is checked everywhere: the final states (process gone,
connection closed, query over, pool joined, both handlers done) have an explicit
stuttering action, and every other stop would be an error.

The bounds that cap something unbounded in the code are `MaxCalls` (SQL calls, with it
sessions), `MaxChunks`/`NumChunks`/`MaxPer` (the length of a result), `NumJobs`
(connections), `MaxChanges`/`MaxVersions` (changes by others), `MaxSessions`,
`MaxClicks`, and `MaxNodes`, `MaxEdges`, `MaxLength` (the inputs of the codecs). Everything
else is finite by the constants of the code, set small.

**Abstractions to keep in mind.** `HttplibServer` has its pool as `PoolMax` threads; how
many there are at a time is `ThreadPool`'s matter. A client sends one request at a time on
a connection. After an error (`Connection: close`) or a streamed body (which ends at
the close) it sends no more. Ranges, HEAD and TLS are left out. A step of the model
is at least one atomic operation of the code. Several operations are one step where no
other thread's step between them could change what follows; the comment at the action says
why when it is not obvious (`ListenStart`, `ListenLoop`, `StopCloses`).

## 4. Fairness

- `GraphServer!Fairness` is weak fairness of: the listener's thread (of `accept` only that
  it returns a waiting connection, and that it fails once its descriptor is shut down),
  a free pool thread's taking of a job, the server's side of each connection, an SQL
  call that has begun, the steps of stop, and the destructor's join. The operating
  system schedules threads, `select`, `recv` and `send` have time-outs (keep-alive 5 s,
  read and write 5 s by default), and queries end. Nothing is assumed of clients, of
  new calls, of other programs' ports, and no failure is assumed to happen. The liveness
  properties therefore hold with clients that never send, never read and never leave.
- `StreamResponse!FairSpec` is weak fairness of the pool's thread alone.
- `ResultStream!Spec` is weak fairness of each task's steps (the scheduler has threads,
  or the client works on the tasks) and of the client's thread inside a call. That
  anybody calls Fetch again is not assumed. `UnblockSinks` spins under its lock, which is
  harmless only as long as the thread that holds the task runs on: that is the fairness
  of the task.
- `ThreadPool!FairSpec` is weak fairness of the listener's thread inside a call
  (constructor, enqueue, shutdown) and of each thread's steps outside the wait. Waits
  need not time out or wake up for nothing, the listener need neither accept nor
  stop. Jobs end, which `AcceptedIsClosed` shows for connections.
- `GraphPage!FairSpec`: the server answers or the connection breaks, and the browser runs
  callbacks that are ready. Nobody needs to click or to touch the server.

The mutex is not assumed fair between two SQL calls: a call may starve behind others
(weak fairness of a step that is enabled again and again says nothing), and
no property claims it does not.

## 5. Theorems

All theorems hold for every value of the constants that the named ASSUMEs allow
(positive sizes, `PortMin <= PortMax`, `Base <= Max`, distinct names), and rest on nothing else.

`GraphServerProofs` proves that `Inv` is inductive and that the run's safety properties
follow. They are not inductive by themselves:

- *no server is destroyed under a request* (`HandlersOutlived`) rests on where the
  listener is: `DestroyServer` needs `lpc` in `none` or `done`, and the listener gets to `done`
  only by `PoolDrained`, with no job and no busy thread. It also needs the queue to hold
  exactly the connections that wait (`QueueOfPool`);
- *stop finds the socket valid* (`StopAssertion`) needs that only stop takes the socket
  away, that one actor stops at a time, and that a failing accept leaves the number
  (`SocketOfSession`, which also ties `lfd` and stop's local `sock` to the session);
- *ports are given back* needs to know when the descriptor is open
  (`DescriptorOfSession`) and that a server without a listener is being started, or is
  one whose thread could not be created (`SessionLife`);
- *sessions are kept apart* follows since the token is drawn only when there is no
  server, hence no connection in the pool.

From `Inv` also follow the two action properties: the token is never written while a
pool thread may read it (`TokenNotRaced`: an unlocked read in the code, but never a
race), and a descriptor is closed twice only after a failure of accept, by a later stop or
by the listener itself when a stop overtakes it.

It proves also that `GraphServer` implements `GraphService` (`ServiceImplemented`). The abstract
session is up from the creation of its thread to the destruction of its server; the map
needs that the server's number is the token issued last and not one whose
thread failed (`NumbersOfSessions`). Then each step of a call, of a stop, of the exit or
of a connection maps to one abstract step or to none.

`StreamResponseProofs` proves the inductive invariant of one streamed answer: the body is
a beginning of the one body of the query (`WritesPrefix`, `ChunkTokens` and `EndTokens`
are the lemmas: what a call writes is what comes next), the number of tokens follows
the chunks fetched as long as no write failed (`BodyFollowsRows`), the request is
counted only when the whole body was written (`CountedMeansWhole`), the result is held
exactly while its stream is open (`HeldMeansOpen`, hence no Fetch on a closed stream but
behind a failure). `ConnectionRefined` then maps each step to a step of one connection of
`HttplibServer` or to none.

`ThreadPoolProofs`: the inductive invariant says which list each thread's
`std::thread` is in at each place of the listener (`Kept`), that the pool grows only with
no idle thread and with room (`Growing`), and when nobody can wait any more
(`ShutdownSeen`). `IdleIsCounted` is about a cardinality; `OneMoves` is the lemma that says how
one thread's step changes it. `NoLostWakeUp` is its own strengthening: while a thread
sleeps, jobs do not outnumber the threads awake and the notification to come.

The same module proves that the pool implements `JobPool` (`PoolImplementsJobPool`). The queue is an interval of the jobs
accepted so far (`QueueInOrder`), a thread runs one job that is no longer queued
(`RunsOneJob`), and base threads leave only after the shutdown and with no job left
(`BaseStays`), which is why the abstract `Close` finds the pool empty.

`ResultStreamProofs`: for all three plans, where tasks are and that the queue holds
each once (`TasksPlaced`), and that a refused task is registered (`BatchedKnown`,
`SimpleKnown`), which makes the first half of `BlockedIsKnown` inductive: a sink registers before its task is
descheduled, and only the client takes an entry out, with the task it puts back. For the
simple buffers, the collector's lock lets one task between the look and the append
(`OneSink`), so only the last chunk passes the bound (`RoomKept`). That the counter is the bytes of the
chunks in the queue is said by the partial sums of their sizes (`Adds`, `Filled`): `ChunkFills` and
`ChunkLeaves` extend and shift them, and `SumsAreTotal` shows, by a least counterexample, that they
are the recursive function in `MemoryBounded`. Each chunk is in one place
(`ChunksInOnePlace`), and Fetch finds a result it can go on with (`EndKnown`).

`BatchedStreamProofs` adds the order of the batches to that invariant (`StreamInv`):

- What the tasks have appended can be told from their places: `pos` chunks of the batch
  a task is at, all of a batch that was handed out and is with no task any more
  (`Pushed`, `given`; `BatchPlaces` and `OneWorks` say that a batch is with one task and what
  a place in the code says of it).
- Each task carries its own `min_batch_index`, and they may be out of date. `LeastKnown` is what
  keeps them harmless: nobody, and not the buffer, has a value above the least
  registered batch, *somebody* has exactly that one, and a task past
  `UpdateMinBatchIndex` has handed its value on. Without the second part the invariant is not
  inductive for the end of the query: the last task must bring the minimum behind the
  last batch, or chunks would stay in their buffers.
- `ChunksInOrder`: what was delivered, with the read queue behind it, is `given` up to the
  buffer's minimum, one batch after the other; behind the minimum each batch waits in its own
  buffer. `UpdateMoves` is the lemma that the move of the completed batches
  keeps this equation, whatever is in them; `AppendPushes`, `FetchPushes` and `ReindexPushes` say what the
  other steps do to it.
- `RoomLeft`: the chunks that wait and the tasks let in to append one are at most
  `BufferCap + NumTasks - 2`. A task is let in only while fewer than `BufferCap` wait, and the one that
  holds the least batch is not among them (`OneStaysOut`); this is the bound in `WaitingBounded`.
- `BatchedOver` and `SimpleOver`: the client stops fetching only when the query has failed or every
  task is done.

- `CancelKnown`: a query that was cancelled has failed or was given up, and no Fetch gets as far as
  `UnblockSinks` any more; a task is dropped in its sleep by the cancellation only. With
  `BlockedPlaces` and `SinksPlaced` it gives the second half of `BlockedIsKnown`: every task for which
  `RescheduleTask` spins, under the buffer's lock, is blocked or in a pool thread that is
  about to deschedule it, which needs no lock of the buffer (the client, which runs tasks too, is
  never spinning for its own). It is also why the model may leave out the spin's exit for a
  cancelled query.

From it follow `BufferSound` (for every plan), `NothingLeft`, and that *every* plan implements
`ChunkStream` (`EveryPlanImplements`): a chunk that Scan takes is the next of the source
(`ReadIsNext`; all chunks differ, `ChunksDiffer`), and when Scan finds nothing, everything is
delivered (`AllFetched`). `FlattenSeq` is a recursive function in the library, so the
first lemmas derive its step (`FlatStep`) from its definition; what holds of all numbers of batches
is shown of a least counterexample (`HasLeast`), which takes no theorem with an operator for
a parameter.

`DataQueryProofs`: what each handler has prepared (`Prepared`), what its answer is made of
(`Answered`: casts of rows that the clause has let through, all of them unless a cast failed), and
what holds as long as the table has not changed since the
look-up (`Fresh`, for `HandlersAgree`); `RoundedNear` says that printing moves a bound by half
a unit at most. Of the cast the proofs use that there is a nearest `REAL` (`NearestReal`), that
a `REAL` stays what it is (`RealStays`) and that the order is kept (`RealsInOrder`); hence a
coordinate that has passed a bound, as `FLOAT` or `DOUBLE`, is not outside by more than printing
and casting make of it (`LowerBound`, `UpperBound`).

`DataAnswerProofs`: the round trips from the rows to the page, for rows and texts of any length.
For nodes, the words of the body are five of each packed row (`Packed`), `FastColorMap` gives
the n-th new category the number n - 1 until the floats end (`Numbered`, `FloatsLast`), and the page,
which counts the numbers it has met before, gives each its own number back
(`ColorIsNumber`). For edges, the k-th row with both ends has the k-th pair of words
(`EdgesPacked`, `RankGrows`). For texts, some function says where in the output the escape
of each byte ends (`WrittenAs`), the parser stands at such an end or one symbol behind it
(`ReadAs`), and no escape begins another (`LettersDiffer`), so that it reads the byte that was written.

`GraphPageProofs`: whatever decodes to rows was answered in the session of the page's
token (`RepliesOfToken`), no answer is of a version still to come (`NotAhead`), and the
edges asked for after the nodes are not older (`EdgesAfterNodes`).

**Model-checked only**: the eight liveness properties (fairness and `ENABLED` are beyond the proof
system). Every invariant and every action property that a passing run checks, and all
four refinements, are also proved. For the batched plan a larger instance was checked by
hand besides (3 tasks, 2 pool threads, 3 batches of at most one chunk: 7.4 million states, no
error).

## 6. What the code does otherwise than it says

1. **A stop can hang for ever** (`stop_hangs`). `Server::stop` does nothing but clear
   `is_decommissioned` while `is_running_` is false; the listener thread sets it, and `serve_graph` returns
   without waiting for that. A `stop_graph` in between joins a thread that will
   block in `accept` for good, with `g_server_mutex` held. The liveness that does hold is
   `StopSeenRunningReturns`.
2. **`/stop` does not stop** (`stop_page`), although README.md says so.
3. **Only the first busy port is passed over** (`port_fallback`): the failed bind
   decommissions the server object and every later bind is refused without being tried.
4. **"Server is already running" when nothing listens** (`already_running`): after the
   failure of `accept` or of the thread's creation.
5. **The JSON handler may drop the viewport** (`json_bounds`): it goes on when its
   look-up fails, and a table that is there by the time of its query is answered whole.

The models show more that has no run of its own, since no document of the repository
promises otherwise in terms of one state, or since a property says it the other way round:

6. *A Fetch after a failure may end the process.* The batched buffer's `Fetch` hands out a chunk
   although a task has failed in the same call; the next `Fetch` throws, from a
   provider that runs outside httplib's `try`. `TerminatedOnlyByFailure` says that this is the
   only way; `SimpleFetchNeverThrows` that the simple buffers are free of it.
7. *A failed query and a stopped server look like success.* Both give the client status 200 and a
   body it cannot tell from a complete one. What holds is `BodyIsPrefix` and `CutHasCause`.
8. *The buffers may exceed `streaming_buffer_size`*, "the maximum memory to buffer"
   (settings.hpp:1502). A simple buffer is asked whether it is full before a chunk is
   appended, whose size is not looked at (simple_buffered_data.cpp:22, 114), so that it may pass the
   limit by less than that one chunk: `MemoryBounded` says this, and not that the limit is kept. In the
   batched buffer several tasks are let in before one of them has appended, and a
   batch that becomes the minimum moves whole; `BufferSound` bounds how far it goes.
9. *A dynamic thread that cannot be created ends the process.* The constructor of the
   pool takes care of that failure (httplib.h:10108-10110), `enqueue` (10137) does not. `AllJoined` and
   `EveryJobBegins` exempt the exception that leaves it.
10. *Names and queries are told apart by six letters.* A table named `select...` is taken
    for a query, and `WITH` before a line break for a name; both end in status 500.
11. *Smaller ones*: `test_binary2.js:4` reads a count in front of the records that the server does not
    send; the page reports an error of main.js's own request by its status, while the worker
    decodes the text of a failed answer as nodes (main.js:24, worker.js:33); a
    tooltip shows the answer that arrived last, not that of the last click (main.js:85), and
    `WaitingHasRequest` and `TooltipFills` do not say whose it is; nobody listens to an error of the worker
    itself, so the page loads for ever when its script does not (main.js:32; `LoadingEnds` exempts it).
12. *Only the binary handler casts.* `CAST(id AS UINTEGER)` and the casts of x, y and size to `REAL`
    (cosmograph_extension.cpp:158-162) fail for text ids, like those of run_server.sql:8, and for negative ones:
    the JSON answer has status 200 there, the binary one 500, or 200 and a body that ends early (item
    7). `HandlersAgree` claims the same status only where every row can be cast, and
    `NothingMissing` speaks of queries that did not fail.
13. *The edge of the viewport is not exact.* Bounds are printed with six decimals; a `FLOAT` column
    (README.md:49-50) is compared with the bound as a `FLOAT`, and a `DOUBLE` is sent as a
    `REAL`, from about 16 on rounded by more than half of a sixth decimal. `BinaryInBounds`
    allows a row that is outside by that much (`Below`, `Above`) and no other.

## 7. Not modelled, and what is left

- *The DuckDB engine*: parser, planner, storage, scheduler proper, memory. By far the most lines
  of the repository, vendored, with tests of its own. The models cover what the extension's
  behaviour rests on: the life of a streaming result, from the tasks to `Fetch` and `Close`.
  Inside that, pipelines before the last one, sources that block, and the
  transaction of the query are left out.
- *httplib's* parsing, ranges, compression, limits, TLS, client and WebSocket parts: never
  reached, or without state of the extension.
- *Arithmetic without state*: the scaling of positions and sizes in worker.js, NaN and infinity
  in JSON numbers, the random bits of the token.
- *NULL ids*: `HandleDataQueryBinary` reads them without their validity; DuckDB leaves open what
  an invalid entry holds, so there is nothing to state.
- *Asset bundling, build, CI, manual scripts*: no state at run time. *The rendering library* is
  not part of the repository.

Left for later: larger instances of `result` with three tasks in every plan, and the liveness
properties for every size of the constants.

----------------------------- MODULE DuckExecutor -----------------------------
(***************************************************************************)
(* The executor of one streaming query of the vendored DuckDB, as far as   *)
(* its result rests on it: the tasks of the result's pipeline, the queue   *)
(* of the scheduler, the pool's threads, the tasks that a full buffer has  *)
(* blocked (to_be_rescheduled_tasks), and the thread of the HTTP server    *)
(* that sends the query, fetches its chunks and works on tasks itself      *)
(* meanwhile.                                                              *)
(*                                                                         *)
(* The module has no specification of its own: BatchedStream and           *)
(* SimpleStream add the two buffers between the tasks and Fetch, and       *)
(* ResultStream the choice between them.                                   *)
(*                                                                         *)
(* Pipelines before the last one are not modelled (they have no sink that  *)
(* blocks on Fetch), nor are sources that block.                           *)
(***************************************************************************)
EXTENDS Naturals, Sequences, FiniteSets

CONSTANTS
  NumTasks,       \* tasks of the pipeline: Pipeline::LaunchScanTasks
  Workers,        \* threads of the scheduler's pool
  PartialChunks   \* rounds of one PROCESS_PARTIAL (PARTIAL_CHUNK_COUNT, 50)

ASSUME ExecutorAssumption ==
  NumTasks \in Nat \ {0} /\ Workers \in Nat /\ PartialChunks \in Nat \ {0}

Tasks == 1..NumTasks

VARIABLES
  loc,        \* where a task is: in the queue, run by a "pool" thread, held by
              \* the "client" (Executor::task), "blocked", or "gone"
  tpc,        \* where its code is, or "done" or "threw" when it has ended
  queue,      \* the tasks of this query that the scheduler has queued
  failed,     \* a task has thrown: error_manager.HasError() and interrupted
  cancelled,  \* Executor::cancelled
  cpc,        \* where the client's thread is
  res,        \* what Executor::ExecuteTask returned to it last
  budget,     \* rounds left of its PROCESS_PARTIAL
  sending,    \* it is in SendQuery still, not in Fetch
  success     \* BaseQueryResult::success

executor == <<loc, tpc, queue, failed, cancelled>>
client   == <<cpc, res, budget, sending, success>>

Locations == {"queue", "pool", "client", "blocked", "gone"}

\* The heads of the loop of PipelineExecutor::Execute: for a new chunk, for the
\* chunk the sink refused (remaining_sink_chunk), and when the source is done.
Heads == {"head", "retry", "last"}

\* The pipeline is launched as n of the tasks; of the others there is nothing.
ExecutorInit(n) ==
  /\ loc = [t \in Tasks |-> IF t <= n THEN "queue" ELSE "gone"]
  /\ tpc = [t \in Tasks |-> IF t <= n THEN "start" ELSE "done"]
  /\ queue = [i \in 1..n |-> i]
  /\ failed = FALSE
  /\ cancelled = FALSE
  /\ cpc = "get"
  /\ res = "none"
  /\ budget = 0
  /\ sending = TRUE
  /\ success = TRUE

-----------------------------------------------------------------------------
(***************************************************************************)
(* A task.                                                                 *)
(***************************************************************************)

\* The task's code runs: on a pool's thread, or on the client's.
Runs(t) == loc[t] = "pool" \/ (loc[t] = "client" /\ cpc \in {"run", "drain"})

\* The client's round is one of PROCESS_PARTIAL; the pool's threads and
\* WorkOnTasks use PROCESS_ALL.
Partial(t) == loc[t] = "client" /\ cpc = "run"

At(t, p) == Runs(t) /\ tpc[t] = p

Goes(t, p) == tpc' = [tpc EXCEPT ![t] = p]

\* A pool's thread dequeues the next task of the query.
PoolTakes(t) ==
  /\ queue # <<>> /\ t = Head(queue)
  /\ Cardinality({u \in Tasks : loc[u] = "pool"}) < Workers
  /\ queue' = Tail(queue)
  /\ loc' = [loc EXCEPT ![t] = "pool"]
  /\ UNCHANGED <<tpc, failed, cancelled, client>>

\* The head of the loop: a round of the budget is used.
RoundStarts(t) ==
  /\ Partial(t) => budget > 0
  /\ budget' = IF Partial(t) THEN budget - 1 ELSE budget
  /\ UNCHANGED <<cpc, res, sending, success>>

\* PushError: the exception is kept and context.interrupted set; the task ends.
Throws(t) ==
  /\ failed' = TRUE
  /\ loc' = [loc EXCEPT ![t] = "gone"]
  /\ Goes(t, "threw")
  /\ UNCHANGED <<queue, cancelled>>

\* At the head of its loop a task sees context.interrupted.
Interrupted(t) ==
  /\ tpc[t] \in Heads /\ Runs(t)
  /\ failed
  /\ RoundStarts(t)
  /\ Throws(t)

\* The source has no more, and the sink's Combine is over.
Finishes(t) ==
  /\ loc' = [loc EXCEPT ![t] = "gone"]
  /\ Goes(t, "done")
  /\ UNCHANGED <<queue, failed, cancelled, client>>

\* The sink returned BLOCKED: the thread that ran the task calls Deschedule,
\* after the sink has published its callback.  Once the query is cancelled the
\* last reference to the task is dropped.
Deschedules(t) ==
  /\ At(t, "desched")
  /\ loc' = [loc EXCEPT ![t] = IF cancelled THEN "gone" ELSE "blocked"]
  /\ Goes(t, "retry")
  /\ UNCHANGED <<queue, failed, cancelled, client>>

\* RescheduleTask, by the callback of a blocked sink: it spins until the task
\* is in to_be_rescheduled_tasks, since Deschedule may be still to come.  That it
\* returns when the query is cancelled is left out: see BlockedIsKnown.
Reschedules(t) ==
  /\ loc[t] = "blocked"
  /\ loc' = [loc EXCEPT ![t] = "queue"]
  /\ queue' = Append(queue, t)
  /\ UNCHANGED <<tpc, failed, cancelled>>

\* What RescheduleTask spins for comes: the task is blocked, or a pool's thread is
\* about to deschedule it, for which it needs no lock that UnblockSinks holds.
Comes(t) == loc[t] = "blocked" \/ (loc[t] = "pool" /\ tpc[t] = "desched")

-----------------------------------------------------------------------------
(***************************************************************************)
(* The client: Executor::ExecuteTask and CancelTasks.                      *)
(***************************************************************************)

Completed == \A t \in Tasks : tpc[t] = "done"

Returns(r) == cpc' = "ran" /\ res' = r

\* The client has a task left from the last PROCESS_PARTIAL, or dequeues one.
ClientTakes ==
  /\ cpc = "get" /\ ~Completed
  /\ \/ /\ \E t \in Tasks : loc[t] = "client"
        /\ UNCHANGED <<loc, queue>>
     \/ /\ \A t \in Tasks : loc[t] # "client"
        /\ queue # <<>>
        /\ loc' = [loc EXCEPT ![Head(queue)] = "client"]
        /\ queue' = Tail(queue)
  /\ cpc' = "run"
  /\ budget' = PartialChunks
  /\ UNCHANGED <<tpc, failed, cancelled, res, sending, success>>

ClientFindsNone ==
  /\ cpc = "get" /\ ~Completed
  /\ queue = <<>> /\ \A t \in Tasks : loc[t] # "client"
  /\ cpc' = "look"
  /\ UNCHANGED <<executor, res, budget, sending, success>>

ClientFinished ==
  /\ cpc = "get" /\ Completed
  /\ Returns("finished")
  /\ UNCHANGED <<executor, budget, sending, success>>

\* There was no task: an error, nothing blocked (tasks are with the pool), or
\* tasks that wait for the client to fetch (RESULT_READY).
ClientLooks ==
  /\ cpc = "look"
  /\ \/ /\ failed
        /\ cpc' = "cancel" /\ res' = "error"
     \/ /\ ~failed
        /\ Returns(IF \E t \in Tasks : loc[t] = "blocked" THEN "ready" ELSE "no_tasks")
  /\ UNCHANGED <<executor, budget, sending, success>>

\* The task it ran has ended, is blocked, or has used up the budget.
ClientRan ==
  /\ cpc = "run"
  /\ \A t \in Tasks : loc[t] = "client" => tpc[t] \in Heads /\ budget = 0
  /\ IF failed THEN cpc' = "cancel" /\ res' = "error" ELSE Returns("not_ready")
  /\ UNCHANGED <<executor, budget, sending, success>>

\* Mutant of CancelTasks: the client's own task (Executor::task) is not reset.
CancelTasksKeepsOwn ==
  /\ cpc = "cancel"
  /\ cancelled' = TRUE
  /\ loc' = [t \in Tasks |-> IF loc[t] = "blocked" THEN "gone" ELSE loc[t]]
  /\ cpc' = "draining"
  /\ UNCHANGED <<tpc, queue, failed, res, budget, sending, success>>

\* CancelTasks: no task is rescheduled or descheduled from here on, and the
\* blocked ones and the client's own are destroyed.
CancelTasks ==
  /\ cpc = "cancel"
  /\ cancelled' = TRUE
  /\ loc' = [t \in Tasks |-> IF loc[t] \in {"blocked", "client"} THEN "gone" ELSE loc[t]]
  /\ cpc' = "draining"
  /\ UNCHANGED <<tpc, queue, failed, res, budget, sending, success>>

\* WorkOnTasks, while executor_tasks > 0.
DrainTakes ==
  /\ cpc = "draining" /\ queue # <<>>
  /\ loc' = [loc EXCEPT ![Head(queue)] = "client"]
  /\ queue' = Tail(queue)
  /\ cpc' = "drain"
  /\ UNCHANGED <<tpc, failed, cancelled, res, budget, sending, success>>

DrainRan ==
  /\ cpc = "drain"
  /\ \A t \in Tasks : loc[t] # "client"
  /\ cpc' = "draining"
  /\ UNCHANGED <<executor, res, budget, sending, success>>

\* No task is left.  EndQueryInternal follows, and what asked for it goes on:
\* ExecuteTask with the error, FetchNextInternal after an exception, or the
\* destructor of the connection.
Drained ==
  /\ cpc = "draining"
  /\ \A t \in Tasks : loc[t] = "gone"
  /\ cpc' = IF res = "error" THEN "ran" ELSE "ended"
  /\ success' = (success /\ res # "error" /\ res # "interrupt")
  /\ UNCHANGED <<executor, res, budget, sending>>

\* The loop of PendingQueryResult::ExecuteInternal, in SendQuery.  With the
\* collector blocked, WaitForTask would return at once.
SendLoops ==
  /\ cpc = "ran" /\ sending
  /\ cpc' = CASE res \in {"not_ready", "no_tasks"} -> "get"
              [] res \in {"ready", "finished"}     -> "idle"
              [] res = "error"                     -> "refused"
  /\ sending' = (res \in {"not_ready", "no_tasks"})
  /\ UNCHANGED <<executor, res, budget, success>>

\* The provider, and with it the connection, is destroyed between two calls.
Abandons ==
  /\ cpc = "idle"
  /\ cpc' = "cancel" /\ res' = "abandoned"
  /\ UNCHANGED <<executor, budget, sending, success>>

\* Fetch on a result that has an error throws (CheckExecutableInternal).
FetchThrows ==
  /\ cpc = "idle" /\ ~success
  /\ cpc' = "thrown"
  /\ UNCHANGED <<executor, res, budget, sending, success>>

ClientStep ==
  \/ ClientTakes \/ ClientFindsNone \/ ClientFinished \/ ClientLooks \/ ClientRan
  \/ CancelTasks \/ DrainTakes \/ DrainRan \/ Drained \/ SendLoops

Stopped == cpc \in {"ended", "refused", "thrown"}

ExecutorTypeOK ==
  /\ loc \in [Tasks -> Locations]
  /\ queue \in Seq(Tasks)
  /\ failed \in BOOLEAN /\ cancelled \in BOOLEAN
  /\ sending \in BOOLEAN /\ success \in BOOLEAN
  /\ budget \in 0..PartialChunks
  /\ res \in {"none", "not_ready", "no_tasks", "ready", "finished", "error",
              "abandoned", "interrupt"}

=============================================================================

----------------------------- MODULE ThreadPool ------------------------------
(***************************************************************************)
(* The thread pool of the HTTP server (httplib::ThreadPool): base threads, *)
(* dynamic threads that are added while none is idle and leave when they   *)
(* have waited too long, and the listener's thread, which creates the pool,*)
(* puts one job into it per connection, shuts it down and joins all.       *)
(*                                                                         *)
(* A job is a connection (HttplibServer says what it does); here it runs   *)
(* until it ends.  mutex_ is held across a step boundary only while the    *)
(* listener joins finished threads (Locked); every other critical section  *)
(* is one action.                                                          *)
(***************************************************************************)
EXTENDS Naturals, Sequences, FiniteSets

CONSTANTS
  Base,        \* base_thread_count_
  Max,         \* max_thread_count_
  NumJobs,     \* bound: connections that are accepted
  SpawnsFail   \* whether the system may refuse a thread

ASSUME PoolAssumption ==
  /\ Base \in Nat \ {0} /\ Max \in Nat /\ Base <= Max
  /\ NumJobs \in Nat
  /\ SpawnsFail \in BOOLEAN

Jobs    == 1..NumJobs
NoJob   == 0
\* One thread more than Max, so that Max is the code's doing.
Threads == 1..Max + 1
BaseThreads   == 1..Base

VARIABLES
  lpc,        \* where the listener's thread is
  shutdown,   \* shutdown_
  idle,       \* idle_thread_count_
  jobs,       \* jobs_
  list,       \* where the std::thread of a thread is kept
  st,         \* where a thread is in worker(), or "none"
  job,        \* the job it runs
  nextJob     \* the connection that is accepted next

vars == <<lpc, shutdown, idle, jobs, list, st, job, nextJob>>

Locked == lpc \in {"clean", "lastclean"}

\* Threads that are in the condition variable's queue, and threads that have left
\* it and will look at the jobs again.
Waiting == {t \in Threads : st[t] = "wait"}
Awake   == {t \in Threads : st[t] \in {"start", "woken", "timedout"}}
Alive   == {t \in Threads : st[t] \notin {"none", "gone"}}

In(l) == {t \in Threads : list[t] = l}

Init ==
  /\ lpc = "create"
  /\ shutdown = FALSE
  /\ idle = 0
  /\ jobs = <<>>
  /\ list = [t \in Threads |-> "none"]
  /\ st = [t \in Threads |-> "none"]
  /\ job = [t \in Threads |-> NoJob]
  /\ nextJob = 1

(***************************************************************************)
(* The listener: constructor.                                              *)
(***************************************************************************)

Spawn(t, l) ==
  /\ list[t] = "none"
  /\ list' = [list EXCEPT ![t] = l]
  /\ st' = [st EXCEPT ![t] = "start"]

CreateBase ==
  /\ lpc = "create"
  /\ \E t \in Threads : t = Cardinality(In("threads")) + 1 /\ Spawn(t, "threads")
  /\ lpc' = IF Cardinality(In("threads")) + 1 = Base THEN "open" ELSE "create"
  /\ UNCHANGED <<shutdown, idle, jobs, job, nextJob>>

\* std::thread's constructor throws: those created are told to leave.
CreateFails ==
  /\ SpawnsFail
  /\ lpc = "create"
  /\ shutdown' = TRUE
  /\ lpc' = "abort"
  /\ UNCHANGED <<idle, jobs, list, st, job, nextJob>>

\* Mutant of NotifyAll: notify_one.
NotifiesOne ==
  IF Waiting = {} THEN st' = st ELSE st' = [st EXCEPT ![CHOOSE t \in Waiting : TRUE] = "woken"]

NotifyAll == st' = [t \in Threads |-> IF st[t] = "wait" THEN "woken" ELSE st[t]]

\* A thread that is joined has ended, and its std::thread is not joinable any more.
Joined(l) == \A t \in In(l) : st[t] = "gone"
Forget(l) == /\ list' = [t \in Threads |-> IF list[t] = l THEN "none" ELSE list[t]]
             /\ st'   = [t \in Threads |-> IF list[t] = l THEN "none" ELSE st[t]]

AbortNotify ==
  /\ lpc = "abort"
  /\ NotifyAll
  /\ lpc' = "abortjoin"
  /\ UNCHANGED <<shutdown, idle, jobs, list, job, nextJob>>

AbortJoin ==
  /\ lpc = "abortjoin"
  /\ Joined("threads")
  /\ Forget("threads")
  /\ lpc' = "threw"
  /\ UNCHANGED <<shutdown, idle, jobs, job, nextJob>>

(***************************************************************************)
(* The listener: enqueue.                                                  *)
(***************************************************************************)

\* cleanup_finished_threads waits for these under the lock.
CleanupReady == Joined("finished")

HasRoom == Cardinality(In("threads") \cup In("dynamic")) < Max

Enqueue ==
  /\ lpc = "open"
  /\ nextJob \in Jobs
  /\ jobs' = Append(jobs, nextJob)
  /\ nextJob' = nextJob + 1
  /\ lpc' = IF idle = 0 /\ HasRoom THEN "clean" ELSE "notify"
  /\ UNCHANGED <<shutdown, idle, list, st, job>>

Grow ==
  /\ lpc = "clean"
  /\ CleanupReady
  /\ LET new == CHOOSE t \in Threads \ BaseThreads : list[t] \in {"none", "finished"}
     IN /\ list' = [t \in Threads |-> IF t = new THEN "dynamic"
                                      ELSE IF list[t] = "finished" THEN "none" ELSE list[t]]
        /\ st' = [t \in Threads |-> IF t = new THEN "start"
                                    ELSE IF list[t] = "finished" THEN "none" ELSE st[t]]
  /\ lpc' = "notify"
  /\ UNCHANGED <<shutdown, idle, jobs, job, nextJob>>

\* Nothing catches what std::thread's constructor throws here: it leaves enqueue,
\* listen_internal with its queue, and the listener's thread.
GrowFails ==
  /\ SpawnsFail
  /\ lpc = "clean"
  /\ CleanupReady
  /\ Forget("finished")
  /\ lpc' = "escaped"
  /\ UNCHANGED <<shutdown, idle, jobs, job, nextJob>>

\* Mutant of Notify: only the first job in the queue is worth a notification.
NotifiesFirst ==
  /\ lpc = "notify"
  /\ IF Len(jobs) = 1 /\ Waiting # {}
     THEN \E t \in Waiting : st' = [st EXCEPT ![t] = "woken"]
     ELSE st' = st
  /\ lpc' = "open"
  /\ UNCHANGED <<shutdown, idle, jobs, list, job, nextJob>>

\* notify_one
Notify ==
  /\ lpc = "notify"
  /\ \/ \E t \in Waiting : st' = [st EXCEPT ![t] = "woken"]
     \/ Waiting = {} /\ st' = st
  /\ lpc' = "open"
  /\ UNCHANGED <<shutdown, idle, jobs, list, job, nextJob>>

(***************************************************************************)
(* The listener: shutdown.                                                 *)
(***************************************************************************)

Shutdown ==
  /\ lpc = "open"
  /\ shutdown' = TRUE
  /\ lpc' = "notifyall"
  /\ UNCHANGED <<idle, jobs, list, st, job, nextJob>>

ShutdownNotify ==
  /\ lpc = "notifyall"
  /\ NotifyAll
  /\ lpc' = "joinbase"
  /\ UNCHANGED <<shutdown, idle, jobs, list, job, nextJob>>

\* Mutant of JoinBase: the dynamic threads are not joined.
JoinsBaseOnly ==
  /\ lpc = "joinbase"
  /\ Joined("threads")
  /\ Forget("threads")
  /\ lpc' = "lastclean"
  /\ UNCHANGED <<shutdown, idle, jobs, job, nextJob>>

JoinBase ==
  /\ lpc = "joinbase"
  /\ Joined("threads")
  /\ Forget("threads")
  /\ lpc' = "grab"
  /\ UNCHANGED <<shutdown, idle, jobs, job, nextJob>>

GrabDynamic ==
  /\ lpc = "grab"
  /\ list' = [t \in Threads |-> IF list[t] = "dynamic" THEN "remaining" ELSE list[t]]
  /\ lpc' = "joindynamic"
  /\ UNCHANGED <<shutdown, idle, jobs, st, job, nextJob>>

JoinDynamic ==
  /\ lpc = "joindynamic"
  /\ Joined("remaining")
  /\ Forget("remaining")
  /\ lpc' = "lastclean"
  /\ UNCHANGED <<shutdown, idle, jobs, job, nextJob>>

JoinFinished ==
  /\ lpc = "lastclean"
  /\ CleanupReady
  /\ Forget("finished")
  /\ lpc' = "done"
  /\ UNCHANGED <<shutdown, idle, jobs, job, nextJob>>

(***************************************************************************)
(* A thread: worker.                                                       *)
(***************************************************************************)

HasWork == jobs # <<>> \/ shutdown

\* Mutant of Take: a pool that shuts down leaves its jobs.
DropsJobs(t) ==
  IF shutdown
  THEN /\ st' = [st EXCEPT ![t] = "leaving"]
       /\ UNCHANGED <<jobs, job>>
  ELSE /\ st' = [st EXCEPT ![t] = "run"]
       /\ job' = [job EXCEPT ![t] = Head(jobs)]
       /\ jobs' = Tail(jobs)

\* Out of the wait with work: a job, or the end once the jobs are done.
Take(t) ==
  IF shutdown /\ jobs = <<>>
  THEN /\ st' = [st EXCEPT ![t] = "leaving"]
       /\ UNCHANGED <<jobs, job>>
  ELSE /\ st' = [st EXCEPT ![t] = "run"]
       /\ job' = [job EXCEPT ![t] = Head(jobs)]
       /\ jobs' = Tail(jobs)

\* Mutant of Enter: wait first, look at the jobs afterwards.
EntersBlind(t) ==
  /\ st[t] = "start"
  /\ ~Locked
  /\ st' = [st EXCEPT ![t] = "wait"]
  /\ idle' = idle + 1
  /\ UNCHANGED <<lpc, shutdown, jobs, list, job, nextJob>>

\* The head of the loop: counted idle, then into the wait, or through it at once.
Enter(t) ==
  /\ st[t] = "start"
  /\ ~Locked
  /\ IF HasWork
     THEN Take(t) /\ idle' = idle
     ELSE /\ st' = [st EXCEPT ![t] = "wait"]
          /\ idle' = idle + 1
          /\ UNCHANGED <<jobs, job>>
  /\ UNCHANGED <<lpc, shutdown, list, nextJob>>

\* A wait may end without a notification, and one of a dynamic thread after
\* CPPHTTPLIB_THREAD_POOL_IDLE_TIMEOUT.
SpuriousWakeUp(t) ==
  /\ st[t] = "wait"
  /\ st' = [st EXCEPT ![t] = "woken"]
  /\ UNCHANGED <<lpc, shutdown, idle, jobs, list, job, nextJob>>

TimeOut(t) ==
  /\ st[t] = "wait"
  /\ t \notin BaseThreads
  /\ st' = [st EXCEPT ![t] = "timedout"]
  /\ UNCHANGED <<lpc, shutdown, idle, jobs, list, job, nextJob>>

\* Awake with the lock: look at the jobs again.
Resume(t) ==
  /\ st[t] \in {"woken", "timedout"}
  /\ ~Locked
  /\ HasWork
  /\ Take(t)
  /\ idle' = idle - 1
  /\ UNCHANGED <<lpc, shutdown, list, nextJob>>

WaitAgain(t) ==
  /\ st[t] = "woken"
  /\ ~Locked
  /\ ~HasWork
  /\ st' = [st EXCEPT ![t] = "wait"]
  /\ UNCHANGED <<lpc, shutdown, idle, jobs, list, job, nextJob>>

\* Mutant of Retire: the thread that leaves stays counted as idle.
RetiresCounted(t) ==
  /\ st[t] = "timedout"
  /\ ~Locked
  /\ ~HasWork
  /\ st' = [st EXCEPT ![t] = "leaving"]
  /\ list' = [list EXCEPT ![t] = IF @ = "dynamic" THEN "finished" ELSE @]
  /\ UNCHANGED <<lpc, shutdown, idle, jobs, job, nextJob>>

\* Timed out without work: move_to_finished, which finds nothing when shutdown has
\* taken the list away.
Retire(t) ==
  /\ st[t] = "timedout"
  /\ ~Locked
  /\ ~HasWork
  /\ st' = [st EXCEPT ![t] = "leaving"]
  /\ idle' = idle - 1
  /\ list' = [list EXCEPT ![t] = IF @ = "dynamic" THEN "finished" ELSE @]
  /\ UNCHANGED <<lpc, shutdown, jobs, job, nextJob>>

RunEnds(t) ==
  /\ st[t] = "run"
  /\ st' = [st EXCEPT ![t] = "start"]
  /\ job' = [job EXCEPT ![t] = NoJob]
  /\ UNCHANGED <<lpc, shutdown, idle, jobs, list, nextJob>>

Exit(t) ==
  /\ st[t] = "leaving"
  /\ st' = [st EXCEPT ![t] = "gone"]
  /\ UNCHANGED <<lpc, shutdown, idle, jobs, list, job, nextJob>>

Stopped == lpc \in {"threw", "escaped", "done"}

\* After "escaped" the process has ended (std::terminate).
Ended ==
  /\ Stopped
  /\ UNCHANGED vars

Listener ==
  \/ CreateBase \/ CreateFails \/ AbortNotify \/ AbortJoin
  \/ Enqueue \/ Grow \/ GrowFails \/ Notify
  \/ Shutdown \/ ShutdownNotify \/ JoinBase \/ GrabDynamic \/ JoinDynamic \/ JoinFinished

Worker(t) ==
  lpc # "escaped" /\
  ( \/ Enter(t) \/ SpuriousWakeUp(t) \/ TimeOut(t) \/ Resume(t)
    \/ WaitAgain(t) \/ Retire(t) \/ RunEnds(t) \/ Exit(t) )

Next == Listener \/ (\E t \in Threads : Worker(t)) \/ Ended

Spec == Init /\ [][Next]_vars

\* What runs goes on: the code between two waits, joins whose threads have ended,
\* and jobs, which end since a connection does (HttplibServer: AcceptedIsClosed).
\* The listener need not accept, stop or fail, and waits need not time out.
FairSpec ==
  /\ Spec
  /\ WF_vars(CreateBase \/ AbortNotify \/ AbortJoin)
  /\ WF_vars(Grow \/ Notify)
  /\ WF_vars(ShutdownNotify \/ JoinBase \/ GrabDynamic \/ JoinDynamic \/ JoinFinished)
  /\ \A t \in Threads :
       WF_vars(Enter(t) \/ Resume(t) \/ WaitAgain(t) \/ Retire(t) \/ RunEnds(t) \/ Exit(t))

(***************************************************************************)
(* Properties.                                                             *)
(***************************************************************************)

TypeOK ==
  /\ lpc \in {"create", "abort", "abortjoin", "threw", "open", "clean", "notify", "escaped",
              "notifyall", "joinbase", "grab", "joindynamic", "lastclean", "done"}
  /\ shutdown \in BOOLEAN
  /\ idle \in Nat
  /\ jobs \in Seq(Jobs)
  /\ list \in [Threads -> {"none", "threads", "dynamic", "finished", "remaining"}]
  /\ st \in [Threads -> {"none", "start", "wait", "woken", "timedout", "run", "leaving", "gone"}]
  /\ job \in [Threads -> Jobs \cup {NoJob}]
  /\ nextJob \in 1..NumJobs + 1

\* idle_thread_count_, a size_t that many places count up and down, is the number
\* of threads inside the wait: the decision to grow rests on it.
IdleIsCounted ==
  idle = Cardinality({t \in Threads : st[t] \in {"wait", "woken", "timedout"}})

\* No wake-up is lost between push, notify_one outside the lock, time-outs and
\* threads that take a job without having waited: while a thread sleeps, every
\* queued job has a thread that is awake, or a notification still to come.
NoLostWakeUp ==
  Waiting # {} =>
    Len(jobs) <= Cardinality(Awake) + (IF lpc \in {"clean", "notify"} THEN 1 ELSE 0)
      \/ lpc \in {"abort", "notifyall"}

\* When shutdown returns, or the constructor throws, every thread has been joined:
\* none is left that uses the pool, and no std::thread is destroyed joinable.
AllJoined ==
  lpc \in {"threw", "done"} => \A t \in Threads : list[t] = "none" /\ st[t] = "none"

\* The listener gets what HttplibServer assumes of its pool.
Pool == INSTANCE JobPool WITH
  queued <- jobs,
  busy   <- {job[t] : t \in {u \in Threads : job[u] # NoJob}},
  begun  <- {j \in Jobs : j < nextJob} \ {jobs[i] : i \in 1..Len(jobs)},
  up     <- lpc \notin {"threw", "done"}

ImplementsJobPool == Pool!Spec

\* A queued job is begun, also one for which the pool did not grow because a
\* thread counted idle had been woken for an earlier job already.
EveryJobBegins ==
  \A j \in Jobs :
    (\E i \in 1..Len(jobs) : jobs[i] = j) ~>
      (\A i \in 1..Len(jobs) : jobs[i] # j) \/ lpc = "escaped"

\* shutdown returns, and so does a constructor that fails.
ShutdownReturns == shutdown ~> lpc \in {"threw", "done"}
=============================================================================

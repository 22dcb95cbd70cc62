-------------------------- MODULE ThreadPoolProofs ---------------------------
(***************************************************************************)
(* The safety properties of ThreadPool, for any number of base threads, of *)
(* threads at most, and of jobs, whether or not the system refuses threads.*)
(*                                                                         *)
(* The argument.  Kept says which lists can hold a thread at which place   *)
(* of the listener, and that growing always finds a thread that is free    *)
(* (FreeThread): while the pool grows it holds fewer than Max threads.     *)
(* The counter and the wake-ups are then kept step by step: every action   *)
(* of a thread moves one thread, and OneMoves says what that does to the   *)
(* numbers of those inside the wait and of those awake.                    *)
(***************************************************************************)
EXTENDS ThreadPool, FiniteSetTheorems, TLAPS

States == {"none", "start", "wait", "woken", "timedout", "run", "leaving", "gone"}
Lists  == {"none", "threads", "dynamic", "finished", "remaining"}

Creating == {"create", "abort", "abortjoin", "threw"}
Opened   == {"open", "clean", "notify"}
Closing  == {"notifyall", "joinbase", "grab", "joindynamic", "lastclean", "done"}

\* The threads that idle_thread_count_ counts.
InWait == {t \in Threads : st[t] \in {"wait", "woken", "timedout"}}

\* Where std::threads are kept, place by place of the listener.
Kept ==
  /\ \A t \in Threads : list[t] = "none" <=> st[t] = "none"
  /\ \A t \in Threads : list[t] = "finished" => st[t] \in {"leaving", "gone"}
  /\ lpc \in Creating => \A t \in Threads : list[t] \in {"none", "threads"}
  /\ lpc = "create" => \E k \in 0..Base - 1 : In("threads") = 1..k
  /\ lpc \in Opened => /\ \A t \in Threads : list[t] # "remaining"
                       /\ In("threads") = BaseThreads
  /\ lpc \in {"grab", "joindynamic", "lastclean", "done"} => \A t \in Threads : list[t] # "threads"
  /\ lpc \in {"joindynamic", "lastclean", "done"} => \A t \in Threads : list[t] # "dynamic"
  /\ lpc \in {"notifyall", "joinbase", "grab", "lastclean", "done"} => \A t \in Threads : list[t] # "remaining"
  /\ lpc \in {"threw", "done"} => \A t \in Threads : list[t] = "none"

\* Growing was decided with no thread counted and with room.
Growing == lpc = "clean" => idle = 0 /\ HasRoom

\* Once all have been notified after a shutdown, no thread waits again.
ShutdownSeen ==
  /\ shutdown <=> lpc \in {"abort", "abortjoin", "threw"} \cup Closing
  /\ lpc \in {"abortjoin", "threw"} \cup (Closing \ {"notifyall"}) => Waiting = {}

IInv ==
  /\ TypeOK
  /\ Kept
  /\ Growing
  /\ ShutdownSeen
  /\ IdleIsCounted
  /\ NoLostWakeUp

(***************************************************************************)
(* Counting threads.                                                       *)
(***************************************************************************)

LEMMA ThreadsFinite ==
  /\ IsFiniteSet(Threads) /\ Cardinality(Threads) = Max + 1
  /\ BaseThreads \subseteq Threads
  <1>1. Max \in Nat /\ Base \in Nat /\ Base <= Max
    BY PoolAssumption
  <1> QED BY <1>1, FS_Interval DEF Threads, BaseThreads

LEMMA SubsetsFinite ==
  ASSUME NEW S \in SUBSET Threads
  PROVE  IsFiniteSet(S) /\ Cardinality(S) \in Nat
  BY ThreadsFinite, FS_Subset, FS_CardinalityType

LEMMA CountAdds ==
  ASSUME NEW S \in SUBSET Threads, NEW t \in Threads
  PROVE  Cardinality(S \cup {t}) = IF t \in S THEN Cardinality(S) ELSE Cardinality(S) + 1
  BY SubsetsFinite, FS_AddElement

LEMMA CountRemoves ==
  ASSUME NEW S \in SUBSET Threads, NEW t \in Threads
  PROVE  Cardinality(S \ {t}) = IF t \in S THEN Cardinality(S) - 1 ELSE Cardinality(S)
  BY SubsetsFinite, FS_RemoveElement

\* One thread goes to another state: who is inside the wait, asleep and awake.
LEMMA OneMoves ==
  ASSUME TypeOK, NEW t \in Threads, NEW s \in States, st' = [st EXCEPT ![t] = s]
  PROVE  /\ st' \in [Threads -> States]
         /\ \A u \in Threads : st'[u] = IF u = t THEN s ELSE st[u]
         /\ InWait'  = IF s \in {"wait", "woken", "timedout"} THEN InWait \cup {t} ELSE InWait \ {t}
         /\ Awake'   = IF s \in {"start", "woken", "timedout"} THEN Awake \cup {t} ELSE Awake \ {t}
         /\ Waiting' = IF s = "wait" THEN Waiting \cup {t} ELSE Waiting \ {t}
  <1>1. st' \in [Threads -> States] /\ \A u \in Threads : st'[u] = IF u = t THEN s ELSE st[u]
    BY DEF TypeOK, States
  <1>2. InWait'  = IF s \in {"wait", "woken", "timedout"} THEN InWait \cup {t} ELSE InWait \ {t}
    BY <1>1 DEF InWait
  <1>3. Awake'   = IF s \in {"start", "woken", "timedout"} THEN Awake \cup {t} ELSE Awake \ {t}
    BY <1>1 DEF Awake
  <1>4. Waiting' = IF s = "wait" THEN Waiting \cup {t} ELSE Waiting \ {t}
    BY <1>1 DEF Waiting
  <1> QED BY <1>1, <1>2, <1>3, <1>4

\* Nobody moves into, out of or within the wait when threads are joined.
LEMMA JoinMovesNobody ==
  ASSUME TypeOK, NEW l \in Lists \ {"none"}, Joined(l), Forget(l)
  PROVE  /\ st' \in [Threads -> States] /\ list' \in [Threads -> Lists]
         /\ \A u \in Threads : st'[u] = IF list[u] = l THEN "none" ELSE st[u]
         /\ \A u \in Threads : list'[u] = IF list[u] = l THEN "none" ELSE list[u]
         /\ InWait' = InWait /\ Awake' = Awake /\ Waiting' = Waiting
  <1>1. /\ st' \in [Threads -> States] /\ list' \in [Threads -> Lists]
        /\ \A u \in Threads : st'[u] = IF list[u] = l THEN "none" ELSE st[u]
        /\ \A u \in Threads : list'[u] = IF list[u] = l THEN "none" ELSE list[u]
    BY DEF TypeOK, Forget, States, Lists
  <1>2. \A u \in Threads : list[u] = l => st[u] = "gone"
    BY DEF Joined, In
  <1>3. InWait' = InWait /\ Awake' = Awake /\ Waiting' = Waiting
    BY <1>1, <1>2 DEF InWait, Awake, Waiting
  <1> QED BY <1>1, <1>3

\* With fewer than Max threads kept, one that is not a base thread is free.
LEMMA FreeThread ==
  ASSUME IInv, lpc = "clean"
  PROVE  \E t \in Threads \ BaseThreads : list[t] \in {"none", "finished"}
  <1> SUFFICES ASSUME \A t \in Threads \ BaseThreads : list[t] \notin {"none", "finished"}
               PROVE  FALSE
    OBVIOUS
  <1>1. \A t \in Threads : list[t] \in {"threads", "dynamic"}
    <2>1. \A t \in BaseThreads : list[t] = "threads"
      BY ThreadsFinite DEF IInv, Kept, Opened, In
    <2> QED BY <2>1 DEF IInv, TypeOK, Kept, Opened
  <1>2. In("threads") \cup In("dynamic") = Threads
    BY <1>1 DEF In
  <1>3. Max \in Nat
    BY PoolAssumption
  <1> QED BY <1>2, <1>3, ThreadsFinite DEF IInv, Growing, HasRoom

LEMMA InitInv == Init => IInv
  <1> SUFFICES ASSUME Init PROVE IInv OBVIOUS
  <1>1. TypeOK
    <2>1. jobs \in Seq(Jobs)
      BY DEF Init
    <2>2. nextJob \in 1..NumJobs + 1 /\ idle \in Nat
      BY PoolAssumption DEF Init
    <2> QED BY <2>1, <2>2 DEF Init, TypeOK
  <1>2. Kept
    <2>1. In("threads") = 1..0
      BY DEF Init, In
    <2>2. 0 \in 0..Base - 1
      BY PoolAssumption
    <2> QED BY <2>1, <2>2 DEF Init, Kept, Opened
  <1>3. InWait = {} /\ Waiting = {}
    BY DEF Init, InWait, Waiting
  <1>4. Growing /\ ShutdownSeen /\ NoLostWakeUp
    BY <1>3 DEF Init, Growing, ShutdownSeen, NoLostWakeUp, Closing
  <1>5. IdleIsCounted
    BY <1>3, FS_EmptySet DEF Init, IdleIsCounted, InWait
  <1> QED BY <1>1, <1>2, <1>4, <1>5 DEF IInv

(***************************************************************************)
(* The steps of a thread.                                                  *)
(***************************************************************************)

\* Where std::threads are kept does not depend on what a thread with a place does,
\* unless it ends; the one that has retired is on its way out.
LEMMA KeptByThread ==
  ASSUME IInv, NEW t \in Threads, NEW s \in States \ {"none"}, st[t] # "none",
         st' = [st EXCEPT ![t] = s],
         \/ list' = list
         \/ ~Locked /\ list' = [list EXCEPT ![t] = IF @ = "dynamic" THEN "finished" ELSE @],
         lpc' = lpc, shutdown' = shutdown,
         st[t] \in {"leaving", "gone"} => s = "gone",
         list'[t] = "finished" => s \in {"leaving", "gone"}
  PROVE  Kept' /\ list' \in [Threads -> Lists]
  <1>1. /\ \A u \in Threads : st'[u] = IF u = t THEN s ELSE st[u]
        /\ list' \in [Threads -> Lists]
        /\ \A u \in Threads : \/ list'[u] = list[u]
                              \/ u = t /\ ~Locked /\ list[u] = "dynamic" /\ list'[u] = "finished"
    BY DEF IInv, TypeOK, Lists, States
  <1>2. In("threads")' = In("threads")
    BY <1>1 DEF In
  <1>3. /\ \A u \in Threads : list'[u] = "none" <=> st'[u] = "none"
        /\ \A u \in Threads : list'[u] = "finished" => st'[u] \in {"leaving", "gone"}
    BY <1>1 DEF IInv, Kept
  <1>4. /\ lpc \in Creating => \A u \in Threads : list'[u] \in {"none", "threads"}
        /\ lpc \in Opened => \A u \in Threads : list'[u] # "remaining"
        /\ lpc \in {"grab", "joindynamic", "lastclean", "done"} => \A u \in Threads : list'[u] # "threads"
        /\ lpc \in {"joindynamic", "lastclean", "done"} => \A u \in Threads : list'[u] # "dynamic"
        /\ lpc \in {"notifyall", "joinbase", "grab", "lastclean", "done"} => \A u \in Threads : list'[u] # "remaining"
        /\ lpc \in {"threw", "done"} => \A u \in Threads : list'[u] = "none"
    BY <1>1 DEF IInv, Kept, Creating
  <1> QED BY <1>1, <1>2, <1>3, <1>4 DEF IInv, Kept

\* Awake, with a job or on the way out: Take, which both Enter and Resume do.
LEMMA TakeTakes ==
  ASSUME IInv, NEW t \in Threads, HasWork, Take(t)
  PROVE  \E s \in {"run", "leaving"} :
           /\ st' = [st EXCEPT ![t] = s]
           /\ jobs' \in Seq(Jobs) /\ job' \in [Threads -> Jobs \cup {NoJob}]
           /\ Len(jobs') \in Nat /\ Len(jobs) \in Nat
           /\ s = "run" => Len(jobs') = Len(jobs) - 1
           /\ s = "leaving" => shutdown /\ Len(jobs') = 0
  <1>1. jobs \in Seq(Jobs) /\ job \in [Threads -> Jobs \cup {NoJob}]
    BY DEF IInv, TypeOK
  <1>2. CASE shutdown /\ jobs = <<>>
    <2>1. st' = [st EXCEPT ![t] = "leaving"] /\ jobs' = jobs /\ job' = job
      BY <1>2 DEF Take
    <2>2. Len(jobs) = 0
      BY <1>2
    <2> QED BY <1>1, <1>2, <2>1, <2>2
  <1>3. CASE ~(shutdown /\ jobs = <<>>)
    <2>1. /\ st' = [st EXCEPT ![t] = "run"] /\ job' = [job EXCEPT ![t] = Head(jobs)]
          /\ jobs' = Tail(jobs)
      BY <1>3 DEF Take
    <2>2. jobs # <<>>
      BY <1>3 DEF HasWork
    <2>3. Head(jobs) \in Jobs /\ Tail(jobs) \in Seq(Jobs) /\ Len(Tail(jobs)) = Len(jobs) - 1
      BY <1>1, <2>2
    <2>4. job' \in [Threads -> Jobs \cup {NoJob}]
      BY <1>1, <2>1, <2>3
    <2> QED BY <1>1, <2>1, <2>3, <2>4
  <1> QED BY <1>2, <1>3

LEMMA WorkerStep ==
  ASSUME IInv, NEW t \in Threads, Worker(t)
  PROVE  IInv'
  <1>0. /\ lpc' = lpc /\ shutdown' = shutdown /\ nextJob' = nextJob
        /\ idle \in Nat /\ jobs \in Seq(Jobs) /\ Len(jobs) \in Nat
        /\ list \in [Threads -> Lists] /\ st[t] \in States /\ job \in [Threads -> Jobs \cup {NoJob}]
    BY DEF Worker, Enter, SpuriousWakeUp, TimeOut, Resume, WaitAgain, Retire, RunEnds, Exit,
       IInv, TypeOK, Lists, States
  <1>1. /\ InWait \in SUBSET Threads /\ Awake \in SUBSET Threads /\ Waiting \in SUBSET Threads
        /\ idle = Cardinality(InWait)
        /\ Cardinality(Awake) \in Nat
    BY SubsetsFinite DEF InWait, Awake, Waiting, IInv, IdleIsCounted
  <1>2. PICK s \in States \ {"none"} : st' = [st EXCEPT ![t] = s]
    BY TakeTakes DEF Worker, Enter, SpuriousWakeUp, TimeOut, Resume, WaitAgain, Retire, RunEnds, Exit,
       States
  <1>3. /\ st' \in [Threads -> States]
        /\ InWait'  = IF s \in {"wait", "woken", "timedout"} THEN InWait \cup {t} ELSE InWait \ {t}
        /\ Awake'   = IF s \in {"start", "woken", "timedout"} THEN Awake \cup {t} ELSE Awake \ {t}
        /\ Waiting' = IF s = "wait" THEN Waiting \cup {t} ELSE Waiting \ {t}
        /\ st'[t] = s
    BY <1>2, OneMoves DEF IInv
  <1>4. /\ Cardinality(InWait')  = IF s \in {"wait", "woken", "timedout"}
                                   THEN IF t \in InWait THEN idle ELSE idle + 1
                                   ELSE IF t \in InWait THEN idle - 1 ELSE idle
        /\ Cardinality(Awake') = IF s \in {"start", "woken", "timedout"}
                                 THEN IF t \in Awake THEN Cardinality(Awake) ELSE Cardinality(Awake) + 1
                                 ELSE IF t \in Awake THEN Cardinality(Awake) - 1 ELSE Cardinality(Awake)
        /\ t \in InWait <=> st[t] \in {"wait", "woken", "timedout"}
        /\ t \in Awake <=> st[t] \in {"start", "woken", "timedout"}
        /\ t \in Waiting <=> st[t] = "wait"
        /\ t \in InWait => idle > 0
    <2>1. t \in InWait => idle > 0
      <3>1. t \in InWait => Cardinality(InWait \ {t}) \in Nat /\ Cardinality(InWait \ {t}) = idle - 1
        BY <1>1, CountRemoves, SubsetsFinite
      <3> QED BY <1>0, <3>1
    <2>2. /\ t \in InWait <=> st[t] \in {"wait", "woken", "timedout"}
          /\ t \in Awake <=> st[t] \in {"start", "woken", "timedout"}
          /\ t \in Waiting <=> st[t] = "wait"
      BY DEF InWait, Awake, Waiting
    <2>3. Cardinality(InWait')  = IF s \in {"wait", "woken", "timedout"}
                                   THEN IF t \in InWait THEN idle ELSE idle + 1
                                   ELSE IF t \in InWait THEN idle - 1 ELSE idle
      BY <1>1, <1>3, CountAdds, CountRemoves
    <2>4. Cardinality(Awake') = IF s \in {"start", "woken", "timedout"}
                                 THEN IF t \in Awake THEN Cardinality(Awake) ELSE Cardinality(Awake) + 1
                                 ELSE IF t \in Awake THEN Cardinality(Awake) - 1 ELSE Cardinality(Awake)
      BY <1>1, <1>3, CountAdds, CountRemoves
    <2> QED BY <2>1, <2>2, <2>3, <2>4
  \* What each action says of the thread, the counter and the jobs.
  <1> DEFINE Sleeps  == /\ st[t] \in {"start", "woken"} /\ s = "wait" /\ ~Locked /\ ~HasWork
                        /\ idle' = IF st[t] = "start" THEN idle + 1 ELSE idle
                        /\ UNCHANGED <<jobs, job, list>>
             Wakes   == /\ st[t] = "wait" /\ s \in {"woken", "timedout"}
                        /\ UNCHANGED <<idle, jobs, job, list>>
             Takes   == /\ st[t] \in {"start", "woken", "timedout"} /\ s \in {"run", "leaving"}
                        /\ ~Locked /\ UNCHANGED list
                        /\ idle' = IF st[t] = "start" THEN idle ELSE idle - 1
                        /\ jobs' \in Seq(Jobs) /\ job' \in [Threads -> Jobs \cup {NoJob}]
                        /\ Len(jobs') \in Nat
                        /\ Len(jobs') = Len(jobs) - 1 \/ Len(jobs') = 0
             Retires == /\ st[t] = "timedout" /\ s = "leaving" /\ ~Locked /\ ~HasWork
                        /\ idle' = idle - 1 /\ UNCHANGED <<jobs, job>>
                        /\ list' = [list EXCEPT ![t] = IF @ = "dynamic" THEN "finished" ELSE @]
             Goes    == /\ \/ st[t] = "run" /\ s = "start"
                           \/ st[t] = "leaving" /\ s = "gone"
                        /\ UNCHANGED <<idle, jobs, list>>
                        /\ job' \in [Threads -> Jobs \cup {NoJob}]
  <1>5. Sleeps \/ Wakes \/ Takes \/ Retires \/ Goes
    <2>1. CASE Enter(t) /\ ~HasWork
      BY <1>2, <1>3, <2>1, OneMoves DEF Enter, IInv, States
    <2>2. CASE Enter(t) /\ HasWork
      <3>1. st[t] = "start" /\ ~Locked /\ Take(t) /\ idle' = idle /\ list' = list
        BY <2>2 DEF Enter
      <3>2. Takes
        BY <1>0, <1>3, <2>2, <3>1, TakeTakes, OneMoves DEF IInv, States
      <3> QED BY <3>2
    <2>3. CASE SpuriousWakeUp(t) \/ TimeOut(t)
      BY <1>3, <2>3, OneMoves DEF SpuriousWakeUp, TimeOut, IInv, States
    <2>4. CASE Resume(t)
      <3>1. st[t] \in {"woken", "timedout"} /\ ~Locked /\ HasWork /\ Take(t) /\ idle' = idle - 1
            /\ list' = list
        BY <2>4 DEF Resume
      <3>2. Takes
        BY <1>0, <1>3, <3>1, TakeTakes, OneMoves DEF IInv, States
      <3> QED BY <3>2
    <2>5. CASE WaitAgain(t)
      BY <1>3, <2>5, OneMoves DEF WaitAgain, IInv, States
    <2>6. CASE Retire(t)
      BY <1>3, <2>6, OneMoves DEF Retire, IInv, States
    <2>7. CASE RunEnds(t) \/ Exit(t)
      <3>1. job' \in [Threads -> Jobs \cup {NoJob}]
        BY <1>0, <2>7 DEF RunEnds, Exit
      <3> QED BY <1>3, <2>7, <3>1, OneMoves DEF RunEnds, Exit, IInv, States
    <2> QED BY <2>1, <2>2, <2>3, <2>4, <2>5, <2>6, <2>7 DEF Worker
  <1>6. HasWork <=> (Len(jobs) # 0 \/ shutdown)
    BY <1>0 DEF HasWork
  <1>7. Kept' /\ list' \in [Threads -> Lists]
    <2>1. list[t] = "finished" => st[t] \in {"leaving", "gone"}
      BY DEF IInv, Kept
    <2>2. list'[t] = "finished" => s \in {"leaving", "gone"}
      BY <1>0, <1>5, <2>1
    <2>3. /\ \/ list' = list
             \/ ~Locked /\ list' = [list EXCEPT ![t] = IF @ = "dynamic" THEN "finished" ELSE @]
          /\ st[t] # "none" /\ (st[t] \in {"leaving", "gone"} => s = "gone")
      BY <1>5
    <2> QED BY <1>0, <1>2, <2>2, <2>3, KeptByThread
  <1>8. IdleIsCounted' /\ idle' \in Nat
    <2>1. idle' = Cardinality(InWait')
      BY <1>0, <1>4, <1>5
    <2>2. idle' \in Nat
      BY <1>0, <1>4, <1>5
    <2> QED BY <2>1, <2>2 DEF IdleIsCounted, InWait
  <1>9. jobs' \in Seq(Jobs) /\ job' \in [Threads -> Jobs \cup {NoJob}]
    BY <1>0, <1>5
  <1>10. TypeOK'
    BY <1>0, <1>3, <1>7, <1>8, <1>9 DEF IInv, TypeOK, States, Lists
  <1>11. Growing'
    <2>1. CASE lpc = "clean"
      <3>1. idle' = idle /\ list' = list
        BY <1>5, <2>1 DEF Locked
      <3> QED BY <1>0, <3>1 DEF IInv, Growing, HasRoom, In
    <2>2. CASE lpc # "clean"
      BY <1>0, <2>2 DEF Growing
    <2> QED BY <2>1, <2>2
  <1>12. ShutdownSeen'
    <2>1. shutdown /\ Waiting = {} => Waiting' = {}
      BY <1>3, <1>4, <1>5, <1>6
    <2>2. lpc \in {"abortjoin", "threw"} \cup (Closing \ {"notifyall"}) => shutdown /\ Waiting = {}
      BY DEF IInv, ShutdownSeen, Closing
    <2> QED BY <1>0, <2>1, <2>2 DEF IInv, ShutdownSeen
  <1>13. NoLostWakeUp'
    <2> DEFINE slack == IF lpc \in {"clean", "notify"} THEN 1 ELSE 0
    <2>1. SUFFICES ASSUME Waiting' # {}, lpc \notin {"abort", "notifyall"}
                   PROVE  Len(jobs') <= Cardinality(Awake') + slack
      BY <1>0 DEF NoLostWakeUp
    <2>2. CASE Sleeps \/ Retires
      <3>1. Len(jobs') = 0
        BY <1>0, <1>6, <2>2
      <3>2. Cardinality(Awake') \in Nat
        BY SubsetsFinite DEF Awake
      <3> QED BY <3>1, <3>2
    <2>3. CASE Wakes \/ Takes \/ Goes
      <3>1. Waiting # {}
        BY <1>3, <1>4, <2>1, <2>3
      <3>2. Len(jobs) <= Cardinality(Awake) + slack
        BY <2>1, <3>1 DEF IInv, NoLostWakeUp
      <3>3. Cardinality(Awake') \in Nat
        BY SubsetsFinite DEF Awake
      <3> QED BY <1>0, <1>1, <1>4, <2>3, <3>2, <3>3
    <2> QED BY <1>5, <2>2, <2>3
  <1> QED BY <1>7, <1>8, <1>10, <1>11, <1>12, <1>13 DEF IInv

(***************************************************************************)
(* The steps of the listener.                                              *)
(***************************************************************************)

\* A base thread is created.
LEMMA CreateBaseStep ==
  ASSUME IInv, CreateBase
  PROVE  IInv'
  <1>1. PICK k \in 0..Base - 1 : In("threads") = 1..k
    BY DEF IInv, Kept, CreateBase
  <1>2. k \in Nat /\ Base \in Nat /\ Max \in Nat /\ Base <= Max
    BY PoolAssumption
  <1>3. Cardinality(In("threads")) = k
    BY <1>1, <1>2, FS_Interval
  <1> DEFINE t == k + 1
  <1>4. /\ t \in Threads /\ Spawn(t, "threads")
        /\ lpc' = IF t = Base THEN "open" ELSE "create"
        /\ UNCHANGED <<shutdown, idle, jobs, job, nextJob>>
    BY <1>2, <1>3 DEF CreateBase
  <1> HIDE DEF t
  <1>5. /\ list' = [list EXCEPT ![t] = "threads"] /\ st' = [st EXCEPT ![t] = "start"]
        /\ list[t] = "none" /\ lpc = "create" /\ st[t] = "none"
    BY <1>4 DEF Spawn, CreateBase, IInv, Kept
  <1>6. /\ st' \in [Threads -> States]
        /\ \A u \in Threads : st'[u] = IF u = t THEN "start" ELSE st[u]
        /\ InWait' = InWait \ {t} /\ Awake' = Awake \cup {t} /\ Waiting' = Waiting \ {t}
    BY <1>4, <1>5, OneMoves DEF IInv, States
  <1>7. /\ list' \in [Threads -> Lists]
        /\ \A u \in Threads : list'[u] = IF u = t THEN "threads" ELSE list[u]
    BY <1>4, <1>5 DEF IInv, TypeOK, Lists
  <1>8. InWait' = InWait
    BY <1>5, <1>6 DEF InWait
  <1>9. TypeOK'
    BY <1>4, <1>6, <1>7 DEF IInv, TypeOK, States, Lists
  <1>10. Kept'
    <2>1. In("threads")' = 1..t
      <3>1. In("threads")' = In("threads") \cup {t}
        BY <1>4, <1>7 DEF In
      <3>2. t = k + 1
        BY DEF t
      <3>3. (1..k) \cup {t} = 1..t
        BY <1>2, <3>2
      <3> QED BY <1>1, <3>1, <3>3
    <2>2. lpc' = "create" => t \in 0..Base - 1
      BY <1>2, <1>4 DEF t
    <2>3. lpc' = "open" => In("threads")' = BaseThreads
      BY <1>4, <2>1 DEF BaseThreads
    <2>4. \A u \in Threads : list'[u] \in {"none", "threads"} /\ (list'[u] = "none" <=> st'[u] = "none")
      BY <1>5, <1>6, <1>7 DEF IInv, Kept, Creating
    <2>5. lpc' \in {"open", "create"}
      BY <1>4
    <2> QED BY <2>1, <2>2, <2>3, <2>4, <2>5 DEF Kept, Opened
  <1>11. Growing' /\ ShutdownSeen'
    BY <1>4, <1>5 DEF IInv, Growing, ShutdownSeen, Closing
  <1>12. IdleIsCounted'
    BY <1>4, <1>8 DEF IInv, IdleIsCounted, InWait
  <1>13. NoLostWakeUp'
    <2>1. Cardinality(Awake) \in Nat /\ Cardinality(Awake') \in Nat
          /\ Cardinality(Awake) <= Cardinality(Awake')
      <3>1. Awake \in SUBSET Threads
        BY DEF Awake
      <3> QED BY <1>4, <1>6, <3>1, CountAdds, SubsetsFinite
    <2>2. Len(jobs) \in Nat
      BY DEF IInv, TypeOK
    <2> QED BY <1>4, <1>5, <1>6, <2>1, <2>2 DEF IInv, NoLostWakeUp
  <1> QED BY <1>9, <1>10, <1>11, <1>12, <1>13 DEF IInv

\* Places change, and jobs are queued, but no thread moves.
LEMMA PlacesOnly ==
  ASSUME IInv, CreateFails \/ Enqueue \/ Shutdown
  PROVE  IInv'
  <1>1. UNCHANGED <<idle, list, st, job>>
    BY DEF CreateFails, Enqueue, Shutdown
  <1>2. InWait' = InWait /\ Awake' = Awake /\ Waiting' = Waiting /\ \A l \in Lists : In(l)' = In(l)
    BY <1>1 DEF InWait, Awake, Waiting, In
  <1>3. HasRoom' = HasRoom
    BY <1>2 DEF HasRoom, Lists
  <1>4. IdleIsCounted'
    BY <1>1, <1>2 DEF IInv, IdleIsCounted, InWait
  <1>5. CASE CreateFails \/ Shutdown
    <2>1. /\ UNCHANGED <<jobs, nextJob>> /\ shutdown' = TRUE
          /\ \/ lpc = "create" /\ lpc' = "abort"
             \/ lpc = "open" /\ lpc' = "notifyall"
      BY <1>5 DEF CreateFails, Shutdown
    <2>2. TypeOK'
      BY <1>1, <2>1 DEF IInv, TypeOK
    <2>3. Kept'
      BY <1>1, <1>2, <2>1 DEF IInv, Kept, Creating, Opened
    <2>4. Growing' /\ ShutdownSeen' /\ NoLostWakeUp'
      BY <2>1 DEF Growing, ShutdownSeen, NoLostWakeUp, Closing
    <2> QED BY <1>4, <2>2, <2>3, <2>4 DEF IInv
  <1>6. CASE Enqueue
    <2>1. /\ lpc = "open" /\ nextJob \in Jobs /\ jobs' = Append(jobs, nextJob)
          /\ nextJob' = nextJob + 1 /\ shutdown' = shutdown
          /\ lpc' = IF idle = 0 /\ HasRoom THEN "clean" ELSE "notify"
      BY <1>6 DEF Enqueue
    <2>2. jobs \in Seq(Jobs) /\ Len(jobs) \in Nat
      BY DEF IInv, TypeOK
    <2>3. jobs' \in Seq(Jobs) /\ Len(jobs') = Len(jobs) + 1
      BY <2>1, <2>2
    <2>4. nextJob' \in 1..NumJobs + 1
      BY <2>1, PoolAssumption DEF Jobs
    <2>5. TypeOK'
      BY <1>1, <2>1, <2>3, <2>4 DEF IInv, TypeOK
    <2>6. Kept'
      BY <1>1, <1>2, <2>1 DEF IInv, Kept, Creating, Opened, Lists
    <2>7. Growing'
      BY <1>1, <1>3, <2>1 DEF Growing
    <2>8. ShutdownSeen'
      BY <2>1 DEF IInv, ShutdownSeen, Closing
    <2>9. NoLostWakeUp'
      <3>1. Cardinality(Awake) \in Nat
        BY SubsetsFinite DEF Awake
      <3>2. Waiting # {} => Len(jobs) <= Cardinality(Awake)
        BY <2>1, <2>2, <3>1 DEF IInv, NoLostWakeUp
      <3> QED BY <1>2, <2>1, <2>2, <2>3, <3>1, <3>2 DEF NoLostWakeUp
    <2> QED BY <1>4, <2>5, <2>6, <2>7, <2>8, <2>9 DEF IInv
  <1> QED BY <1>5, <1>6

\* notify_one: what the queue was owed is a thread awake.
LEMMA NotifyStep ==
  ASSUME IInv, Notify
  PROVE  IInv'
  <1>1. /\ lpc = "notify" /\ lpc' = "open" /\ UNCHANGED <<shutdown, idle, jobs, list, job, nextJob>>
        /\ Len(jobs) \in Nat /\ Cardinality(Awake) \in Nat
        /\ Awake \in SUBSET Threads /\ InWait \in SUBSET Threads
    BY SubsetsFinite DEF Notify, IInv, TypeOK, Awake, InWait
  <1>2. \A l \in Lists : In(l)' = In(l)
    BY <1>1 DEF In
  <1>3. Growing' /\ ShutdownSeen'
    BY <1>1 DEF IInv, Growing, ShutdownSeen, Closing
  <1>4. CASE Waiting = {} /\ st' = st
    <2>1. InWait' = InWait /\ Waiting' = {}
      BY <1>4 DEF InWait, Waiting
    <2>2. TypeOK' /\ IdleIsCounted' /\ NoLostWakeUp'
      BY <1>1, <1>4, <2>1 DEF IInv, TypeOK, IdleIsCounted, NoLostWakeUp, InWait
    <2>3. Kept'
      BY <1>1, <1>2, <1>4 DEF IInv, Kept, Creating, Opened, Lists
    <2> QED BY <1>3, <2>2, <2>3 DEF IInv
  <1>5. CASE \E t \in Waiting : st' = [st EXCEPT ![t] = "woken"]
    <2>1. PICK t \in Waiting : st' = [st EXCEPT ![t] = "woken"]
      BY <1>5
    <2>2. t \in Threads /\ st[t] = "wait" /\ t \in InWait /\ t \notin Awake
      BY DEF Waiting, InWait, Awake
    <2>3. /\ st' \in [Threads -> States]
          /\ \A u \in Threads : st'[u] = IF u = t THEN "woken" ELSE st[u]
          /\ InWait' = InWait \cup {t} /\ Awake' = Awake \cup {t}
      BY <2>1, <2>2, OneMoves DEF IInv, States
    <2>4. Cardinality(Awake') = Cardinality(Awake) + 1
      BY <1>1, <2>2, <2>3, CountAdds
    <2>5. InWait' = InWait
      BY <2>2, <2>3
    <2>6. TypeOK' /\ IdleIsCounted'
      BY <1>1, <2>3, <2>5 DEF IInv, TypeOK, States, IdleIsCounted, InWait
    <2>7. Kept'
      BY <1>1, <1>2, <2>2, <2>3 DEF IInv, Kept, Creating, Opened, Lists
    <2>8. NoLostWakeUp'
      BY <1>1, <2>2, <2>4, <2>1 DEF IInv, NoLostWakeUp
    <2> QED BY <1>3, <2>6, <2>7, <2>8 DEF IInv
  <1> QED BY <1>4, <1>5 DEF Notify

\* notify_all, of an abandoned constructor and of a shutdown.
LEMMA NotifyAllStep ==
  ASSUME IInv, AbortNotify \/ ShutdownNotify
  PROVE  IInv'
  <1>1. /\ NotifyAll /\ UNCHANGED <<shutdown, idle, jobs, list, job, nextJob>>
        /\ \/ lpc = "abort" /\ lpc' = "abortjoin"
           \/ lpc = "notifyall" /\ lpc' = "joinbase"
    BY DEF AbortNotify, ShutdownNotify
  <1>2. /\ st' \in [Threads -> States]
        /\ \A u \in Threads : st'[u] = IF st[u] = "wait" THEN "woken" ELSE st[u]
    BY <1>1 DEF NotifyAll, IInv, TypeOK, States
  <1>3. InWait' = InWait /\ Waiting' = {}
    BY <1>2 DEF InWait, Waiting
  <1>4. TypeOK' /\ IdleIsCounted' /\ NoLostWakeUp' /\ Growing'
    BY <1>1, <1>2, <1>3 DEF IInv, TypeOK, States, IdleIsCounted, InWait, NoLostWakeUp, Growing
  <1>5. ShutdownSeen'
    BY <1>1, <1>3 DEF IInv, ShutdownSeen, Closing
  <1>6. Kept'
    BY <1>1, <1>2 DEF IInv, Kept, Creating, Opened
  <1> QED BY <1>4, <1>5, <1>6 DEF IInv

\* A list is joined: its threads have ended, nobody else notices.
LEMMA JoinStep ==
  ASSUME IInv, AbortJoin \/ JoinBase \/ JoinDynamic \/ JoinFinished \/ GrowFails
  PROVE  IInv'
  <1>1. PICK l \in {"threads", "remaining", "finished"} :
          /\ Joined(l) /\ Forget(l) /\ UNCHANGED <<shutdown, idle, jobs, job, nextJob>>
          /\ \/ lpc = "abortjoin" /\ lpc' = "threw" /\ l = "threads"
             \/ lpc = "joinbase" /\ lpc' = "grab" /\ l = "threads"
             \/ lpc = "joindynamic" /\ lpc' = "lastclean" /\ l = "remaining"
             \/ lpc = "lastclean" /\ lpc' = "done" /\ l = "finished"
             \/ lpc = "clean" /\ lpc' = "escaped" /\ l = "finished"
    BY DEF AbortJoin, JoinBase, JoinDynamic, JoinFinished, GrowFails, CleanupReady
  <1>2. /\ st' \in [Threads -> States] /\ list' \in [Threads -> Lists]
        /\ \A u \in Threads : st'[u] = IF list[u] = l THEN "none" ELSE st[u]
        /\ \A u \in Threads : list'[u] = IF list[u] = l THEN "none" ELSE list[u]
        /\ InWait' = InWait /\ Awake' = Awake /\ Waiting' = Waiting
    BY <1>1, JoinMovesNobody DEF IInv, Lists
  <1>3. TypeOK' /\ IdleIsCounted' /\ Growing'
    BY <1>1, <1>2 DEF IInv, TypeOK, States, Lists, IdleIsCounted, InWait, Growing
  <1>4. ShutdownSeen'
    BY <1>1, <1>2 DEF IInv, ShutdownSeen, Closing
  <1>5. Kept'
    <2>1. \A u \in Threads : list[u] \in Lists
      BY DEF IInv, TypeOK, Lists
    <2>2. lpc' = "done" => \A u \in Threads : list'[u] = "none"
      BY <1>1, <1>2, <2>1 DEF IInv, Kept, Lists
    <2>3. /\ \A u \in Threads : list'[u] = "none" <=> st'[u] = "none"
          /\ \A u \in Threads : list'[u] = "finished" => st'[u] \in {"leaving", "gone"}
      BY <1>2 DEF IInv, Kept
    <2>4. /\ lpc' = "threw" => \A u \in Threads : list'[u] = "none"
          /\ lpc' \in {"grab", "lastclean", "done"} => \A u \in Threads : list'[u] # "threads"
          /\ lpc' \in {"lastclean", "done"} => \A u \in Threads : list'[u] # "dynamic"
          /\ lpc' \in {"grab", "lastclean", "done"} => \A u \in Threads : list'[u] # "remaining"
      BY <1>1, <1>2 DEF IInv, Kept, Creating
    <2> QED BY <1>1, <2>2, <2>3, <2>4 DEF Kept, Creating, Opened
  <1>6. NoLostWakeUp'
    <2>1. Waiting = {} \/ lpc' = "escaped"
      BY <1>1 DEF IInv, ShutdownSeen, Closing
    <2>2. lpc' = "escaped" => Waiting = {}
      <3>1. lpc = "clean" => idle = 0
        BY DEF IInv, Growing
      <3>2. InWait \in SUBSET Threads /\ idle = Cardinality(InWait)
        BY DEF InWait, IInv, IdleIsCounted
      <3>3. idle = 0 => InWait = {}
        BY <3>2, SubsetsFinite, FS_EmptySet
      <3> QED BY <1>1, <3>1, <3>3 DEF InWait, Waiting
    <2> QED BY <1>2, <2>1, <2>2 DEF NoLostWakeUp
  <1> QED BY <1>3, <1>4, <1>5, <1>6 DEF IInv

\* shutdown takes the dynamic threads' list away.
LEMMA GrabStep ==
  ASSUME IInv, GrabDynamic
  PROVE  IInv'
  <1>1. /\ lpc = "grab" /\ lpc' = "joindynamic"
        /\ UNCHANGED <<shutdown, idle, jobs, st, job, nextJob>>
        /\ list' = [t \in Threads |-> IF list[t] = "dynamic" THEN "remaining" ELSE list[t]]
    BY DEF GrabDynamic
  <1>2. /\ list' \in [Threads -> Lists]
        /\ \A u \in Threads : list'[u] = IF list[u] = "dynamic" THEN "remaining" ELSE list[u]
    BY <1>1 DEF IInv, TypeOK, Lists
  <1>3. InWait' = InWait /\ Waiting' = Waiting
    BY <1>1 DEF InWait, Waiting
  <1>4. TypeOK' /\ IdleIsCounted' /\ Growing'
    BY <1>1, <1>2, <1>3 DEF IInv, TypeOK, Lists, IdleIsCounted, InWait, Growing
  <1>5. ShutdownSeen' /\ NoLostWakeUp'
    BY <1>1, <1>3 DEF IInv, ShutdownSeen, Closing, NoLostWakeUp
  <1>6. Kept'
    BY <1>1, <1>2 DEF IInv, Kept, Creating, Opened
  <1> QED BY <1>4, <1>5, <1>6 DEF IInv

\* The pool grows: the finished threads are joined and a free one is started.
LEMMA GrowStep ==
  ASSUME IInv, Grow
  PROVE  IInv'
  <1> DEFINE new == CHOOSE t \in Threads \ BaseThreads : list[t] \in {"none", "finished"}
  <1>1. new \in Threads \ BaseThreads /\ list[new] \in {"none", "finished"}
    BY FreeThread DEF Grow
  <1>2. /\ list' = [t \in Threads |-> IF t = new THEN "dynamic"
                                      ELSE IF list[t] = "finished" THEN "none" ELSE list[t]]
        /\ st' = [t \in Threads |-> IF t = new THEN "start"
                                    ELSE IF list[t] = "finished" THEN "none" ELSE st[t]]
        /\ lpc = "clean" /\ lpc' = "notify" /\ UNCHANGED <<shutdown, idle, jobs, job, nextJob>>
        /\ Joined("finished")
    BY DEF Grow, CleanupReady
  <1> HIDE DEF new
  <1>3. \A t \in Threads : list[t] = "finished" => st[t] = "gone"
    BY <1>2 DEF Joined, In
  <1>4. st[new] \in {"none", "gone"}
    BY <1>1, <1>3 DEF IInv, Kept
  <1>5. /\ \A t \in Threads : list'[t] = IF t = new THEN "dynamic"
                                         ELSE IF list[t] = "finished" THEN "none" ELSE list[t]
        /\ \A t \in Threads : st'[t] = IF t = new THEN "start"
                                       ELSE IF list[t] = "finished" THEN "none" ELSE st[t]
        /\ list' \in [Threads -> Lists] /\ st' \in [Threads -> States]
    BY <1>2 DEF IInv, TypeOK, Lists, States
  <1>6. InWait' = InWait /\ Waiting' = Waiting /\ Awake' = Awake \cup {new}
    BY <1>1, <1>3, <1>4, <1>5 DEF InWait, Waiting, Awake
  <1>7. TypeOK' /\ IdleIsCounted' /\ Growing'
    BY <1>2, <1>5, <1>6 DEF IInv, TypeOK, Lists, States, IdleIsCounted, InWait, Growing
  <1>8. ShutdownSeen'
    BY <1>2 DEF IInv, ShutdownSeen, Closing
  <1>9. Kept'
    <2>1. In("threads")' = In("threads")
      BY <1>1, <1>5 DEF In
    <2>2. /\ \A t \in Threads : list'[t] = "none" <=> st'[t] = "none"
          /\ \A t \in Threads : list'[t] # "finished" /\ list'[t] # "remaining"
      BY <1>2, <1>5 DEF IInv, Kept, Opened
    <2> QED BY <1>2, <2>1, <2>2 DEF IInv, Kept, Creating, Opened
  <1>10. NoLostWakeUp'
    <2>1. /\ Cardinality(Awake) \in Nat /\ Cardinality(Awake') \in Nat
          /\ Cardinality(Awake) <= Cardinality(Awake')
      <3>1. Awake \in SUBSET Threads
        BY DEF Awake
      <3> QED BY <1>1, <1>6, <3>1, CountAdds, SubsetsFinite
    <2>2. Len(jobs) \in Nat
      BY DEF IInv, TypeOK
    <2> QED BY <1>2, <1>6, <2>1, <2>2 DEF IInv, NoLostWakeUp
  <1> QED BY <1>7, <1>8, <1>9, <1>10 DEF IInv

LEMMA StutterStep ==
  ASSUME IInv, UNCHANGED vars
  PROVE  IInv'
  <1>1. InWait' = InWait /\ Waiting' = Waiting /\ Awake' = Awake /\ \A l \in Lists : In(l)' = In(l)
    BY DEF vars, InWait, Waiting, Awake, In
  <1>2. TypeOK' /\ ShutdownSeen'
    BY <1>1 DEF IInv, vars, TypeOK, ShutdownSeen
  <1>3. Kept' /\ Growing'
    BY <1>1 DEF IInv, vars, Kept, Growing, HasRoom, Lists
  <1>4. IdleIsCounted' /\ NoLostWakeUp'
    BY <1>1 DEF IInv, vars, IdleIsCounted, NoLostWakeUp, InWait
  <1> QED BY <1>2, <1>3, <1>4 DEF IInv

\* Every step of the listener and of the pool's threads keeps the invariant.
THEOREM Invariance == Spec => []IInv
  <1>1. IInv /\ [Next]_vars => IInv'
    <2> SUFFICES ASSUME IInv, [Next]_vars PROVE IInv'
      OBVIOUS
    <2>1. CASE Listener
      <3>1. CASE CreateBase
        BY <3>1, CreateBaseStep
      <3>2. CASE CreateFails \/ Enqueue \/ Shutdown
        BY <3>2, PlacesOnly
      <3>3. CASE AbortNotify \/ ShutdownNotify
        BY <3>3, NotifyAllStep
      <3>4. CASE AbortJoin \/ JoinBase \/ JoinDynamic \/ JoinFinished \/ GrowFails
        BY <3>4, JoinStep
      <3>5. CASE Notify
        BY <3>5, NotifyStep
      <3>6. CASE GrabDynamic
        BY <3>6, GrabStep
      <3>7. CASE Grow
        BY <3>7, GrowStep
      <3> QED BY <2>1, <3>1, <3>2, <3>3, <3>4, <3>5, <3>6, <3>7 DEF Listener
    <2>2. CASE \E t \in Threads : Worker(t)
      BY <2>2, WorkerStep
    <2>3. CASE Ended \/ UNCHANGED vars
      BY <2>3, StutterStep DEF Ended
    <2> QED BY <2>1, <2>2, <2>3 DEF Next
  <1> QED BY <1>1, InitInv, PTL DEF Spec

\* The pool's variables keep their types; idle_thread_count_, a size_t, never goes
\* below zero.
THEOREM PoolTypes == Spec => []TypeOK
  <1>1. IInv => TypeOK
    BY DEF IInv
  <1> QED BY <1>1, Invariance, PTL

\* idle_thread_count_ is the number of threads inside the wait, for any pool.
THEOREM CounterIsRight == Spec => []IdleIsCounted
  <1>1. IInv => IdleIsCounted
    BY DEF IInv
  <1> QED BY <1>1, Invariance, PTL

\* While a thread sleeps, every queued job has a thread that is awake or a
\* notification still to come.
THEOREM WakeUpsArrive == Spec => []NoLostWakeUp
  <1>1. IInv => NoLostWakeUp
    BY DEF IInv
  <1> QED BY <1>1, Invariance, PTL

\* When shutdown has returned, or the constructor has thrown, no thread is left.
THEOREM EveryThreadJoined == Spec => []AllJoined
  <1>1. IInv => AllJoined
    BY DEF IInv, Kept, AllJoined
  <1> QED BY <1>1, Invariance, PTL

-----------------------------------------------------------------------------
(***************************************************************************)
(* ThreadPool implements JobPool, for any pool and any number of jobs.     *)
(*                                                                         *)
(* The argument.  Jobs are begun in the order in which they were queued    *)
(* because the queue always is the last ones of those that were accepted   *)
(* (QueueInOrder); less than Max are being run when one is begun since one *)
(* thread of Max + 1 is never kept (Spare); and the queue is empty when    *)
(* the base threads have left, which they do for no other reason           *)
(* (BaseStays), so that shutdown closes a pool without jobs.               *)
(***************************************************************************)

QueueInOrder ==
  /\ Len(jobs) < nextJob
  /\ \A i \in 1..Len(jobs) : jobs[i] = nextJob - Len(jobs) - 1 + i

RunsOneJob ==
  /\ \A t \in Threads : st[t] = "run" <=> job[t] # NoJob
  /\ \A t \in Threads : job[t] # NoJob => job[t] + Len(jobs) < nextJob
  /\ \A t, u \in Threads : (job[t] # NoJob /\ job[t] = job[u]) => t = u

Spare == \E u \in Threads : list[u] \in {"none", "finished"}

BaseStays ==
  /\ \A t \in Threads : list[t] = "threads" => t \in BaseThreads /\ st[t] # "timedout"
  /\ \A t \in Threads : (list[t] = "threads" /\ st[t] \in {"leaving", "gone"}) => shutdown /\ jobs = <<>>
  /\ lpc \in {"notifyall", "joinbase"} => In("threads") = BaseThreads
  /\ lpc \in Creating \cup {"grab", "joindynamic", "lastclean", "done"} => jobs = <<>>

JInv == QueueInOrder /\ RunsOneJob /\ Spare /\ BaseStays

LEMMA InitJobs == Init => JInv
  <1> SUFFICES ASSUME Init PROVE JInv OBVIOUS
  <1>1. QueueInOrder /\ RunsOneJob
    BY DEF Init, QueueInOrder, RunsOneJob
  <1>2. Spare
    <2>1. 1 \in Threads
      BY PoolAssumption DEF Threads
    <2> QED BY <2>1 DEF Init, Spare
  <1>3. BaseStays
    BY DEF Init, BaseStays
  <1> QED BY <1>1, <1>2, <1>3 DEF JInv

\* The first job of the queue and the rest of it.
LEMMA TakesFirst ==
  ASSUME TypeOK, QueueInOrder, jobs # <<>>
  PROVE  /\ Head(jobs) = nextJob - Len(jobs) /\ Head(jobs) \in Jobs
         /\ Tail(jobs) \in Seq(Jobs) /\ Len(Tail(jobs)) = Len(jobs) - 1
         /\ Len(jobs) \in Nat \ {0}
         /\ \A i \in 1..Len(Tail(jobs)) : Tail(jobs)[i] = nextJob - Len(Tail(jobs)) - 1 + i
  <1>1. jobs \in Seq(Jobs) /\ nextJob \in Nat
    BY PoolAssumption DEF TypeOK
  <1>2. Len(jobs) \in Nat \ {0} /\ Head(jobs) = jobs[1] /\ Head(jobs) \in Jobs
    BY <1>1
  <1>3. /\ Tail(jobs) \in Seq(Jobs) /\ Len(Tail(jobs)) = Len(jobs) - 1
        /\ \A i \in 1..Len(Tail(jobs)) : Tail(jobs)[i] = jobs[i + 1]
    BY <1>1, <1>2
  <1>4. Head(jobs) = nextJob - Len(jobs)
    BY <1>1, <1>2 DEF QueueInOrder
  <1>5. ASSUME NEW i \in 1..Len(Tail(jobs))
        PROVE  Tail(jobs)[i] = nextJob - Len(Tail(jobs)) - 1 + i
    <2>1. i + 1 \in 1..Len(jobs) /\ i \in Nat
      BY <1>2, <1>3
    <2>2. jobs[i + 1] = nextJob - Len(jobs) - 1 + (i + 1)
      BY <2>1 DEF QueueInOrder
    <2> QED BY <1>1, <1>2, <1>3, <2>1, <2>2
  <1> QED BY <1>2, <1>3, <1>4, <1>5

\* A thread begins a job.
Begins(t) ==
  /\ st[t] \in {"start", "woken", "timedout"} /\ jobs # <<>>
  /\ st' = [st EXCEPT ![t] = "run"] /\ job' = [job EXCEPT ![t] = Head(jobs)]
  /\ jobs' = Tail(jobs)
  /\ UNCHANGED <<lpc, shutdown, list, nextJob>>

\* A thread ends one.
Finishes(t) ==
  /\ st[t] = "run" /\ st' = [st EXCEPT ![t] = "start"] /\ job' = [job EXCEPT ![t] = NoJob]
  /\ UNCHANGED <<lpc, shutdown, list, nextJob, jobs>>

\* It does neither.
Moves(t, s) ==
  /\ st' = [st EXCEPT ![t] = s] /\ st[t] # "run" /\ s # "run"
  /\ s = "timedout" => t \notin BaseThreads
  /\ s \in {"leaving", "gone"} => \/ shutdown /\ jobs = <<>>
                                  \/ st[t] \in {"timedout", "leaving"}
  /\ UNCHANGED <<lpc, shutdown, nextJob, jobs, job>>
  /\ \/ list' = list
     \/ list' = [list EXCEPT ![t] = IF @ = "dynamic" THEN "finished" ELSE @]

LEMMA WorkerKinds ==
  ASSUME NEW t \in Threads, Worker(t)
  PROVE  Begins(t) \/ Finishes(t) \/ \E s \in States : Moves(t, s)
  <1>1. CASE (Enter(t) \/ Resume(t)) /\ HasWork
    <2>1. /\ st[t] \in {"start", "woken", "timedout"} /\ Take(t)
          /\ UNCHANGED <<lpc, shutdown, list, nextJob>>
      BY <1>1 DEF Enter, Resume
    <2>2. CASE shutdown /\ jobs = <<>>
      <3>1. Moves(t, "leaving")
        BY <2>1, <2>2 DEF Moves, Take
      <3> QED BY <3>1 DEF States
    <2>3. CASE ~(shutdown /\ jobs = <<>>)
      BY <1>1, <2>1, <2>3 DEF Begins, Take, HasWork
    <2> QED BY <2>2, <2>3
  <1>2. CASE (Enter(t) \/ Resume(t)) /\ ~HasWork
    <2>1. Moves(t, "wait")
      BY <1>2 DEF Enter, Resume, Moves
    <2> QED BY <2>1 DEF States
  <1>3. CASE SpuriousWakeUp(t)
    <2>1. Moves(t, "woken")
      BY <1>3 DEF SpuriousWakeUp, Moves
    <2> QED BY <2>1 DEF States
  <1>4. CASE TimeOut(t)
    <2>1. Moves(t, "timedout")
      BY <1>4 DEF TimeOut, Moves
    <2> QED BY <2>1 DEF States
  <1>5. CASE WaitAgain(t)
    <2>1. Moves(t, "wait")
      BY <1>5 DEF WaitAgain, Moves
    <2> QED BY <2>1 DEF States
  <1>6. CASE Retire(t)
    <2>1. Moves(t, "leaving")
      BY <1>6 DEF Retire, Moves
    <2> QED BY <2>1 DEF States
  <1>7. CASE RunEnds(t)
    BY <1>7 DEF RunEnds, Finishes
  <1>8. CASE Exit(t)
    <2>1. Moves(t, "gone")
      BY <1>8 DEF Exit, Moves
    <2> QED BY <2>1 DEF States
  <1> QED BY <1>1, <1>2, <1>3, <1>4, <1>5, <1>6, <1>7, <1>8 DEF Worker

LEMMA WorkerJobs ==
  ASSUME IInv, JInv, NEW t \in Threads, Worker(t)
  PROVE  JInv'
  <1>0. /\ jobs \in Seq(Jobs) /\ Len(jobs) \in Nat /\ nextJob \in Nat
        /\ st \in [Threads -> States] /\ list \in [Threads -> Lists]
        /\ job \in [Threads -> Jobs \cup {NoJob}]
    BY PoolAssumption DEF IInv, TypeOK, States, Lists
  <1>1. CASE Begins(t)
    <2>1. /\ Head(jobs) = nextJob - Len(jobs) /\ Head(jobs) \in Jobs
          /\ Len(jobs') = Len(jobs) - 1 /\ Len(jobs) \in Nat \ {0}
          /\ \A i \in 1..Len(jobs') : jobs'[i] = nextJob - Len(jobs') - 1 + i
      BY <1>1, TakesFirst DEF IInv, JInv, Begins
    <2>2. /\ \A u \in Threads : st'[u] = IF u = t THEN "run" ELSE st[u]
          /\ \A u \in Threads : job'[u] = IF u = t THEN Head(jobs) ELSE job[u]
          /\ UNCHANGED <<lpc, shutdown, list, nextJob>> /\ st[t] # "run" /\ jobs # <<>>
      BY <1>0, <1>1 DEF Begins
    <2>3. QueueInOrder'
      BY <1>0, <2>1, <2>2 DEF JInv, QueueInOrder
    <2>4. RunsOneJob'
      <3>1. Head(jobs) # NoJob /\ Head(jobs) \in Nat
        BY <2>1 DEF Jobs, NoJob
      <3>2. \A u \in Threads : job[u] \in Nat
        BY <1>0 DEF Jobs, NoJob
      <3>3. \A u \in Threads : job[u] # NoJob => job[u] # Head(jobs) /\ job[u] + Len(jobs') < nextJob
        BY <1>0, <2>1, <3>2 DEF JInv, RunsOneJob
      <3>4. Head(jobs) + Len(jobs') < nextJob
        BY <1>0, <2>1
      <3> QED BY <2>2, <3>1, <3>3, <3>4 DEF JInv, RunsOneJob
    <2>5. Spare'
      BY <2>2 DEF JInv, Spare
    <2>6. BaseStays'
      <3>1. In("threads")' = In("threads")
        BY <2>2 DEF In
      <3> QED BY <2>2, <3>1 DEF JInv, BaseStays
    <2> QED BY <2>3, <2>4, <2>5, <2>6 DEF JInv
  <1>2. CASE Finishes(t)
    <2>1. /\ \A u \in Threads : st'[u] = IF u = t THEN "start" ELSE st[u]
          /\ \A u \in Threads : job'[u] = IF u = t THEN NoJob ELSE job[u]
          /\ UNCHANGED <<lpc, shutdown, list, nextJob, jobs>>
      BY <1>0, <1>2 DEF Finishes
    <2>2. QueueInOrder' /\ RunsOneJob' /\ Spare'
      BY <2>1 DEF JInv, QueueInOrder, RunsOneJob, Spare
    <2>3. In("threads")' = In("threads")
      BY <2>1 DEF In
    <2> QED BY <2>1, <2>2, <2>3 DEF JInv, BaseStays
  <1>3. CASE \E s \in States : Moves(t, s)
    <2>0. PICK s \in States : Moves(t, s)
      BY <1>3
    <2>1. /\ \A u \in Threads : st'[u] = IF u = t THEN s ELSE st[u]
          /\ \A u \in Threads : \/ list'[u] = list[u]
                                \/ u = t /\ list[u] = "dynamic" /\ list'[u] = "finished"
          /\ UNCHANGED <<lpc, shutdown, nextJob, jobs, job>>
          /\ st[t] # "run" /\ s # "run"
          /\ s = "timedout" => t \notin BaseThreads
          /\ s \in {"leaving", "gone"} => \/ shutdown /\ jobs = <<>>
                                          \/ st[t] \in {"timedout", "leaving"}
      BY <1>0, <2>0 DEF Moves
    <2>2. QueueInOrder' /\ RunsOneJob' /\ Spare'
      BY <2>1 DEF JInv, QueueInOrder, RunsOneJob, Spare
    <2>3. In("threads")' = In("threads")
      BY <2>1 DEF In
    <2>4. BaseStays'
      BY <2>1, <2>3 DEF JInv, BaseStays
    <2> QED BY <2>2, <2>4 DEF JInv
  <1> QED BY <1>1, <1>2, <1>3, WorkerKinds

LEMMA ListenerJobs ==
  ASSUME IInv, JInv, Listener
  PROVE  JInv'
  <1>0. /\ jobs \in Seq(Jobs) /\ Len(jobs) \in Nat /\ nextJob \in Nat
        /\ st \in [Threads -> States] /\ list \in [Threads -> Lists]
        /\ job \in [Threads -> Jobs \cup {NoJob}]
        /\ Max \in Nat /\ Base \in Nat \ {0} /\ Base <= Max
    BY PoolAssumption DEF IInv, TypeOK, States, Lists
  <1>1. CASE CreateBase
    <2>1. PICK k \in 0..Base - 1 : In("threads") = 1..k
      BY <1>1 DEF IInv, Kept, CreateBase
    <2>2. Cardinality(In("threads")) = k
      BY <1>0, <2>1, FS_Interval
    <2>3. PICK t \in Threads : t = k + 1 /\ Spawn(t, "threads")
      BY <1>1, <2>2 DEF CreateBase
    <2>4. /\ \A u \in Threads : st'[u] = IF u = t THEN "start" ELSE st[u]
          /\ \A u \in Threads : list'[u] = IF u = t THEN "threads" ELSE list[u]
          /\ st[t] = "none" /\ lpc = "create" /\ lpc' \in {"create", "open"}
          /\ UNCHANGED <<shutdown, idle, jobs, job, nextJob>>
      BY <1>0, <1>1, <2>3 DEF CreateBase, Spawn, IInv, Kept
    <2>5. QueueInOrder' /\ RunsOneJob'
      BY <2>3, <2>4 DEF JInv, QueueInOrder, RunsOneJob
    <2>6. Spare'
      <3>1. Max + 1 \in Threads /\ Max + 1 # t /\ Max + 1 \notin In("threads")
        BY <1>0, <2>1, <2>3 DEF Threads
      <3>2. list[Max + 1] = "none"
        BY <2>4, <3>1 DEF IInv, Kept, Creating, In
      <3> QED BY <2>4, <3>1, <3>2 DEF Spare
    <2>7. BaseStays'
      <3>1. t \in BaseThreads
        BY <1>0, <2>1, <2>3 DEF BaseThreads
      <3>2. jobs = <<>>
        BY <2>4 DEF JInv, BaseStays, Creating
      <3> QED BY <2>4, <3>1, <3>2 DEF JInv, BaseStays
    <2> QED BY <2>5, <2>6, <2>7 DEF JInv
  <1>2. CASE CreateFails \/ Shutdown
    <2>1. /\ UNCHANGED <<jobs, nextJob, list, st, job>> /\ shutdown' = TRUE
          /\ \/ lpc = "create" /\ lpc' = "abort"
             \/ lpc = "open" /\ lpc' = "notifyall"
      BY <1>2 DEF CreateFails, Shutdown
    <2>2. QueueInOrder' /\ RunsOneJob' /\ Spare'
      BY <2>1 DEF JInv, QueueInOrder, RunsOneJob, Spare
    <2>3. In("threads")' = In("threads")
      BY <2>1 DEF In
    <2>4. lpc = "open" => In("threads") = BaseThreads
      BY DEF IInv, Kept, Opened
    <2>5. BaseStays'
      BY <2>1, <2>3, <2>4 DEF JInv, BaseStays, Creating
    <2> QED BY <2>2, <2>5 DEF JInv
  <1>3. CASE Enqueue
    <2>1. /\ lpc = "open" /\ lpc' \in {"clean", "notify"} /\ jobs' = Append(jobs, nextJob)
          /\ nextJob' = nextJob + 1 /\ UNCHANGED <<shutdown, list, st, job>>
      BY <1>3 DEF Enqueue
    <2>2. /\ Len(jobs') = Len(jobs) + 1 /\ jobs'[Len(jobs) + 1] = nextJob
          /\ \A i \in 1..Len(jobs) : jobs'[i] = jobs[i]
      BY <1>0, <2>1
    <2>3. QueueInOrder'
      <3>1. Len(jobs') < nextJob'
        BY <1>0, <2>1, <2>2 DEF JInv, QueueInOrder
      <3>2. ASSUME NEW i \in 1..Len(jobs') PROVE jobs'[i] = nextJob' - Len(jobs') - 1 + i
        <4>1. CASE i = Len(jobs) + 1
          BY <1>0, <2>1, <2>2, <4>1
        <4>2. CASE i # Len(jobs) + 1
          <5>1. i \in 1..Len(jobs)
            BY <1>0, <2>2, <4>2
          <5> QED BY <1>0, <2>1, <2>2, <5>1 DEF JInv, QueueInOrder
        <4> QED BY <4>1, <4>2
      <3> QED BY <3>1, <3>2 DEF QueueInOrder
    <2>4. RunsOneJob'
      <3>1. \A u \in Threads : job[u] \in Nat
        BY <1>0 DEF Jobs, NoJob
      <3> QED BY <1>0, <2>1, <2>2, <3>1 DEF JInv, RunsOneJob
    <2>5. Spare'
      BY <2>1 DEF JInv, Spare
    <2>6. BaseStays'
      <3>1. ~shutdown
        BY <2>1 DEF IInv, ShutdownSeen, Closing
      <3> QED BY <2>1, <3>1 DEF JInv, BaseStays, Creating
    <2> QED BY <2>3, <2>4, <2>5, <2>6 DEF JInv
  <1>4. CASE Notify \/ AbortNotify \/ ShutdownNotify
    <2>1. /\ UNCHANGED <<shutdown, idle, jobs, list, job, nextJob>>
          /\ \A u \in Threads : st'[u] = st[u] \/ (st[u] = "wait" /\ st'[u] = "woken")
          /\ \/ lpc = "notify" /\ lpc' = "open"
             \/ lpc = "abort" /\ lpc' = "abortjoin"
             \/ lpc = "notifyall" /\ lpc' = "joinbase"
      BY <1>0, <1>4 DEF Notify, AbortNotify, ShutdownNotify, NotifyAll, Waiting
    <2>2. QueueInOrder' /\ RunsOneJob' /\ Spare'
      BY <2>1 DEF JInv, QueueInOrder, RunsOneJob, Spare
    <2>3. In("threads")' = In("threads")
      BY <2>1 DEF In
    <2>4. BaseStays'
      BY <2>1, <2>3 DEF JInv, BaseStays, Creating
    <2> QED BY <2>2, <2>4 DEF JInv
  <1>5. CASE AbortJoin \/ JoinBase \/ JoinDynamic \/ JoinFinished \/ GrowFails
    <2>1. PICK l \in {"threads", "remaining", "finished"} :
            /\ Joined(l) /\ Forget(l) /\ UNCHANGED <<shutdown, idle, jobs, job, nextJob>>
            /\ \/ lpc = "abortjoin" /\ lpc' = "threw" /\ l = "threads"
               \/ lpc = "joinbase" /\ lpc' = "grab" /\ l = "threads"
               \/ lpc = "joindynamic" /\ lpc' = "lastclean" /\ l = "remaining"
               \/ lpc = "lastclean" /\ lpc' = "done" /\ l = "finished"
               \/ lpc = "clean" /\ lpc' = "escaped" /\ l = "finished"
      BY <1>5 DEF AbortJoin, JoinBase, JoinDynamic, JoinFinished, GrowFails, CleanupReady
    <2>2. /\ \A u \in Threads : st'[u] = IF list[u] = l THEN "none" ELSE st[u]
          /\ \A u \in Threads : list'[u] = IF list[u] = l THEN "none" ELSE list[u]
          /\ \A u \in Threads : list[u] = l => st[u] = "gone"
      BY <2>1, JoinMovesNobody DEF IInv, Lists, Joined, In
    <2>3. QueueInOrder' /\ RunsOneJob' /\ Spare'
      BY <2>1, <2>2 DEF JInv, QueueInOrder, RunsOneJob, Spare
    <2>4. lpc = "joinbase" => jobs = <<>>
      <3>1. 1 \in BaseThreads
        BY <1>0 DEF BaseThreads
      <3>2. lpc = "joinbase" => list[1] = "threads" /\ 1 \in Threads /\ l = "threads"
        BY <2>1, <3>1, ThreadsFinite DEF JInv, BaseStays, In
      <3> QED BY <2>2, <3>2 DEF JInv, BaseStays
    <2>5. BaseStays'
      BY <2>1, <2>2, <2>4 DEF JInv, BaseStays, Creating
    <2> QED BY <2>3, <2>5 DEF JInv
  <1>6. CASE GrabDynamic
    <2>1. /\ \A u \in Threads : list'[u] = IF list[u] = "dynamic" THEN "remaining" ELSE list[u]
          /\ lpc = "grab" /\ lpc' = "joindynamic" /\ UNCHANGED <<shutdown, idle, jobs, st, job, nextJob>>
      BY <1>6 DEF GrabDynamic
    <2>2. QueueInOrder' /\ RunsOneJob' /\ Spare'
      BY <2>1 DEF JInv, QueueInOrder, RunsOneJob, Spare
    <2>3. BaseStays'
      BY <2>1 DEF JInv, BaseStays, Creating
    <2> QED BY <2>2, <2>3 DEF JInv
  <1>7. CASE Grow
    <2> DEFINE new == CHOOSE t \in Threads \ BaseThreads : list[t] \in {"none", "finished"}
    <2>1. new \in Threads \ BaseThreads /\ list[new] \in {"none", "finished"}
      BY <1>7, FreeThread DEF Grow
    <2>2. /\ \A t \in Threads : list'[t] = IF t = new THEN "dynamic"
                                           ELSE IF list[t] = "finished" THEN "none" ELSE list[t]
          /\ \A t \in Threads : st'[t] = IF t = new THEN "start"
                                         ELSE IF list[t] = "finished" THEN "none" ELSE st[t]
          /\ lpc = "clean" /\ lpc' = "notify" /\ UNCHANGED <<shutdown, idle, jobs, job, nextJob>>
          /\ \A t \in Threads : list[t] = "finished" => st[t] = "gone"
      BY <1>7 DEF Grow, CleanupReady, Joined, In
    <2> HIDE DEF new
    <2>3. st[new] \in {"none", "gone"}
      BY <2>1, <2>2 DEF IInv, Kept
    <2>4. QueueInOrder' /\ RunsOneJob'
      BY <2>1, <2>2, <2>3 DEF JInv, QueueInOrder, RunsOneJob
    <2>5. Spare'
      <3> DEFINE S == In("threads") \cup In("dynamic")
      <3>1. S \in SUBSET Threads /\ Cardinality(S) < Max
        BY <2>2 DEF IInv, Growing, HasRoom, In
      <3> HIDE DEF S
      <3>2. /\ Cardinality(S \cup {new}) = IF new \in S THEN Cardinality(S) ELSE Cardinality(S) + 1
            /\ Cardinality(S) \in Nat /\ S \cup {new} \in SUBSET Threads
        BY <2>1, <3>1, CountAdds, SubsetsFinite
      <3>3. Cardinality(S \cup {new}) # Max + 1
        BY <1>0, <3>1, <3>2
      <3>4. PICK u \in Threads : u \notin S \cup {new}
        BY <3>2, <3>3, ThreadsFinite
      <3>5. list[u] \in {"none", "finished"}
        BY <1>0, <2>2, <3>4 DEF S, In, Lists, IInv, Kept, Opened
      <3> QED BY <2>2, <3>4, <3>5 DEF Spare
    <2>6. BaseStays'
      BY <2>1, <2>2 DEF JInv, BaseStays, Creating
    <2> QED BY <2>4, <2>5, <2>6 DEF JInv
  <1> QED BY <1>1, <1>2, <1>3, <1>4, <1>5, <1>6, <1>7 DEF Listener

THEOREM JobsInvariance == Spec => [](IInv /\ JInv)
  <1>1. IInv /\ JInv /\ [Next]_vars => JInv'
    <2> SUFFICES ASSUME IInv, JInv, [Next]_vars PROVE JInv'
      OBVIOUS
    <2>1. CASE Ended \/ UNCHANGED vars
      <3>1. UNCHANGED vars
        BY <2>1 DEF Ended
      <3>2. In("threads")' = In("threads")
        BY <3>1 DEF vars, In
      <3> QED BY <3>1, <3>2 DEF vars, JInv, QueueInOrder, RunsOneJob, Spare, BaseStays
    <2> QED BY <2>1, ListenerJobs, WorkerJobs DEF Next
  <1> QED BY <1>1, InitJobs, Invariance, PTL DEF Spec

(***************************************************************************)
(* The step simulation.                                                    *)
(***************************************************************************)

Busy    == {job[t] : t \in {u \in Threads : job[u] # NoJob}}
Started == {j \in Jobs : j < nextJob} \ {jobs[i] : i \in 1..Len(jobs)}

\* A thread that begins a job finds less than Max that are being run.
LEMMA RoomToBegin ==
  ASSUME IInv, JInv, NEW t \in Threads, st[t] \in {"start", "woken", "timedout"}
  PROVE  Cardinality(Busy) < Max
  <1>1. PICK u \in Threads : list[u] \in {"none", "finished"}
    BY DEF JInv, Spare
  <1> DEFINE R == {v \in Threads : job[v] # NoJob}
  <1>2. R \in SUBSET (Threads \ {t, u})
    BY <1>1 DEF IInv, Kept, JInv, RunsOneJob
  <1>3. t # u
    BY <1>1 DEF IInv, Kept
  <1>4. Max \in Nat
    BY PoolAssumption
  <1>5. Cardinality((Threads \ {t}) \ {u}) = Max - 1 /\ IsFiniteSet((Threads \ {t}) \ {u})
    <2>1. Cardinality(Threads \ {t}) = Max
      BY <1>4, ThreadsFinite, CountRemoves
    <2> QED BY <1>1, <1>3, <1>4, <2>1, CountRemoves, SubsetsFinite
  <1>6. R \in SUBSET ((Threads \ {t}) \ {u})
    BY <1>2
  <1>7. IsFiniteSet(R) /\ Cardinality(R) \in Nat /\ Cardinality(R) <= Max - 1
    BY <1>5, <1>6, FS_Subset, FS_CardinalityType
  <1>8. Cardinality(Busy) <= Cardinality(R) /\ Cardinality(Busy) \in Nat
    <2> DEFINE f == [v \in R |-> job[v]]
    <2>1. f \in Surjection(R, Busy)
      BY DEF Surjection, Busy
    <2>2. IsFiniteSet(Busy) /\ Cardinality(Busy) <= Cardinality(R)
      BY <1>7, <2>1, FS_Surjection
    <2> QED BY <2>2, FS_CardinalityType
  <1> QED BY <1>4, <1>7, <1>8

\* Beginning a job is JobPool's Begin.
LEMMA BeginsRefines ==
  ASSUME IInv, JInv, NEW t \in Threads, Begins(t)
  PROVE  Pool!Begin
  <1>1. /\ Head(jobs) = nextJob - Len(jobs) /\ Head(jobs) \in Jobs
        /\ Len(jobs') = Len(jobs) - 1 /\ Len(jobs) \in Nat \ {0}
        /\ jobs' = Tail(jobs) /\ jobs' \in Seq(Jobs)
    BY TakesFirst DEF IInv, JInv, Begins
  <1>2. nextJob \in Nat /\ nextJob' = nextJob /\ lpc' = lpc
    BY PoolAssumption DEF IInv, TypeOK, Begins
  <1>3. Cardinality(Busy) < Max
    BY RoomToBegin DEF Begins
  <1>4. Busy' = Busy \cup {Head(jobs)}
    <2>1. \A u \in Threads : job'[u] = IF u = t THEN Head(jobs) ELSE job[u]
      BY DEF IInv, TypeOK, Begins
    <2>2. Head(jobs) # NoJob /\ job[t] = NoJob
      BY <1>1 DEF Jobs, NoJob, Begins, JInv, RunsOneJob
    <2> QED BY <2>1, <2>2 DEF Busy
  <1>5. Started' = Started \cup {Head(jobs)}
    <2>1. \A j \in Jobs : (\E i \in 1..Len(jobs) : jobs[i] = j) <=> (nextJob - Len(jobs) <= j /\ j < nextJob)
      <3> TAKE j \in Jobs
      <3>1. j \in Nat
        BY DEF Jobs
      <3>2. ASSUME nextJob - Len(jobs) <= j, j < nextJob PROVE \E i \in 1..Len(jobs) : jobs[i] = j
        <4> DEFINE i == j - (nextJob - Len(jobs)) + 1
        <4>1. i \in 1..Len(jobs)
          BY <1>1, <1>2, <3>1, <3>2
        <4>2. nextJob - Len(jobs) - 1 + i = j
          BY <1>1, <1>2, <3>1
        <4> HIDE DEF i
        <4>3. jobs[i] = j
          BY <4>1, <4>2 DEF JInv, QueueInOrder
        <4> QED BY <4>1, <4>3
      <3> QED BY <1>1, <1>2, <3>2 DEF JInv, QueueInOrder
    <2>2. \A j \in Jobs : (\E i \in 1..Len(jobs') : jobs'[i] = j) <=> (nextJob - Len(jobs) + 1 <= j /\ j < nextJob)
      <3>0. \A i \in 1..Len(jobs') : jobs'[i] = nextJob - Len(jobs') - 1 + i
        BY <1>1, TakesFirst DEF IInv, JInv, Begins
      <3> TAKE j \in Jobs
      <3>1. j \in Nat
        BY DEF Jobs
      <3>2. ASSUME nextJob - Len(jobs) + 1 <= j, j < nextJob PROVE \E i \in 1..Len(jobs') : jobs'[i] = j
        <4> DEFINE i == j - (nextJob - Len(jobs))
        <4>1. i \in 1..Len(jobs')
          BY <1>1, <1>2, <3>1, <3>2
        <4>2. nextJob - Len(jobs') - 1 + i = j
          BY <1>1, <1>2, <3>1
        <4> HIDE DEF i
        <4>3. jobs'[i] = j
          BY <3>0, <4>1, <4>2
        <4> QED BY <4>1, <4>3
      <3> QED BY <1>1, <1>2, <3>0, <3>2
    <2>3. \A j \in Jobs : j \in Started <=> j < nextJob - Len(jobs)
      BY <1>1, <1>2, <2>1 DEF Started, Jobs
    <2>4. \A j \in Jobs : j \in Started' <=> j < nextJob - Len(jobs) + 1
      BY <1>1, <1>2, <2>2 DEF Started, Jobs
    <2>5. Started \subseteq Jobs /\ Started' \subseteq Jobs
      BY DEF Started
    <2>6. ASSUME NEW j \in Jobs PROVE j \in Started' <=> (j \in Started \/ j = Head(jobs))
      <3>1. j \in Nat
        BY DEF Jobs
      <3> QED BY <1>1, <1>2, <2>3, <2>4, <3>1
    <2> QED BY <1>1, <2>5, <2>6
  <1>6. jobs # <<>> /\ jobs' = Tail(jobs) /\ lpc' = lpc
    BY DEF Begins
  <1>7. Pool!Cardinality(Busy) = Cardinality(Busy)
    BY DEF Pool!Cardinality, Cardinality
  <1> QED BY <1>3, <1>4, <1>5, <1>6, <1>7 DEF Pool!Begin, Busy, Started

\* Ending a job is JobPool's End, and what else a thread does is nothing to it.
LEMMA WorkerRefines ==
  ASSUME IInv, JInv, NEW t \in Threads, Worker(t)
  PROVE  Pool!Next \/ UNCHANGED Pool!vars
  <1>1. CASE Begins(t)
    BY <1>1, BeginsRefines DEF Pool!Next
  <1>2. CASE Finishes(t)
    <2>1. \A u \in Threads : job'[u] = IF u = t THEN NoJob ELSE job[u]
      BY <1>2 DEF IInv, TypeOK, Finishes
    <2>2. PICK j \in Jobs : j = job[t] /\ j # NoJob
      BY <1>2 DEF IInv, TypeOK, Finishes, JInv, RunsOneJob
    <2>3. Busy' = Busy \ {j} /\ j \in Busy
      BY <2>1, <2>2 DEF Busy, JInv, RunsOneJob
    <2>4. UNCHANGED <<jobs, nextJob, lpc>>
      BY <1>2 DEF Finishes
    <2>5. Pool!End(j)
      BY <2>3, <2>4 DEF Pool!End, Busy
    <2> QED BY <2>2, <2>5 DEF Pool!Next
  <1>3. CASE \E s \in States : Moves(t, s)
    <2>1. UNCHANGED <<jobs, nextJob, lpc, job>>
      BY <1>3 DEF Moves
    <2> QED BY <2>1 DEF Pool!vars
  <1> QED BY <1>1, <1>2, <1>3, WorkerKinds

\* Queueing a connection is Push; the end of shutdown, or of a constructor that
\* fails, is Close.
LEMMA ListenerRefines ==
  ASSUME IInv, JInv, Listener
  PROVE  Pool!Next \/ UNCHANGED Pool!vars
  <1>0. jobs \in Seq(Jobs) /\ Len(jobs) \in Nat /\ nextJob \in Nat
    BY PoolAssumption DEF IInv, TypeOK
  <1>1. CASE Enqueue
    <2>1. /\ lpc = "open" /\ lpc' \in {"clean", "notify"} /\ nextJob \in Jobs
          /\ jobs' = Append(jobs, nextJob) /\ nextJob' = nextJob + 1 /\ job' = job
      BY <1>1 DEF Enqueue
    <2>2. /\ Len(jobs') = Len(jobs) + 1 /\ jobs'[Len(jobs) + 1] = nextJob
          /\ \A i \in 1..Len(jobs) : jobs'[i] = jobs[i]
      BY <1>0, <2>1
    <2>3. \A i \in 1..Len(jobs) : jobs[i] # nextJob
      BY <1>0 DEF JInv, QueueInOrder
    <2>4. nextJob \notin Started
      BY <1>0 DEF Started
    <2>5. Started' = Started
      <3>1. ASSUME NEW j \in Jobs PROVE j \in Started' <=> j \in Started
        <4>1. j \in Nat
          BY DEF Jobs
        <4>2. (\E i \in 1..Len(jobs') : jobs'[i] = j) <=> (j = nextJob \/ \E i \in 1..Len(jobs) : jobs[i] = j)
          BY <1>0, <2>2
        <4> QED BY <1>0, <2>1, <4>1, <4>2 DEF Started
      <3>2. Started \subseteq Jobs /\ Started' \subseteq Jobs
        BY DEF Started
      <3> QED BY <3>1, <3>2
    <2>6. Pool!Push(nextJob)
      BY <2>1, <2>3, <2>4, <2>5 DEF Pool!Push, Started
    <2> QED BY <2>1, <2>6 DEF Pool!Next
  <1>2. CASE AbortJoin \/ JoinFinished
    <2>1. /\ UNCHANGED <<jobs, job, nextJob>>
          /\ \/ lpc = "abortjoin" /\ lpc' = "threw" /\ Joined("threads")
             \/ lpc = "lastclean" /\ lpc' = "done" /\ Joined("finished")
      BY <1>2 DEF AbortJoin, JoinFinished, CleanupReady
    <2>2. jobs = <<>>
      BY <2>1 DEF JInv, BaseStays, Creating
    <2>3. \A u \in Threads : st[u] \in {"none", "gone"}
      <3> TAKE u \in Threads
      <3>1. list[u] \in Lists
        BY DEF IInv, TypeOK, Lists
      <3>2. list[u] \in {"none", "threads", "finished"}
        BY <2>1, <3>1 DEF IInv, Kept, Creating, Lists
      <3>3. list[u] = "threads" => lpc = "abortjoin"
        BY <2>1 DEF IInv, Kept
      <3>4. list[u] = "finished" => lpc = "lastclean"
        BY <2>1 DEF IInv, Kept, Creating
      <3> QED BY <2>1, <3>2, <3>3, <3>4 DEF IInv, Kept, Joined, In
    <2>4. Busy = {}
      BY <2>3 DEF Busy, JInv, RunsOneJob
    <2>5. Pool!Close
      BY <2>1, <2>2, <2>4 DEF Pool!Close, Busy
    <2> QED BY <2>5 DEF Pool!Next
  <1>3. CASE \/ CreateBase \/ CreateFails \/ AbortNotify \/ Grow \/ GrowFails \/ Notify \/ Shutdown
             \/ ShutdownNotify \/ JoinBase \/ GrabDynamic \/ JoinDynamic
    <2>1. /\ UNCHANGED <<jobs, job, nextJob>>
          /\ lpc \notin {"threw", "done"} /\ lpc' \notin {"threw", "done"}
      BY <1>3 DEF CreateBase, CreateFails, AbortNotify, Grow, GrowFails, Notify, Shutdown,
         ShutdownNotify, JoinBase, GrabDynamic, JoinDynamic
    <2> QED BY <2>1 DEF Pool!vars
  <1> QED BY <1>1, <1>2, <1>3 DEF Listener

\* ThreadPool is a JobPool, for any pool and any number of connections: what the
\* listener of HttplibServer takes for granted.
THEOREM PoolImplementsJobPool == Spec => ImplementsJobPool
  <1>1. Init => Pool!Init
    <2> SUFFICES ASSUME Init PROVE Pool!Init OBVIOUS
    <2>1. /\ {job[t] : t \in {u \in Threads : job[u] # NoJob}} = {}
          /\ {j \in Jobs : j < nextJob} = {}
          /\ jobs = <<>> /\ lpc = "create"
      BY DEF Init, Jobs
    <2> QED BY <2>1 DEF Pool!Init
  <1>2. IInv /\ JInv /\ [Next]_vars => [Pool!Next]_Pool!vars
    <2> SUFFICES ASSUME IInv, JInv, [Next]_vars PROVE Pool!Next \/ UNCHANGED Pool!vars
      OBVIOUS
    <2>1. CASE Ended \/ UNCHANGED vars
      <3>1. UNCHANGED vars
        BY <2>1 DEF Ended
      <3> QED BY <3>1 DEF vars, Pool!vars
    <2> QED BY <2>1, ListenerRefines, WorkerRefines DEF Next
  <1> QED BY <1>1, <1>2, JobsInvariance, PTL DEF Spec, ImplementsJobPool, Pool!Spec
=============================================================================

--------------------------- MODULE HttplibServer ---------------------------
(***************************************************************************)
(* The embedded cpp-httplib server (src/include/httplib.h) as the          *)
(* extension uses it: one httplib::Server object, its listening            *)
(* descriptor, the thread that runs listen_internal, the pool that runs    *)
(* process_and_close_socket, and the HTTP connections themselves.          *)
(*                                                                         *)
(* The module gives the server's state and one action per step of its      *)
(* threads and of its clients.  It has no specification of its own: who    *)
(* creates the server, binds it, spawns its thread, stops it and answers   *)
(* its requests is the business of GraphServer, which extends this module. *)
(***************************************************************************)
EXTENDS Naturals, Sequences, FiniteSets

CONSTANTS
  Conns,         \* HTTP connections a client may open (slots, reused)
  Kinds,         \* the kinds of request the clients send
  PoolMax,       \* CPPHTTPLIB_THREAD_POOL_MAX_COUNT: threads of the pool
  KeepAliveMax   \* CPPHTTPLIB_KEEPALIVE_MAX_COUNT: requests per connection

ASSUME HttplibAssumption ==
  /\ PoolMax \in Nat \ {0}
  /\ KeepAliveMax \in Nat \ {0}

(***************************************************************************)
(* A server is named by the number of the session it was created for (1,   *)
(* 2, ...); so is the listening descriptor it opens (it opens one at       *)
(* most), and the token drawn for it.  0 stands for INVALID_SOCKET and for *)
(* the null unique_ptr.                                                    *)
(***************************************************************************)
None     == 0

Requests == [kind : Kinds, token : Nat]
NoReq    == [kind |-> "none", token |-> None]

VARIABLES
  svrSock,          \* svr_sock_
  isRunning,        \* is_running_
  isDecommissioned, \* is_decommissioned
  openFds,          \* listening descriptors this process has open
  doubleClose,      \* a descriptor was closed that was no longer open
  lpc,              \* where the thread of listen_internal is; "none": no thread
  lfd,              \* the value of svr_sock_ it passes to accept or close
  lret,             \* its local variable ret
  stopSock,         \* the local variable sock of stop()
  jobs,             \* jobs_ of the thread pool
  conn              \* the connections

httpVars ==
  <<svrSock, isRunning, isDecommissioned, openFds, doubleClose, lpc, lfd, lret,
    stopSock, jobs, conn>>

FreeConn ==
  [st |-> "free", fd |-> None, left |-> 0, req |-> NoReq, open |-> FALSE,
   last |-> FALSE]

WorkerStates == {"enter", "poll", "process", "stream", "close"}
ConnStates   == {"free", "backlog", "queued"} \cup WorkerStates
ListenerPcs  == {"none", "spawned", "loop", "accept", "failing", "closing",
                 "drain", "leave", "done"}

ConnRecords ==
  [st   : ConnStates,
   fd   : Nat,                  \* the listening descriptor it came in by
   left : 0..KeepAliveMax,      \* requests it may still send
   req  : Requests \cup {NoReq},
   open : BOOLEAN,              \* the client's end is open
   last : BOOLEAN]              \* the client sends no further request

HttpTypeOK ==
  /\ svrSock \in Nat
  /\ isRunning \in BOOLEAN
  /\ isDecommissioned \in BOOLEAN
  /\ openFds \in SUBSET Nat
  /\ doubleClose \in BOOLEAN
  /\ lpc \in ListenerPcs
  /\ lfd \in Nat
  /\ lret \in BOOLEAN
  /\ stopSock \in Nat
  /\ jobs \in Seq(Conns)
  /\ conn \in [Conns -> ConnRecords]

HttpInit ==
  /\ svrSock = None
  /\ isRunning = FALSE
  /\ isDecommissioned = FALSE
  /\ openFds = {}
  /\ doubleClose = FALSE
  /\ lpc = "none"
  /\ lfd = None
  /\ lret = TRUE
  /\ stopSock = None
  /\ jobs = <<>>
  /\ conn = [k \in Conns |-> FreeConn]

\* The connections a thread of the pool is working on.
Busy == {k \in Conns : conn[k].st \in WorkerStates}

\* The keep-alive counter (a size_t) is only decremented when it is positive.
KeepAliveCount ==
  \A k \in Conns : conn[k].st \in {"poll", "process", "stream"} => conn[k].left > 0

\* Connection k moves to st and nothing else about it changes.
Move(k, st) == conn' = [conn EXCEPT ![k].st = st]

\* A request on k has been answered: one round of the keep-alive loop is over.
NextRound(k, untilClose) ==
  conn' = [conn EXCEPT ![k].st = "enter", ![k].left = @ - 1, ![k].req = NoReq,
                       ![k].last = untilClose]

\* Mutant of CloseFd: the call of close is forgotten.
CloseFdForgotten(fd) ==
  /\ UNCHANGED <<openFds, doubleClose>>
  /\ conn' = [k \in Conns |->
                IF conn[k].st = "backlog" /\ conn[k].fd = fd THEN FreeConn
                ELSE conn[k]]

\* What closing fd does in the kernel: connections that wait to be accepted on
\* it are reset.  Closing INVALID_SOCKET does nothing.
CloseFd(fd) ==
  /\ openFds' = openFds \ {fd}
  /\ doubleClose' = (doubleClose \/ fd \notin openFds \cup {None})
  /\ conn' = [k \in Conns |->
                IF conn[k].st = "backlog" /\ conn[k].fd = fd THEN FreeConn
                ELSE conn[k]]

-----------------------------------------------------------------------------
(***************************************************************************)
(* The owner's operations on the server object.                            *)
(***************************************************************************)

\* Server(): atomics at their initial values, no socket.
ConstructServer ==
  /\ svrSock' = None
  /\ isRunning' = FALSE
  /\ isDecommissioned' = FALSE

\* bind_to_port: bind_internal refuses a decommissioned server without asking
\* the kernel, and any failure decommissions the server.
BindWorks(portFree) == ~isDecommissioned /\ portFree

BindToPort(fd, portFree) ==
  /\ IF BindWorks(portFree)
     THEN /\ svrSock' = fd
          /\ openFds' = openFds \cup {fd}
          /\ UNCHANGED isDecommissioned
     ELSE /\ svrSock' = None
          /\ isDecommissioned' = TRUE
          /\ UNCHANGED openFds
  /\ UNCHANGED <<isRunning, doubleClose, lpc, lfd, lret, stopSock, jobs, conn>>

\* The std::thread whose body is listen_after_bind starts.
SpawnListener ==
  /\ lpc' = "spawned"
  /\ UNCHANGED <<svrSock, isRunning, isDecommissioned, openFds, doubleClose, lfd,
                 lret, stopSock, jobs, conn>>

\* stop() with is_running_ read as true takes the socket away from the
\* listener ...
StopExchanges ==
  /\ stopSock' = svrSock
  /\ svrSock' = None
  /\ UNCHANGED <<isRunning, isDecommissioned, openFds, doubleClose, lpc, lfd,
                 lret, jobs, conn>>

\* Mutant of StopCloses: the socket is neither shut down nor closed.
StopClosesNothing ==
  /\ stopSock' = None
  /\ isDecommissioned' = FALSE
  /\ UNCHANGED <<svrSock, isRunning, openFds, doubleClose, lpc, lfd, lret, jobs, conn>>

\* ... and then shuts it down and closes it (nothing is accepted on it in
\* between the two).
StopCloses ==
  /\ CloseFd(stopSock)
  /\ stopSock' = None
  /\ isDecommissioned' = FALSE
  /\ UNCHANGED <<svrSock, isRunning, lpc, lfd, lret, jobs>>

\* stop() with is_running_ read as false: it only clears is_decommissioned.
StopDoesNothing ==
  /\ isDecommissioned' = FALSE
  /\ UNCHANGED <<svrSock, isRunning, openFds, doubleClose, lpc, lfd, lret,
                 stopSock, jobs, conn>>

\* Joining and destroying the thread and the server.  ~Server closes nothing.
DestroyServer ==
  /\ lpc' = "none"
  /\ svrSock' = None
  /\ isRunning' = FALSE
  /\ UNCHANGED <<isDecommissioned, openFds, doubleClose, lfd, lret, stopSock,
                 jobs, conn>>

-----------------------------------------------------------------------------
(***************************************************************************)
(* The thread of listen_internal.                                          *)
(***************************************************************************)

\* is_decommissioned is only written before this thread exists, by stop()
\* (which clears it) and by this thread, so testing it and setting
\* is_running_ are one step.
ListenStart ==
  /\ lpc = "spawned"
  /\ lret' = TRUE
  /\ IF isDecommissioned
     THEN lpc' = "done" /\ UNCHANGED isRunning
     ELSE lpc' = "loop" /\ isRunning' = TRUE
  /\ UNCHANGED <<svrSock, isDecommissioned, openFds, doubleClose, lfd, stopSock,
                 jobs, conn>>

\* svr_sock_ is read for the test and again for the call of accept; if stop()
\* comes in between, accept is given INVALID_SOCKET, which is AcceptWoken.
ListenLoop ==
  /\ lpc = "loop"
  /\ lpc' = IF svrSock # None THEN "accept" ELSE "drain"
  /\ lfd' = svrSock
  /\ UNCHANGED <<svrSock, isRunning, isDecommissioned, openFds, doubleClose,
                 lret, stopSock, jobs, conn>>

\* accept returns a connection, also while stop() is between its exchange and
\* the close; a job for it joins the queue of the pool (enqueue refuses only
\* after shutdown, or past a limit the extension leaves at 0).
AcceptConn(k) ==
  /\ lpc = "accept"
  /\ conn[k].st = "backlog"
  /\ conn[k].fd = lfd
  /\ Move(k, "queued")
  /\ jobs' = Append(jobs, k)
  /\ lpc' = "loop"
  /\ lfd' = None
  /\ UNCHANGED <<svrSock, isRunning, isDecommissioned, openFds, doubleClose, lret,
                 stopSock>>

\* accept fails and svr_sock_ is invalid: the server socket was closed by user.
AcceptWoken ==
  /\ lpc = "accept"
  /\ svrSock = None
  /\ lpc' = "drain"
  /\ lfd' = None
  /\ UNCHANGED <<svrSock, isRunning, isDecommissioned, openFds, doubleClose,
                 lret, stopSock, jobs, conn>>

\* Mutant of AcceptFails: svr_sock_ is taken away as stop() does.
AcceptFailsClearing ==
  /\ lpc = "accept"
  /\ svrSock # None
  /\ svrSock' = None
  /\ lpc' = "failing"
  /\ lfd' = None
  /\ UNCHANGED <<isRunning, isDecommissioned, openFds, doubleClose, lret,
                 stopSock, jobs, conn>>

\* accept fails for a reason other than EMFILE, EINTR and EAGAIN (which only
\* repeat the loop), and svr_sock_ is still valid.
AcceptFails ==
  /\ lpc = "accept"
  /\ svrSock # None
  /\ lpc' = "failing"
  /\ lfd' = None
  /\ UNCHANGED <<svrSock, isRunning, isDecommissioned, openFds, doubleClose,
                 lret, stopSock, jobs, conn>>

\* The loop reads svr_sock_ once more, for close_socket ...
FailingReads ==
  /\ lpc = "failing"
  /\ lpc' = "closing"
  /\ lfd' = svrSock
  /\ UNCHANGED <<svrSock, isRunning, isDecommissioned, openFds, doubleClose,
                 lret, stopSock, jobs, conn>>

\* Mutant of FailingCloses: the failure is not recorded in ret.
FailingClosesSilent ==
  /\ lpc = "closing"
  /\ CloseFd(lfd)
  /\ lpc' = "drain"
  /\ lfd' = None
  /\ UNCHANGED <<svrSock, isRunning, isDecommissioned, lret, stopSock, jobs>>

\* ... closes it, leaves its number in svr_sock_, and ends.
FailingCloses ==
  /\ lpc = "closing"
  /\ CloseFd(lfd)
  /\ lret' = FALSE
  /\ lpc' = "drain"
  /\ lfd' = None
  /\ UNCHANGED <<svrSock, isRunning, isDecommissioned, stopSock, jobs>>

\* Mutant of PoolDrained: the workers are not joined.
PoolDrainedUnjoined ==
  /\ lpc = "drain"
  /\ jobs = <<>>
  /\ lpc' = "leave"
  /\ UNCHANGED <<svrSock, isRunning, isDecommissioned, openFds, doubleClose,
                 lfd, lret, stopSock, jobs, conn>>

\* task_queue->shutdown() returns once the workers have emptied the queue and
\* every one of them has been joined.
PoolDrained ==
  /\ lpc = "drain"
  /\ jobs = <<>>
  /\ Busy = {}
  /\ lpc' = "leave"
  /\ UNCHANGED <<svrSock, isRunning, isDecommissioned, openFds, doubleClose,
                 lfd, lret, stopSock, jobs, conn>>

ListenReturns ==
  /\ lpc = "leave"
  /\ isDecommissioned' = ~lret
  /\ isRunning' = FALSE
  /\ lpc' = "done"
  /\ UNCHANGED <<svrSock, openFds, doubleClose, lfd, lret, stopSock, jobs, conn>>

-----------------------------------------------------------------------------
(***************************************************************************)
(* The threads of the pool: process_and_close_socket, which runs the       *)
(* keep-alive loop of process_server_socket_core.                          *)
(***************************************************************************)

connOnly ==
  UNCHANGED <<svrSock, isRunning, isDecommissioned, openFds, doubleClose, lpc,
              lfd, lret, stopSock>>

\* Mutant of TakeJob: the job stays at the front of the queue.
TakeJobKept ==
  /\ jobs # <<>>
  /\ Cardinality(Busy) < PoolMax
  /\ conn' = [conn EXCEPT ![Head(jobs)].st = "enter",
                          ![Head(jobs)].left = KeepAliveMax]
  /\ UNCHANGED jobs /\ connOnly

TakeJob ==
  /\ jobs # <<>>
  /\ Cardinality(Busy) < PoolMax
  /\ jobs' = Tail(jobs)
  /\ conn' = [conn EXCEPT ![Head(jobs)].st = "enter",
                          ![Head(jobs)].left = KeepAliveMax]
  /\ connOnly

\* select_read reports data, and also the end of the client's stream.
Readable(k) == conn[k].req # NoReq \/ ~conn[k].open

\* The head of the loop and keep_alive's first look at the connection, which
\* precedes its look at svr_sock_.
KeepAliveEnter(k) ==
  /\ conn[k].st = "enter"
  /\ Move(k, IF conn[k].left = 0 THEN "close"
             ELSE IF Readable(k) THEN "process" ELSE "poll")
  /\ UNCHANGED jobs /\ connOnly

\* keep_alive's loop: it gives up when the server socket is gone, whatever
\* has arrived since the first look.
KeepAlivePoll(k) ==
  /\ conn[k].st = "poll"
  /\ svrSock = None \/ Readable(k)
  /\ Move(k, IF svrSock = None THEN "close" ELSE "process")
  /\ UNCHANGED jobs /\ connOnly

\* Mutant of KeepAliveTimeout: the wait is not bounded.
KeepAliveForever(k) == FALSE

KeepAliveTimeout(k) ==
  /\ conn[k].st = "poll"
  /\ Move(k, "close")
  /\ UNCHANGED jobs /\ connOnly

\* process_request finds the connection closed by the client.
RequestLineMissing(k) ==
  /\ conn[k].st = "process"
  /\ conn[k].req = NoReq
  /\ Move(k, "close")
  /\ UNCHANGED jobs /\ connOnly

\* A response whose whole content is known is written at once; if the write
\* fails (the client has gone, or does not read), the loop is left.  An error
\* status carries "Connection: close", after which the client sends nothing
\* more, but the server does not leave the loop for it.
WriteWhole(k, isError) ==
  /\ NextRound(k, isError) \/ Move(k, "close")
  /\ UNCHANGED jobs /\ connOnly

\* A response with a content provider of unknown length: headers first.
BeginStream(k) ==
  /\ \E st \in {"stream", "close"} : Move(k, st)
  /\ UNCHANGED jobs /\ connOnly

\* The provider called done(): write_content_without_length returns true, and
\* the connection stays in the keep-alive loop although its client can only
\* see the end of the body when it is closed.
StreamDone(k) ==
  /\ conn[k].st = "stream"
  /\ NextRound(k, TRUE)
  /\ UNCHANGED jobs /\ connOnly

\* is_shutting_down(), a client that has gone, or a write that timed out.
StreamCut(k) ==
  /\ conn[k].st = "stream"
  /\ Move(k, "close")
  /\ UNCHANGED jobs /\ connOnly

CloseConn(k) ==
  /\ conn[k].st = "close"
  /\ conn' = [conn EXCEPT ![k] = FreeConn]
  /\ UNCHANGED jobs /\ connOnly

-----------------------------------------------------------------------------
(***************************************************************************)
(* The clients.  A browser sends one request at a time on a connection,    *)
(* and none on a connection whose answer it is still reading.              *)
(***************************************************************************)

Connect(k, fd) ==
  /\ conn[k].st = "free"
  /\ fd \in openFds
  /\ conn' = [conn EXCEPT ![k] = [FreeConn EXCEPT !.st = "backlog", !.fd = fd,
                                                  !.open = TRUE]]
  /\ UNCHANGED jobs /\ connOnly

SendRequest(k, r) ==
  /\ conn[k].open
  /\ ~conn[k].last
  /\ conn[k].st \in {"backlog", "queued", "enter", "poll"}
  /\ conn[k].req = NoReq
  /\ conn' = [conn EXCEPT ![k].req = r]
  /\ UNCHANGED jobs /\ connOnly

PeerCloses(k) ==
  /\ conn[k].open
  /\ conn' = [conn EXCEPT ![k].open = FALSE]
  /\ UNCHANGED jobs /\ connOnly

=============================================================================

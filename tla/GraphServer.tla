----------------------------- MODULE GraphServer -----------------------------
(***************************************************************************)
(* The extension's server life cycle (src/src/cosmograph_extension.cpp):   *)
(* the process-wide g_state and the mutex that guards it, the SQL clients  *)
(* that run serve_graph and stop_graph, the destructor of g_state at the   *)
(* exit of the process, and the routes registered with the HTTP server of  *)
(* HttplibServer.                                                          *)
(***************************************************************************)
EXTENDS HttplibServer

CONSTANTS
  Sql,            \* SQL clients, each with a connection of its own
  Main,           \* the thread that leaves main and destroys the statics
  PortMin,        \* 8080
  PortMax,        \* 8090
  MaxCalls        \* bound: calls of serve_graph and stop_graph

Free == "free"    \* nobody holds g_server_mutex

ASSUME GraphServerAssumption ==
  /\ Main \notin Sql /\ Free \notin Sql
  /\ PortMin \in Nat /\ PortMax \in Nat /\ PortMin <= PortMax
  /\ MaxCalls \in Nat

Ports  == PortMin..PortMax
Actors == Sql \cup {Main}

VARIABLES
  mutex,      \* who holds g_server_mutex
  server,     \* g_state.server: the session it was created for, 0 if null
  token,      \* g_state.token: the session it was drawn for
  pc,         \* where each actor is
  port,       \* the local variable port of ServeGraphFun
  reply,      \* the status row last returned to each SQL client
  issued,     \* number of tokens drawn
  calls,      \* number of calls made
  busyPorts,  \* ports the kernel refuses: other programs listen there
  noThread,   \* sessions whose std::thread could not be created
  served      \* pairs <<token presented, session whose data was given>>

stateVars == <<mutex, server, token, pc, port, reply, issued, calls, noThread>>
vars == <<httpVars, stateVars, busyPorts, served>>

ServePcs == {"serve", "bind", "spawn"}
StopPcs  == {"stop", "stopRead", "stopTake", "stopClose", "join"}
Locked   == {"bind", "spawn", "stopRead", "stopTake", "stopClose", "join"}
Replies  == {"none", "running", "already", "bindFailed", "threadFailed",
             "stopped", "notRunning"}

\* The destructor takes no lock.
Holders == {c \in Sql : pc[c] \in Locked}

StateTypeOK ==
  /\ mutex \in Sql \cup {Free}
  /\ server \in Nat
  /\ token \in Nat
  /\ pc \in [Actors -> {"idle", "gone"} \cup ServePcs \cup StopPcs]
  /\ port \in Ports
  /\ reply \in [Sql -> Replies]
  /\ issued \in Nat
  /\ calls \in Nat
  /\ busyPorts \in SUBSET Ports
  /\ noThread \in SUBSET Nat
  /\ served \in SUBSET (Nat \X Nat)

TypeOK == HttpTypeOK /\ KeepAliveCount /\ StateTypeOK

Init ==
  /\ HttpInit
  /\ mutex = Free
  /\ server = None
  /\ token = None
  /\ pc = [a \in Actors |-> "idle"]
  /\ port = PortMin
  /\ reply = [c \in Sql |-> "none"]
  /\ issued = 0
  /\ calls = 0
  /\ busyPorts \in SUBSET Ports
  /\ noThread = {}
  /\ served = {}

-----------------------------------------------------------------------------
(***************************************************************************)
(* serve_graph and stop_graph.                                             *)
(***************************************************************************)

Goto(a, l) == pc' = [pc EXCEPT ![a] = l]

\* The function returns r to c; the lock_guard, if it holds the mutex, goes.
Return(c, r) ==
  /\ Goto(c, "idle")
  /\ reply' = [reply EXCEPT ![c] = r]
  /\ mutex' = Free

\* A call comes in; what it does before it has the mutex is local to it.
Call(c, f) ==
  /\ pc[c] = "idle"
  /\ pc[Main] = "idle"
  /\ calls < MaxCalls
  /\ calls' = calls + 1
  /\ Goto(c, f)
  /\ UNCHANGED <<httpVars, mutex, server, token, port, reply, issued, busyPorts,
                 noThread, served>>

\* Mutant of ServeRefused: the token is drawn before g_state.server is looked at.
ServeRefusedRotating(c) ==
  /\ pc[c] = "serve"
  /\ mutex = Free
  /\ server # None
  /\ issued' = issued + 1
  /\ token' = issued'
  /\ Return(c, "already")
  /\ UNCHANGED <<httpVars, server, port, calls, busyPorts, noThread, served>>

ServeRefused(c) ==
  /\ pc[c] = "serve"
  /\ mutex = Free
  /\ server # None
  /\ Return(c, "already")
  /\ UNCHANGED <<httpVars, server, token, port, issued, calls, busyPorts,
                 noThread, served>>

\* A token is drawn, the server is constructed and its routes are registered.
ServeCreates(c) ==
  /\ pc[c] = "serve"
  /\ mutex = Free
  /\ server = None
  /\ mutex' = c
  /\ issued' = issued + 1
  /\ token' = issued'
  /\ server' = issued'
  /\ ConstructServer
  /\ port' = PortMin
  /\ Goto(c, "bind")
  /\ UNCHANGED <<openFds, doubleClose, lpc, lfd, lret, stopSock, jobs, conn,
                 reply, calls, busyPorts, noThread, served>>

\* One round of the loop over the ports.
ServeBinds(c) ==
  /\ pc[c] = "bind"
  /\ BindToPort(server, port \notin busyPorts)
  /\ \/ /\ svrSock' # None
        /\ Goto(c, "spawn")
        /\ UNCHANGED <<mutex, server, port, reply>>
     \/ /\ svrSock' = None
        /\ port < PortMax
        /\ port' = port + 1
        /\ UNCHANGED <<mutex, server, pc, reply>>
     \/ /\ svrSock' = None
        /\ port = PortMax
        /\ server' = None
        /\ Return(c, "bindFailed")
        /\ UNCHANGED port
  /\ UNCHANGED <<token, issued, calls, busyPorts, noThread, served>>

ServeSpawns(c) ==
  /\ pc[c] = "spawn"
  /\ SpawnListener
  /\ Return(c, "running")
  /\ UNCHANGED <<server, token, port, issued, calls, busyPorts, noThread, served>>

\* The constructor of std::thread throws: g_state.server stays set.
ServeSpawnFails(c) ==
  /\ pc[c] = "spawn"
  /\ noThread' = noThread \cup {server}
  /\ Return(c, "threadFailed")
  /\ UNCHANGED <<httpVars, server, token, port, issued, calls, busyPorts, served>>

StopNotRunning(c) ==
  /\ pc[c] = "stop"
  /\ mutex = Free
  /\ server = None
  /\ Return(c, "notRunning")
  /\ UNCHANGED <<httpVars, server, token, port, issued, calls, busyPorts,
                 noThread, served>>

\* Mutant of StopEnters: without the lock_guard.
StopEntersUnlocked(c) ==
  /\ pc[c] = "stop"
  /\ server # None
  /\ mutex' = c
  /\ Goto(c, "stopRead")
  /\ UNCHANGED <<httpVars, server, token, port, reply, issued, calls, busyPorts,
                 noThread, served>>

StopEnters(c) ==
  /\ pc[c] = "stop"
  /\ mutex = Free
  /\ server # None
  /\ mutex' = c
  /\ Goto(c, "stopRead")
  /\ UNCHANGED <<httpVars, server, token, port, reply, issued, calls, busyPorts,
                 noThread, served>>

\* Server::stop reads is_running_ ...
StopReads(a) ==
  /\ pc[a] = "stopRead"
  /\ \/ isRunning /\ Goto(a, "stopTake") /\ UNCHANGED httpVars
     \/ ~isRunning /\ Goto(a, "join") /\ StopDoesNothing
  /\ UNCHANGED <<mutex, server, token, port, reply, issued, calls, busyPorts,
                 noThread, served>>

\* ... and if it was set takes the socket ...
StopTakesSocket(a) ==
  /\ pc[a] = "stopTake"
  /\ StopExchanges
  /\ Goto(a, "stopClose")
  /\ UNCHANGED <<mutex, server, token, port, reply, issued, calls, busyPorts,
                 noThread, served>>

\* ... and closes it.
StopClosesSocket(a) ==
  /\ pc[a] = "stopClose"
  /\ StopCloses
  /\ Goto(a, "join")
  /\ UNCHANGED <<mutex, server, token, port, reply, issued, calls, busyPorts,
                 noThread, served>>

\* Mutant of Joinable: the listener is not waited for.
Detached == TRUE

\* The thread has ended, or there is none.
Joinable == lpc \in {"none", "done"}

StopJoins(c) ==
  /\ c \in Sql
  /\ pc[c] = "join"
  /\ Joinable
  /\ DestroyServer
  /\ server' = None
  /\ Return(c, "stopped")
  /\ UNCHANGED <<token, port, issued, calls, busyPorts, noThread, served>>

-----------------------------------------------------------------------------
(***************************************************************************)
(* The process exits: ~ServerState, run by the thread that leaves main     *)
(* while no SQL call is in progress, then the end of the process.          *)
(***************************************************************************)

ExitBegins ==
  /\ \A a \in Actors : pc[a] = "idle"
  /\ Goto(Main, IF server # None THEN "stopRead" ELSE "join")
  /\ UNCHANGED <<httpVars, mutex, server, token, port, reply, issued, calls,
                 busyPorts, noThread, served>>

ExitJoins ==
  /\ pc[Main] = "join"
  /\ Joinable
  /\ lpc' = "none"
  /\ svrSock' = None
  /\ isRunning' = FALSE
  /\ server' = None
  /\ openFds' = {}
  /\ conn' = [k \in Conns |-> FreeConn]
  /\ Goto(Main, "gone")
  /\ UNCHANGED <<isDecommissioned, doubleClose, lfd, lret, stopSock, jobs, mutex,
                 token, port, reply, issued, calls, busyPorts, noThread, served>>

Gone == pc[Main] = "gone" /\ UNCHANGED vars

-----------------------------------------------------------------------------
(***************************************************************************)
(* The routes.  The handlers belong to the server that accepted the        *)
(* connection, the token they are checked against is in g_state.           *)
(***************************************************************************)

Guarded(r) == r.kind \in {"data", "details"}

Admitted(r) == Guarded(r) => r.token = token

Processing(k) == conn[k].st = "process" /\ conn[k].req # NoReq

\* The pre-routing handler answers 401.
Unauthorized(k) ==
  /\ Processing(k)
  /\ ~Admitted(conn[k].req)
  /\ WriteWhole(k, TRUE)
  /\ UNCHANGED <<stateVars, busyPorts, served>>

\* A handler refuses the parameters (400) or its query fails (500).
HandlerFails(k) ==
  /\ Processing(k)
  /\ Admitted(conn[k].req)
  /\ Guarded(conn[k].req)
  /\ WriteWhole(k, TRUE)
  /\ UNCHANGED <<stateVars, busyPorts, served>>

\* The assets, "/" and "/stop", and the answers of /config and /node_details.
HandlerAnswers(k) ==
  /\ Processing(k)
  /\ Admitted(conn[k].req)
  /\ conn[k].req.kind # "data"
  /\ WriteWhole(k, FALSE)
  /\ served' = IF Guarded(conn[k].req)
               THEN served \cup {<<conn[k].req.token, conn[k].fd>>} ELSE served
  /\ UNCHANGED <<stateVars, busyPorts>>

\* The /data/ routes hand a content provider to the server.
HandlerStreams(k) ==
  /\ Processing(k)
  /\ Admitted(conn[k].req)
  /\ conn[k].req.kind = "data"
  /\ BeginStream(k)
  /\ served' = served \cup {<<conn[k].req.token, conn[k].fd>>}
  /\ UNCHANGED <<stateVars, busyPorts>>

-----------------------------------------------------------------------------

\* Other programs take and leave the ports.
PortsChange ==
  /\ busyPorts' \in SUBSET Ports
  /\ UNCHANGED <<httpVars, stateVars, served>>

ServeStep(c) == ServeRefused(c) \/ ServeCreates(c) \/ ServeBinds(c)
                  \/ ServeSpawns(c) \/ ServeSpawnFails(c)

StopStep(a) == StopReads(a) \/ StopTakesSocket(a) \/ StopClosesSocket(a)
                 \/ StopJoins(a)

ListenerStep ==
  /\ \/ ListenStart \/ ListenLoop \/ AcceptWoken \/ AcceptFails
     \/ FailingReads \/ FailingCloses \/ PoolDrained \/ ListenReturns
     \/ \E k \in Conns : AcceptConn(k)
  /\ UNCHANGED <<stateVars, busyPorts, served>>

PoolStep(k) ==
  \/ /\ \/ KeepAliveEnter(k) \/ KeepAlivePoll(k) \/ KeepAliveTimeout(k)
        \/ RequestLineMissing(k) \/ StreamDone(k) \/ StreamCut(k) \/ CloseConn(k)
     /\ UNCHANGED <<stateVars, busyPorts, served>>
  \/ Unauthorized(k) \/ HandlerFails(k) \/ HandlerAnswers(k) \/ HandlerStreams(k)

PoolTakes == TakeJob /\ UNCHANGED <<stateVars, busyPorts, served>>

ClientStep(k) ==
  /\ \/ \E fd \in openFds : Connect(k, fd)
     \/ \E kd \in Kinds, t \in 1..issued :
          SendRequest(k, [kind |-> kd, token |-> t])
     \/ PeerCloses(k)
  /\ UNCHANGED <<stateVars, busyPorts, served>>

Next ==
  \/ \E c \in Sql :
       \/ Call(c, "serve") \/ Call(c, "stop")
       \/ ServeStep(c) \/ StopNotRunning(c) \/ StopEnters(c)
  \/ \E a \in Actors : StopStep(a)
  \/ ExitBegins \/ ExitJoins \/ Gone
  \/ ListenerStep \/ PoolTakes
  \/ \E k \in Conns : PoolStep(k) \/ ClientStep(k)
  \/ PortsChange

Spec == Init /\ [][Next]_vars

(***************************************************************************)
(* Fairness.  The operating system schedules every thread of the process,  *)
(* a call of SQL that has begun runs on, and so does the thread that       *)
(* leaves main.  Of a connection only the server's side is fair: its       *)
(* handler ends, its stream is done or cut (a write that makes no progress *)
(* times out), its keep-alive wait ends.  accept fails on a descriptor     *)
(* that has been shut down.  Nothing is assumed of the clients, of the     *)
(* calls still to be made, of other programs, and no failure is assumed to *)
(* happen: neither one of accept on an open descriptor nor that of the     *)
(* thread's creation.                                                      *)
(***************************************************************************)
ListenerFair ==
  /\ \/ ListenStart \/ ListenLoop \/ FailingReads \/ FailingCloses
     \/ PoolDrained \/ ListenReturns
     \/ lfd \notin openFds /\ (AcceptWoken \/ AcceptFails)
     \/ \E k \in Conns : AcceptConn(k)
  /\ UNCHANGED <<stateVars, busyPorts, served>>

SqlFair(c) ==
  \/ ServeRefused(c) \/ ServeCreates(c) \/ ServeBinds(c) \/ ServeSpawns(c)
  \/ StopNotRunning(c) \/ StopEnters(c)

Fairness ==
  /\ WF_vars(ListenerFair)
  /\ WF_vars(PoolTakes)
  /\ \A k \in Conns : WF_vars(PoolStep(k))
  /\ \A c \in Sql : WF_vars(SqlFair(c))
  /\ \A a \in Actors : WF_vars(StopStep(a))
  /\ WF_vars(ExitJoins)

FairSpec == Spec /\ Fairness

-----------------------------------------------------------------------------
(***************************************************************************)
(* Safety.                                                                 *)
(***************************************************************************)

\* g_server_mutex does its work: g_state is touched by one SQL call at a time,
\* and by the destructor only when no call is in progress.
OneOwner ==
  /\ \A c \in Holders : mutex = c
  /\ mutex # Free => mutex \in Holders
  /\ pc[Main] # "idle" => \A c \in Sql : pc[c] = "idle"

\* Every connection in the hands of the pool belongs to the server object that
\* g_state holds, whose handlers and svr_sock_ its thread is using: the object
\* is never destroyed, nor another put in its place, under a request.
HandlersOutlived ==
  \A k \in Conns :
    conn[k].st \in WorkerStates \cup {"queued"} =>
      /\ server # None
      /\ conn[k].fd = server
      /\ lpc \in {"loop", "accept", "failing", "closing", "drain"}

\* Graph data is only ever given to a request that carries the token of the
\* very session the data belongs to: an old browser tab never sees the graph
\* of a later session on the same port, and a second serve_graph never changes
\* the token of the session that is up.
SessionIsolation == \A p \in served : p[1] = p[2]

\* httplib asserts in stop() that svr_sock_ is valid whenever is_running_ was
\* found set (httplib.h:11222).
StopAssertion == \A a \in Actors : pc[a] = "stopTake" => svrSock # None

\* A port is given back: the only listening descriptor the process has open is
\* that of g_state.server, unless the session's thread could not be created.
PortsGivenBack == openFds \ noThread \subseteq {server}

-----------------------------------------------------------------------------
(***************************************************************************)
(* Why the safety properties hold: with the type invariant, the formulas   *)
(* of this section make them inductive.                                    *)
(***************************************************************************)

\* The life of a session, from the first bind to the join.  A server that is
\* not being started has a listener, unless its thread could not be created.
SessionLife ==
  /\ pc[Main] \notin ServePcs \cup {"stop"}
  /\ server # None => token = server /\ server <= issued
  /\ \A a \in Actors :
       /\ pc[a] \in Locked \ {"join"} => server # None
       /\ pc[a] = "join" /\ a # Main => server # None
       /\ pc[a] \in {"bind", "spawn"} => lpc = "none"
       /\ pc[a] = "spawn" => ~isDecommissioned
  /\ lpc # "none" => server # None
  /\ lpc = "spawned" => ~isDecommissioned
  /\ server # None /\ lpc = "none" =>
       server \in noThread \/ \E c \in Sql : pc[c] \in {"bind", "spawn"}

\* The listening socket is the one of the server that is up; only stop() takes
\* it away, on its way to the join.  The listener works with no other.
SocketOfSession ==
  /\ svrSock \in {None, server}
  /\ server # None /\ svrSock = None =>
       \E a \in Actors : pc[a] \in {"bind", "stopClose", "join"}
  /\ \A a \in Actors : pc[a] = "stopClose" => stopSock = server /\ svrSock = None
  /\ lfd \in {None, server}
  /\ lfd # None => lpc \in {"accept", "closing"}
  /\ lpc = "accept" => lfd = server
  /\ lpc = "closing" /\ lfd = None => svrSock = None

\* The socket is taken away, and not yet closed.
Closing == \E a \in Actors : pc[a] = "stopClose"

\* The descriptor is open until stop() or a failure of accept closes it.
DescriptorOfSession ==
  /\ \A fd \in openFds : fd # None /\ fd <= issued
  /\ \A a \in Actors : pc[a] = "bind" => server \notin openFds /\ svrSock = None
  /\ svrSock = None /\ lpc # "none" => server \notin openFds \/ Closing
  /\ lpc \in {"drain", "leave", "done"} => server \notin openFds \/ Closing
  /\ svrSock # None \/ Closing =>
       \/ server \in openFds
       \/ ~lret /\ lpc \in {"drain", "leave", "done"}

\* The queue of the pool holds each connection that waits in it once.
QueueOfPool ==
  /\ \A i \in 1..Len(jobs) : conn[jobs[i]].st = "queued"
  /\ \A i, j \in 1..Len(jobs) : jobs[i] = jobs[j] => i = j
  /\ \A k \in Conns :
       conn[k].st = "queued" => \E i \in 1..Len(jobs) : jobs[i] = k

Inv ==
  /\ TypeOK
  /\ OneOwner
  /\ SessionLife
  /\ SocketOfSession
  /\ DescriptorOfSession
  /\ QueueOfPool
  /\ HandlersOutlived
  /\ SessionIsolation
  /\ StopAssertion
  /\ PortsGivenBack

-----------------------------------------------------------------------------
(***************************************************************************)
(* Action properties.                                                      *)
(***************************************************************************)

\* ServeGraphFun writes g_state.token under g_server_mutex, the threads of the
\* pool read it without: it is never written while one of them may read it.
TokenNotRaced ==
  [][token' # token => Busy = {} /\ jobs = <<>> /\ lpc = "none"]_vars

\* A descriptor is closed a second time only when accept has failed: by a stop
\* that comes later (the listener leaves the number in svr_sock_), or by the
\* listener, if a stop comes between its last read of svr_sock_ and its close.
ClosedTwiceOnlyAfterFailure == [][doubleClose' # doubleClose => ~lret']_vars

-----------------------------------------------------------------------------
(***************************************************************************)
(* Liveness.                                                               *)
(***************************************************************************)

\* stop() that found the server running makes its caller return: the listener
\* leaves accept, every keep-alive wait and every stream ends, the pool is
\* joined and then the listener.
StopSeenRunningReturns ==
  \A a \in Actors : pc[a] = "stopTake" ~> pc[a] \in {"idle", "gone"}

\* Every connection that was accepted is closed in the end, whatever its
\* client does: no thread of the pool is held for ever.
AcceptedIsClosed ==
  \A k \in Conns : conn[k].st = "queued" ~> conn[k].st = "free"

-----------------------------------------------------------------------------
(***************************************************************************)
(* Refinement: the life cycle implements GraphService.                     *)
(***************************************************************************)

\* The session whose serve_graph has returned "running".
up == IF \/ server \in noThread
         \/ \E c \in Sql : pc[c] \in {"bind", "spawn"}
      THEN None ELSE server

call == [c \in Sql |-> CASE pc[c] \in ServePcs -> "serve"
                         [] pc[c] \in StopPcs -> "stop"
                         [] OTHER -> "idle"]

Service == INSTANCE GraphService WITH session <- up

\* What the SQL calls and the routes do is what GraphService allows.
ImplementsService == Service!Spec

-----------------------------------------------------------------------------
(***************************************************************************)
(* What the documentation and the messages say, and the code does not do.  *)
(***************************************************************************)

\* README.md:67: the server is stopped gracefully, and control returned, by
\* SELECT stop_graph().
StopReturns == \A c \in Sql : pc[c] = "stop" ~> pc[c] = "idle"

\* README.md:67: it is also stopped by navigating to /stop.
StopPageStops ==
  (\E k \in Conns : Processing(k) /\ conn[k].req.kind = "stop")
    ~> (Busy = {} /\ lpc \in {"none", "done"})

\* cosmograph_extension.cpp:652: "Failed to bind to any port between 8080 and
\* 8090." A port is given up only if another program had it.
OnlyBusyPortsSkipped ==
  [][\A c \in Sql : ServeBinds(c) /\ pc'[c] # "spawn" => port \in busyPorts]_vars

\* cosmograph_extension.cpp:517: "Server is already running."
AlreadyRunningIsTrue ==
  [][\A c \in Sql : ServeRefused(c) => lpc \notin {"none", "done"}]_vars

=============================================================================

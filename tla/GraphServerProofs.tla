-------------------------- MODULE GraphServerProofs --------------------------
(***************************************************************************)
(* Safety of GraphServer for any number of SQL clients, connections, ports *)
(* and calls.                                                              *)
(***************************************************************************)
EXTENDS GraphServer, TLAPS

(***************************************************************************)
(* Type correctness of the connections.                                    *)
(***************************************************************************)

ConnOK == conn \in [Conns -> ConnRecords] /\ KeepAliveCount

\* A connection stays well formed when it moves on, to a state in which the
\* keep-alive counter must be positive only if it is.
LEMMA MoveType ==
  ASSUME ConnOK, NEW k \in Conns, NEW st \in ConnStates, Move(k, st),
         st \in {"poll", "process", "stream"} => conn[k].left > 0
  PROVE  ConnOK'
  BY DEF ConnOK, ConnRecords, KeepAliveCount, Move

LEMMA FreeType == FreeConn \in ConnRecords
  BY HttplibAssumption DEF FreeConn, ConnRecords, ConnStates, None

LEMMA NextRoundType ==
  ASSUME ConnOK, NEW k \in Conns, NEW b \in BOOLEAN, NextRound(k, b),
         conn[k].st \in {"poll", "process", "stream"}
  PROVE  ConnOK'
  BY HttplibAssumption DEF ConnOK, ConnRecords, KeepAliveCount, NextRound, ConnStates, WorkerStates, NoReq, None

LEMMA CloseFdType ==
  ASSUME ConnOK, NEW fd, CloseFd(fd)
  PROVE  ConnOK'
  BY FreeType DEF ConnOK, KeepAliveCount, CloseFd, FreeConn

(***************************************************************************)
(* Type correctness of the server and of g_state.                          *)
(***************************************************************************)

LEMMA StateTypeStutter ==
  ASSUME StateTypeOK, UNCHANGED <<stateVars, busyPorts, served>>
  PROVE  StateTypeOK'
  BY DEF StateTypeOK, stateVars

LEMMA InitType == Init => TypeOK
<1> SUFFICES ASSUME Init PROVE TypeOK
  OBVIOUS
<1>1. HttpTypeOK
  <2>1. conn \in [Conns -> ConnRecords]
    BY FreeType DEF Init, HttpInit
  <2>2. jobs \in Seq(Conns) /\ lpc \in ListenerPcs /\ svrSock \in Nat
    BY DEF Init, HttpInit, ListenerPcs, None
  <2> QED
    BY <2>1, <2>2 DEF Init, HttpInit, HttpTypeOK
<1>2. KeepAliveCount
  BY DEF Init, HttpInit, KeepAliveCount, FreeConn
<1>3. StateTypeOK
  BY GraphServerAssumption DEF Init, StateTypeOK, None, Replies, Ports
<1> QED
  BY <1>1, <1>2, <1>3 DEF TypeOK

LEMMA SqlType ==
  ASSUME TypeOK, NEW c \in Sql,
         \/ Call(c, "serve") \/ Call(c, "stop")
         \/ ServeStep(c) \/ StopNotRunning(c) \/ StopEnters(c)
  PROVE  TypeOK'
<1> USE DEF TypeOK, ServePcs, StopPcs, Replies
<1> c \in Actors
  BY DEF Actors
<1>1. CASE Call(c, "serve") \/ Call(c, "stop")
  <2>1. PICK f \in {"serve", "stop"} : Call(c, f)
    BY <1>1
  <2> QED
    BY <2>1 DEF Call, Goto, HttpTypeOK, KeepAliveCount, StateTypeOK, httpVars
<1>2. CASE ServeRefused(c)
  BY <1>2 DEF ServeRefused, Return, Goto, HttpTypeOK, KeepAliveCount,
              StateTypeOK, httpVars
<1>3. CASE ServeCreates(c)
  <2>1. HttpTypeOK' /\ KeepAliveCount'
    BY <1>3 DEF ServeCreates, ConstructServer, HttpTypeOK, KeepAliveCount, None
  <2>2. StateTypeOK'
    BY <1>3, GraphServerAssumption DEF ServeCreates, Goto, StateTypeOK, Ports
  <2> QED
    BY <2>1, <2>2
<1>4. CASE ServeBinds(c)
  <2>1. HttpTypeOK' /\ KeepAliveCount'
    <3>1. svrSock' \in Nat /\ openFds' \in SUBSET Nat
      <4>1. \/ svrSock' = server /\ openFds' = openFds \cup {server}
            \/ svrSock' = None /\ openFds' = openFds
        BY <1>4 DEF ServeBinds, BindToPort
      <4>2. server \in Nat /\ svrSock \in Nat /\ openFds \in SUBSET Nat
        BY DEF HttpTypeOK, StateTypeOK
      <4>3. CASE openFds' = openFds \cup {server}
        BY <4>1, <4>2, <4>3 DEF None
      <4>4. CASE openFds' = openFds
        BY <4>1, <4>2, <4>4 DEF None
      <4> QED
        BY <4>1, <4>3, <4>4
    <3>2. isDecommissioned' \in BOOLEAN
      BY <1>4 DEF ServeBinds, BindToPort, HttpTypeOK
    <3> QED
      BY <1>4, <3>1, <3>2 DEF ServeBinds, BindToPort, HttpTypeOK, KeepAliveCount
  <2>2. StateTypeOK'
    BY <1>4, GraphServerAssumption DEF ServeBinds, Return, Goto, StateTypeOK, None, Ports
  <2> QED
    BY <2>1, <2>2
<1>5. CASE ServeSpawns(c)
  BY <1>5 DEF ServeSpawns, SpawnListener, Return, Goto, HttpTypeOK,
              KeepAliveCount, StateTypeOK, ListenerPcs
<1>6. CASE ServeSpawnFails(c)
  BY <1>6 DEF ServeSpawnFails, Return, Goto, HttpTypeOK, KeepAliveCount,
              StateTypeOK, httpVars
<1>7. CASE StopNotRunning(c)
  BY <1>7 DEF StopNotRunning, Return, Goto, HttpTypeOK, KeepAliveCount,
              StateTypeOK, httpVars
<1>8. CASE StopEnters(c)
  BY <1>8 DEF StopEnters, Goto, HttpTypeOK, KeepAliveCount, StateTypeOK, httpVars
<1> QED
  BY <1>1, <1>2, <1>3, <1>4, <1>5, <1>6, <1>7, <1>8 DEF ServeStep

LEMMA StopType ==
  ASSUME TypeOK, NEW a \in Actors,
         StopStep(a) \/ ExitBegins \/ ExitJoins \/ Gone \/ PortsChange
  PROVE  TypeOK'
<1> USE DEF TypeOK, StopPcs
<1>1. CASE StopReads(a)
  BY <1>1 DEF StopReads, StopDoesNothing, Goto, HttpTypeOK, KeepAliveCount,
              StateTypeOK, httpVars
<1>2. CASE StopTakesSocket(a)
  BY <1>2 DEF StopTakesSocket, StopExchanges, Goto, HttpTypeOK, KeepAliveCount,
               StateTypeOK, None
<1>3. CASE StopClosesSocket(a)
  <2>1. ConnOK'
    BY <1>3, CloseFdType DEF StopClosesSocket, StopCloses, ConnOK, HttpTypeOK
  <2>2. StateTypeOK'
    BY <1>3 DEF StopClosesSocket, Goto, StateTypeOK
  <2> QED
    BY <1>3, <2>1, <2>2 DEF StopClosesSocket, StopCloses, CloseFd, ConnOK, HttpTypeOK, None
<1>4. CASE StopJoins(a)
  BY <1>4 DEF StopJoins, DestroyServer, Return, Goto, HttpTypeOK, KeepAliveCount,
              StateTypeOK, ListenerPcs, Replies, None
<1>5. CASE ExitBegins
  BY <1>5 DEF ExitBegins, Goto, HttpTypeOK, KeepAliveCount, StateTypeOK, httpVars, Actors
<1>6. CASE ExitJoins
  <2>1. HttpTypeOK'
    BY <1>6, FreeType DEF ExitJoins, HttpTypeOK, ListenerPcs, None
  <2>2. KeepAliveCount' /\ StateTypeOK'
    BY <1>6 DEF ExitJoins, KeepAliveCount, FreeConn, StateTypeOK, Goto, Actors, None
  <2> QED
    BY <2>1, <2>2
<1>7. CASE Gone
  BY <1>7 DEF Gone, vars, httpVars, stateVars, HttpTypeOK, KeepAliveCount, StateTypeOK
<1>8. CASE PortsChange
  BY <1>8 DEF PortsChange, httpVars, stateVars, HttpTypeOK, KeepAliveCount, StateTypeOK
<1> QED
  BY <1>1, <1>2, <1>3, <1>4, <1>5, <1>6, <1>7, <1>8 DEF StopStep

LEMMA ListenerType ==
  ASSUME TypeOK, ListenerStep
  PROVE  TypeOK'
<1> USE DEF TypeOK, ListenerPcs
<1>1. StateTypeOK'
  BY StateTypeStutter DEF ListenerStep
<1>2. CASE ListenStart
  BY <1>1, <1>2 DEF ListenStart, HttpTypeOK, KeepAliveCount
<1>3. CASE ListenLoop
  BY <1>1, <1>3 DEF ListenLoop, HttpTypeOK, KeepAliveCount
<1>4. CASE AcceptWoken
  BY <1>1, <1>4 DEF AcceptWoken, HttpTypeOK, KeepAliveCount, None
<1>5. CASE AcceptFails
  BY <1>1, <1>5 DEF AcceptFails, HttpTypeOK, KeepAliveCount, None
<1>6. CASE FailingReads
  BY <1>1, <1>6 DEF FailingReads, HttpTypeOK, KeepAliveCount
<1>7. CASE FailingCloses
  <2>1. ConnOK'
    BY <1>7, CloseFdType DEF FailingCloses, ConnOK, HttpTypeOK
  <2> QED
    BY <1>1, <1>7, <2>1 DEF FailingCloses, CloseFd, ConnOK, HttpTypeOK, None
<1>8. CASE PoolDrained
  BY <1>1, <1>8 DEF PoolDrained, HttpTypeOK, KeepAliveCount
<1>9. CASE ListenReturns
  BY <1>1, <1>9 DEF ListenReturns, HttpTypeOK, KeepAliveCount
<1>10. ASSUME NEW k \in Conns, AcceptConn(k) PROVE TypeOK'
  <2>1. ConnOK'
    BY <1>10, MoveType DEF AcceptConn, ConnOK, HttpTypeOK, ConnStates
  <2> QED
    BY <1>1, <1>10, <2>1 DEF AcceptConn, ConnOK, HttpTypeOK, None
<1> QED
  BY <1>2, <1>3, <1>4, <1>5, <1>8, <1>9, <1>10, <1>7, <1>6 DEF ListenerStep

LEMMA PoolType ==
  ASSUME TypeOK, PoolTakes
  PROVE  TypeOK'
<1>1. jobs \in Seq(Conns) /\ jobs # <<>>
  BY DEF TypeOK, HttpTypeOK, PoolTakes, TakeJob
<1>2. Head(jobs) \in Conns /\ Tail(jobs) \in Seq(Conns)
  BY <1>1
<1>3. ConnOK'
  <2>1. PICK k \in Conns :
          conn' = [conn EXCEPT ![k].st = "enter", ![k].left = KeepAliveMax]
    BY <1>2 DEF PoolTakes, TakeJob
  <2>2. conn \in [Conns -> ConnRecords] /\ KeepAliveCount
    BY DEF TypeOK, HttpTypeOK
  <2>3. KeepAliveMax \in 0..KeepAliveMax /\ "enter" \in ConnStates
    BY HttplibAssumption DEF ConnStates, WorkerStates
  <2>4. conn' \in [Conns -> ConnRecords]
    BY <2>1, <2>2, <2>3 DEF ConnRecords
  <2>5. KeepAliveCount'
    BY <2>1, <2>2 DEF KeepAliveCount, ConnRecords
  <2> QED
    BY <2>4, <2>5 DEF ConnOK
<1> QED
  BY <1>2, <1>3, StateTypeStutter
  DEF TypeOK, HttpTypeOK, ConnOK, PoolTakes, TakeJob, connOnly

\* What a thread of the pool or a client does to a connection.
LEMMA ConnType ==
  ASSUME TypeOK, NEW k \in Conns, PoolStep(k) \/ ClientStep(k)
  PROVE  ConnOK'
<1> USE DEF TypeOK, HttpTypeOK, ConnOK, ConnStates, WorkerStates
<1> ConnOK
  OBVIOUS
<1>1. CASE KeepAliveEnter(k)
  BY <1>1, MoveType DEF KeepAliveEnter, ConnRecords
<1>2. CASE KeepAlivePoll(k) \/ KeepAliveTimeout(k) \/ RequestLineMissing(k)
             \/ StreamCut(k)
  BY <1>2, MoveType DEF KeepAlivePoll, KeepAliveTimeout, RequestLineMissing, StreamCut,
     KeepAliveCount
<1>3. CASE StreamDone(k)
  BY <1>3, NextRoundType DEF StreamDone
<1>4. CASE CloseConn(k)
  BY <1>4, FreeType DEF CloseConn, KeepAliveCount, FreeConn
<1>5. ASSUME Processing(k), NEW b \in BOOLEAN, WriteWhole(k, b) PROVE ConnOK'
  BY <1>5, NextRoundType, MoveType DEF Processing, WriteWhole
<1>6. CASE Unauthorized(k) \/ HandlerFails(k) \/ HandlerAnswers(k)
  BY <1>5, <1>6 DEF Unauthorized, HandlerFails, HandlerAnswers
<1>7. CASE HandlerStreams(k)
  BY <1>7, MoveType DEF HandlerStreams, BeginStream, Processing, KeepAliveCount
<1>8. ASSUME NEW fd \in openFds, Connect(k, fd) PROVE ConnOK'
  BY <1>8, FreeType DEF Connect, KeepAliveCount, FreeConn, ConnRecords
<1>9. ASSUME NEW kd \in Kinds, NEW t \in 1..issued,
             SendRequest(k, [kind |-> kd, token |-> t])
      PROVE  ConnOK'
  <2>1. [kind |-> kd, token |-> t] \in Requests
    BY DEF Requests, StateTypeOK
  <2> QED
    BY SMTT(40), <1>9, <2>1 DEF SendRequest, KeepAliveCount, ConnRecords
<1>10. CASE PeerCloses(k)
  BY <1>10 DEF PeerCloses, KeepAliveCount, ConnRecords
<1> QED
  BY <1>1, <1>2, <1>3, <1>4, <1>6, <1>7, <1>8, <1>9, <1>10 DEF PoolStep, ClientStep

\* ... and nothing else, but the history of what was served.
LEMMA ConnStepFrame ==
  ASSUME NEW k \in Conns, PoolStep(k) \/ ClientStep(k)
  PROVE  /\ UNCHANGED <<svrSock, isRunning, isDecommissioned, openFds, doubleClose,
                         lpc, lfd, lret, stopSock, jobs>>
         /\ UNCHANGED <<stateVars, busyPorts>>
<1> USE DEF connOnly
<1>1. CASE ClientStep(k)
  BY <1>1 DEF ClientStep, Connect, SendRequest, PeerCloses
<1>2. CASE PoolStep(k)
  <2>1. CASE Unauthorized(k) \/ HandlerFails(k) \/ HandlerAnswers(k)
    BY <2>1 DEF Unauthorized, HandlerFails, HandlerAnswers, WriteWhole
  <2>2. CASE HandlerStreams(k)
    BY <2>2 DEF HandlerStreams, BeginStream
  <2> QED
    BY <1>2, <2>1, <2>2 DEF PoolStep, KeepAliveEnter, KeepAlivePoll, KeepAliveTimeout,
       RequestLineMissing, StreamDone, StreamCut, CloseConn
<1> QED
  BY <1>1, <1>2

\* A pair is only recorded for an admitted request on a connection that a
\* thread of the pool is processing.
LEMMA ServedStep ==
  ASSUME NEW k \in Conns, PoolStep(k) \/ ClientStep(k)
  PROVE  \/ served' = served
         \/ /\ Processing(k)
            /\ conn[k].req.token = token
            /\ served' = served \cup {<<conn[k].req.token, conn[k].fd>>}
<1>1. CASE ClientStep(k)
  BY <1>1 DEF ClientStep
<1>2. CASE PoolStep(k)
  <2>1. CASE HandlerAnswers(k)
    BY <2>1 DEF HandlerAnswers, Admitted
  <2>2. CASE HandlerStreams(k)
    BY <2>2 DEF HandlerStreams, Admitted, Guarded
  <2> QED
    BY <1>2, <2>1, <2>2 DEF PoolStep, Unauthorized, HandlerFails
<1> QED
  BY <1>1, <1>2

LEMMA ConnStepType ==
  ASSUME TypeOK, NEW k \in Conns, PoolStep(k) \/ ClientStep(k)
  PROVE  TypeOK'
<1>1. ConnOK'
  BY ConnType
<1>2. HttpTypeOK' /\ KeepAliveCount'
  BY <1>1, ConnStepFrame DEF TypeOK, HttpTypeOK, ConnOK
<1>3. served' \in SUBSET (Nat \X Nat)
  <2>1. ASSUME Processing(k), conn[k].req.token = token
        PROVE  <<conn[k].req.token, conn[k].fd>> \in Nat \X Nat
    BY <2>1 DEF TypeOK, HttpTypeOK, StateTypeOK, ConnRecords
  <2> QED
    BY <2>1, ServedStep DEF TypeOK, StateTypeOK
<1>4. StateTypeOK'
  BY <1>3, ConnStepFrame DEF TypeOK, StateTypeOK, stateVars
<1> QED
  BY <1>2, <1>4 DEF TypeOK

LEMMA NextType ==
  ASSUME TypeOK, [Next]_vars
  PROVE  TypeOK'
<1>1. CASE UNCHANGED vars
  BY <1>1 DEF vars, httpVars, stateVars, TypeOK, HttpTypeOK, KeepAliveCount, StateTypeOK
<1>2. CASE ExitBegins \/ ExitJoins \/ Gone \/ PortsChange
  BY <1>2, StopType DEF Actors
<1> QED
  BY <1>1, <1>2, SqlType, StopType, ListenerType, PoolType, ConnStepType DEF Next

\* The variables always have their types, and the keep-alive counter of a
\* connection is never decremented below 0.
THEOREM TypeCorrect == Spec => []TypeOK
  BY InitType, NextType, PTL DEF Spec

(***************************************************************************)
(* The inductive invariant, one group of actions at a time.                *)
(***************************************************************************)

\* The connections in the hands of the pool, or waiting for it.
Accepted == WorkerStates \cup {"queued"}

\* A thread of the pool, or a client, takes no connection into the queue or
\* out of it, and none into the pool.
LEMMA ConnStepMoves ==
  ASSUME TypeOK, NEW k \in Conns, PoolStep(k) \/ ClientStep(k)
  PROVE  \A j \in Conns :
           /\ conn'[j].st = "queued" <=> conn[j].st = "queued"
           /\ conn'[j].st \in Accepted =>
                conn[j].st \in Accepted /\ conn'[j].fd = conn[j].fd
<1> USE DEF Accepted, WorkerStates
<1>0. conn \in [Conns -> ConnRecords]
  BY DEF TypeOK, HttpTypeOK
<1>1. ASSUME NEW st \in WorkerStates, Move(k, st), conn[k].st \in WorkerStates
      PROVE  \A j \in Conns :
               /\ conn'[j].st = "queued" <=> conn[j].st = "queued"
               /\ conn'[j].st \in Accepted =>
                    conn[j].st \in Accepted /\ conn'[j].fd = conn[j].fd
  BY <1>0, <1>1 DEF Move, ConnRecords
<1>2. ASSUME NEW b \in BOOLEAN, NextRound(k, b), conn[k].st \in WorkerStates
      PROVE  \A j \in Conns :
               /\ conn'[j].st = "queued" <=> conn[j].st = "queued"
               /\ conn'[j].st \in Accepted =>
                    conn[j].st \in Accepted /\ conn'[j].fd = conn[j].fd
  BY <1>0, <1>2 DEF NextRound, ConnRecords
<1>3. CASE KeepAliveEnter(k) \/ KeepAlivePoll(k) \/ KeepAliveTimeout(k)
             \/ RequestLineMissing(k) \/ StreamCut(k) \/ HandlerStreams(k)
  BY <1>1, <1>3 DEF KeepAliveEnter, KeepAlivePoll, KeepAliveTimeout,
     RequestLineMissing, StreamCut, HandlerStreams, BeginStream, Processing
<1>4. CASE Unauthorized(k) \/ HandlerFails(k) \/ HandlerAnswers(k)
  BY <1>1, <1>2, <1>4 DEF Unauthorized, HandlerFails, HandlerAnswers, WriteWhole,
     Processing
<1>5. CASE StreamDone(k)
  BY <1>2, <1>5 DEF StreamDone
<1>6. CASE CloseConn(k)
  BY <1>0, <1>6 DEF CloseConn, FreeConn
<1>7. CASE ClientStep(k)
  <2>1. ASSUME NEW fd \in openFds, Connect(k, fd)
        PROVE  /\ conn[k].st = "free" /\ conn'[k].st = "backlog"
               /\ \A j \in Conns \ {k} : conn'[j] = conn[j]
    BY <1>0, <2>1 DEF Connect, FreeConn, ConnRecords
  <2>2. ASSUME NEW r, SendRequest(k, r) \/ PeerCloses(k)
        PROVE  \A j \in Conns : conn'[j].st = conn[j].st /\ conn'[j].fd = conn[j].fd
    BY <1>0, <2>2 DEF SendRequest, PeerCloses, ConnRecords
  <2> QED
    BY <1>7, <2>1, <2>2 DEF ClientStep
<1> QED
  BY <1>3, <1>4, <1>5, <1>6, <1>7 DEF PoolStep

LEMMA ConnStepInv ==
  ASSUME Inv, NEW k \in Conns, PoolStep(k) \/ ClientStep(k)
  PROVE  Inv'
<1>0. TypeOK
  BY DEF Inv
<1>1. TypeOK'
  BY <1>0, ConnStepType
<1>2. /\ UNCHANGED <<svrSock, isRunning, isDecommissioned, openFds, lpc, lfd, lret,
                  stopSock, jobs>>
      /\ UNCHANGED stateVars
  BY ConnStepFrame
<1>3. (OneOwner /\ SessionLife /\ SocketOfSession)'
  BY <1>2 DEF Inv, OneOwner, Holders, SessionLife, SocketOfSession, stateVars
<1>4. (DescriptorOfSession /\ StopAssertion /\ PortsGivenBack)'
  BY <1>2 DEF Inv, DescriptorOfSession, Closing, StopAssertion, PortsGivenBack, stateVars
<1>5. QueueOfPool'
  <2>1. jobs \in Seq(Conns)
    BY <1>0 DEF TypeOK, HttpTypeOK
  <2> QED
    BY <1>0, <1>2, <2>1, ConnStepMoves DEF Inv, QueueOfPool
<1>6. HandlersOutlived'
  BY <1>0, <1>2, ConnStepMoves DEF Inv, HandlersOutlived, stateVars, Accepted
<1>7. SessionIsolation'
  <2>1. ASSUME Processing(k), conn[k].req.token = token
        PROVE  conn[k].fd = conn[k].req.token
    BY <2>1 DEF Inv, HandlersOutlived, SessionLife, Processing, WorkerStates
  <2> QED
    BY <2>1, ServedStep DEF Inv, SessionIsolation
<1> QED
  BY <1>1, <1>3, <1>4, <1>5, <1>6, <1>7 DEF Inv

LEMMA PoolTakesInv ==
  ASSUME Inv, PoolTakes
  PROVE  Inv'
<1>0. TypeOK
  BY DEF Inv
<1>1. TypeOK'
  BY <1>0, PoolType
<1>2. /\ UNCHANGED <<svrSock, isRunning, isDecommissioned, openFds, lpc, lfd, lret,
                  stopSock, served>>
      /\ UNCHANGED stateVars
  BY DEF PoolTakes, TakeJob, connOnly
<1>3. (OneOwner /\ SessionLife /\ SocketOfSession /\ SessionIsolation)'
  BY <1>2 DEF Inv, OneOwner, Holders, SessionLife, SocketOfSession, SessionIsolation,
     stateVars
<1>4. (DescriptorOfSession /\ StopAssertion /\ PortsGivenBack)'
  BY <1>2 DEF Inv, DescriptorOfSession, Closing, StopAssertion, PortsGivenBack, stateVars
<1>5. jobs \in Seq(Conns) /\ jobs # <<>> /\ conn \in [Conns -> ConnRecords]
  BY <1>0 DEF TypeOK, HttpTypeOK, PoolTakes, TakeJob
<1>6. PICK h \in Conns :
        /\ h = jobs[1]
        /\ conn' = [conn EXCEPT ![h].st = "enter", ![h].left = KeepAliveMax]
  <2>1. Head(jobs) \in Conns /\ Head(jobs) = jobs[1]
    BY <1>5
  <2> QED
    BY <2>1 DEF PoolTakes, TakeJob
<1>7. \A j \in Conns \ {h} : conn'[j] = conn[j]
  BY <1>5, <1>6
<1>8. conn'[h].st = "enter" /\ conn'[h].fd = conn[h].fd
  BY <1>5, <1>6 DEF ConnRecords
<1>9. conn[h].st = "queued"
  BY <1>5, <1>6 DEF Inv, QueueOfPool
<1>10. HandlersOutlived'
  BY <1>2, <1>7, <1>8, <1>9 DEF Inv, HandlersOutlived, stateVars
<1>11. QueueOfPool'
  <2>1. /\ Len(jobs') = Len(jobs) - 1
        /\ \A i \in 1..Len(jobs') : jobs'[i] = jobs[i + 1]
    BY <1>5 DEF PoolTakes, TakeJob
  <2>2. \A i \in 1..Len(jobs') : jobs'[i] \in Conns \ {h}
    BY <1>5, <1>6, <2>1 DEF Inv, QueueOfPool
  <2>3. \A i \in 1..Len(jobs') : conn'[jobs'[i]].st = "queued"
    BY <1>5, <1>7, <2>1, <2>2 DEF Inv, QueueOfPool
  <2>4. \A i, j \in 1..Len(jobs') : jobs'[i] = jobs'[j] => i = j
    BY <1>5, <2>1 DEF Inv, QueueOfPool
  <2>5. ASSUME NEW k \in Conns, conn'[k].st = "queued"
        PROVE  \E i \in 1..Len(jobs') : jobs'[i] = k
    <3>1. k # h /\ conn[k].st = "queued"
      BY <1>7, <1>8, <2>5
    <3>2. PICK i \in 1..Len(jobs) : jobs[i] = k
      BY <3>1 DEF Inv, QueueOfPool
    <3>3. i - 1 \in 1..Len(jobs') /\ jobs'[i - 1] = k
      BY <1>5, <1>6, <2>1, <3>1, <3>2
    <3> QED
      BY <3>3
  <2> QED
    BY <2>3, <2>4, <2>5 DEF QueueOfPool
<1> QED
  BY <1>1, <1>3, <1>4, <1>10, <1>11 DEF Inv

LEMMA ListenerInv ==
  ASSUME Inv, ListenerStep
  PROVE  Inv'
<1>0. TypeOK /\ conn \in [Conns -> ConnRecords] /\ jobs \in Seq(Conns)
  BY DEF Inv, TypeOK, HttpTypeOK
<1>1. TypeOK'
  BY <1>0, ListenerType
<1>2. UNCHANGED <<stateVars, busyPorts, served>>
  BY DEF ListenerStep
<1>3. OneOwner' /\ SessionIsolation'
  BY <1>2 DEF Inv, OneOwner, Holders, SessionIsolation, stateVars
\* All that most of its steps change is where the thread is.
<1> DEFINE Serving == {"loop", "accept", "failing", "closing"}
           Ending  == {"drain", "leave", "done"}
<1>4. ASSUME UNCHANGED <<svrSock, isDecommissioned, stopSock, openFds, jobs, conn>>,
             lpc \in {"spawned", "drain", "leave"} \cup Serving,
             lpc' \in Serving \cup Ending,
             lpc' = "done" => lpc = "leave",
             lpc' = "leave" => lpc = "drain" /\ jobs = <<>> /\ Busy = {},
             lpc' \in Serving => lpc \in {"spawned"} \cup Serving,
             lpc' = "drain" => svrSock = None,
             lret' = lret \/ lpc = "spawned",
             lfd' \in {None, svrSock},
             lfd' # None => lpc' \in {"accept", "closing"},
             lpc' = "accept" => lfd' # None,
             lpc' = "closing" => lfd' = svrSock
      PROVE  Inv'
  <2>1. SessionLife' /\ StopAssertion' /\ PortsGivenBack'
    BY <1>2, <1>4 DEF Inv, SessionLife, StopAssertion, PortsGivenBack, stateVars
  <2>2. SocketOfSession'
    BY <1>2, <1>4 DEF Inv, SocketOfSession, stateVars
  <2>3. DescriptorOfSession'
    <3>1. svrSock # None \/ Closing => server \in openFds \/ (~lret' /\ lpc' \in Ending)
      BY <1>4 DEF Inv, DescriptorOfSession
    <3>2. lpc' \in Ending => server \notin openFds \/ Closing
      BY <1>4 DEF Inv, DescriptorOfSession
    <3> QED
      BY <1>2, <1>4, <3>1, <3>2 DEF Inv, DescriptorOfSession, Closing, stateVars
  <2>4. QueueOfPool'
    BY <1>4 DEF Inv, QueueOfPool
  <2>5. HandlersOutlived'
    <3>1. ASSUME NEW k \in Conns, conn[k].st \in WorkerStates \cup {"queued"}
          PROVE  lpc' \notin {"leave", "done"}
      BY <1>4, <3>1 DEF Inv, HandlersOutlived, QueueOfPool, Busy
    <3> QED
      BY <1>2, <1>4, <3>1 DEF Inv, HandlersOutlived, stateVars
  <2> QED
    BY <1>1, <1>3, <2>1, <2>3, <2>4, <2>5, <2>2 DEF Inv
<1>5. /\ lpc \in {"spawned", "drain", "leave"} => lfd = None
      /\ lpc = "spawned" => ~isDecommissioned
  BY DEF Inv, SessionLife, SocketOfSession
<1>6. CASE ListenStart
  BY <1>4, <1>6, <1>5 DEF ListenStart
<1>7. CASE ListenLoop
  BY <1>4, <1>7 DEF ListenLoop
<1>8. CASE AcceptWoken
  BY <1>4, <1>8 DEF AcceptWoken
<1>9. CASE AcceptFails
  BY <1>4, <1>9 DEF AcceptFails
<1>10. CASE FailingReads
  BY <1>4, <1>10 DEF FailingReads
<1>11. CASE PoolDrained
  BY <1>4, <1>11, <1>5 DEF PoolDrained
<1>12. CASE ListenReturns
  <2>1. SessionLife' /\ StopAssertion' /\ PortsGivenBack'
    BY <1>2, <1>12 DEF ListenReturns, Inv, SessionLife, StopAssertion, PortsGivenBack,
       stateVars
  <2>2. SocketOfSession' /\ DescriptorOfSession'
    BY <1>2, <1>12 DEF ListenReturns, Inv, SocketOfSession, DescriptorOfSession, Closing,
       stateVars
  <2>3. QueueOfPool' /\ HandlersOutlived'
    BY <1>2, <1>12 DEF ListenReturns, Inv, QueueOfPool, HandlersOutlived
  <2> QED
    BY <1>1, <1>3, <2>1, <2>2, <2>3 DEF Inv
<1>13. CASE FailingCloses
  <2> USE <1>2, <1>13 DEF FailingCloses, stateVars
  <2>1. /\ lfd \in {None, server} /\ svrSock \in {None, server} /\ server # None
        /\ lfd = None => svrSock = None
    BY DEF Inv, SocketOfSession, SessionLife
  <2>2. openFds' = openFds \ {lfd} /\ lpc' = "drain" /\ ~lret'
    BY DEF CloseFd
  <2>3. \A k \in Conns :
          \/ conn'[k] = conn[k]
          \/ conn[k].st = "backlog" /\ conn'[k].st = "free"
    BY <1>0 DEF CloseFd, FreeConn
  <2>4. SessionLife' /\ StopAssertion' /\ PortsGivenBack'
    BY <2>1, <2>2 DEF Inv, SessionLife, StopAssertion, PortsGivenBack
  <2>5. SocketOfSession'
    BY <2>2 DEF Inv, SocketOfSession
  <2>6. DescriptorOfSession'
    <3>1. server \notin openFds' \/ Closing
      BY <2>1, <2>2 DEF Inv, DescriptorOfSession
    <3> QED
      BY <2>2, <3>1 DEF Inv, DescriptorOfSession, Closing
  <2>7. QueueOfPool'
    BY <1>0, <2>3 DEF Inv, QueueOfPool
  <2>8. HandlersOutlived'
    BY <2>2, <2>3 DEF Inv, HandlersOutlived, WorkerStates
  <2> QED
    BY <1>1, <1>3, <2>4, <2>6, <2>7, <2>8, <2>5 DEF Inv
<1>14. ASSUME NEW k \in Conns, AcceptConn(k) PROVE Inv'
  <2> USE <1>2, <1>14 DEF AcceptConn, stateVars
  <2>1. /\ conn[k].st = "backlog" /\ conn'[k].st = "queued"
        /\ conn'[k].fd = lfd
        /\ \A j \in Conns \ {k} : conn'[j] = conn[j]
    BY <1>0 DEF Move, ConnRecords
  <2>2. SessionLife' /\ SocketOfSession' /\ StopAssertion' /\ PortsGivenBack'
    BY DEF Inv, SessionLife, SocketOfSession, StopAssertion, PortsGivenBack
  <2>3. DescriptorOfSession'
    BY DEF Inv, DescriptorOfSession, Closing
  <2>4. lfd = server
    BY DEF Inv, SocketOfSession
  <2>5. HandlersOutlived'
    BY <2>1, <2>4 DEF Inv, SessionLife, HandlersOutlived, WorkerStates
  <2>6. QueueOfPool'
    <3>1. /\ Len(jobs') = Len(jobs) + 1 /\ Len(jobs) \in Nat
          /\ jobs'[Len(jobs) + 1] = k
          /\ \A i \in 1..Len(jobs) : jobs'[i] = jobs[i]
      BY <1>0
    <3>2. \A i \in 1..Len(jobs) : jobs[i] \in Conns \ {k}
      BY <1>0, <2>1 DEF Inv, QueueOfPool
    <3>3. \A i \in 1..Len(jobs') : conn'[jobs'[i]].st = "queued"
      BY <2>1, <3>1, <3>2 DEF Inv, QueueOfPool
    <3>4. \A i, j \in 1..Len(jobs') : jobs'[i] = jobs'[j] => i = j
      BY <3>1, <3>2 DEF Inv, QueueOfPool
    <3>5. ASSUME NEW j \in Conns, conn'[j].st = "queued"
          PROVE  \E i \in 1..Len(jobs') : jobs'[i] = j
      BY <2>1, <3>1, <3>5 DEF Inv, QueueOfPool
    <3> QED
      BY <3>3, <3>4, <3>5 DEF QueueOfPool
  <2> QED
    BY <1>1, <1>3, <2>2, <2>3, <2>5, <2>6 DEF Inv
<1> QED
  BY <1>6, <1>7, <1>8, <1>9, <1>10, <1>11, <1>12, <1>13, <1>14 DEF ListenerStep

LEMMA InitInv == Init => Inv
<1> SUFFICES ASSUME Init PROVE Inv
  OBVIOUS
<1> USE DEF Init, HttpInit, None
<1>1. TypeOK
  BY InitType
<1>2. OneOwner
  BY GraphServerAssumption DEF OneOwner, Holders, Locked, Actors
<1>3. SessionLife /\ StopAssertion /\ PortsGivenBack /\ SessionIsolation
  BY DEF SessionLife, StopAssertion, PortsGivenBack, SessionIsolation, Locked, ServePcs,
     Actors
<1>4. SocketOfSession /\ DescriptorOfSession
  BY DEF SocketOfSession, DescriptorOfSession, Closing, Actors
<1>5. QueueOfPool /\ HandlersOutlived
  BY DEF QueueOfPool, HandlersOutlived, FreeConn, WorkerStates
<1> QED
  BY <1>1, <1>2, <1>3, <1>4, <1>5 DEF Inv

\* When a client holds the mutex, no other is between lock and unlock, and the
\* destructor has not begun.
LEMMA Exclusive ==
  ASSUME Inv, NEW c \in Sql, pc[c] \in Locked
  PROVE  \A a \in Actors \ {c} : pc[a] \notin Locked
  BY DEF Inv, OneOwner, SessionLife, Holders, Locked, Actors

\* When the mutex is free and a call waits for it, nobody is in there.
LEMMA Outside ==
  ASSUME Inv, NEW c \in Sql, pc[c] \in {"serve", "stop"}, mutex = Free
  PROVE  \A a \in Actors : pc[a] \notin Locked
  BY GraphServerAssumption DEF Inv, OneOwner, Holders, Locked, Actors

LEMMA SqlOneOwner ==
  ASSUME Inv, NEW c \in Sql,
         \/ Call(c, "serve") \/ Call(c, "stop")
         \/ ServeStep(c) \/ StopNotRunning(c) \/ StopEnters(c)
  PROVE  OneOwner'
<1> USE DEF Inv, OneOwner, Holders, Locked
<1>0. /\ c \in Actors /\ Main \in Actors /\ c # Main /\ c # Free
      /\ pc \in [Actors -> {"idle", "gone"} \cup ServePcs \cup StopPcs]
      /\ Sql \subseteq Actors
  BY GraphServerAssumption DEF Actors, TypeOK, StateTypeOK
<1>1. CASE Call(c, "serve") \/ Call(c, "stop")
  BY <1>0, <1>1 DEF Call, Goto
<1>2. CASE ServeRefused(c) \/ StopNotRunning(c)
  BY <1>0, <1>2 DEF ServeRefused, StopNotRunning, Return, Goto
<1>3. CASE ServeCreates(c) \/ StopEnters(c)
  BY <1>0, <1>3, Outside DEF ServeCreates, StopEnters, Goto
<1>4. CASE ServeBinds(c)
  BY <1>0, <1>4, Exclusive DEF ServeBinds, Return, Goto
<1>5. CASE ServeSpawns(c) \/ ServeSpawnFails(c)
  BY <1>0, <1>5, Exclusive DEF ServeSpawns, ServeSpawnFails, Return, Goto
<1> QED
  BY <1>1, <1>2, <1>3, <1>4, <1>5 DEF ServeStep

\* A call that comes in, or ends without having done anything, or has only
\* taken the mutex.
LEMMA SqlQuietInv ==
  ASSUME Inv, NEW c \in Sql,
         \/ Call(c, "serve") \/ Call(c, "stop") \/ ServeRefused(c)
         \/ StopNotRunning(c) \/ StopEnters(c)
  PROVE  Inv'
<1>0. /\ c \in Actors /\ Main \in Actors /\ c # Main
      /\ pc \in [Actors -> {"idle", "gone"} \cup ServePcs \cup StopPcs]
  BY GraphServerAssumption DEF Inv, Actors, TypeOK, StateTypeOK
<1>1. TypeOK' /\ OneOwner'
  BY SqlType, SqlOneOwner DEF Inv, ServeStep
<1>2. /\ UNCHANGED <<httpVars, server, token, noThread, served>>
      /\ issued' = issued
      /\ \E l \in {"serve", "stop", "idle", "stopRead"} :
           /\ pc' = [pc EXCEPT ![c] = l]
           /\ l = "stopRead" => server # None
           /\ pc[c] \in {"idle", "serve", "stop"}
  BY DEF Call, ServeRefused, StopNotRunning, StopEnters, Return, Goto
<1>3. PICK l \in {"serve", "stop", "idle", "stopRead"} :
        /\ pc' = [pc EXCEPT ![c] = l]
        /\ l = "stopRead" => server # None
        /\ pc[c] \in {"idle", "serve", "stop"}
  BY <1>2
<1>4. \A a \in Actors :
        /\ \/ pc'[a] = pc[a]
           \/ {pc[a], pc'[a]} \cap {"bind", "spawn", "join", "stopTake", "stopClose"} = {}
        /\ pc'[a] = "stopRead" => server # None
  BY <1>0, <1>3 DEF Inv, SessionLife, Locked
<1>5. SessionLife'
  BY <1>0, <1>2, <1>3, <1>4 DEF Inv, SessionLife, Locked, httpVars, Actors
<1>6. SocketOfSession' /\ StopAssertion' /\ DescriptorOfSession'
  BY <1>2, <1>4 DEF Inv, SocketOfSession, StopAssertion, DescriptorOfSession, Closing,
     httpVars
<1>7. QueueOfPool' /\ HandlersOutlived' /\ PortsGivenBack' /\ SessionIsolation'
  BY <1>2 DEF Inv, QueueOfPool, HandlersOutlived, PortsGivenBack, SessionIsolation,
     httpVars
<1> QED
  BY <1>1, <1>5, <1>6, <1>7 DEF Inv

LEMMA ServeCreatesInv ==
  ASSUME Inv, NEW c \in Sql, ServeCreates(c)
  PROVE  Inv'
<1> USE DEF ServeCreates, ConstructServer, Goto
<1>0. /\ c \in Actors /\ Main \in Actors /\ c # Main
      /\ pc \in [Actors -> {"idle", "gone"} \cup ServePcs \cup StopPcs]
      /\ issued \in Nat /\ openFds \subseteq Nat
  BY GraphServerAssumption DEF Inv, Actors, TypeOK, StateTypeOK, HttpTypeOK
<1>1. TypeOK' /\ OneOwner'
  BY SqlType, SqlOneOwner DEF Inv, ServeStep
<1>2. lpc = "none" /\ \A a \in Actors : pc[a] \notin Locked
  BY Outside DEF Inv, SessionLife
<1>3. /\ server' = issued + 1 /\ token' = issued + 1 /\ issued' = issued + 1
      /\ server' # None /\ svrSock' = None
      /\ pc'[c] = "bind" /\ \A a \in Actors \ {c} : pc'[a] = pc[a]
  BY <1>0 DEF None
<1>4. SessionLife'
  BY <1>0, <1>2, <1>3 DEF Inv, SessionLife, Locked, ServePcs, Actors
<1>5. SocketOfSession' /\ StopAssertion'
  BY <1>0, <1>2, <1>3 DEF Inv, SocketOfSession, StopAssertion, Locked
<1>6. DescriptorOfSession'
  BY <1>0, <1>2, <1>3 DEF Inv, DescriptorOfSession, Closing, Locked
<1>7. QueueOfPool' /\ HandlersOutlived' /\ PortsGivenBack' /\ SessionIsolation'
  <2>1. openFds \subseteq noThread
    BY DEF Inv, PortsGivenBack, DescriptorOfSession
  <2> QED
    BY <2>1 DEF Inv, QueueOfPool, HandlersOutlived, PortsGivenBack, SessionIsolation
<1> QED
  BY <1>1, <1>4, <1>5, <1>6, <1>7 DEF Inv

LEMMA ServeBindsInv ==
  ASSUME Inv, NEW c \in Sql, ServeBinds(c)
  PROVE  Inv'
<1>0. /\ c \in Actors /\ Main \in Actors /\ c # Main
      /\ pc \in [Actors -> {"idle", "gone"} \cup ServePcs \cup StopPcs]
      /\ server \in Nat /\ issued \in Nat /\ openFds \subseteq Nat
  BY GraphServerAssumption DEF Inv, Actors, TypeOK, StateTypeOK, HttpTypeOK
<1>1. TypeOK' /\ OneOwner'
  BY SqlType, SqlOneOwner DEF Inv, ServeStep
<1>2. /\ pc[c] = "bind" /\ lpc = "none" /\ server # None
      /\ server \notin openFds /\ svrSock = None /\ server <= issued
      /\ \A a \in Actors \ {c} : pc[a] \notin Locked
  BY <1>0, Exclusive DEF ServeBinds, Inv, SessionLife, DescriptorOfSession, Locked
<1>3. /\ UNCHANGED <<isRunning, doubleClose, lpc, lfd, lret, stopSock, jobs, conn>>
      /\ UNCHANGED <<token, issued, noThread, served>>
  BY DEF ServeBinds, BindToPort
<1>4. \A a \in Actors \ {c} : pc'[a] = pc[a]
  BY <1>0 DEF ServeBinds, Return, Goto
\* The attempt succeeds, fails with ports left to try, or was the last one.
<1>5. \/ /\ ~isDecommissioned /\ ~isDecommissioned' /\ svrSock' = server
         /\ openFds' = openFds \cup {server} /\ pc'[c] = "spawn" /\ server' = server
      \/ /\ svrSock' = None /\ openFds' = openFds
         /\ \/ pc'[c] = "bind" /\ server' = server
            \/ pc'[c] = "idle" /\ server' = None
  BY <1>0, <1>2 DEF ServeBinds, BindToPort, BindWorks, Return, Goto
<1>6. SessionLife'
  BY <1>0, <1>2, <1>3, <1>4, <1>5 DEF Inv, SessionLife, Locked, ServePcs, Actors
<1>7. SocketOfSession' /\ StopAssertion'
  BY <1>0, <1>2, <1>3, <1>4, <1>5 DEF Inv, SocketOfSession, StopAssertion, Locked
<1>8. DescriptorOfSession'
  <2>1. \A fd \in openFds' : fd # None /\ fd <= issued
    BY <1>2, <1>5 DEF Inv, DescriptorOfSession
  <2>2. \A a \in Actors :
          pc'[a] = "bind" => a = c /\ server' \notin openFds' /\ svrSock' = None
    BY <1>2, <1>4, <1>5 DEF Locked
  <2>3. svrSock' # None => server' \in openFds'
    BY <1>5
  <2>4. ~Closing'
    BY <1>2, <1>4, <1>5 DEF Closing, Locked
  <2> QED
    BY <1>2, <1>3, <2>1, <2>2, <2>3, <2>4 DEF DescriptorOfSession
<1>9. QueueOfPool' /\ SessionIsolation'
  BY <1>3 DEF Inv, QueueOfPool, SessionIsolation
<1>10. HandlersOutlived'
  BY <1>2, <1>3 DEF Inv, HandlersOutlived
<1>11. PortsGivenBack'
  BY <1>2, <1>3, <1>5 DEF Inv, PortsGivenBack
<1> QED
  BY <1>1, <1>6, <1>7, <1>8, <1>9, <1>10, <1>11 DEF Inv

LEMMA ServeSpawnsInv ==
  ASSUME Inv, NEW c \in Sql, ServeSpawns(c) \/ ServeSpawnFails(c)
  PROVE  Inv'
<1>0. /\ c \in Actors /\ Main \in Actors /\ c # Main
      /\ pc \in [Actors -> {"idle", "gone"} \cup ServePcs \cup StopPcs]
  BY GraphServerAssumption DEF Inv, Actors, TypeOK, StateTypeOK
<1>1. TypeOK' /\ OneOwner'
  BY SqlType, SqlOneOwner DEF Inv, ServeStep
<1>2. /\ pc[c] = "spawn" /\ lpc = "none" /\ server # None /\ ~isDecommissioned
      /\ \A a \in Actors \ {c} : pc[a] \notin Locked
  BY <1>0, Exclusive DEF ServeSpawns, ServeSpawnFails, Inv, SessionLife, Locked
<1>3. /\ UNCHANGED <<svrSock, isDecommissioned, openFds, lfd, lret, stopSock, jobs, conn>>
      /\ UNCHANGED <<server, token, issued, served>>
      /\ pc'[c] = "idle" /\ \A a \in Actors \ {c} : pc'[a] = pc[a]
      /\ \/ lpc' = "spawned" /\ noThread' = noThread
         \/ lpc' = "none" /\ noThread' = noThread \cup {server}
  BY <1>0, <1>2 DEF ServeSpawns, ServeSpawnFails, SpawnListener, Return, Goto, httpVars
<1>4. SessionLife'
  BY <1>0, <1>2, <1>3 DEF Inv, SessionLife, Locked, Actors
<1>5. svrSock = server
  BY <1>0, <1>2 DEF Inv, SocketOfSession, Locked
<1>6. SocketOfSession' /\ StopAssertion'
  BY <1>2, <1>3, <1>5 DEF Inv, SocketOfSession, StopAssertion, Locked
<1>7. DescriptorOfSession'
  BY <1>2, <1>3, <1>5 DEF Inv, DescriptorOfSession, Closing, Locked
<1>8. QueueOfPool' /\ SessionIsolation'
  BY <1>3 DEF Inv, QueueOfPool, SessionIsolation
<1>9. HandlersOutlived' /\ PortsGivenBack'
  BY <1>2, <1>3 DEF Inv, HandlersOutlived, PortsGivenBack
<1> QED
  BY <1>1, <1>4, <1>6, <1>7, <1>8, <1>9 DEF Inv

\* Whoever is in stop() or joins, a client or the destructor, is alone.
LEMMA Alone ==
  ASSUME Inv, NEW a \in Actors, pc[a] \in {"stopRead", "stopTake", "stopClose", "join"}
  PROVE  \A b \in Actors \ {a} : pc[b] \notin Locked
<1>1. CASE a \in Sql
  BY <1>1, Exclusive DEF Locked
<1>2. CASE a = Main
  BY <1>2 DEF Inv, OneOwner, Locked, Actors
<1> QED
  BY <1>1, <1>2 DEF Actors

LEMMA StopReadsInv ==
  ASSUME Inv, NEW a \in Actors, StopReads(a)
  PROVE  Inv'
<1>0. /\ pc \in [Actors -> {"idle", "gone"} \cup ServePcs \cup StopPcs]
      /\ Sql \subseteq Actors /\ Main \in Actors
  BY DEF Inv, Actors, TypeOK, StateTypeOK
<1>1. TypeOK'
  BY StopType DEF Inv, StopStep
<1>2. /\ pc[a] = "stopRead" /\ server # None
      /\ \A b \in Actors \ {a} : pc[b] \notin Locked
  BY Alone DEF StopReads, Inv, SessionLife, Locked
<1>3. /\ UNCHANGED <<svrSock, openFds, lpc, lfd, lret, stopSock, jobs, conn>>
      /\ UNCHANGED <<mutex, server, token, issued, noThread, served>>
      /\ pc'[a] \in {"stopTake", "join"}
      /\ \A b \in Actors \ {a} : pc'[b] = pc[b]
      /\ isDecommissioned' => isDecommissioned
  BY <1>0 DEF StopReads, StopDoesNothing, Goto, httpVars
<1>4. OneOwner'
  BY <1>0, <1>2, <1>3 DEF Inv, OneOwner, Holders, Locked
<1>5. SessionLife'
  BY <1>0, <1>2, <1>3 DEF Inv, SessionLife, Locked, ServePcs
<1>6. svrSock = server
  BY <1>2 DEF Inv, SocketOfSession, Locked
<1>7. SocketOfSession' /\ StopAssertion'
  BY <1>2, <1>3, <1>6 DEF Inv, SocketOfSession, StopAssertion, Locked
<1>8. DescriptorOfSession'
  BY <1>2, <1>3 DEF Inv, DescriptorOfSession, Closing, Locked
<1>9. QueueOfPool' /\ SessionIsolation' /\ HandlersOutlived' /\ PortsGivenBack'
  BY <1>3 DEF Inv, QueueOfPool, SessionIsolation, HandlersOutlived, PortsGivenBack
<1> QED
  BY <1>1, <1>4, <1>5, <1>7, <1>8, <1>9 DEF Inv

LEMMA StopTakesSocketInv ==
  ASSUME Inv, NEW a \in Actors, StopTakesSocket(a)
  PROVE  Inv'
<1>0. /\ pc \in [Actors -> {"idle", "gone"} \cup ServePcs \cup StopPcs]
      /\ Sql \subseteq Actors /\ Main \in Actors
  BY DEF Inv, Actors, TypeOK, StateTypeOK
<1>1. TypeOK'
  BY StopType DEF Inv, StopStep
<1>2. /\ pc[a] = "stopTake" /\ server # None /\ svrSock = server
      /\ \A b \in Actors \ {a} : pc[b] \notin Locked
  BY Alone DEF StopTakesSocket, Inv, SessionLife, SocketOfSession, StopAssertion, Locked
<1>3. /\ UNCHANGED <<isDecommissioned, openFds, lpc, lfd, lret, jobs, conn>>
      /\ UNCHANGED <<mutex, server, token, issued, noThread, served>>
      /\ svrSock' = None /\ stopSock' = server
      /\ pc'[a] = "stopClose" /\ \A b \in Actors \ {a} : pc'[b] = pc[b]
  BY <1>0, <1>2 DEF StopTakesSocket, StopExchanges, Goto
<1>4. OneOwner'
  BY <1>0, <1>2, <1>3 DEF Inv, OneOwner, Holders, Locked
<1>5. SessionLife'
  BY <1>0, <1>2, <1>3 DEF Inv, SessionLife, Locked, ServePcs
<1>6. SocketOfSession' /\ StopAssertion'
  BY <1>2, <1>3 DEF Inv, SocketOfSession, StopAssertion, Locked
<1>7. DescriptorOfSession'
  BY <1>2, <1>3 DEF Inv, DescriptorOfSession, Closing, Locked
<1>8. QueueOfPool' /\ SessionIsolation' /\ HandlersOutlived' /\ PortsGivenBack'
  BY <1>3 DEF Inv, QueueOfPool, SessionIsolation, HandlersOutlived, PortsGivenBack
<1> QED
  BY <1>1, <1>4, <1>5, <1>6, <1>7, <1>8 DEF Inv

LEMMA StopClosesSocketInv ==
  ASSUME Inv, NEW a \in Actors, StopClosesSocket(a)
  PROVE  Inv'
<1>0. /\ pc \in [Actors -> {"idle", "gone"} \cup ServePcs \cup StopPcs]
      /\ Sql \subseteq Actors /\ Main \in Actors
      /\ conn \in [Conns -> ConnRecords] /\ jobs \in Seq(Conns)
  BY DEF Inv, Actors, TypeOK, StateTypeOK, HttpTypeOK
<1>1. TypeOK'
  BY StopType DEF Inv, StopStep
<1>2. /\ pc[a] = "stopClose" /\ server # None /\ stopSock = server /\ svrSock = None
      /\ \A b \in Actors \ {a} : pc[b] \notin Locked
  BY Alone DEF StopClosesSocket, Inv, SessionLife, SocketOfSession, Locked
<1>3. /\ UNCHANGED <<lpc, lfd, lret, jobs>>
      /\ UNCHANGED <<mutex, server, token, issued, noThread, served>>
      /\ svrSock' = None /\ openFds' = openFds \ {server} /\ ~isDecommissioned'
      /\ pc'[a] = "join" /\ \A b \in Actors \ {a} : pc'[b] = pc[b]
  BY <1>0, <1>2 DEF StopClosesSocket, StopCloses, CloseFd, Goto
<1>4. \A k \in Conns :
        \/ conn'[k] = conn[k]
        \/ conn[k].st = "backlog" /\ conn'[k].st = "free"
  BY <1>0 DEF StopClosesSocket, StopCloses, CloseFd, FreeConn
<1>5. OneOwner'
  BY <1>0, <1>2, <1>3 DEF Inv, OneOwner, Holders, Locked
<1>6. SessionLife'
  BY <1>0, <1>2, <1>3 DEF Inv, SessionLife, Locked, ServePcs
<1>7. SocketOfSession' /\ StopAssertion'
  BY <1>2, <1>3 DEF Inv, SocketOfSession, StopAssertion, Locked
<1>8. DescriptorOfSession'
  BY <1>2, <1>3 DEF Inv, DescriptorOfSession, Closing, Locked
<1>9. QueueOfPool'
  BY <1>0, <1>3, <1>4 DEF Inv, QueueOfPool
<1>10. HandlersOutlived'
  BY <1>3, <1>4 DEF Inv, HandlersOutlived, WorkerStates
<1>11. SessionIsolation' /\ PortsGivenBack'
  BY <1>3 DEF Inv, SessionIsolation, PortsGivenBack
<1> QED
  BY <1>1, <1>5, <1>6, <1>7, <1>8, <1>9, <1>10, <1>11 DEF Inv

\* At the join there is nothing left of the session: its listener is done, or
\* never was; its socket is closed, or leaked with the thread it lacks.
LEMMA Joined ==
  ASSUME Inv, NEW a \in Actors, pc[a] = "join", Joinable
  PROVE  /\ openFds \subseteq noThread
         /\ jobs = <<>>
         /\ \A k \in Conns : conn[k].st \notin WorkerStates \cup {"queued"}
         /\ \A b \in Actors \ {a} : pc[b] \notin Locked
<1>1. \A b \in Actors \ {a} : pc[b] \notin Locked
  BY Alone
<1>2. \A k \in Conns : conn[k].st \notin WorkerStates \cup {"queued"}
  BY DEF Inv, HandlersOutlived, Joinable
<1>3. jobs = <<>>
  <2>1. jobs \in Seq(Conns)
    BY DEF Inv, TypeOK, HttpTypeOK
  <2>2. ASSUME jobs # <<>> PROVE FALSE
    <3>1. 1 \in 1..Len(jobs) /\ jobs[1] \in Conns
      BY <2>1, <2>2
    <3> QED
      BY <1>2, <3>1 DEF Inv, QueueOfPool
  <2> QED
    BY <2>2
<1>4. openFds \subseteq noThread
  <2>1. CASE server = None
    BY <2>1 DEF Inv, PortsGivenBack, DescriptorOfSession
  <2>2. CASE server # None /\ lpc = "done"
    <3>1. ~Closing
      BY <1>1 DEF Closing, Locked
    <3> QED
      BY <2>2, <3>1 DEF Inv, PortsGivenBack, DescriptorOfSession
  <2>3. CASE server # None /\ lpc = "none"
    <3>1. server \in noThread
      BY <1>1, <2>3 DEF Inv, SessionLife, Actors, Locked
    <3> QED
      BY <3>1 DEF Inv, PortsGivenBack
  <2> QED
    BY <2>1, <2>2, <2>3 DEF Joinable
<1> QED
  BY <1>1, <1>2, <1>3, <1>4

LEMMA StopJoinsInv ==
  ASSUME Inv, NEW c \in Actors, StopJoins(c)
  PROVE  Inv'
<1>0. /\ pc \in [Actors -> {"idle", "gone"} \cup ServePcs \cup StopPcs]
      /\ Sql \subseteq Actors /\ Main \in Actors /\ c # Main /\ c \in Sql /\ c # Free
  BY GraphServerAssumption DEF StopJoins, Inv, Actors, TypeOK, StateTypeOK
<1>1. TypeOK'
  BY StopType DEF Inv, StopStep
<1>2. /\ openFds \subseteq noThread
      /\ \A k \in Conns : conn[k].st \notin WorkerStates \cup {"queued"}
      /\ \A b \in Actors \ {c} : pc[b] \notin Locked
  BY Joined DEF StopJoins
<1>3. /\ UNCHANGED <<openFds, jobs, conn>>
      /\ UNCHANGED <<token, issued, noThread, served>>
      /\ svrSock' = None /\ server' = None /\ lpc' = "none" /\ mutex' = Free
      /\ pc[c] = "join" /\ pc'[c] = "idle" /\ \A b \in Actors \ {c} : pc'[b] = pc[b]
  BY <1>0 DEF StopJoins, DestroyServer, Return, Goto
<1>4. OneOwner'
  BY <1>0, <1>2, <1>3 DEF Inv, OneOwner, Holders, Locked
<1>5. SessionLife'
  BY <1>0, <1>2, <1>3 DEF Inv, SessionLife, Locked, ServePcs
<1>6. SocketOfSession' /\ StopAssertion' /\ DescriptorOfSession'
  BY <1>0, <1>2, <1>3 DEF Inv, SocketOfSession, StopAssertion, DescriptorOfSession, Closing,
     Joinable, Locked, StopJoins, DestroyServer
<1>7. QueueOfPool' /\ HandlersOutlived' /\ SessionIsolation' /\ PortsGivenBack'
  BY <1>2, <1>3 DEF Inv, QueueOfPool, HandlersOutlived, SessionIsolation, PortsGivenBack
<1> QED
  BY <1>1, <1>4, <1>5, <1>6, <1>7 DEF Inv

LEMMA ExitInv ==
  ASSUME Inv, ExitBegins \/ ExitJoins
  PROVE  Inv'
<1>0. /\ pc \in [Actors -> {"idle", "gone"} \cup ServePcs \cup StopPcs]
      /\ Sql \subseteq Actors /\ Main \in Actors /\ Main \notin Sql
      /\ Actors = Sql \cup {Main}
  BY GraphServerAssumption DEF Inv, Actors, TypeOK, StateTypeOK
<1>1. TypeOK'
  BY <1>0, StopType DEF Inv
<1>2. CASE ExitBegins
  <2>1. /\ UNCHANGED <<httpVars, mutex, server, token, issued, noThread, served>>
        /\ \A c \in Sql : pc[c] = "idle" /\ pc'[c] = "idle"
        /\ pc'[Main] \in {"stopRead", "join"}
        /\ pc'[Main] = "stopRead" => server # None
        /\ pc[Main] = "idle"
    BY <1>0, <1>2 DEF ExitBegins, Goto
  <2>2. OneOwner' /\ SessionLife'
    BY <1>0, <2>1 DEF Inv, OneOwner, Holders, SessionLife, Locked, ServePcs, httpVars
  <2>3. SocketOfSession' /\ StopAssertion' /\ DescriptorOfSession'
    BY <1>0, <2>1 DEF Inv, SocketOfSession, StopAssertion, DescriptorOfSession, Closing,
       httpVars
  <2>4. QueueOfPool' /\ HandlersOutlived' /\ SessionIsolation' /\ PortsGivenBack'
    BY <2>1 DEF Inv, QueueOfPool, HandlersOutlived, SessionIsolation, PortsGivenBack,
       httpVars
  <2> QED
    BY <1>1, <2>2, <2>3, <2>4 DEF Inv
<1>3. CASE ExitJoins
  <2>1. jobs = <<>> /\ \A b \in Sql : pc[b] = "idle"
    BY <1>0, <1>3, Joined DEF ExitJoins, Inv, OneOwner
  <2>2. /\ UNCHANGED <<jobs, mutex, token, issued, noThread, served>>
        /\ server' = None /\ lpc' = "none" /\ svrSock' = None /\ openFds' = {}
        /\ \A k \in Conns : conn'[k].st = "free"
        /\ pc'[Main] = "gone" /\ \A c \in Sql : pc'[c] = "idle"
    BY <1>0, <1>3, <2>1 DEF ExitJoins, Goto, FreeConn
  <2>3. OneOwner' /\ SessionLife'
    BY <1>0, <2>1, <2>2 DEF Inv, OneOwner, Holders, SessionLife, Locked, ServePcs
  <2>4. SocketOfSession' /\ StopAssertion' /\ DescriptorOfSession'
    BY <1>0, <1>3, <2>2 DEF Inv, SocketOfSession, StopAssertion, DescriptorOfSession,
       Closing, Joinable, ExitJoins
  <2>5. QueueOfPool' /\ HandlersOutlived' /\ SessionIsolation' /\ PortsGivenBack'
    BY <2>1, <2>2 DEF Inv, QueueOfPool, HandlersOutlived, SessionIsolation,
       PortsGivenBack, WorkerStates
  <2> QED
    BY <1>1, <2>3, <2>4, <2>5 DEF Inv
<1> QED
  BY <1>2, <1>3

LEMMA NextInv ==
  ASSUME Inv, [Next]_vars
  PROVE  Inv'
<1>1. CASE UNCHANGED vars \/ Gone \/ PortsChange
  <2>1. UNCHANGED <<httpVars, stateVars, served>>
    BY <1>1 DEF Gone, PortsChange, vars
  <2>2. TypeOK'
    BY <1>1, NextType DEF Inv, Next
  <2>3. OneOwner' /\ SessionLife' /\ SocketOfSession' /\ DescriptorOfSession'
    BY <2>1 DEF Inv, OneOwner, Holders, SessionLife, SocketOfSession,
       DescriptorOfSession, Closing, httpVars, stateVars
  <2>4. QueueOfPool' /\ HandlersOutlived' /\ SessionIsolation' /\ StopAssertion'
          /\ PortsGivenBack'
    BY <2>1 DEF Inv, QueueOfPool, HandlersOutlived, SessionIsolation, StopAssertion,
       PortsGivenBack, httpVars, stateVars
  <2> QED
    BY <2>2, <2>3, <2>4 DEF Inv
<1>2. ASSUME NEW c \in Sql,
             \/ Call(c, "serve") \/ Call(c, "stop")
             \/ ServeStep(c) \/ StopNotRunning(c) \/ StopEnters(c)
      PROVE  Inv'
  BY <1>2, SqlQuietInv, ServeCreatesInv, ServeBindsInv, ServeSpawnsInv DEF ServeStep
<1>3. ASSUME NEW a \in Actors, StopStep(a)
      PROVE  Inv'
  BY <1>3, StopReadsInv, StopTakesSocketInv, StopClosesSocketInv, StopJoinsInv
  DEF StopStep
<1>4. CASE ExitBegins \/ ExitJoins
  BY <1>4, ExitInv
<1>5. CASE ListenerStep \/ PoolTakes
  BY <1>5, ListenerInv, PoolTakesInv
<1>6. ASSUME NEW k \in Conns, PoolStep(k) \/ ClientStep(k)
      PROVE  Inv'
  BY <1>6, ConnStepInv
<1> QED
  BY <1>1, <1>2, <1>3, <1>4, <1>5, <1>6 DEF Next

\* The inductive invariant holds in every reachable state.
THEOREM Invariant == Spec => []Inv
  BY InitInv, NextInv, PTL DEF Spec

(***************************************************************************)
(* What follows from it.                                                   *)
(***************************************************************************)

\* g_state is touched by one SQL call at a time, and by the destructor alone.
THEOREM MutualExclusion == Spec => []OneOwner
<1>1. Inv => OneOwner
  BY DEF Inv
<1> QED
  BY <1>1, Invariant, PTL

\* No server object is destroyed or replaced under a request it has accepted.
THEOREM ServerOutlivesHandlers == Spec => []HandlersOutlived
<1>1. Inv => HandlersOutlived
  BY DEF Inv
<1> QED
  BY <1>1, Invariant, PTL

\* Graph data goes only to requests that carry the token of its own session.
THEOREM TokensSeparateSessions == Spec => []SessionIsolation
<1>1. Inv => SessionIsolation
  BY DEF Inv
<1> QED
  BY <1>1, Invariant, PTL

\* httplib's assertion in stop() never fails.
THEOREM AssertionHolds == Spec => []StopAssertion
<1>1. Inv => StopAssertion
  BY DEF Inv
<1> QED
  BY <1>1, Invariant, PTL

\* Only a session whose thread could not be created keeps its port.
THEOREM PortsAreGivenBack == Spec => []PortsGivenBack
<1>1. Inv => PortsGivenBack
  BY DEF Inv
<1> QED
  BY <1>1, Invariant, PTL

\* The token is never written while a thread of the pool may read it.
THEOREM TokenRaceFree == Spec => TokenNotRaced
<1>1. ASSUME Inv, [Next]_vars, token' # token
      PROVE  Busy = {} /\ jobs = <<>> /\ lpc = "none"
  <2>1. PICK c \in Sql : ServeCreates(c)
    <3>1. ASSUME NEW k \in Conns, PoolStep(k) \/ ClientStep(k) PROVE FALSE
      BY <1>1, <3>1, ConnStepFrame DEF stateVars
    <3>2. ASSUME NEW c \in Sql,
                 \/ Call(c, "serve") \/ Call(c, "stop") \/ StopNotRunning(c)
                 \/ StopEnters(c) \/ ServeRefused(c) \/ ServeBinds(c)
                 \/ ServeSpawns(c) \/ ServeSpawnFails(c)
          PROVE  FALSE
      BY <1>1, <3>2 DEF Call, StopNotRunning, StopEnters, ServeRefused, ServeBinds,
         ServeSpawns, ServeSpawnFails
    <3>3. ASSUME NEW a \in Actors, StopStep(a) PROVE FALSE
      BY <1>1, <3>3 DEF StopStep, StopReads, StopTakesSocket, StopClosesSocket, StopJoins
    <3>4. CASE \/ UNCHANGED vars \/ ExitBegins \/ ExitJoins \/ Gone \/ ListenerStep
               \/ PoolTakes \/ PortsChange
      BY <1>1, <3>4 DEF vars, stateVars, ExitBegins, ExitJoins, Gone, ListenerStep,
         PoolTakes, PortsChange
    <3> QED
      BY <1>1, <3>1, <3>2, <3>3, <3>4 DEF Next, ServeStep
  <2>2. server = None
    BY <2>1 DEF ServeCreates
  <2>3. lpc = "none" /\ Busy = {}
    BY <1>1, <2>2 DEF Inv, SessionLife, HandlersOutlived, Busy
  <2>4. jobs \in Seq(Conns)
    BY <1>1 DEF Inv, TypeOK, HttpTypeOK
  <2>5. ASSUME jobs # <<>> PROVE FALSE
    <3>1. 1 \in 1..Len(jobs) /\ jobs[1] \in Conns
      BY <2>4, <2>5
    <3> QED
      BY <1>1, <2>2, <3>1 DEF Inv, QueueOfPool, HandlersOutlived
  <2> QED
    BY <2>3, <2>5
<1> QED
  BY <1>1, Invariant, PTL DEF Spec, TokenNotRaced

\* Without a failure of accept, no descriptor is closed twice.
THEOREM ClosedOnce == Spec => ClosedTwiceOnlyAfterFailure
<1>1. ASSUME Inv, [Next]_vars, doubleClose' # doubleClose
      PROVE  ~lret'
  <2>1. CASE FailingCloses
    BY <2>1 DEF FailingCloses
  <2>2. ASSUME NEW a \in Actors, StopClosesSocket(a) PROVE ~lret'
    <3>1. pc[a] = "stopClose" /\ stopSock = server /\ Closing
      BY <1>1, <2>2 DEF StopClosesSocket, Inv, SocketOfSession, Closing
    <3>2. server \notin openFds
      BY <1>1, <2>2, <3>1 DEF StopClosesSocket, StopCloses, CloseFd, Inv, TypeOK, HttpTypeOK
    <3> QED
      BY <1>1, <2>2, <3>1, <3>2 DEF Inv, DescriptorOfSession, StopClosesSocket, StopCloses
  <2>3. ASSUME NEW k \in Conns, PoolStep(k) \/ ClientStep(k) PROVE FALSE
    BY <1>1, <2>3, ConnStepFrame
  <2>4. ASSUME NEW c \in Sql,
               \/ Call(c, "serve") \/ Call(c, "stop") \/ StopNotRunning(c)
               \/ StopEnters(c) \/ ServeStep(c)
        PROVE  FALSE
    BY <1>1, <2>4 DEF Call, StopNotRunning, StopEnters, ServeStep, ServeRefused,
       ServeCreates, ServeBinds, BindToPort, ServeSpawns, SpawnListener, ServeSpawnFails,
       httpVars
  <2>5. ASSUME NEW a \in Actors, StopReads(a) \/ StopTakesSocket(a) \/ StopJoins(a)
        PROVE  FALSE
    BY <1>1, <2>5 DEF StopReads, StopDoesNothing, StopTakesSocket, StopExchanges, StopJoins,
       DestroyServer, httpVars
  <2>6. CASE \/ UNCHANGED vars \/ ExitBegins \/ ExitJoins \/ Gone \/ PoolTakes
             \/ PortsChange
    BY <1>1, <2>6 DEF vars, httpVars, ExitBegins, ExitJoins, Gone, PoolTakes, TakeJob,
       connOnly, PortsChange
  <2>7. CASE ListenerStep /\ ~FailingCloses
    BY <1>1, <2>7 DEF ListenerStep, ListenStart, ListenLoop, AcceptWoken, AcceptFails,
       FailingReads, PoolDrained, ListenReturns, AcceptConn
  <2> QED
    BY <1>1, <2>1, <2>2, <2>3, <2>4, <2>5, <2>6, <2>7 DEF Next, StopStep
<1> QED
  BY <1>1, Invariant, PTL DEF Spec, ClosedTwiceOnlyAfterFailure

-----------------------------------------------------------------------------
(***************************************************************************)
(* GraphServer implements GraphService, for any number of SQL clients,     *)
(* HTTP connections, ports and calls.                                      *)
(*                                                                         *)
(* The argument.  A session is up from the return of "running" to the join *)
(* of its stop.  Each function of the service is one step of the threads:  *)
(* a token is issued by ServeCreates, a session starts with ServeSpawns    *)
(* and ends with StopJoins or ExitJoins; all that the listener, the pool   *)
(* and stop() do in between is stuttering, but for the answers with data.  *)
(* NumbersOfSessions says why the session that comes up is the one whose   *)
(* token was issued last, and is not one whose thread failed.              *)
(***************************************************************************)

NumbersOfSessions ==
  /\ server # None => server = issued
  /\ noThread \subseteq 1..issued
  /\ lpc # "none" => server \notin noThread
  /\ \A c \in Sql : pc[c] \in {"bind", "spawn"} => server \notin noThread

SInv == Inv /\ NumbersOfSessions

Starting == \E c \in Sql : pc[c] \in {"bind", "spawn"}

\* Who holds the mutex is alone in what it guards.
LEMMA AloneAtWork ==
  ASSUME Inv, NEW c \in Sql, mutex = Free \/ pc[c] \in Locked,
         NEW d \in Sql, pc[d] \in Locked
  PROVE  d = c
  BY GraphServerAssumption DEF Inv, OneOwner, Holders

LEMMA InitNumbers == Init => NumbersOfSessions
  BY DEF Init, HttpInit, NumbersOfSessions, None

\* Steps of serve_graph.
LEMMA ServeNumbers ==
  ASSUME SInv, NEW c \in Sql,
         ServeStep(c) \/ Call(c, "serve") \/ Call(c, "stop") \/ StopNotRunning(c) \/ StopEnters(c)
  PROVE  NumbersOfSessions'
  <1>0. /\ issued \in Nat /\ pc \in [Actors -> {"idle", "gone"} \cup ServePcs \cup StopPcs]
        /\ c \in Actors /\ Sql \subseteq Actors /\ noThread \subseteq 1..issued
    BY DEF SInv, Inv, TypeOK, StateTypeOK, Actors, NumbersOfSessions
  <1>1. CASE ServeCreates(c)
    <2>1. /\ issued' = issued + 1 /\ server' = issued + 1 /\ noThread' = noThread /\ lpc' = lpc
      BY <1>1 DEF ServeCreates
    <2> QED BY <1>0, <2>1 DEF NumbersOfSessions
  <1>2. CASE ServeSpawnFails(c)
    <2>1. /\ noThread' = noThread \cup {server} /\ lpc = "none" /\ lpc' = lpc
          /\ server # None /\ UNCHANGED <<server, issued>>
          /\ pc' = [pc EXCEPT ![c] = "idle"] /\ pc[c] = "spawn"
      BY <1>0, <1>2 DEF ServeSpawnFails, Return, Goto, SInv, Inv, SessionLife, Locked, httpVars
    <2>2. server \in 1..issued
      BY <1>0, <2>1 DEF SInv, Inv, TypeOK, StateTypeOK, NumbersOfSessions, None
    <2>3. \A d \in Sql : pc'[d] \notin {"bind", "spawn"}
      BY <1>0, <2>1, AloneAtWork DEF Locked, SInv
    <2> QED BY <1>0, <2>1, <2>2, <2>3 DEF SInv, NumbersOfSessions
  <1>3. CASE ServeBinds(c)
    <2>1. /\ UNCHANGED <<issued, noThread, lpc>> /\ pc[c] = "bind"
          /\ \/ server' = server /\ (pc' = pc \/ pc' = [pc EXCEPT ![c] = "spawn"])
             \/ server' = None
      BY <1>3 DEF ServeBinds, BindToPort, Return, Goto, connOnly
    <2>2. CASE server' = None
      BY <1>0, <2>1, <2>2 DEF SInv, NumbersOfSessions, None
    <2> QED BY <1>0, <2>1, <2>2 DEF SInv, NumbersOfSessions
  <1>4. CASE ServeSpawns(c)
    <2>1. /\ UNCHANGED <<issued, noThread, server>> /\ pc[c] = "spawn"
          /\ pc' = [pc EXCEPT ![c] = "idle"]
      BY <1>4 DEF ServeSpawns, Return, Goto
    <2> QED BY <1>0, <2>1 DEF SInv, NumbersOfSessions
  <1>5. CASE ServeRefused(c) \/ Call(c, "serve") \/ Call(c, "stop") \/ StopNotRunning(c) \/ StopEnters(c)
    <2>1. /\ UNCHANGED <<issued, noThread, server, lpc>>
          /\ \E l \in {"idle", "serve", "stop", "stopRead"} : pc' = [pc EXCEPT ![c] = l]
      BY <1>5 DEF ServeRefused, Call, StopNotRunning, StopEnters, Return, Goto, httpVars
    <2> QED BY <1>0, <2>1 DEF SInv, NumbersOfSessions
  <1> QED BY <1>1, <1>2, <1>3, <1>4, <1>5 DEF ServeStep

LEMMA NextNumbers ==
  ASSUME SInv, [Next]_vars
  PROVE  NumbersOfSessions'
  <1>0. /\ pc \in [Actors -> {"idle", "gone"} \cup ServePcs \cup StopPcs]
        /\ Sql \subseteq Actors /\ Main \notin Sql /\ Main \in Actors /\ noThread \subseteq 1..issued
    BY GraphServerAssumption DEF SInv, Inv, TypeOK, StateTypeOK, Actors, NumbersOfSessions
  <1>1. CASE UNCHANGED vars \/ Gone \/ PortsChange
    BY <1>1 DEF Gone, PortsChange, vars, httpVars, stateVars, SInv, NumbersOfSessions
  <1>2. ASSUME NEW a \in Actors, StopStep(a) PROVE NumbersOfSessions'
    <2>1. /\ UNCHANGED <<issued, noThread>>
          /\ \/ server' = server /\ lpc' = lpc
             \/ server' = None /\ lpc' = "none"
          /\ \E l \in {"idle", "stopTake", "stopClose", "join"} : pc' = [pc EXCEPT ![a] = l]
      BY <1>2 DEF StopStep, StopReads, StopTakesSocket, StopClosesSocket, StopJoins, Return, Goto,
         StopDoesNothing, StopExchanges, StopCloses, DestroyServer, httpVars
    <2> QED BY <1>0, <2>1 DEF SInv, NumbersOfSessions, None
  <1>3. CASE ExitBegins \/ ExitJoins
    <2>1. /\ UNCHANGED <<issued, noThread>>
          /\ \/ server' = server /\ lpc' = lpc
             \/ server' = None /\ lpc' = "none"
          /\ \E l \in {"gone", "stopRead", "join"} : pc' = [pc EXCEPT ![Main] = l]
      BY <1>3 DEF ExitBegins, ExitJoins, Goto, httpVars
    <2> QED BY <1>0, <2>1 DEF SInv, NumbersOfSessions, None
  <1>4. CASE ListenerStep \/ PoolTakes
    <2>1. UNCHANGED <<issued, noThread, server, pc>>
      BY <1>4 DEF ListenerStep, PoolTakes, stateVars
    <2>2. lpc' # "none" => lpc # "none"
      BY <1>4 DEF ListenerStep, PoolTakes, TakeJob, ListenStart, ListenLoop, AcceptWoken,
         AcceptFails, FailingReads, FailingCloses, PoolDrained, ListenReturns, AcceptConn, connOnly
    <2> QED BY <2>1, <2>2 DEF SInv, NumbersOfSessions
  <1>5. ASSUME NEW k \in Conns, PoolStep(k) \/ ClientStep(k) PROVE NumbersOfSessions'
    <2>1. UNCHANGED <<issued, noThread, server, pc, lpc>>
      BY <1>5, ConnStepFrame DEF stateVars
    <2> QED BY <2>1 DEF SInv, NumbersOfSessions
  <1> QED BY <1>1, <1>2, <1>3, <1>4, <1>5, ServeNumbers DEF Next

\* The invariant of the refinement holds in every reachable state.
THEOREM ServiceInvariance == Spec => []SInv
  <1>1. Init => SInv
    BY InitInv, InitNumbers DEF SInv
  <1>2. SInv /\ [Next]_vars => SInv'
    BY NextInv, NextNumbers DEF SInv
  <1> QED BY <1>1, <1>2, PTL DEF Spec

-----------------------------------------------------------------------------
(***************************************************************************)
(* The steps of the service.                                               *)
(***************************************************************************)

LEMMA ServiceInit == Init => Service!Init
  <1> SUFFICES ASSUME Init PROVE Service!Init OBVIOUS
  <1>1. pc = [a \in Actors |-> "idle"] /\ server = 0 /\ Sql \subseteq Actors
    BY DEF Init, None, Actors
  <1>2. up = 0
    BY <1>1 DEF up, None
  <1>3. call = [c \in Sql |-> "idle"]
    BY <1>1 DEF call, ServePcs, StopPcs
  <1> QED BY <1>2, <1>3 DEF Init, Service!Init

\* What a call is, and how it changes when one actor moves.
LEMMA CallOf ==
  ASSUME NEW c \in Sql
  PROVE  /\ pc[c] \in ServePcs => call[c] = "serve"
         /\ pc[c] \in StopPcs => call[c] = "stop"
         /\ pc[c] = "idle" => call[c] = "idle"
  BY DEF call, ServePcs, StopPcs

LEMMA CallMoves ==
  ASSUME TypeOK, NEW c \in Sql, NEW l \in {"idle", "serve", "stop"}, pc' = [pc EXCEPT ![c] = l]
  PROVE  call' = [call EXCEPT ![c] = l]
  <1>1. pc \in [Actors -> {"idle", "gone"} \cup ServePcs \cup StopPcs] /\ Sql \subseteq Actors
    BY DEF TypeOK, StateTypeOK, Actors
  <1>2. pc'[c] = l /\ \A d \in Sql \ {c} : pc'[d] = pc[d]
    BY <1>1
  <1>3. (CASE l \in ServePcs -> "serve" [] l \in StopPcs -> "stop" [] OTHER -> "idle") = l
    BY DEF ServePcs, StopPcs
  <1>4. call'[c] = l
    BY <1>2, <1>3 DEF call
  <1>5. \A d \in Sql \ {c} : call'[d] = call[d]
    BY <1>2 DEF call
  <1>6. DOMAIN call = Sql /\ DOMAIN call' = Sql /\ call' = [d \in Sql |-> call'[d]]
    BY DEF call
  <1> QED BY <1>4, <1>5, <1>6

LEMMA CallStays ==
  ASSUME TypeOK, NEW a \in Actors, NEW l, pc' = [pc EXCEPT ![a] = l],
         a \in Sql => \/ pc[a] \in ServePcs /\ l \in ServePcs
                      \/ pc[a] \in StopPcs /\ l \in StopPcs
  PROVE  call' = call
  <1>1. pc \in [Actors -> {"idle", "gone"} \cup ServePcs \cup StopPcs] /\ Sql \subseteq Actors
    BY DEF TypeOK, StateTypeOK, Actors
  <1>2. ASSUME NEW c \in Sql
        PROVE  (CASE pc'[c] \in ServePcs -> "serve" [] pc'[c] \in StopPcs -> "stop" [] OTHER -> "idle")
                 = CASE pc[c] \in ServePcs -> "serve" [] pc[c] \in StopPcs -> "stop" [] OTHER -> "idle"
    BY <1>1, <1>2 DEF ServePcs, StopPcs
  <1> QED BY <1>2 DEF call

\* The session is the server's, unless it is being started or has no thread.
LEMMA UpIs ==
  /\ server = None => up = 0
  /\ server \in noThread \/ Starting => up = 0
  /\ server \notin noThread /\ ~Starting => up = server
  BY DEF up, Starting, None

LEMMA UpNextIs ==
  /\ server' = None => up' = 0
  /\ server' \in noThread' \/ Starting' => up' = 0
  /\ server' \notin noThread' /\ ~Starting' => up' = server'
  BY DEF up, Starting, None

\* serve_graph.
LEMMA ServeMaps ==
  ASSUME SInv, NEW c \in Sql, ServeStep(c)
  PROVE  [Service!Next]_(Service!vars)
  <1>0. /\ TypeOK /\ issued \in Nat /\ c \in Actors /\ Sql \subseteq Actors
        /\ pc \in [Actors -> {"idle", "gone"} \cup ServePcs \cup StopPcs]
    BY DEF SInv, Inv, TypeOK, StateTypeOK, Actors
  <1>1. CASE ServeRefused(c)
    <2>1. /\ pc[c] = "serve" /\ pc' = [pc EXCEPT ![c] = "idle"] /\ reply' = [reply EXCEPT ![c] = "already"]
          /\ UNCHANGED <<server, issued, noThread, served>>
      BY <1>1 DEF ServeRefused, Return, Goto
    <2>2. call[c] = "serve" /\ call' = [call EXCEPT ![c] = "idle"]
      BY <1>0, <2>1, CallOf, CallMoves DEF ServePcs, StopPcs
    <2>3. Starting' = Starting
      BY <1>0, <2>1 DEF Starting
    <2>4. up' = up
      BY <2>1, <2>3 DEF up, Starting
    <2>5. Service!Refused(c, "already")
      BY <2>1, <2>2, <2>4 DEF Service!Refused, Service!Return, Service!ServeReplies
    <2> QED BY <2>5 DEF Service!Next, Service!ServeReplies
  <1>2. CASE ServeCreates(c)
    <2>1. /\ pc[c] = "serve" /\ pc' = [pc EXCEPT ![c] = "bind"] /\ server = None
          /\ issued' = issued + 1 /\ UNCHANGED <<reply, served>>
      BY <1>2 DEF ServeCreates, Goto
    <2>2. call' = call
      BY <1>0, <2>1, CallStays DEF ServePcs
    <2>3. Starting'
      BY <1>0, <2>1 DEF Starting
    <2>4. up = 0 /\ up' = 0
      BY <2>1, <2>3, UpIs, UpNextIs
    <2>5. Service!Issue
      BY <2>1, <2>2, <2>4 DEF Service!Issue
    <2> QED BY <2>5 DEF Service!Next
  <1>3. CASE ServeBinds(c)
    <2>1. /\ pc[c] = "bind" /\ UNCHANGED <<issued, served>>
          /\ \/ /\ server' = server /\ reply' = reply
                /\ pc' = pc \/ pc' = [pc EXCEPT ![c] = "spawn"]
             \/ /\ server' = None /\ reply' = [reply EXCEPT ![c] = "bindFailed"]
                /\ pc' = [pc EXCEPT ![c] = "idle"]
      BY <1>3 DEF ServeBinds, Return, Goto
    <2>2. up = 0
      BY <2>1, UpIs DEF Starting
    <2>3. CASE server' = None /\ reply' = [reply EXCEPT ![c] = "bindFailed"] /\ pc' = [pc EXCEPT ![c] = "idle"]
      <3>1. call[c] = "serve" /\ call' = [call EXCEPT ![c] = "idle"]
        BY <1>0, <2>1, <2>3, CallOf, CallMoves DEF ServePcs, StopPcs
      <3>2. up' = 0
        BY <2>3, UpNextIs
      <3>3. Service!Refused(c, "bindFailed")
        BY <2>1, <2>2, <2>3, <3>1, <3>2 DEF Service!Refused, Service!Return, Service!ServeReplies
      <3> QED BY <3>3 DEF Service!Next, Service!ServeReplies
    <2>4. CASE server' = server /\ reply' = reply /\ (pc' = pc \/ pc' = [pc EXCEPT ![c] = "spawn"])
      <3>1. call' = call
        BY <1>0, <2>1, <2>4, CallStays DEF ServePcs, call
      <3>2. Starting'
        BY <1>0, <2>1, <2>4 DEF Starting
      <3>3. up' = 0
        BY <3>2, UpNextIs
      <3> QED BY <2>1, <2>2, <2>4, <3>1, <3>3 DEF Service!vars
    <2> QED BY <2>1, <2>3, <2>4
  <1>4. CASE ServeSpawns(c)
    <2>1. /\ pc[c] = "spawn" /\ pc' = [pc EXCEPT ![c] = "idle"]
          /\ reply' = [reply EXCEPT ![c] = "running"]
          /\ UNCHANGED <<server, issued, noThread, served>>
      BY <1>4 DEF ServeSpawns, Return, Goto
    <2>2. call[c] = "serve" /\ call' = [call EXCEPT ![c] = "idle"]
      BY <1>0, <2>1, CallOf, CallMoves DEF ServePcs, StopPcs
    <2>3. ~Starting'
      BY <1>0, <2>1, AloneAtWork DEF Starting, SInv, Locked
    <2>4. server # None /\ server = issued /\ server \notin noThread
      BY <1>0, <2>1 DEF SInv, Inv, SessionLife, NumbersOfSessions, Locked
    <2>5. up = 0 /\ up' = issued /\ issued > 0
      BY <1>0, <2>1, <2>3, <2>4, UpIs, UpNextIs DEF Starting, None
    <2>6. Service!Started(c)
      BY <2>1, <2>2, <2>5 DEF Service!Started, Service!Return
    <2> QED BY <2>6 DEF Service!Next
  <1>5. CASE ServeSpawnFails(c)
    <2>1. /\ pc[c] = "spawn" /\ pc' = [pc EXCEPT ![c] = "idle"]
          /\ reply' = [reply EXCEPT ![c] = "threadFailed"]
          /\ UNCHANGED <<server, issued, served>> /\ noThread' = noThread \cup {server}
      BY <1>5 DEF ServeSpawnFails, Return, Goto
    <2>2. call[c] = "serve" /\ call' = [call EXCEPT ![c] = "idle"]
      BY <1>0, <2>1, CallOf, CallMoves DEF ServePcs, StopPcs
    <2>3. up = 0 /\ up' = 0
      BY <2>1, UpIs, UpNextIs DEF Starting
    <2>4. Service!Refused(c, "threadFailed")
      BY <2>1, <2>2, <2>3 DEF Service!Refused, Service!Return, Service!ServeReplies
    <2> QED BY <2>4 DEF Service!Next, Service!ServeReplies
  <1> QED BY <1>1, <1>2, <1>3, <1>4, <1>5 DEF ServeStep

\* Calls come in, and stop_graph takes the mutex.
LEMMA CallMaps ==
  ASSUME SInv, NEW c \in Sql,
         Call(c, "serve") \/ Call(c, "stop") \/ StopNotRunning(c) \/ StopEnters(c)
  PROVE  [Service!Next]_(Service!vars)
  <1>0. /\ TypeOK /\ c \in Actors /\ Sql \subseteq Actors
        /\ pc \in [Actors -> {"idle", "gone"} \cup ServePcs \cup StopPcs]
    BY DEF SInv, Inv, TypeOK, StateTypeOK, Actors
  <1>1. ASSUME NEW f \in {"serve", "stop"}, Call(c, f) PROVE Service!Next
    <2>1. /\ pc[c] = "idle" /\ pc' = [pc EXCEPT ![c] = f]
          /\ UNCHANGED <<server, issued, noThread, served, reply>>
      BY <1>1 DEF Call, Goto
    <2>2. call[c] = "idle" /\ call' = [call EXCEPT ![c] = f]
      BY <1>0, <1>1, <2>1, CallOf, CallMoves DEF ServePcs, StopPcs
    <2>3. up' = up
      BY <1>0, <1>1, <2>1 DEF up
    <2>4. Service!Call(c, f)
      BY <2>1, <2>2, <2>3 DEF Service!Call
    <2> QED BY <1>1, <2>4 DEF Service!Next
  <1>2. CASE StopNotRunning(c)
    <2>1. /\ pc[c] = "stop" /\ pc' = [pc EXCEPT ![c] = "idle"] /\ server = None
          /\ reply' = [reply EXCEPT ![c] = "notRunning"]
          /\ UNCHANGED <<server, issued, served>>
      BY <1>2 DEF StopNotRunning, Return, Goto
    <2>2. call[c] = "stop" /\ call' = [call EXCEPT ![c] = "idle"]
      BY <1>0, <2>1, CallOf, CallMoves DEF ServePcs, StopPcs
    <2>3. up = 0 /\ up' = 0
      BY <2>1, UpIs, UpNextIs
    <2>4. Service!Stopped(c, "notRunning")
      BY <2>1, <2>2, <2>3 DEF Service!Stopped, Service!Return, Service!StopReplies
    <2> QED BY <2>4 DEF Service!Next, Service!StopReplies
  <1>3. CASE StopEnters(c)
    <2>1. /\ pc[c] = "stop" /\ pc' = [pc EXCEPT ![c] = "stopRead"]
          /\ UNCHANGED <<server, issued, noThread, served, reply>>
      BY <1>3 DEF StopEnters, Goto
    <2>2. call' = call
      BY <1>0, <2>1, CallStays DEF StopPcs
    <2>3. up' = up
      BY <1>0, <2>1 DEF up
    <2> QED BY <2>1, <2>2, <2>3 DEF Service!vars
  <1> QED BY <1>1, <1>2, <1>3

\* The steps of stop(), and the join.
LEMMA StopMaps ==
  ASSUME SInv, NEW a \in Actors, StopStep(a)
  PROVE  [Service!Next]_(Service!vars)
  <1>0. /\ TypeOK /\ Sql \subseteq Actors
        /\ pc \in [Actors -> {"idle", "gone"} \cup ServePcs \cup StopPcs]
    BY DEF SInv, Inv, TypeOK, StateTypeOK, Actors
  <1>1. CASE StopReads(a) \/ StopTakesSocket(a) \/ StopClosesSocket(a)
    <2>1. /\ pc[a] \in StopPcs /\ \E l \in {"stopTake", "stopClose", "join"} : pc' = [pc EXCEPT ![a] = l]
          /\ UNCHANGED <<server, issued, noThread, served, reply>>
      BY <1>1 DEF StopReads, StopTakesSocket, StopClosesSocket, Goto, StopPcs
    <2>2. call' = call
      BY <1>0, <2>1, CallStays DEF StopPcs
    <2>3. up' = up
      BY <1>0, <2>1 DEF up, StopPcs
    <2> QED BY <2>1, <2>2, <2>3 DEF Service!vars
  <1>2. CASE StopJoins(a)
    <2>1. /\ a \in Sql /\ pc[a] = "join" /\ pc' = [pc EXCEPT ![a] = "idle"] /\ server' = None
          /\ reply' = [reply EXCEPT ![a] = "stopped"]
          /\ UNCHANGED <<issued, served>>
      BY <1>2 DEF StopJoins, Return, Goto
    <2>2. call[a] = "stop" /\ call' = [call EXCEPT ![a] = "idle"]
      BY <1>0, <2>1, CallOf, CallMoves DEF ServePcs, StopPcs
    <2>3. up' = 0
      BY <2>1, UpNextIs
    <2>4. Service!Stopped(a, "stopped")
      BY <2>1, <2>2, <2>3 DEF Service!Stopped, Service!Return, Service!StopReplies
    <2> QED BY <2>1, <2>4 DEF Service!Next, Service!StopReplies
  <1> QED BY <1>1, <1>2 DEF StopStep

\* The process exits.
LEMMA ExitMaps ==
  ASSUME SInv, ExitBegins \/ ExitJoins
  PROVE  [Service!Next]_(Service!vars)
  <1>0. /\ TypeOK /\ Sql \subseteq Actors /\ Main \notin Sql /\ Main \in Actors
        /\ pc \in [Actors -> {"idle", "gone"} \cup ServePcs \cup StopPcs]
    BY GraphServerAssumption DEF SInv, Inv, TypeOK, StateTypeOK, Actors
  <1>1. /\ \E l : pc' = [pc EXCEPT ![Main] = l]
        /\ UNCHANGED <<issued, noThread, served, reply>>
    BY DEF ExitBegins, ExitJoins, Goto
  <1>2. call' = call
    BY <1>0, <1>1, CallStays
  <1>3. Starting' = Starting
    BY <1>0, <1>1 DEF Starting
  <1>4. CASE ExitBegins
    <2>1. server' = server
      BY <1>4 DEF ExitBegins
    <2>2. up' = up
      BY <1>1, <1>3, <2>1 DEF up, Starting
    <2> QED BY <1>1, <1>2, <2>2 DEF Service!vars
  <1>5. CASE ExitJoins
    <2>1. up' = 0
      BY <1>5, UpNextIs DEF ExitJoins
    <2>2. \A c \in Sql : pc[c] = "idle"
      BY <1>0, <1>5 DEF ExitJoins, SInv, Inv, OneOwner
    <2>3. \A c \in Sql : call[c] = "idle"
      BY <2>2, CallOf
    <2>4. Service!Exit
      BY <1>1, <1>2, <2>1, <2>3 DEF Service!Exit
    <2> QED BY <2>4 DEF Service!Next
  <1> QED BY <1>4, <1>5

\* Requests and their answers.
LEMMA ConnMaps ==
  ASSUME SInv, NEW k \in Conns, PoolStep(k) \/ ClientStep(k)
  PROVE  [Service!Next]_(Service!vars)
  <1>1. UNCHANGED <<server, pc, reply, issued, noThread, token, lpc>>
    BY ConnStepFrame DEF stateVars
  <1>2. call' = call /\ up' = up
    BY <1>1 DEF call, up
  <1>3. CASE served' = served
    BY <1>1, <1>2, <1>3 DEF Service!vars
  <1>4. CASE /\ Processing(k) /\ conn[k].req.token = token
             /\ served' = served \cup {<<conn[k].req.token, conn[k].fd>>}
    <2>1. conn[k].fd = server /\ server # None /\ lpc # "none"
      BY <1>4 DEF Processing, SInv, Inv, HandlersOutlived, WorkerStates
    <2>2. token = server /\ server \notin noThread /\ ~Starting
      BY <2>1, GraphServerAssumption DEF SInv, Inv, SessionLife, NumbersOfSessions, Starting, Actors
    <2>3. up = server
      BY <2>2, UpIs
    <2>4. served' = served \cup {<<up, up>>} /\ up # 0
      BY <1>4, <2>1, <2>2, <2>3 DEF None
    <2>5. Service!Answer
      BY <1>1, <1>2, <2>4 DEF Service!Answer
    <2> QED BY <2>5 DEF Service!Next
  <1> QED BY <1>3, <1>4, ServedStep

\* The two table functions and the token do what GraphService says, with threads,
\* locks, sockets and an exit at any moment (cpp:500-709).
THEOREM ServiceImplemented == Spec => ImplementsService
  <1>1. ASSUME SInv, [Next]_vars PROVE [Service!Next]_(Service!vars)
    <2>1. CASE \/ UNCHANGED vars \/ Gone \/ PortsChange \/ ListenerStep \/ PoolTakes
      <3>1. UNCHANGED <<server, pc, reply, issued, noThread, served>>
        BY <2>1 DEF Gone, PortsChange, ListenerStep, PoolTakes, vars, stateVars
      <3> QED BY <3>1 DEF Service!vars, call, up
    <2> QED BY <1>1, <2>1, ServeMaps, CallMaps, StopMaps, ExitMaps, ConnMaps DEF Next
  <1> QED BY <1>1, ServiceInit, ServiceInvariance, PTL DEF Spec, ImplementsService, Service!Spec
=============================================================================

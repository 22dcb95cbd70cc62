-------------------------- MODULE GraphPageProofs ---------------------------
(***************************************************************************)
(* The safety properties of GraphPage, for any number of sessions, changes *)
(* of the database and clicks.                                             *)
(*                                                                         *)
(* The argument.  An answer is made under the token of its session and at  *)
(* a version that the database has by then, and keeps both (RepliesOfToken,*)
(* NotAhead); the worker asks for the edges when it has the nodes, so the  *)
(* answer for the edges is not older than them (EdgesAfterNodes).  Only the*)
(* callback of a click ends its request, and it writes the tooltip.        *)
(***************************************************************************)
EXTENDS GraphPage, TLAPS

Graphs == {"rows", "zero_ids"}

\* Whatever decodes to rows was answered in the session of the page's token.
RepliesOfToken ==
  /\ \A a \in Askers : reply[a].body \in Graphs => reply[a].session = token
  /\ nodes.body \in Graphs => nodes.session = token

\* No answer is of a version that the database has not had yet.
NotAhead ==
  /\ \A a \in Askers : reply[a].version <= version
  /\ nodes.version <= version

\* While the worker has, or waits for, the edges, it has the nodes.
EdgesAfterNodes ==
  /\ wpc \in {"edges", "graph"} => request[Worker] = "edges"
  /\ (request[Worker] = "edges" /\ reply[Worker].status = 200)
       => reply[Worker].version >= nodes.version

\* An answer for a node's details that is good is a row, none, or no JSON.
DetailsDecode ==
  \A a \in Askers : (request[a] = "details" /\ reply[a].status = 200)
                      => reply[a].body \in {"row", "no_row", "text"}

ClickExists == tooltip.text = "loading" => tooltip.click \in Clicks

IInv ==
  /\ TypeOK
  /\ RepliesOfToken
  /\ NotAhead
  /\ EdgesAfterNodes
  /\ DetailsDecode
  /\ ClickExists
  /\ OneSession
  /\ EdgesNotOlder
  /\ WaitingHasRequest

\* An answer is well typed, of the token's session when it decodes to rows, of the
\* present version or none, and for details what DetailsDecode says.
LEMMA AnswerFacts ==
  ASSUME TypeOK, NEW r \in {"config", "nodes", "edges", "details"}, NEW p \in PossibleAnswers(r)
  PROVE  /\ p \in [status : {0, 200, 401, 500}, body : Bodies, session : 0..MaxSessions, version : Versions]
         /\ p.body \in Graphs => p.session = token
         /\ p.version <= version
         /\ p.status = 200 => p.version = version
         /\ (r = "details" /\ p.status = 200) => p.body \in {"row", "no_row", "text"}
  <1>0. session \in 0..MaxSessions /\ version \in Versions /\ version \in Nat /\ goodConfig \in BOOLEAN
    BY PageAssumption DEF TypeOK, Versions
  <1>1. CASE p \in Broken
    BY <1>0, <1>1, PageAssumption DEF Broken, Bodies, Graphs, Versions, Off
  <1>2. ASSUME NEW s \in {401, 500}, p \in ErrorAnswers(r, s)
        PROVE  p \in [status : {s}, body : {"empty", "garbage", "exception", "none", "text"},
                      session : {session}, version : {version}]
    BY <1>2 DEF ErrorAnswers, Answers, Snapshot
  <1>3. ASSUME NEW B \in SUBSET Bodies, p \in Answers(r, 200, B)
        PROVE  /\ p \in [status : {200}, body : Bodies, session : {session}, version : {version}]
               /\ p.body \in B
    BY <1>3 DEF Answers, Snapshot
  <1>4. CASE p \in GoodAnswers(r) /\ Authorized
    <2>1. CASE p \in ErrorAnswers(r, 500)
      BY <1>0, <1>2, <2>1 DEF Graphs, Bodies
    <2>2. CASE r = "details" /\ p \in Answers(r, 200, {"row", "no_row", "text"})
      BY <1>0, <1>3, <1>4, <2>2 DEF Graphs, Bodies, Authorized
    <2>3. CASE r # "details" /\ \E B \in SUBSET Bodies : p \in Answers(r, 200, B)
      BY <1>0, <1>3, <1>4, <2>3 DEF Graphs, Authorized
    <2>4. r = "config" => p \in Answers(r, 200, {IF goodConfig THEN "json" ELSE "text"})
      BY <1>4 DEF GoodAnswers
    <2>5. r = "nodes" => p \in Answers(r, 200, {"rows", "zero_ids", "empty", "exception"}) \cup ErrorAnswers(r, 500)
      BY <1>4 DEF GoodAnswers
    <2>6. r = "edges" => p \in Answers(r, 200, {"rows", "none"}) \cup ErrorAnswers(r, 500)
      BY <1>4 DEF GoodAnswers
    <2>7. r = "details" => p \in Answers(r, 200, {"row", "no_row", "text"}) \cup ErrorAnswers(r, 500)
      BY <1>4 DEF GoodAnswers
    <2>8. /\ {IF goodConfig THEN "json" ELSE "text"} \in SUBSET Bodies
          /\ {"rows", "zero_ids", "empty", "exception"} \in SUBSET Bodies
          /\ {"rows", "none"} \in SUBSET Bodies
      BY DEF Bodies
    <2> QED BY <2>1, <2>2, <2>3, <2>4, <2>5, <2>6, <2>7, <2>8
  <1>5. CASE p \in ErrorAnswers(r, 401)
    BY <1>0, <1>2, <1>5 DEF Graphs, Bodies
  <1> QED BY <1>1, <1>4, <1>5 DEF PossibleAnswers

ReplyType == [status : {0, 200, 401, 500}, body : Bodies, session : 0..MaxSessions,
              version : Versions]
Requests  == {"none", "config", "nodes", "edges", "details"}

\* Who asks: main.js, the worker and the clicks are different.
LEMMA AskersDiffer ==
  /\ Main \in Askers /\ Worker \in Askers /\ Main # Worker
  /\ \A c \in Clicks : c \in Askers /\ c # Main /\ c # Worker
  BY PageAssumption DEF Main, Worker, Askers, Clicks

\* Asking, or ending a request, changes one asker's request and takes its reply away.
LEMMA AskFacts ==
  ASSUME TypeOK, NEW a \in Askers, NEW r \in Requests, Ask(a, r)
  PROVE  /\ request' \in [Askers -> Requests] /\ reply' \in [Askers -> ReplyType]
         /\ \A b \in Askers : request'[b] = IF b = a THEN r ELSE request[b]
         /\ \A b \in Askers : reply'[b] = IF b = a THEN NoReply ELSE reply[b]
         /\ NoReply \in ReplyType
         /\ NoReply.status = 0 /\ NoReply.body = "none" /\ NoReply.version = 0
  <1>1. NoReply \in ReplyType
    BY PageAssumption DEF NoReply, ReplyType, Bodies, Versions, Off
  <1> QED BY <1>1 DEF Ask, TypeOK, NoReply, ReplyType, Requests

LEMMA InitInv == Init => IInv
  <1> SUFFICES ASSUME Init PROVE IInv OBVIOUS
  <1>1. NoReply \in ReplyType /\ NoData \in DataType
    BY PageAssumption DEF NoReply, NoData, ReplyType, DataType, Bodies, Versions, Off
  <1>2. TypeOK
    <2>1. /\ session \in 0..MaxSessions /\ issued \in Sessions /\ session <= issued
          /\ version \in Versions /\ clicked \in 0..MaxClicks
          /\ tooltip \in [text : {"none", "loading", "no_ids", "error", "row", "no_row"},
                          click : 0..MaxClicks]
      BY PageAssumption DEF Init, Sessions, Versions
    <2>2. /\ reply \in [Askers -> ReplyType]
          /\ request \in [Askers -> {"none", "config", "nodes", "edges", "details"}]
      BY <1>1 DEF Init
    <2>3. nodes \in DataType /\ shown \in [nodes : DataType, edges : DataType]
      BY <1>1 DEF Init
    <2> QED BY <2>1, <2>2, <2>3 DEF Init, TypeOK, ReplyType
  <1>3. RepliesOfToken /\ NotAhead /\ OneSession
    BY PageAssumption DEF Init, RepliesOfToken, NotAhead, OneSession, Graphs, NoReply, NoData
  <1>4. EdgesAfterNodes /\ DetailsDecode /\ ClickExists /\ EdgesNotOlder /\ WaitingHasRequest
    BY AskersDiffer DEF Init, EdgesAfterNodes, DetailsDecode, ClickExists, EdgesNotOlder,
       WaitingHasRequest, NoReply
  <1> QED BY <1>2, <1>3, <1>4 DEF IInv

\* Sessions come and go, and the database changes: no answer is touched.
LEMMA ServerStep ==
  ASSUME IInv, Stop \/ Serve \/ Update
  PROVE  IInv'
  <1>1. /\ UNCHANGED <<goodConfig, token, mpc, wpc, request, reply, nodes, loading, shown, useIds,
                       clicked, tooltip>>
        /\ session' \in 0..MaxSessions /\ issued' \in Sessions /\ session' <= issued'
        /\ version' \in Versions /\ version <= version'
    BY PageAssumption DEF IInv, TypeOK, Stop, Serve, Update, Sessions, Versions, Off
  <1>2. TypeOK'
    BY <1>1 DEF IInv, TypeOK
  <1>3. NotAhead'
    <2>1. \A a \in Askers : reply[a].version \in Nat
      BY DEF IInv, TypeOK, Versions
    <2>2. nodes.version \in Nat /\ version \in Nat /\ version' \in Nat
      BY <1>1 DEF IInv, TypeOK, DataType, Versions
    <2> QED BY <1>1, <2>1, <2>2 DEF IInv, NotAhead
  <1>4. /\ RepliesOfToken' /\ EdgesAfterNodes' /\ DetailsDecode' /\ ClickExists' /\ OneSession'
        /\ EdgesNotOlder' /\ WaitingHasRequest'
    BY <1>1 DEF IInv, RepliesOfToken, EdgesAfterNodes, DetailsDecode, ClickExists, OneSession,
       EdgesNotOlder, WaitingHasRequest
  <1> QED BY <1>2, <1>3, <1>4 DEF IInv

\* The server answers: under its token, at the version of now.
LEMMA AnswerStep ==
  ASSUME IInv, NEW a \in Askers, Answer(a)
  PROVE  IInv'
  <1>1. PICK p \in PossibleAnswers(request[a]) : reply' = [reply EXCEPT ![a] = p]
    BY DEF Answer
  <1>2. request[a] \in {"config", "nodes", "edges", "details"}
    BY DEF IInv, TypeOK, Answer
  <1>3. /\ p \in ReplyType
        /\ p.body \in Graphs => p.session = token
        /\ p.version <= version
        /\ p.status = 200 => p.version = version
        /\ (request[a] = "details" /\ p.status = 200) => p.body \in {"row", "no_row", "text"}
    BY <1>2, AnswerFacts DEF IInv, ReplyType
  <1>4. \A b \in Askers : reply'[b] = IF b = a THEN p ELSE reply[b]
    BY <1>1 DEF IInv, TypeOK
  <1>5. UNCHANGED <<session, issued, version, goodConfig, token, mpc, wpc, request, nodes, loading,
                    shown, useIds, clicked, tooltip>>
    BY DEF Answer, server
  <1>6. TypeOK'
    BY <1>1, <1>3, <1>5 DEF IInv, TypeOK, ReplyType
  <1>7. RepliesOfToken' /\ NotAhead' /\ DetailsDecode'
    BY <1>3, <1>4, <1>5 DEF IInv, RepliesOfToken, NotAhead, DetailsDecode
  <1>8. EdgesAfterNodes'
    BY <1>3, <1>4, <1>5, AskersDiffer DEF IInv, NotAhead, EdgesAfterNodes
  <1>9. ClickExists' /\ OneSession' /\ EdgesNotOlder' /\ WaitingHasRequest'
    BY <1>5 DEF IInv, ClickExists, OneSession, EdgesNotOlder, WaitingHasRequest
  <1> QED BY <1>6, <1>7, <1>8, <1>9 DEF IInv

\* What an asker's new request, or the end of its old one, cannot disturb; the worker
\* may take its answer for nodes.
LEMMA AskInv ==
  ASSUME IInv, NEW a \in Askers, NEW r \in Requests, Ask(a, r), UNCHANGED <<server, token>>,
         nodes' \in {nodes, Data(reply[a])}
  PROVE  /\ RepliesOfToken' /\ NotAhead' /\ DetailsDecode'
         /\ request' \in [Askers -> Requests] /\ reply' \in [Askers -> ReplyType]
         /\ nodes' \in DataType
         /\ session' \in 0..MaxSessions /\ issued' \in Sessions /\ session' <= issued'
         /\ version' \in Versions /\ goodConfig' \in BOOLEAN /\ token' \in {1, Off}
  <1>1. TypeOK BY DEF IInv
  <1>2. /\ \A b \in Askers : request'[b] = IF b = a THEN r ELSE request[b]
        /\ \A b \in Askers : reply'[b] = IF b = a THEN NoReply ELSE reply[b]
        /\ NoReply.status = 0 /\ NoReply.body = "none" /\ NoReply.version = 0
        /\ request' \in [Askers -> Requests] /\ reply' \in [Askers -> ReplyType]
    BY <1>1, AskFacts
  <1>3. version \in Nat /\ version' = version /\ token' = token
    BY <1>1, PageAssumption DEF TypeOK, Versions, server
  <1>4. reply[a] \in ReplyType
    BY <1>1 DEF TypeOK, ReplyType
  <1>5. /\ Data(reply[a]) \in DataType
        /\ Data(reply[a]).body = reply[a].body /\ Data(reply[a]).session = reply[a].session
        /\ Data(reply[a]).version = reply[a].version
    BY <1>4 DEF Data, DataType, ReplyType
  <1>6. RepliesOfToken'
    BY <1>2, <1>3, <1>5 DEF IInv, RepliesOfToken, Graphs
  <1>7. NotAhead'
    BY <1>2, <1>3, <1>5 DEF IInv, NotAhead
  <1>8. DetailsDecode'
    BY <1>2 DEF IInv, DetailsDecode
  <1>9. /\ session' \in 0..MaxSessions /\ issued' \in Sessions /\ session' <= issued'
        /\ version' \in Versions /\ goodConfig' \in BOOLEAN /\ token' \in {1, Off}
    BY <1>1 DEF TypeOK, server
  <1>10. nodes' \in DataType
    BY <1>1, <1>5 DEF TypeOK
  <1> QED BY <1>2, <1>6, <1>7, <1>8, <1>9, <1>10

\* main.js asks for the configuration or has its answer: only the loading changes.
LEMMA MainAsks ==
  ASSUME IInv, NEW r \in Requests, Ask(Main, r),
         UNCHANGED <<server, token, nodes, shown, useIds, clicked, tooltip>>,
         wpc' \in {wpc, "started", "lost"},
         mpc' \in {"config", "waiting", "ended"},
         loading' \in {loading, "error", "invalid_token"}
  PROVE  IInv'
  <1>1. /\ RepliesOfToken' /\ NotAhead' /\ DetailsDecode'
        /\ request' \in [Askers -> Requests] /\ reply' \in [Askers -> ReplyType]
        /\ nodes' \in DataType
        /\ session' \in 0..MaxSessions /\ issued' \in Sessions /\ session' <= issued'
        /\ version' \in Versions /\ goodConfig' \in BOOLEAN /\ token' \in {1, Off}
    BY AskInv, AskersDiffer
  <1>2. TypeOK'
    BY <1>1 DEF IInv, TypeOK, ReplyType, Requests
  <1>3. /\ \A b \in Askers : b # Main => request'[b] = request[b]
        /\ \A b \in Askers : b # Main => reply'[b] = reply[b]
    BY AskFacts, AskersDiffer DEF IInv
  <1>4. EdgesAfterNodes'
    BY <1>3, AskersDiffer DEF IInv, EdgesAfterNodes
  <1>5. ClickExists' /\ WaitingHasRequest'
    BY <1>3, AskersDiffer DEF IInv, ClickExists, WaitingHasRequest
  <1>6. OneSession' /\ EdgesNotOlder'
    BY DEF IInv, OneSession, EdgesNotOlder
  <1> QED BY <1>1, <1>2, <1>4, <1>5, <1>6 DEF IInv

\* The worker asks for more or has its last answer; it has asked for edges while it
\* waits for them.
LEMMA WorkerAsks ==
  ASSUME IInv, NEW r \in Requests, Ask(Worker, r),
         UNCHANGED <<server, token, clicked, tooltip>>,
         nodes' \in {nodes, Data(reply[Worker])},
         wpc' \in {"config", "nodes", "edges", "empty", "error", "done"},
         wpc' = "edges" => r = "edges",
         mpc' \in {mpc, "drawn"}, loading' \in {loading, "hidden"}, useIds' \in BOOLEAN,
         shown' \in [nodes : DataType, edges : DataType],
         OneSession', EdgesNotOlder'
  PROVE  IInv'
  <1>1. /\ RepliesOfToken' /\ NotAhead' /\ DetailsDecode'
        /\ request' \in [Askers -> Requests] /\ reply' \in [Askers -> ReplyType]
        /\ nodes' \in DataType
        /\ session' \in 0..MaxSessions /\ issued' \in Sessions /\ session' <= issued'
        /\ version' \in Versions /\ goodConfig' \in BOOLEAN /\ token' \in {1, Off}
    BY AskInv, AskersDiffer
  <1>2. TypeOK'
    BY <1>1 DEF IInv, TypeOK, ReplyType, Requests
  <1>3. /\ \A b \in Askers : b # Worker => request'[b] = request[b]
        /\ request'[Worker] = r /\ reply'[Worker].status = 0
    BY AskFacts, AskersDiffer DEF IInv
  <1>4. EdgesAfterNodes'
    BY <1>3 DEF EdgesAfterNodes
  <1>5. ClickExists' /\ WaitingHasRequest'
    BY <1>3, AskersDiffer DEF IInv, ClickExists, WaitingHasRequest
  <1> QED BY <1>1, <1>2, <1>4, <1>5 DEF IInv

\* No request and no answer changes: the page writes what it knows already.
LEMMA NobodyAsks ==
  ASSUME IInv, UNCHANGED <<server, token, request, reply, nodes, clicked, tooltip>>,
         mpc' \in {mpc, "ended", "drawn"},
         wpc' \in {wpc, "graph", "done"}, wpc' = "graph" => wpc \in {"edges", "graph"},
         loading' \in {loading, "error", "hidden", "missing_token"}, useIds' \in BOOLEAN,
         shown' \in [nodes : DataType, edges : DataType],
         OneSession', EdgesNotOlder'
  PROVE  IInv'
  <1>1. TypeOK'
    BY DEF IInv, TypeOK, server
  <1>2. RepliesOfToken' /\ NotAhead' /\ DetailsDecode'
    BY DEF IInv, RepliesOfToken, NotAhead, DetailsDecode, server
  <1>3. EdgesAfterNodes'
    BY DEF IInv, EdgesAfterNodes
  <1>4. ClickExists' /\ WaitingHasRequest'
    BY DEF IInv, ClickExists, WaitingHasRequest
  <1> QED BY <1>1, <1>2, <1>3, <1>4 DEF IInv

\* Nothing new is drawn.
LEMMA ShownLeft ==
  ASSUME IInv, UNCHANGED <<token, shown>>
  PROVE  /\ shown' \in [nodes : DataType, edges : DataType]
         /\ OneSession' /\ EdgesNotOlder'
  <1>1. shown' \in [nodes : DataType, edges : DataType]
    BY DEF IInv, TypeOK
  <1>2. OneSession' /\ EdgesNotOlder'
    BY DEF IInv, OneSession, EdgesNotOlder
  <1> QED BY <1>1, <1>2

LEMMA MainSteps ==
  ASSUME IInv, Start \/ MainConfig
  PROVE  IInv'
  <1>0. useIds \in BOOLEAN
    BY DEF IInv, TypeOK
  <1>1. CASE Start /\ token = Off
    <2>1. /\ UNCHANGED <<server, token, request, reply, wpc, nodes, shown, useIds, clicked, tooltip>>
          /\ mpc' = "ended" /\ loading' = "missing_token"
      BY <1>1 DEF Start
    <2> QED BY <1>0, <2>1, ShownLeft, NobodyAsks
  <1>2. CASE Start /\ token # Off
    <2>1. /\ Ask(Main, "config") /\ mpc' = "config" /\ loading' = loading
          /\ UNCHANGED <<server, token, wpc, nodes, shown, useIds, clicked, tooltip>>
      BY <1>2 DEF Start
    <2> QED BY <2>1, MainAsks DEF Requests
  <1>3. CASE MainConfig
    <2>1. /\ Ask(Main, "none")
          /\ UNCHANGED <<server, token, nodes, shown, useIds, clicked, tooltip>>
          /\ wpc' \in {wpc, "started", "lost"} /\ mpc' \in {"waiting", "ended"}
          /\ loading' \in {loading, "error", "invalid_token"}
      BY <1>3 DEF MainConfig, Done
    <2> QED BY <2>1, MainAsks DEF Requests
  <1> QED BY <1>1, <1>2, <1>3

LEMMA WorkerSteps ==
  ASSUME IInv, WorkerStep
  PROVE  IInv'
  <1>0. useIds \in BOOLEAN
    BY DEF IInv, TypeOK
  <1>1. UNCHANGED <<server, token, mpc, loading, shown, useIds, clicked, tooltip>>
    BY DEF WorkerStep, WorkerStart, WorkerConfig, WorkerNodes, WorkerEdges, workerLeaves
  <1>2. CASE WorkerStart
    <2>1. Ask(Worker, "config") /\ wpc' = "config" /\ nodes' = nodes
      BY <1>2 DEF WorkerStart
    <2> QED BY <1>0, <1>1, <2>1, ShownLeft, WorkerAsks DEF Requests
  <1>3. CASE WorkerConfig
    <2>1. /\ nodes' = nodes
          /\ \/ Ask(Worker, "nodes") /\ wpc' = "nodes"
             \/ Ask(Worker, "none") /\ wpc' = "error"
      BY <1>3 DEF WorkerConfig, Throw, Done
    <2> QED BY <1>0, <1>1, <2>1, ShownLeft, WorkerAsks DEF Requests
  <1>4. CASE WorkerNodes
    <2>1. /\ nodes' \in {nodes, Data(reply[Worker])}
          /\ \/ Ask(Worker, "edges") /\ wpc' = "edges"
             \/ Ask(Worker, "none") /\ wpc' \in {"empty", "error"}
      BY <1>4 DEF WorkerNodes, Throw, Done
    <2> QED BY <1>0, <1>1, <2>1, ShownLeft, WorkerAsks DEF Requests
  <1>5. CASE WorkerEdges
    <2>1. /\ UNCHANGED <<server, token, request, reply, nodes, clicked, tooltip>>
          /\ wpc = "edges" /\ wpc' = "graph" /\ mpc' = mpc /\ loading' = loading
          /\ useIds' = useIds
      BY <1>1, <1>5 DEF WorkerEdges
    <2>2. shown' \in [nodes : DataType, edges : DataType] /\ OneSession' /\ EdgesNotOlder'
      BY <1>1, ShownLeft
    <2> QED BY <1>0, <2>1, <2>2, NobodyAsks
  <1> QED BY <1>2, <1>3, <1>4, <1>5 DEF WorkerStep

\* What is drawn was answered under the page's token, the edges after the nodes.
LEMMA ShowSteps ==
  ASSUME IInv, ShowError \/ ShowEmpty \/ ShowGraph
  PROVE  IInv'
  <1>0. /\ useIds \in BOOLEAN /\ nodes \in DataType /\ NoData \in DataType
        /\ NoData.body = "none" /\ reply[Worker] \in ReplyType
    BY PageAssumption, AskersDiffer
    DEF IInv, TypeOK, ReplyType, DataType, NoData, Off, Bodies, Versions
  <1>1. CASE ShowError
    <2>1. /\ UNCHANGED <<server, token, request, reply, nodes, shown, useIds, clicked, tooltip>>
          /\ mpc' = "ended" /\ wpc' = "done" /\ loading' = "error"
      BY <1>1 DEF ShowError
    <2> QED BY <1>0, <2>1, ShownLeft, NobodyAsks
  <1>2. CASE ShowEmpty
    <2>1. /\ UNCHANGED <<server, token, request, reply, nodes, useIds, clicked, tooltip>>
          /\ mpc' = "drawn" /\ wpc' = "done" /\ loading' = "hidden"
          /\ shown' = [nodes |-> nodes, edges |-> NoData]
      BY <1>2 DEF ShowEmpty
    <2>2. shown' \in [nodes : DataType, edges : DataType] /\ OneSession' /\ EdgesNotOlder'
      BY <1>0, <2>1 DEF IInv, RepliesOfToken, OneSession, EdgesNotOlder, Graphs
    <2> QED BY <1>0, <2>1, <2>2, NobodyAsks
  <1>3. CASE ShowGraph
    <2> DEFINE e == IF reply[Worker].status = 200 /\ reply[Worker].body = "rows"
                    THEN Data(reply[Worker]) ELSE NoData
    <2>1. /\ UNCHANGED <<server, token, nodes, clicked, tooltip>>
          /\ wpc = "graph" /\ mpc' = "drawn" /\ wpc' = "done" /\ loading' = "hidden"
          /\ shown' = [nodes |-> nodes, edges |-> e] /\ useIds' \in BOOLEAN
          /\ Ask(Worker, "none")
      BY <1>3 DEF ShowGraph, Done
    <2>2. /\ e \in DataType
          /\ e.body \in Graphs => e.session = token
          /\ e # NoData => e.version >= nodes.version
      <3>1. CASE reply[Worker].status = 200 /\ reply[Worker].body = "rows"
        <4>1. /\ e \in DataType /\ e.body = "rows" /\ e.session = reply[Worker].session
              /\ e.version = reply[Worker].version
          BY <1>0, <3>1 DEF Data, DataType, ReplyType
        <4>2. reply[Worker].session = token
          BY <3>1, AskersDiffer DEF IInv, RepliesOfToken, Graphs
        <4>3. reply[Worker].version >= nodes.version
          BY <2>1, <3>1 DEF IInv, EdgesAfterNodes
        <4> QED BY <4>1, <4>2, <4>3
      <3>2. CASE ~(reply[Worker].status = 200 /\ reply[Worker].body = "rows")
        BY <1>0, <3>2 DEF Graphs
      <3> QED BY <3>1, <3>2
    <2> HIDE DEF e
    <2>3. shown' \in [nodes : DataType, edges : DataType]
      BY <1>0, <2>1, <2>2
    <2>4. OneSession'
      BY <2>1, <2>2 DEF IInv, RepliesOfToken, OneSession, Graphs
    <2>5. EdgesNotOlder'
      <3>1. UNCHANGED NoData
        BY DEF NoData, Off
      <3> QED BY <2>1, <2>2, <3>1 DEF EdgesNotOlder
    <2> QED BY <2>1, <2>3, <2>4, <2>5, WorkerAsks DEF Requests
  <1> QED BY <1>1, <1>2, <1>3

\* A click's tooltip waits exactly when its request is made.
LEMMA ClickStep ==
  ASSUME IInv, Click
  PROVE  IInv'
  <1> DEFINE c == clicked + 1
  <1>1. /\ UNCHANGED <<server, token, mpc, wpc, nodes, loading, shown, useIds>>
        /\ clicked' = c
        /\ \/ Ask(c, "details") /\ tooltip' = [text |-> "loading", click |-> c]
           \/ UNCHANGED <<request, reply>> /\ tooltip' = [text |-> "no_ids", click |-> c]
    BY DEF Click
  <1>2. c \in Clicks /\ c \in Askers /\ c # Worker
    BY PageAssumption, AskersDiffer DEF IInv, TypeOK, Click, Clicks
  <1> HIDE DEF c
  <1>3. /\ shown' \in [nodes : DataType, edges : DataType] /\ OneSession' /\ EdgesNotOlder'
    BY <1>1, ShownLeft
  <1>4. c \in 0..MaxClicks
    BY <1>2, PageAssumption DEF Clicks
  <1>5. CASE Ask(c, "details") /\ tooltip' = [text |-> "loading", click |-> c]
    <2>1. /\ RepliesOfToken' /\ NotAhead' /\ DetailsDecode'
          /\ request' \in [Askers -> Requests] /\ reply' \in [Askers -> ReplyType]
          /\ nodes' \in DataType
          /\ session' \in 0..MaxSessions /\ issued' \in Sessions /\ session' <= issued'
          /\ version' \in Versions /\ goodConfig' \in BOOLEAN /\ token' \in {1, Off}
      BY <1>1, <1>2, <1>5, AskInv DEF Requests
    <2>2. TypeOK'
      BY <1>1, <1>3, <1>4, <1>5, <2>1 DEF IInv, TypeOK, ReplyType, Requests
    <2>3. \A b \in Askers : /\ request'[b] = IF b = c THEN "details" ELSE request[b]
                            /\ b # c => reply'[b] = reply[b]
      BY <1>2, <1>5, AskFacts DEF IInv, Requests
    <2>4. EdgesAfterNodes'
      BY <1>1, <1>2, <2>3, AskersDiffer DEF IInv, EdgesAfterNodes
    <2>5. ClickExists' /\ WaitingHasRequest'
      BY <1>2, <1>5, <2>3 DEF ClickExists, WaitingHasRequest
    <2> QED BY <1>3, <2>1, <2>2, <2>4, <2>5 DEF IInv
  <1>6. CASE UNCHANGED <<request, reply>> /\ tooltip' = [text |-> "no_ids", click |-> c]
    <2>1. TypeOK'
      BY <1>1, <1>3, <1>4, <1>6 DEF IInv, TypeOK, server
    <2>2. RepliesOfToken' /\ NotAhead' /\ DetailsDecode' /\ EdgesAfterNodes'
      BY <1>1, <1>6 DEF IInv, RepliesOfToken, NotAhead, DetailsDecode, EdgesAfterNodes, server
    <2>3. ClickExists' /\ WaitingHasRequest'
      BY <1>6 DEF ClickExists, WaitingHasRequest
    <2> QED BY <1>3, <2>1, <2>2, <2>3 DEF IInv
  <1> QED BY <1>1, <1>5, <1>6

\* The callback of a click writes a text that does not wait.
LEMMA ClickAnsweredStep ==
  ASSUME IInv, NEW c \in Clicks, ClickAnswered(c)
  PROVE  IInv'
  <1>1. /\ UNCHANGED <<server, token, mpc, wpc, nodes, loading, shown, useIds, clicked>>
        /\ Ask(c, "none") /\ request[c] = "details"
        /\ tooltip' = [text |-> TooltipText(reply[c]), click |-> c]
    BY DEF ClickAnswered, Done, Answered
  <1>2. c \in Askers /\ c # Worker /\ c \in 0..MaxClicks
    BY PageAssumption, AskersDiffer DEF Clicks
  <1>3. TooltipText(reply[c]) \in {"error", "row", "no_row"}
    BY <1>1, <1>2 DEF IInv, DetailsDecode, TooltipText
  <1>4. /\ RepliesOfToken' /\ NotAhead' /\ DetailsDecode'
        /\ request' \in [Askers -> Requests] /\ reply' \in [Askers -> ReplyType]
        /\ nodes' \in DataType
        /\ session' \in 0..MaxSessions /\ issued' \in Sessions /\ session' <= issued'
        /\ version' \in Versions /\ goodConfig' \in BOOLEAN /\ token' \in {1, Off}
    BY <1>1, <1>2, AskInv DEF Requests
  <1>5. /\ shown' \in [nodes : DataType, edges : DataType] /\ OneSession' /\ EdgesNotOlder'
    BY <1>1, ShownLeft
  <1>6. TypeOK'
    BY <1>1, <1>2, <1>3, <1>4, <1>5 DEF IInv, TypeOK, ReplyType, Requests
  <1>7. \A b \in Askers : b # c => request'[b] = request[b] /\ reply'[b] = reply[b]
    BY <1>1, <1>2, AskFacts DEF IInv, Requests
  <1>8. EdgesAfterNodes'
    BY <1>1, <1>2, <1>7, AskersDiffer DEF IInv, EdgesAfterNodes
  <1>9. ClickExists' /\ WaitingHasRequest'
    BY <1>1, <1>3 DEF ClickExists, WaitingHasRequest
  <1> QED BY <1>4, <1>5, <1>6, <1>8, <1>9 DEF IInv

LEMMA StutterStep ==
  ASSUME IInv, UNCHANGED vars
  PROVE  IInv'
  BY DEF IInv, vars, TypeOK, RepliesOfToken, NotAhead, EdgesAfterNodes, DetailsDecode, ClickExists,
     OneSession, EdgesNotOlder, WaitingHasRequest

\* Every step of server, worker, main.js and clicks keeps the invariant.
THEOREM Invariance == Spec => []IInv
  <1>1. IInv /\ [Next]_vars => IInv'
    <2> SUFFICES ASSUME IInv, [Next]_vars PROVE IInv'
      OBVIOUS
    <2>1. CASE Stop \/ Serve \/ Update
      BY <2>1, ServerStep
    <2>2. CASE \E a \in Askers : Answer(a)
      BY <2>2, AnswerStep
    <2>3. CASE MainStep
      BY <2>3, MainSteps, ShowSteps DEF MainStep
    <2>4. CASE WorkerStep
      BY <2>4, WorkerSteps
    <2>5. CASE Click
      BY <2>5, ClickStep
    <2>6. CASE \E c \in Clicks : ClickAnswered(c)
      BY <2>6, ClickAnsweredStep
    <2>7. CASE Rest \/ UNCHANGED vars
      BY <2>7, StutterStep DEF Rest
    <2> QED BY <2>1, <2>2, <2>3, <2>4, <2>5, <2>6, <2>7 DEF Next
  <1> QED BY <1>1, InitInv, PTL DEF Spec

\* Every variable of the page keeps its type, for any bounds.
THEOREM PageTypes == Spec => []TypeOK
  <1>1. IInv => TypeOK
    BY DEF IInv
  <1> QED BY <1>1, Invariance, PTL

\* Rows that the page draws are of the session its token is of (the pre-routing
\* handler of cosmograph_extension.cpp and the worker's three fetches).
THEOREM DrawnOfOneSession == Spec => []OneSession
  <1>1. IInv => OneSession
    BY DEF IInv
  <1> QED BY <1>1, Invariance, PTL

\* The edges that are drawn are of no older snapshot than the nodes.
THEOREM DrawnEdgesNotOlder == Spec => []EdgesNotOlder
  <1>1. IInv => EdgesNotOlder
    BY DEF IInv
  <1> QED BY <1>1, Invariance, PTL

\* A tooltip that waits has the request of its click outstanding.
THEOREM TooltipHasRequest == Spec => []WaitingHasRequest
  <1>1. IInv => WaitingHasRequest
    BY DEF IInv
  <1> QED BY <1>1, Invariance, PTL
=============================================================================

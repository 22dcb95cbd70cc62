------------------------------ MODULE GraphPage ------------------------------
(***************************************************************************)
(* The page in the browser: main.js asks for the configuration, starts the *)
(* data worker, draws what it posts and answers clicks on nodes; worker.js *)
(* asks for the configuration, the nodes and the edges.  Meanwhile the     *)
(* user stops the server and serves another graph on the same port, and    *)
(* other connections change the database.                                  *)
(*                                                                         *)
(* The server is taken for what GraphService promises: a session at most,  *)
(* a token of its own for each.  An answer is fixed when the server makes  *)
(* it (Answer) and is used when the browser hands it over.  NodeRecords    *)
(* and EdgeRecords say what becomes of a body's bytes; here a body decodes *)
(* to nodes, to none or to an exception.                                   *)
(***************************************************************************)
EXTENDS Naturals, FiniteSets

CONSTANTS
  MaxSessions,   \* bound: sessions after one another
  MaxVersions,   \* bound: changes of the database
  MaxClicks      \* bound: clicks on nodes

ASSUME PageAssumption ==
  MaxSessions \in Nat \ {0} /\ MaxVersions \in Nat /\ MaxClicks \in Nat

Sessions == 1..MaxSessions
Off      == 0
Versions == 0..MaxVersions
Clicks   == 1..MaxClicks

\* Who waits for an answer: main.js, worker.js, and the callback of each click.
Main   == 0
Worker == MaxClicks + 1
Askers == 0..MaxClicks + 1

VARIABLES
  session,   \* the session that is up, or Off
  issued,    \* sessions so far
  version,   \* of the database
  goodConfig,\* config_json of the page's session is JSON
  token,     \* the session whose token the page's URL has, or Off: no token
  mpc,       \* where main.js is
  wpc,       \* where worker.js is
  request,   \* what each asker has asked for, "none" when it is not waiting
  reply,     \* the answer to it, once there
  nodes,     \* what the worker has made of the nodes
  loading,   \* what the page says of the loading: its text, or "hidden"
  shown,     \* what is drawn
  useIds,    \* main.js: an id other than 0 was found
  clicked,   \* clicks so far
  tooltip    \* its text, and the click it was written for

server == <<session, issued, version, goodConfig>>
vars   == <<session, issued, version, goodConfig, token, mpc, wpc, request, reply, nodes,
            loading, shown, useIds, clicked, tooltip>>

\* What the body of an answer decodes to: JSON or not for a configuration and a
\* node's details, nodes for the worker.
NoReply == [status |-> 0, body |-> "none", session |-> Off, version |-> 0]
NoData  == [body |-> "none", session |-> Off, version |-> 0]
Data(r) == [body |-> r.body, session |-> r.session, version |-> r.version]

Init ==
  /\ session = 1
  /\ issued = 1
  /\ version = 0
  /\ goodConfig \in BOOLEAN
  /\ token \in {1, Off}
  /\ mpc = "start"
  /\ wpc = "none"
  /\ request = [a \in Askers |-> "none"]
  /\ reply = [a \in Askers |-> NoReply]
  /\ nodes = NoData
  /\ loading = "loading"
  /\ shown = [nodes |-> NoData, edges |-> NoData]
  /\ useIds = FALSE
  /\ clicked = 0
  /\ tooltip = [text |-> "none", click |-> 0]

(***************************************************************************)
(* The server and the database.                                            *)
(***************************************************************************)

Stop ==
  /\ session # Off
  /\ session' = Off
  /\ UNCHANGED <<issued, version, goodConfig, token, mpc, wpc, request, reply, nodes,
                 loading, shown, useIds, clicked, tooltip>>

Serve ==
  /\ session = Off
  /\ issued < MaxSessions
  /\ issued' = issued + 1
  /\ session' = issued + 1
  /\ UNCHANGED <<version, goodConfig, token, mpc, wpc, request, reply, nodes,
                 loading, shown, useIds, clicked, tooltip>>

Update ==
  /\ version < MaxVersions
  /\ version' = version + 1
  /\ UNCHANGED <<session, issued, goodConfig, token, mpc, wpc, request, reply, nodes,
                 loading, shown, useIds, clicked, tooltip>>

\* Mutant of Authorized: the token is compared with nothing.
AuthorizesAll == session # Off

\* The pre-routing handler.
Authorized == session # Off /\ session = token

\* Mutant of Snapshot: the edges are kept from the beginning.
SnapshotKept(r) == IF r = "edges" THEN 0 ELSE version

\* Each request has a connection and a transaction of its own.
Snapshot(r) == version

Answers(r, s, bodies) ==
  {[status |-> s, body |-> b, session |-> session, version |-> Snapshot(r)] : b \in bodies}

\* An answer that is not 200 is a text.  Decoded as nodes it may be too short for a
\* record ("Unauthorized" is), have a length that is not whole words, or make nodes.
ErrorAnswers(r, s) ==
  Answers(r, s, CASE r = "nodes" -> IF s = 401 THEN {"empty"} ELSE {"empty", "garbage", "exception"}
                  [] r = "edges" -> {"none"}
                  [] OTHER -> {"text"})

\* A query may fail, before the first byte (500) or behind it; the body of edges or
\* nodes may then, or when the server stops, end anywhere.
GoodAnswers(r) ==
  CASE r = "config"  -> Answers(r, 200, {IF goodConfig THEN "json" ELSE "text"})
    [] r = "nodes"   -> Answers(r, 200, {"rows", "zero_ids", "empty", "exception"}) \cup ErrorAnswers(r, 500)
    [] r = "edges"   -> Answers(r, 200, {"rows", "none"}) \cup ErrorAnswers(r, 500)
    [] r = "details" -> Answers(r, 200, {"row", "no_row", "text"}) \cup ErrorAnswers(r, 500)

\* Nobody listens on the port, or the connection breaks: fetch rejects.
Broken == {[status |-> 0, body |-> "broken", session |-> Off, version |-> 0]}

PossibleAnswers(r) ==
  Broken \cup
    (IF session = Off THEN {}
     ELSE IF Authorized THEN GoodAnswers(r)
     ELSE ErrorAnswers(r, 401))

Answer(a) ==
  /\ request[a] # "none"
  /\ reply[a] = NoReply
  /\ \E r \in PossibleAnswers(request[a]) : reply' = [reply EXCEPT ![a] = r]
  /\ UNCHANGED <<server, token, mpc, wpc, request, nodes, loading, shown, useIds, clicked, tooltip>>

(***************************************************************************)
(* main.js: loading.                                                       *)
(***************************************************************************)

Ask(a, r) ==
  /\ request' = [request EXCEPT ![a] = r]
  /\ reply' = [reply EXCEPT ![a] = NoReply]

Answered(a, r) == request[a] = r /\ reply[a] # NoReply

Done(a) == Ask(a, "none")

\* Without a token the script says so and throws.
Start ==
  /\ mpc = "start"
  /\ IF token = Off
     THEN /\ loading' = "missing_token"
          /\ mpc' = "ended"
          /\ UNCHANGED <<request, reply>>
     ELSE /\ Ask(Main, "config")
          /\ mpc' = "config"
          /\ UNCHANGED loading
  /\ UNCHANGED <<server, token, wpc, nodes, shown, useIds, clicked, tooltip>>

\* The worker is started with a message; its script may not load, which nobody hears.
MainConfig ==
  /\ mpc = "config"
  /\ Answered(Main, "config")
  /\ IF reply[Main].status = 200 /\ reply[Main].body = "json"
     THEN /\ mpc' = "waiting"
          /\ wpc' \in {"started", "lost"}
          /\ UNCHANGED loading
     ELSE /\ mpc' = "ended"
          /\ loading' = IF reply[Main].status = 401 THEN "invalid_token" ELSE "error"
          /\ UNCHANGED wpc
  /\ Done(Main)
  /\ UNCHANGED <<server, token, nodes, shown, useIds, clicked, tooltip>>

(***************************************************************************)
(* worker.js: self.onmessage.                                              *)
(***************************************************************************)

workerLeaves == <<server, token, mpc, loading, shown, useIds, clicked, tooltip>>

WorkerStart ==
  /\ wpc = "started"
  /\ wpc' = "config"
  /\ Ask(Worker, "config")
  /\ UNCHANGED <<nodes, workerLeaves>>

\* Mutant of Throw: the worker has no catch.
ThrowUnseen ==
  /\ wpc' = "done"
  /\ Done(Worker)
  /\ UNCHANGED nodes

\* catch: the error's message is posted.
Throw ==
  /\ wpc' = "error"
  /\ Done(Worker)
  /\ UNCHANGED nodes

\* The status is not looked at; a text that is not JSON throws.
WorkerConfig ==
  /\ wpc = "config"
  /\ Answered(Worker, "config")
  /\ IF reply[Worker].body = "json"
     THEN /\ wpc' = "nodes"
          /\ Ask(Worker, "nodes")
          /\ UNCHANGED nodes
     ELSE Throw
  /\ UNCHANGED workerLeaves

\* Neither is it here: whatever has come is decoded.
WorkerNodes ==
  /\ wpc = "nodes"
  /\ Answered(Worker, "nodes")
  /\ IF reply[Worker].body \in {"broken", "exception"}
     THEN Throw
     ELSE /\ nodes' = Data(reply[Worker])
          /\ IF reply[Worker].body = "empty"
             THEN wpc' = "empty" /\ Done(Worker)
             ELSE wpc' = "edges" /\ Ask(Worker, "edges")
  /\ UNCHANGED workerLeaves

\* Edges that do not come are none (the inner catch).  The graph is posted.
WorkerEdges ==
  /\ wpc = "edges"
  /\ Answered(Worker, "edges")
  /\ wpc' = "graph"
  /\ UNCHANGED <<request, reply, nodes, workerLeaves>>

(***************************************************************************)
(* main.js: worker.onmessage.                                              *)
(***************************************************************************)

ShowError ==
  /\ wpc = "error"
  /\ wpc' = "done"
  /\ mpc' = "ended"
  /\ loading' = "error"
  /\ UNCHANGED <<server, token, request, reply, nodes, shown, useIds, clicked, tooltip>>

\* Zero nodes are drawn like any other number.
ShowEmpty ==
  /\ wpc = "empty"
  /\ wpc' = "done"
  /\ mpc' = "drawn"
  /\ loading' = "hidden"
  /\ shown' = [nodes |-> nodes, edges |-> NoData]
  /\ UNCHANGED <<server, token, request, reply, nodes, useIds, clicked, tooltip>>

ShowGraph ==
  /\ wpc = "graph"
  /\ wpc' = "done"
  /\ mpc' = "drawn"
  /\ loading' = "hidden"
  /\ shown' = [nodes |-> nodes,
               edges |-> IF reply[Worker].status = 200 /\ reply[Worker].body = "rows"
                         THEN Data(reply[Worker]) ELSE NoData]
  /\ useIds' = (nodes.body # "zero_ids")
  /\ Done(Worker)
  /\ UNCHANGED <<server, token, nodes, clicked, tooltip>>

(***************************************************************************)
(* main.js: onClick.                                                       *)
(***************************************************************************)

\* Every click shows the waiting text at once, and asks if there are ids.
Click ==
  /\ mpc = "drawn"
  /\ shown.nodes.body \in {"rows", "zero_ids", "garbage"}
  /\ clicked < MaxClicks
  /\ clicked' = clicked + 1
  /\ IF useIds
     THEN /\ tooltip' = [text |-> "loading", click |-> clicked + 1]
          /\ Ask(clicked + 1, "details")
     ELSE /\ tooltip' = [text |-> "no_ids", click |-> clicked + 1]
          /\ UNCHANGED <<request, reply>>
  /\ UNCHANGED <<server, token, mpc, wpc, nodes, loading, shown, useIds>>

\* Mutant of TooltipText: a request that fails leaves the text as it is.
TooltipIgnoring(r) ==
  IF r.status = 0 THEN tooltip.text
  ELSE IF r.status # 200 \/ r.body = "text" THEN "error"
  ELSE r.body

\* An error, a row, or the text for no row.
TooltipText(r) ==
  IF r.status # 200 \/ r.body = "text" THEN "error" ELSE r.body

\* The answer is shown, whichever click came last.
ClickAnswered(c) ==
  /\ Answered(c, "details")
  /\ tooltip' = [text |-> TooltipText(reply[c]), click |-> c]
  /\ Done(c)
  /\ UNCHANGED <<server, token, mpc, wpc, nodes, loading, shown, useIds, clicked>>

(***************************************************************************)
(* The specification.                                                      *)
(***************************************************************************)

WorkerStep == WorkerStart \/ WorkerConfig \/ WorkerNodes \/ WorkerEdges

MainStep == Start \/ MainConfig \/ ShowError \/ ShowEmpty \/ ShowGraph

\* The page may stay as it is for ever.
Rest ==
  /\ mpc \in {"ended", "drawn", "waiting"}
  /\ wpc \in {"none", "done", "lost"}
  /\ \A a \in Askers : request[a] = "none"
  /\ UNCHANGED vars

Next ==
  \/ Stop \/ Serve \/ Update
  \/ \E a \in Askers : Answer(a)
  \/ MainStep \/ WorkerStep
  \/ Click
  \/ \E c \in Clicks : ClickAnswered(c)
  \/ Rest

Spec == Init /\ [][Next]_vars

\* The browser runs callbacks that are ready, and a fetch ends with an answer or an
\* error.  Nobody needs to click, nor to touch the server.
FairSpec ==
  /\ Spec
  /\ \A a \in Askers : WF_vars(Answer(a))
  /\ WF_vars(MainStep)
  /\ WF_vars(WorkerStep)
  /\ \A c \in Clicks : WF_vars(ClickAnswered(c))

(***************************************************************************)
(* Properties.                                                             *)
(***************************************************************************)

Bodies == {"none", "json", "text", "rows", "zero_ids", "empty", "garbage", "exception",
           "row", "no_row", "broken"}
DataType == [body : Bodies, session : 0..MaxSessions, version : Versions]

TypeOK ==
  /\ session \in 0..MaxSessions /\ issued \in Sessions /\ session <= issued
  /\ version \in Versions /\ goodConfig \in BOOLEAN
  /\ token \in {1, Off}
  /\ mpc \in {"start", "config", "waiting", "drawn", "ended"}
  /\ wpc \in {"none", "started", "lost", "config", "nodes", "edges", "graph", "empty", "error", "done"}
  /\ request \in [Askers -> {"none", "config", "nodes", "edges", "details"}]
  /\ reply \in [Askers -> [status : {0, 200, 401, 500}, body : Bodies,
                           session : 0..MaxSessions, version : Versions]]
  /\ nodes \in DataType
  /\ loading \in {"loading", "hidden", "error", "missing_token", "invalid_token"}
  /\ shown \in [nodes : DataType, edges : DataType]
  /\ useIds \in BOOLEAN
  /\ clicked \in 0..MaxClicks
  /\ tooltip \in [text : {"none", "loading", "no_ids", "error", "row", "no_row"}, click : 0..MaxClicks]

\* Rows that the page draws, nodes and edges alike, are of the session its token is
\* of, although sessions come and go between the worker's requests.
OneSession ==
  \A d \in {shown.nodes, shown.edges} : d.body \in {"rows", "zero_ids"} => d.session = token

\* Nodes and edges are of two snapshots, and the edges' is never the older one: an
\* edge may name a node that was added since, none that was gone already.
EdgesNotOlder ==
  shown.edges # NoData => shown.edges.version >= shown.nodes.version

\* A tooltip that says it waits has an answer outstanding, the one for its click,
\* whatever answers for earlier clicks have come in between.
WaitingHasRequest ==
  tooltip.text = "loading" => request[tooltip.click] = "details"

\* The page stops saying that it loads, unless the worker's script was lost.
LoadingEnds == (loading = "loading") ~> (loading # "loading" \/ wpc = "lost")

\* A tooltip that waits gets its text.
TooltipFills == (tooltip.text = "loading") ~> (tooltip.text # "loading")
=============================================================================

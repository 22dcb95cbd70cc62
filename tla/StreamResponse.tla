---------------------------- MODULE StreamResponse ----------------------------
(***************************************************************************)
(* One request for graph data, from the handler to the end of its answer:  *)
(* the /data/ routes of src/src/cosmograph_extension.cpp, the content      *)
(* provider each hands to the server, the streaming result of DuckDB it    *)
(* reads, the loop of httplib that calls it (write_content_without_length) *)
(* and the connection, whose close is all that tells the client that the   *)
(* body has ended.  In HttplibServer the same connection is one element of *)
(* conn; RefinesConnection relates the two.                                *)
(*                                                                         *)
(* A body is a sequence of tokens: the chunks of rows by their number, and *)
(* for the JSON routes the brackets and separators around them.            *)
(***************************************************************************)
EXTENDS Naturals, Sequences

CONSTANTS
  MaxChunks,     \* bound: chunks of rows that the query returns
  KeepAliveMax   \* CPPHTTPLIB_KEEPALIVE_MAX_COUNT: requests per connection

ASSUME StreamAssumption == MaxChunks \in Nat /\ KeepAliveMax \in Nat \ {0}

Routes     == {"nodes", "edges", "nodes_binary", "edges_binary"}
JsonRoutes == {"nodes", "edges"}

\* What the user's query is and does.  Looking its columns up and sending it
\* are two statements: another connection may create or drop its tables in
\* between, so either can fail without the other.
Queries ==
  {q \in [empty     : BOOLEAN,
          bindFails : BOOLEAN,
          sendFails : BOOLEAN,
          columns   : {{}, {"x", "y"}, {"source", "target"}},
          total     : 0..MaxChunks,      \* the chunks of its result
          good      : 0..MaxChunks] :    \* those it returns before it fails
     q.good <= q.total}

VARIABLES
  route,    \* the route of the request
  bounds,   \* its spatial bounds: not all four present, numbers, or not numbers
  query,    \* nodes_query or edges_query
  pc,       \* where the pool's thread is with this connection
  left,     \* the keep-alive loop's count of requests
  status,   \* res.status, 0 while it is not set
  up,       \* svr_sock_ is valid
  held,     \* result_shared is not null
  stream,   \* the StreamQueryResult: "none", "open" or, after Close() or once the
            \* query has failed, "closed"
  fetched,  \* chunks it has returned
  late,     \* how many of them after svr_sock_ was invalidated
  first,    \* *first_chunk_shared
  avail,    \* data_available
  ok,       \* the sink's ok
  sent,     \* tokens of the body written in full
  peer      \* the client reads, no longer reads, or is gone

vars == <<route, bounds, query, pc, left, status, up, held, stream, fetched, late,
          first, avail, ok, sent, peer>>

inputs == <<route, bounds, query>>
reader == <<held, stream, fetched, late, first>>
sink   == <<avail, ok, sent>>

Row(i)      == <<"row", i>>         \* chunk i, no comma before its first row
CommaRow(i) == <<"comma row", i>>   \* chunk i, a comma before every row
Open        == <<"[", 0>>
Close       == <<"]", 0>>

Tokens == {Open, Close} \cup {Row(i) : i \in 1..MaxChunks}
                        \cup {CommaRow(i) : i \in 1..MaxChunks}

TypeOK ==
  /\ route \in Routes
  /\ bounds \in {"none", "numbers", "garbage"}
  /\ query \in Queries
  /\ pc \in {"handle", "loop", "provide", "enter", "poll", "gone", "close",
             "closed", "terminated"}
  /\ left \in 0..KeepAliveMax
  /\ status \in {0, 200, 400, 500}
  /\ up \in BOOLEAN /\ held \in BOOLEAN /\ first \in BOOLEAN
  /\ avail \in BOOLEAN /\ ok \in BOOLEAN
  /\ stream \in {"none", "open", "closed"}
  /\ fetched \in 0..MaxChunks
  /\ late \in 0..fetched
  /\ sent \in Seq(Tokens)
  /\ peer \in {"reads", "stalls", "gone"}

\* The handler is about to run on the first request of a connection.
Init ==
  /\ route \in Routes
  /\ bounds \in {"none", "numbers", "garbage"}
  /\ query \in Queries
  /\ pc = "handle"
  /\ left = KeepAliveMax
  /\ status = 0
  /\ up \in BOOLEAN
  /\ held = FALSE
  /\ stream = "none"
  /\ fetched = 0
  /\ late = 0
  /\ first = TRUE
  /\ avail = TRUE
  /\ ok = TRUE
  /\ sent = <<>>
  /\ peer = "reads"

-----------------------------------------------------------------------------
(***************************************************************************)
(* The handlers.                                                           *)
(***************************************************************************)

BadBounds == bounds = "garbage" /\ {"x", "y"} \subseteq query.columns

\* The status of an answer that is known as a whole; 0 when the answer is
\* streamed.
NodesBinaryStatus ==
  CASE query.empty     -> 200
    [] query.bindFails -> 500
    [] BadBounds       -> 400
    [] query.sendFails -> 500
    [] OTHER           -> 0

EdgesBinaryStatus ==
  CASE query.empty     -> 200
    [] query.bindFails -> 500
    [] ~({"source", "target"} \subseteq query.columns) -> 400
    [] query.sendFails -> 500
    [] OTHER           -> 0

\* The JSON handler looks the columns up only for the bounds of nodes, and
\* goes on without bounds when that fails.
JsonStatus ==
  CASE query.empty     -> 200
    [] route = "nodes" /\ ~query.bindFails /\ BadBounds -> 400
    [] query.sendFails -> 500
    [] OTHER           -> 0

HandlerStatus ==
  CASE route \in JsonRoutes   -> JsonStatus
    [] route = "nodes_binary" -> NodesBinaryStatus
    [] route = "edges_binary" -> EdgesBinaryStatus

\* One round of the keep-alive loop is over.
NextRound == pc' = "enter" /\ left' = left - 1

LeavesLoop == pc' = "close" /\ UNCHANGED left

\* An answer known as a whole is written with its headers; the write fails
\* only when the client does not take it.
AnswersWhole ==
  /\ pc = "handle"
  /\ HandlerStatus # 0
  /\ status' = HandlerStatus
  /\ \/ NextRound
     \/ peer # "reads" /\ LeavesLoop
  /\ UNCHANGED <<inputs, up, reader, sink, peer>>

\* SendQuery has succeeded: its result moves into the content provider, and
\* the headers go out.  When they cannot, the Response is destroyed, and the
\* provider with it.
StartsStream ==
  /\ pc = "handle"
  /\ HandlerStatus = 0
  /\ status' = 200
  /\ \/ /\ pc' = "loop"
        /\ held' = TRUE
        /\ stream' = "open"
     \/ /\ peer # "reads"
        /\ pc' = "close"
        /\ stream' = "closed"
        /\ UNCHANGED held
  /\ UNCHANGED <<inputs, left, up, fetched, late, first, sink, peer>>

-----------------------------------------------------------------------------
(***************************************************************************)
(* The content providers.                                                  *)
(***************************************************************************)

\* The writes of one call of a provider, in order.  A write that fails (the
\* client is gone, or did not make room in time) makes the rest do nothing.
Writes(tokens) ==
  \E n \in 0..Len(tokens) :
    /\ n = Len(tokens) \/ peer # "reads"
    /\ sent' = sent \o SubSeq(tokens, 1, n)
    /\ ok' = (n = Len(tokens))

\* The first call of a JSON provider writes the opening bracket before anything.
Bracketed(token) ==
  IF route \in JsonRoutes /\ first THEN <<Open, token>> ELSE <<token>>

ChunkToken(i) == IF route \in JsonRoutes /\ ~first THEN CommaRow(i) ELSE Row(i)

\* Mutant of ProvidesChunk: *first_chunk_shared stays true.
ProvidesChunkFirst ==
  /\ fetched < query.good
  /\ fetched' = fetched + 1
  /\ late' = IF up THEN late ELSE late + 1
  /\ Writes(Bracketed(ChunkToken(fetched + 1)))
  /\ pc' = "loop"
  /\ UNCHANGED <<held, stream, first, avail>>

\* Mutant of ProvidesChunk: done() is called after a chunk.
ProvidesChunkDone ==
  /\ fetched < query.good
  /\ fetched' = fetched + 1
  /\ late' = IF up THEN late ELSE late + 1
  /\ Writes(Bracketed(ChunkToken(fetched + 1)))
  /\ first' = FALSE
  /\ avail' = FALSE
  /\ pc' = "loop"
  /\ UNCHANGED <<held, stream>>

\* Fetch returns a chunk, which is packed and written.  With the last chunk before
\* a failure the result may be closed already: see Rechecks of BatchedStream.
ProvidesChunk ==
  /\ fetched < query.good
  /\ fetched' = fetched + 1
  /\ late' = IF up THEN late ELSE late + 1
  /\ Writes(Bracketed(ChunkToken(fetched + 1)))
  /\ first' = FALSE
  /\ \/ UNCHANGED stream
     \/ fetched' = query.good /\ query.good < query.total /\ stream' = "closed"
  /\ pc' = "loop"
  /\ UNCHANGED <<held, avail>>

\* Mutant of ProvidesEnd: neither the result is released nor done() called.
ProvidesEndAgain ==
  /\ fetched = query.good
  /\ stream' = "closed"
  /\ Writes(IF route \in JsonRoutes THEN Bracketed(Close) ELSE <<>>)
  /\ pc' = "loop"
  /\ UNCHANGED <<held, fetched, late, first, avail>>

\* Fetch returns null, at the end of the result and also when the query has
\* failed while it ran: either way it closes the stream, and the provider
\* ends the body.
ProvidesEnd ==
  /\ fetched = query.good
  /\ stream' = "closed"
  /\ held' = FALSE
  /\ avail' = FALSE
  /\ Writes(IF route \in JsonRoutes THEN Bracketed(Close) ELSE <<>>)
  /\ pc' = "loop"
  /\ UNCHANGED <<fetched, late, first>>

\* One call of the provider.  Fetch on a stream that is not open throws, and
\* write_content_without_length runs outside the try block of httplib: the
\* process ends.
CallsProvider ==
  /\ pc = "provide"
  /\ \/ /\ stream = "open"
        /\ ProvidesChunk \/ ProvidesEnd
     \/ /\ held /\ stream = "closed"
        /\ pc' = "terminated"
        /\ UNCHANGED <<reader, sink>>
  /\ UNCHANGED <<inputs, left, status, up, peer>>

-----------------------------------------------------------------------------
(***************************************************************************)
(* write_content_without_length, and the connection after it.              *)
(***************************************************************************)

\* The Response is destroyed when process_request returns: its provider
\* releases the result and the DuckDB connection.
DropsProvider ==
  /\ held' = FALSE
  /\ stream' = "closed"
  /\ UNCHANGED <<fetched, late, first>>

\* Mutant of LoopContinues: is_shutting_down is not asked.
LoopContinuesUnasked ==
  /\ pc = "loop" /\ avail /\ ok /\ peer = "reads"
  /\ pc' = "provide"
  /\ UNCHANGED <<inputs, left, status, up, reader, sink, peer>>

\* The loop is entered again: data may be available, the server is not
\* stopping, the last write went well, and the client is there and has room.
LoopContinues ==
  /\ pc = "loop" /\ avail /\ ok /\ up /\ peer = "reads"
  /\ pc' = "provide"
  /\ UNCHANGED <<inputs, left, status, up, reader, sink, peer>>

\* Mutant of LoopFails: without a time-out, a client that has stopped reading
\* is waited for.
LoopFailsUntimed ==
  /\ pc = "loop"
  /\ ~ok \/ (avail /\ (~up \/ peer = "gone"))
  /\ LeavesLoop
  /\ DropsProvider
  /\ UNCHANGED <<inputs, status, up, sink, peer>>

\* A failed write, a stopping server, or a client that is gone or has made no
\* room within the time-out: the connection is closed.
LoopFails ==
  /\ pc = "loop"
  /\ ~ok \/ (avail /\ (~up \/ peer # "reads"))
  /\ LeavesLoop
  /\ DropsProvider
  /\ UNCHANGED <<inputs, status, up, sink, peer>>

\* Mutant of LoopEnds: the request is not counted.
LoopEndsUncounted ==
  /\ pc = "loop" /\ ok /\ ~avail
  /\ pc' = "enter"
  /\ DropsProvider
  /\ UNCHANGED <<inputs, left, status, up, sink, peer>>

\* done() was called: the body is complete for the server, which goes back to
\* waiting for a request.
LoopEnds ==
  /\ pc = "loop" /\ ok /\ ~avail
  /\ NextRound
  /\ DropsProvider
  /\ UNCHANGED <<inputs, status, up, sink, peer>>

connOnly == UNCHANGED <<inputs, left, status, up, reader, sink, peer>>

\* keep_alive, on a connection whose client sends nothing more.  A client
\* that is gone makes it readable: the next request line is then missing.
KeepAliveEnter ==
  /\ pc = "enter"
  /\ pc' = IF left = 0 THEN "close" ELSE IF peer = "gone" THEN "gone" ELSE "poll"
  /\ connOnly

KeepAlivePoll ==
  /\ pc = "poll"
  /\ ~up \/ peer = "gone"
  /\ pc' = IF up THEN "gone" ELSE "close"
  /\ connOnly

KeepAliveTimeout ==
  /\ pc = "poll"
  /\ pc' = "close"
  /\ connOnly

RequestLineMissing ==
  /\ pc = "gone"
  /\ pc' = "close"
  /\ connOnly

ClosesConnection ==
  /\ pc = "close"
  /\ pc' = "closed"
  /\ connOnly

-----------------------------------------------------------------------------
(***************************************************************************)
(* What happens around the connection.                                     *)
(***************************************************************************)

\* stop() invalidates svr_sock_ at any moment.
ServerStops ==
  /\ up /\ pc # "terminated"
  /\ up' = FALSE
  /\ UNCHANGED <<inputs, pc, left, status, reader, sink, peer>>

\* The client stops reading for longer than the write time-out, or goes.
PeerStalls ==
  /\ peer = "reads" /\ pc # "closed"
  /\ peer' = "stalls"
  /\ UNCHANGED <<inputs, pc, left, status, up, reader, sink>>

PeerLeaves ==
  /\ peer # "gone" /\ pc # "closed"
  /\ peer' = "gone"
  /\ UNCHANGED <<inputs, pc, left, status, up, reader, sink>>

Thread ==
  \/ AnswersWhole \/ StartsStream \/ CallsProvider
  \/ LoopContinues \/ LoopFails \/ LoopEnds
  \/ KeepAliveEnter \/ KeepAlivePoll \/ KeepAliveTimeout \/ RequestLineMissing
  \/ ClosesConnection

Finished == pc \in {"closed", "terminated"} /\ UNCHANGED vars

Next == Thread \/ ServerStops \/ PeerStalls \/ PeerLeaves \/ Finished

Spec == Init /\ [][Next]_vars

\* The pool's thread runs, and every wait in it has a time-out; nothing else
\* has to happen.
FairSpec == Spec /\ WF_vars(Thread)

-----------------------------------------------------------------------------
(***************************************************************************)
(* Safety.                                                                 *)
(***************************************************************************)

\* The body of a query that returns query.good chunks: token i, and how many.
Body(i) ==
  CASE route \notin JsonRoutes -> Row(i)
    [] route \in JsonRoutes /\ i = 1 -> Open
    [] route \in JsonRoutes /\ i = query.good + 2 -> Close
    [] route \in JsonRoutes /\ i = 2 /\ query.good > 0 -> Row(1)
    [] OTHER -> CommaRow(i - 1)

BodyLength == IF route \in JsonRoutes THEN query.good + 2 ELSE query.good

\* What is on the wire is a beginning of the one body the query has: its chunks
\* in order, none twice and none left out, between brackets and with the
\* separators JSON asks for, wherever stop() or the client cuts it.
BodyIsPrefix ==
  /\ Len(sent) <= BodyLength
  /\ \A i \in 1..Len(sent) : sent[i] = Body(i)

\* A streamed answer whose connection is closed, to a client that was reading
\* all along and without a stop of the server, has its whole body; the length
\* of the body is nowhere announced, so the client could not tell.
CutHasCause ==
  pc = "closed" /\ stream # "none" /\ up /\ peer = "reads" =>
    Len(sent) = BodyLength

\* A provider calls Fetch on a stream that is closed, whose exception httplib does
\* not catch and which ends the process, only when the query failed while it ran.
TerminatedOnlyByFailure == pc = "terminated" => query.good < query.total

\* After stop() a stream goes on for one chunk at most: svr_sock_ is looked at
\* before every call of the provider.
OneChunkAfterStop == late <= 1

-----------------------------------------------------------------------------
(***************************************************************************)
(* Why: with the type invariant, the formulas of this section make the     *)
(* safety properties inductive.                                            *)
(***************************************************************************)

\* The provider holds the result while its stream is open, and a closed one only
\* behind a failure; it has it whenever the loop may call it.
HeldMeansOpen ==
  /\ stream = "open" => held
  /\ held => stream = "open" \/ (stream = "closed" /\ query.good < query.total)
  /\ held => pc \in {"loop", "provide", "terminated"} /\ avail
  /\ pc = "provide" => held /\ ok
  /\ pc = "loop" /\ avail => held

\* Before the stream starts nothing has been read or written.
Untouched ==
  /\ pc = "handle" => stream = "none"
  /\ stream = "none" => fetched = 0 /\ avail /\ ok /\ sent = <<>>

\* The tokens written when no write has failed.
Written ==
  IF route \notin JsonRoutes THEN fetched
  ELSE IF ~avail THEN fetched + 2
  ELSE IF first THEN 0 ELSE fetched + 1

\* What is written follows what was fetched.
BodyFollowsRows ==
  /\ fetched <= query.good
  /\ first <=> fetched = 0
  /\ ~avail => fetched = query.good
  /\ ok => Len(sent) = Written
  /\ ~ok => peer # "reads"

\* The server takes an answer for complete, and counts it, only when the whole
\* body was written; it leaves the loop earlier only with a cause.
CountedMeansWhole ==
  /\ pc \in {"handle", "loop", "provide"} => left = KeepAliveMax
  /\ pc \in {"enter", "poll", "gone"} => left < KeepAliveMax
  /\ stream # "none" /\ left < KeepAliveMax => ~avail /\ ok
  /\ pc \in {"close", "closed"} /\ left = KeepAliveMax => ~up \/ peer # "reads"

\* Chunks are fetched late only between a stop and the loop's next look.
LateOnce == (up \/ pc = "provide") => late = 0

Inv ==
  /\ TypeOK
  /\ HeldMeansOpen
  /\ Untouched
  /\ BodyFollowsRows
  /\ CountedMeansWhole
  /\ LateOnce
  /\ OneChunkAfterStop
  /\ TerminatedOnlyByFailure
  /\ BodyIsPrefix

-----------------------------------------------------------------------------
(***************************************************************************)
(* Liveness.                                                               *)
(***************************************************************************)

\* A query that was sent is released in the end, with its DuckDB connection
\* and snapshot, whatever the client does.
QueryReleased == stream = "open" ~> stream = "closed"

-----------------------------------------------------------------------------
(***************************************************************************)
(* The connection of this module is one of HttplibServer's.                *)
(***************************************************************************)

\* An error status says "Connection: close", and a body without a length ends
\* at the close: after either the client sends nothing more.
request == [kind |-> "data", token |-> 1]

Http ==
  INSTANCE HttplibServer WITH
    Conns <- {1}, Kinds <- {"data"}, PoolMax <- 1,
    svrSock <- IF up THEN 1 ELSE 0, isRunning <- TRUE, isDecommissioned <- FALSE,
    openFds <- {1}, doubleClose <- FALSE, lpc <- "accept", lfd <- 1, lret <- TRUE,
    stopSock <- IF up THEN 0 ELSE 1, jobs <- <<>>,
    conn <- [k \in {1} |->
      IF pc = "closed" THEN
        [st |-> "free", fd |-> 0, left |-> 0, open |-> FALSE, last |-> FALSE,
         req |-> [kind |-> "none", token |-> 0]]
      ELSE
        [st   |-> CASE pc \in {"handle", "gone"}    -> "process"
                    [] pc \in {"loop", "provide", "terminated"} -> "stream"
                    [] OTHER                        -> pc,
         fd   |-> 1,
         left |-> left,
         open |-> peer # "gone",
         last |-> left < KeepAliveMax /\ (stream # "none" \/ status >= 400),
         req  |-> IF pc = "gone" \/ left < KeepAliveMax
                  THEN [kind |-> "none", token |-> 0] ELSE request]]

\* Every step is a step HttplibServer has for such a connection, for stop() or
\* for the client, or changes nothing it knows of: the rounds of the keep-alive
\* loop are counted, and a connection is left only for one of its reasons.
ConnStep ==
  \/ Http!WriteWhole(1, status' >= 400) /\ pc = "handle"
  \/ Http!BeginStream(1) /\ pc = "handle"
  \/ Http!StreamDone(1)
  \/ Http!StreamCut(1)
  \/ Http!KeepAliveEnter(1)
  \/ Http!KeepAlivePoll(1)
  \/ Http!KeepAliveTimeout(1)
  \/ Http!RequestLineMissing(1)
  \/ Http!CloseConn(1)
  \/ Http!PeerCloses(1)
  \/ Http!StopExchanges

RefinesConnection == [][ConnStep \/ UNCHANGED Http!httpVars]_vars

=============================================================================

------------------------- MODULE StreamResponseProofs -------------------------
(***************************************************************************)
(* Theorems about StreamResponse: Inv is an inductive invariant for every  *)
(* number of chunks and of requests per connection, and the safety         *)
(* properties follow from it.                                              *)
(***************************************************************************)
EXTENDS StreamResponse, Integers, SequenceTheorems, TLAPS

-----------------------------------------------------------------------------
(***************************************************************************)
(* What the writes of one call of a provider do to the body.               *)
(***************************************************************************)

\* Writes appends a beginning of its tokens, all of them when ok stays true and
\* fewer only for a client that does not read.
LEMMA WritesPrefix ==
  ASSUME NEW tokens \in Seq(Tokens), sent \in Seq(Tokens), Writes(tokens)
  PROVE  /\ sent' \in Seq(Tokens)
         /\ ok' \in BOOLEAN
         /\ Len(sent') >= Len(sent)
         /\ Len(sent') <= Len(sent) + Len(tokens)
         /\ ok' => Len(sent') = Len(sent) + Len(tokens)
         /\ ~ok' => peer # "reads"
         /\ \A i \in 1..Len(sent) : sent'[i] = sent[i]
         /\ \A i \in 1..(Len(sent') - Len(sent)) : sent'[Len(sent) + i] = tokens[i]
<1>1. PICK n \in 0..Len(tokens) :
        /\ n = Len(tokens) \/ peer # "reads"
        /\ sent' = sent \o SubSeq(tokens, 1, n)
        /\ ok' = (n = Len(tokens))
  BY DEF Writes
<1> DEFINE part == SubSeq(tokens, 1, n)
<1>2. /\ part \in Seq(Tokens)
      /\ Len(part) = n
      /\ \A i \in 1..n : part[i] = tokens[i]
  OBVIOUS
<1>3. sent' = sent \o part
  BY <1>1
<1> HIDE DEF part
<1>4. sent' \in Seq(Tokens) /\ Len(sent') = Len(sent) + n
  BY <1>2, <1>3, ConcatProperties
<1>5. ASSUME NEW i \in 1..Len(sent) PROVE sent'[i] = sent[i]
  <2>1. /\ Len(sent) \in Nat
        /\ i \in 1..(Len(sent) + Len(part))
        /\ i <= Len(sent)
    BY <1>2
  <2>2. QED
    BY <1>2, <1>3, <2>1
<1>6. ASSUME NEW i \in 1..n PROVE sent'[Len(sent) + i] = part[i]
  <2>1. /\ Len(sent) \in Nat /\ n \in Nat
        /\ Len(sent) + i \in 1..(Len(sent) + Len(part))
        /\ Len(sent) + i > Len(sent)
        /\ Len(sent) + i - Len(sent) = i
    BY <1>2
  <2>2. QED
    BY <1>2, <1>3, <2>1
<1>7. n \in Nat /\ Len(sent) \in Nat /\ Len(sent') - Len(sent) = n
  BY <1>4
<1>8. /\ Len(sent') >= Len(sent)
      /\ Len(sent') <= Len(sent) + Len(tokens)
      /\ n = Len(tokens) => Len(sent') = Len(sent) + Len(tokens)
  BY <1>4, <1>7
<1>9. \A i \in 1..(Len(sent') - Len(sent)) : sent'[Len(sent) + i] = tokens[i]
  BY <1>2, <1>6, <1>7
<1>10. /\ ok' \in BOOLEAN
       /\ ok' <=> n = Len(tokens)
       /\ ~ok' => peer # "reads"
  BY <1>1, Zenon
<1>11. QED
  BY <1>4, <1>5, <1>8, <1>9, <1>10

\* If the tokens are the next ones of the body, the body stays a beginning.
LEMMA WritesExtendBody ==
  ASSUME NEW tokens \in Seq(Tokens), sent \in Seq(Tokens), Writes(tokens),
         UNCHANGED inputs,
         BodyIsPrefix, BodyLength \in Nat,
         Len(sent) + Len(tokens) <= BodyLength,
         \A i \in 1..Len(tokens) : tokens[i] = Body(Len(sent) + i)
  PROVE  BodyIsPrefix'
<1>1. Len(sent') <= BodyLength'
  <2>1. BodyLength' = BodyLength
    BY DEF BodyLength, inputs
  <2>2. Len(sent') <= Len(sent) + Len(tokens) /\ sent' \in Seq(Tokens)
    BY WritesPrefix
  <2>3. QED
    BY <2>1, <2>2
<1>2. ASSUME NEW i \in 1..Len(sent') PROVE sent'[i] = Body(i)'
  <2>1. Body(i)' = Body(i)
    BY DEF Body, inputs
  <2>2. CASE i <= Len(sent)
    BY <2>1, <2>2, WritesPrefix DEF BodyIsPrefix
  <2>3. CASE i > Len(sent)
    <3> DEFINE j == i - Len(sent)
    <3>1. j \in 1..(Len(sent') - Len(sent)) /\ j \in 1..Len(tokens) /\ i = Len(sent) + j
      BY <2>3, WritesPrefix
    <3>2. sent'[Len(sent) + j] = tokens[j]
      BY <3>1, WritesPrefix
    <3>3. QED
      BY <2>1, <3>1, <3>2
  <2>4. QED
    BY <2>2, <2>3
<1>3. QED
  BY <1>1, <1>2 DEF BodyIsPrefix

-----------------------------------------------------------------------------
(***************************************************************************)
(* The tokens of a call of the provider are the next ones of the body.     *)
(***************************************************************************)

LEMMA GoodType ==
  ASSUME TypeOK
  PROVE  /\ query.good \in Nat /\ query.good <= MaxChunks
         /\ BodyLength \in Nat /\ Written \in Nat
         /\ fetched \in Nat /\ left \in Nat /\ late \in Nat
         /\ MaxChunks \in Nat /\ KeepAliveMax \in Nat
BY StreamAssumption DEF TypeOK, Queries, BodyLength, Written

\* The row token a provider writes for the chunk it has just fetched, and the
\* bracket it writes before the first.
LEMMA ChunkTokens ==
  ASSUME TypeOK, BodyFollowsRows, ok, avail, fetched < query.good
  PROVE  LET tokens == Bracketed(ChunkToken(fetched + 1))
         IN  /\ tokens \in Seq(Tokens)
             /\ Len(sent) + Len(tokens) <= BodyLength
             /\ Len(sent) + Len(tokens) =
                  IF route \in JsonRoutes THEN fetched + 2 ELSE fetched + 1
             /\ \A i \in 1..Len(tokens) : tokens[i] = Body(Len(sent) + i)
<1> DEFINE c == fetched + 1
           tokens == Bracketed(ChunkToken(c))
<1> SUFFICES /\ tokens \in Seq(Tokens)
             /\ Len(sent) + Len(tokens) <= BodyLength
             /\ Len(sent) + Len(tokens) =
                  IF route \in JsonRoutes THEN fetched + 2 ELSE fetched + 1
             /\ \A i \in 1..Len(tokens) : tokens[i] = Body(Len(sent) + i)
  OBVIOUS
<1>1. /\ query.good \in Nat /\ fetched \in Nat /\ MaxChunks \in Nat
      /\ c \in 1..MaxChunks
      /\ Len(sent) = Written
  BY GoodType DEF BodyFollowsRows
<1>2. Row(c) \in Tokens /\ CommaRow(c) \in Tokens /\ Open \in Tokens
  BY <1>1 DEF Tokens
<1>3. CASE route \notin JsonRoutes
  <2>1. tokens = <<Row(c)>> /\ Len(sent) = fetched
    BY <1>1, <1>2, <1>3 DEF Bracketed, ChunkToken, Written
  <2> HIDE DEF tokens
  <2>2. tokens \in Seq(Tokens) /\ Len(tokens) = 1 /\ tokens[1] = Row(c)
    BY <1>2, <2>1
  <2>3. Body(c) = Row(c)
    BY <1>3 DEF Body
  <2>4. QED
    BY <1>1, <1>3, <2>1, <2>2, <2>3 DEF BodyLength
<1>4. CASE route \in JsonRoutes /\ first
  <2>1. fetched = 0 /\ Len(sent) = 0 /\ c = 1
    BY <1>1, <1>4 DEF Written, BodyFollowsRows
  <2>2. tokens = <<Open, Row(1)>>
    BY <1>4, <2>1 DEF Bracketed, ChunkToken
  <2> HIDE DEF tokens
  <2>3. /\ tokens \in Seq(Tokens) /\ Len(tokens) = 2
        /\ tokens[1] = Open /\ tokens[2] = Row(1)
    BY <1>2, <2>1, <2>2
  <2>4. Body(1) = Open /\ Body(2) = Row(1)
    BY <1>1, <1>4, <2>1 DEF Body
  <2>5. QED
    BY <1>1, <1>4, <2>1, <2>3, <2>4 DEF BodyLength
<1>5. CASE route \in JsonRoutes /\ ~first
  <2>1. fetched # 0 /\ Len(sent) = fetched + 1
    BY <1>1, <1>5 DEF Written, BodyFollowsRows
  <2>2. tokens = <<CommaRow(c)>>
    BY <1>5 DEF Bracketed, ChunkToken
  <2> HIDE DEF tokens
  <2>3. tokens \in Seq(Tokens) /\ Len(tokens) = 1 /\ tokens[1] = CommaRow(c)
    BY <1>2, <2>2
  <2>4. Body(fetched + 2) = CommaRow(c)
    BY <1>1, <1>5, <2>1 DEF Body
  <2>5. QED
    BY <1>1, <1>5, <2>1, <2>3, <2>4 DEF BodyLength
<1>6. QED
  BY <1>3, <1>4, <1>5

\* What a provider writes when its result has ended.
LEMMA EndTokens ==
  ASSUME TypeOK, BodyFollowsRows, ok, avail, fetched = query.good
  PROVE  LET tokens == IF route \in JsonRoutes THEN Bracketed(Close) ELSE <<>>
         IN  /\ tokens \in Seq(Tokens)
             /\ Len(sent) + Len(tokens) = BodyLength
             /\ \A i \in 1..Len(tokens) : tokens[i] = Body(Len(sent) + i)
<1> DEFINE tokens == IF route \in JsonRoutes THEN Bracketed(Close) ELSE <<>>
<1> SUFFICES /\ tokens \in Seq(Tokens)
             /\ Len(sent) + Len(tokens) = BodyLength
             /\ \A i \in 1..Len(tokens) : tokens[i] = Body(Len(sent) + i)
  OBVIOUS
<1>1. /\ query.good \in Nat /\ fetched \in Nat
      /\ Len(sent) = Written
  BY GoodType DEF BodyFollowsRows
<1>2. Close \in Tokens /\ Open \in Tokens
  BY DEF Tokens
<1>3. CASE route \notin JsonRoutes
  BY <1>1, <1>3 DEF BodyLength, Written
<1>4. CASE route \in JsonRoutes /\ first
  <2>1. query.good = 0 /\ Len(sent) = 0
    BY <1>1, <1>4 DEF Written, BodyFollowsRows
  <2>2. tokens = <<Open, Close>>
    BY <1>4 DEF Bracketed
  <2> HIDE DEF tokens
  <2>3. /\ tokens \in Seq(Tokens) /\ Len(tokens) = 2
        /\ tokens[1] = Open /\ tokens[2] = Close
    BY <1>2, <2>2
  <2>4. Body(1) = Open /\ Body(2) = Close
    BY <1>4, <2>1 DEF Body
  <2>5. QED
    BY <1>4, <2>1, <2>3, <2>4 DEF BodyLength
<1>5. CASE route \in JsonRoutes /\ ~first
  <2>1. fetched # 0 /\ Len(sent) = query.good + 1
    BY <1>1, <1>5 DEF Written, BodyFollowsRows
  <2>2. tokens = <<Close>>
    BY <1>5 DEF Bracketed
  <2> HIDE DEF tokens
  <2>3. tokens \in Seq(Tokens) /\ Len(tokens) = 1 /\ tokens[1] = Close
    BY <1>2, <2>2
  <2>4. Body(query.good + 2) = Close
    BY <1>1, <1>5 DEF Body
  <2>5. QED
    BY <1>1, <1>5, <2>1, <2>3, <2>4 DEF BodyLength
<1>6. QED
  BY <1>3, <1>4, <1>5

-----------------------------------------------------------------------------
(***************************************************************************)
(* Inv is inductive.                                                       *)
(***************************************************************************)

LEMMA InitInv == Init => Inv
<1> SUFFICES ASSUME Init PROVE Inv
  OBVIOUS
<1>1. TypeOK
  <2>1. route \in Routes /\ bounds \in {"none", "numbers", "garbage"} /\ query \in Queries
    BY DEF Init
  <2>2. pc = "handle" /\ left \in 0..KeepAliveMax /\ status \in {0, 200, 400, 500}
    BY StreamAssumption DEF Init
  <2>3. /\ up \in BOOLEAN /\ held \in BOOLEAN /\ first \in BOOLEAN
        /\ avail \in BOOLEAN /\ ok \in BOOLEAN
    BY DEF Init
  <2>4. stream = "none" /\ fetched \in 0..MaxChunks /\ late \in 0..fetched
    BY StreamAssumption DEF Init
  <2>5. sent \in Seq(Tokens) /\ peer = "reads"
    BY DEF Init
  <2>6. QED
    BY <2>1, <2>2, <2>3, <2>4, <2>5 DEF TypeOK
<1>2. QED
  BY <1>1, GoodType, StreamAssumption
     DEF Init, Inv, HeldMeansOpen, Untouched, BodyFollowsRows, Written,
         CountedMeansWhole, LateOnce, OneChunkAfterStop, TerminatedOnlyByFailure, BodyIsPrefix

\* The status a handler sets is one of its four.
LEMMA StatusType == TypeOK => HandlerStatus \in {0, 200, 400, 500}
<1> SUFFICES ASSUME TypeOK PROVE HandlerStatus \in {0, 200, 400, 500}
  OBVIOUS
<1>1. /\ JsonStatus \in {0, 200, 400, 500}
      /\ NodesBinaryStatus \in {0, 200, 400, 500}
      /\ EdgesBinaryStatus \in {0, 200, 400, 500}
  BY DEF JsonStatus, NodesBinaryStatus, EdgesBinaryStatus
<1>2. QED
  BY <1>1 DEF HandlerStatus, TypeOK, Routes, JsonRoutes

\* A step that writes nothing leaves the body as it is.
LEMMA PrefixStays ==
  ASSUME BodyIsPrefix, UNCHANGED <<inputs, sent>>
  PROVE  BodyIsPrefix'
BY DEF BodyIsPrefix, Body, BodyLength, inputs

LEMMA ChunkStep ==
  ASSUME Inv, pc = "provide", stream = "open", ProvidesChunk,
         UNCHANGED <<inputs, left, status, up, peer>>
  PROVE  Inv'
<1> DEFINE tokens == Bracketed(ChunkToken(fetched + 1))
<1>1. /\ TypeOK /\ BodyFollowsRows /\ ok /\ avail /\ fetched < query.good
      /\ held /\ stream = "open" /\ late = 0 /\ left = KeepAliveMax
      /\ Writes(tokens)
  BY DEF Inv, HeldMeansOpen, CountedMeansWhole, LateOnce, ProvidesChunk
<1>2. /\ tokens \in Seq(Tokens)
      /\ Len(sent) + Len(tokens) <= BodyLength
      /\ Len(sent) + Len(tokens) =
           IF route \in JsonRoutes THEN fetched + 2 ELSE fetched + 1
      /\ \A i \in 1..Len(tokens) : tokens[i] = Body(Len(sent) + i)
  BY <1>1, ChunkTokens
<1> HIDE DEF tokens
<1>3. sent \in Seq(Tokens) /\ BodyLength \in Nat /\ BodyIsPrefix
  BY <1>1, GoodType DEF TypeOK, Inv
<1>4. BodyIsPrefix'
  BY <1>1, <1>2, <1>3, WritesExtendBody
<1>5. /\ sent' \in Seq(Tokens) /\ ok' \in BOOLEAN
      /\ ok' => Len(sent') = Len(sent) + Len(tokens)
      /\ ~ok' => peer # "reads"
  BY <1>1, <1>2, <1>3, WritesPrefix
<1>6. /\ fetched' = fetched + 1 /\ fetched' \in 0..MaxChunks /\ fetched' <= query.good
      /\ late' \in 0..1 /\ (up => late' = 0)
      /\ first' = FALSE /\ fetched' # 0 /\ pc' = "loop"
      /\ UNCHANGED <<inputs, left, status, up, peer, held, avail>>
      /\ stream' = "open" \/ (stream' = "closed" /\ query.good < query.total)
  BY <1>1, GoodType DEF ProvidesChunk
<1>7. TypeOK'
  <2>1. /\ route' \in Routes /\ bounds' \in {"none", "numbers", "garbage"}
        /\ query' \in Queries /\ left' \in 0..KeepAliveMax
        /\ status' \in {0, 200, 400, 500} /\ peer' \in {"reads", "stalls", "gone"}
    BY <1>1, <1>6 DEF TypeOK, inputs
  <2>2. /\ up' \in BOOLEAN /\ held' \in BOOLEAN /\ first' \in BOOLEAN
        /\ avail' \in BOOLEAN /\ ok' \in BOOLEAN
    BY <1>1, <1>5, <1>6 DEF TypeOK
  <2>3. fetched' \in 0..MaxChunks /\ late' \in 0..fetched'
    BY <1>1, <1>6, GoodType DEF TypeOK
  <2>4. pc' = "loop" /\ stream' \in {"none", "open", "closed"} /\ sent' \in Seq(Tokens)
    BY <1>1, <1>5, <1>6
  <2>5. QED
    BY <2>1, <2>2, <2>3, <2>4 DEF TypeOK
<1>8. BodyFollowsRows'
  <2>1. fetched \in Nat /\ fetched' = fetched + 1 /\ first' = FALSE /\ avail' = avail
    BY <1>6, <1>1, GoodType
  <2>2. route' = route /\ query' = query /\ peer' = peer
    BY <1>6 DEF inputs
  <2>3. ok' => Len(sent') = Written'
    BY <1>1, <1>2, <1>5, <2>1, <2>2 DEF Written
  <2>4. QED
    BY <1>1, <1>5, <1>6, <2>1, <2>2, <2>3 DEF BodyFollowsRows
<1>9. HeldMeansOpen' /\ Untouched'
  BY <1>1, <1>6 DEF HeldMeansOpen, Untouched, inputs
<1>10. /\ CountedMeansWhole' /\ LateOnce' /\ OneChunkAfterStop' /\ TerminatedOnlyByFailure'
  BY <1>1, <1>6, StreamAssumption
     DEF CountedMeansWhole, LateOnce, OneChunkAfterStop, TerminatedOnlyByFailure
<1>11. QED
  BY <1>4, <1>7, <1>8, <1>9, <1>10 DEF Inv

LEMMA EndStep ==
  ASSUME Inv, pc = "provide", stream = "open", ProvidesEnd,
         UNCHANGED <<inputs, left, status, up, peer>>
  PROVE  Inv'
<1> DEFINE tokens == IF route \in JsonRoutes THEN Bracketed(Close) ELSE <<>>
<1>1. /\ TypeOK /\ BodyFollowsRows /\ ok /\ avail /\ fetched = query.good
      /\ held /\ stream = "open" /\ late = 0 /\ left = KeepAliveMax
      /\ Writes(tokens)
  BY DEF Inv, HeldMeansOpen, CountedMeansWhole, LateOnce, ProvidesEnd
<1>2. /\ tokens \in Seq(Tokens)
      /\ Len(sent) + Len(tokens) = BodyLength
      /\ \A i \in 1..Len(tokens) : tokens[i] = Body(Len(sent) + i)
  BY <1>1, EndTokens
<1> HIDE DEF tokens
<1>3. sent \in Seq(Tokens) /\ BodyLength \in Nat /\ BodyIsPrefix
  BY <1>1, GoodType DEF TypeOK, Inv
<1>4. BodyIsPrefix'
  BY <1>1, <1>2, <1>3, WritesExtendBody
<1>5. /\ sent' \in Seq(Tokens) /\ ok' \in BOOLEAN
      /\ ok' => Len(sent') = BodyLength
      /\ ~ok' => peer # "reads"
  BY <1>1, <1>2, <1>3, WritesPrefix
<1>6. /\ stream' = "closed" /\ held' = FALSE /\ avail' = FALSE /\ pc' = "loop"
      /\ UNCHANGED <<inputs, left, status, up, peer, fetched, late, first>>
  BY <1>1 DEF ProvidesEnd
<1>7. TypeOK'
  <2>1. /\ route' \in Routes /\ bounds' \in {"none", "numbers", "garbage"}
        /\ query' \in Queries /\ left' \in 0..KeepAliveMax
        /\ status' \in {0, 200, 400, 500} /\ peer' \in {"reads", "stalls", "gone"}
    BY <1>1, <1>6 DEF TypeOK, inputs
  <2>2. /\ up' \in BOOLEAN /\ held' \in BOOLEAN /\ first' \in BOOLEAN
        /\ avail' \in BOOLEAN /\ ok' \in BOOLEAN
    BY <1>1, <1>5, <1>6 DEF TypeOK
  <2>3. fetched' \in 0..MaxChunks /\ late' \in 0..fetched'
    BY <1>1, <1>6, GoodType DEF TypeOK
  <2>4. pc' = "loop" /\ stream' \in {"none", "open", "closed"} /\ sent' \in Seq(Tokens)
    BY <1>1, <1>5, <1>6
  <2>5. QED
    BY <2>1, <2>2, <2>3, <2>4 DEF TypeOK
<1>8. BodyFollowsRows'
  BY <1>1, <1>5, <1>6, GoodType DEF BodyFollowsRows, Written, BodyLength, inputs
<1>9. HeldMeansOpen' /\ Untouched'
  BY <1>1, <1>6 DEF HeldMeansOpen, Untouched
<1>10. /\ CountedMeansWhole' /\ LateOnce' /\ OneChunkAfterStop' /\ TerminatedOnlyByFailure'
  BY <1>1, <1>6, GoodType DEF CountedMeansWhole, LateOnce, OneChunkAfterStop, TerminatedOnlyByFailure
<1>11. QED
  BY <1>4, <1>7, <1>8, <1>9, <1>10 DEF Inv

LEMMA StepInv == Inv /\ [Next]_vars => Inv'
<1> SUFFICES ASSUME Inv, [Next]_vars PROVE Inv'
  OBVIOUS
<1> USE DEF Inv
<1>1. CASE AnswersWhole
  <2>1. TypeOK'
    <3>1. /\ route' \in Routes /\ bounds' \in {"none", "numbers", "garbage"}
          /\ query' \in Queries /\ peer' \in {"reads", "stalls", "gone"}
          /\ stream' \in {"none", "open", "closed"} /\ sent' \in Seq(Tokens)
      BY <1>1 DEF AnswersWhole, inputs, reader, sink, NextRound, LeavesLoop, TypeOK
    <3>2. /\ up' \in BOOLEAN /\ held' \in BOOLEAN /\ first' \in BOOLEAN
          /\ avail' \in BOOLEAN /\ ok' \in BOOLEAN
      BY <1>1 DEF AnswersWhole, inputs, reader, sink, NextRound, LeavesLoop, TypeOK
    <3>3. fetched' \in 0..MaxChunks /\ late' \in 0..fetched'
      BY <1>1 DEF AnswersWhole, inputs, reader, sink, NextRound, LeavesLoop, TypeOK
    <3>4. left' \in 0..KeepAliveMax /\ status' \in {0, 200, 400, 500}
      BY <1>1, GoodType, StreamAssumption, StatusType DEF AnswersWhole, inputs, reader, sink, NextRound, LeavesLoop, TypeOK, CountedMeansWhole
    <3>5. pc' \in {"handle", "loop", "provide", "enter", "poll", "gone", "close",
                   "closed", "terminated"}
      BY <1>1 DEF AnswersWhole, inputs, reader, sink, NextRound, LeavesLoop, TypeOK
    <3>6. QED
      BY <3>1, <3>2, <3>3, <3>4, <3>5 DEF TypeOK
  <2>2. HeldMeansOpen' /\ Untouched'
    BY <1>1 DEF AnswersWhole, HeldMeansOpen, Untouched, inputs, reader, sink, NextRound, LeavesLoop
  <2>3. BodyFollowsRows'
    BY <1>1 DEF AnswersWhole, BodyFollowsRows, Written, inputs, reader, sink, NextRound, LeavesLoop
  <2>4. CountedMeansWhole'
    BY <1>1, GoodType, StreamAssumption
       DEF AnswersWhole, CountedMeansWhole, Untouched, HeldMeansOpen, BodyFollowsRows, inputs, reader, sink, NextRound, LeavesLoop
  <2>5. LateOnce' /\ OneChunkAfterStop' /\ TerminatedOnlyByFailure'
    BY <1>1 DEF AnswersWhole, LateOnce, OneChunkAfterStop, TerminatedOnlyByFailure, HeldMeansOpen, inputs, reader, sink, NextRound, LeavesLoop
  <2>6. BodyIsPrefix'
    BY <1>1, PrefixStays DEF AnswersWhole, sink
  <2>7. QED
    BY <2>1, <2>2, <2>3, <2>4, <2>5, <2>6
<1>2. CASE StartsStream
  <2>1. TypeOK'
    BY ZenonT(60), <1>2, GoodType, StreamAssumption
       DEF StartsStream, TypeOK, inputs, reader, sink
  <2>2. HeldMeansOpen' /\ Untouched'
    BY <1>2 DEF StartsStream, HeldMeansOpen, Untouched, inputs, reader, sink
  <2>3. BodyFollowsRows'
    BY <1>2 DEF StartsStream, BodyFollowsRows, Written, inputs, reader, sink
  <2>4. CountedMeansWhole'
    BY <1>2, GoodType, StreamAssumption
       DEF StartsStream, CountedMeansWhole, Untouched, HeldMeansOpen, BodyFollowsRows, inputs, reader, sink
  <2>5. LateOnce' /\ OneChunkAfterStop' /\ TerminatedOnlyByFailure'
    BY <1>2 DEF StartsStream, LateOnce, OneChunkAfterStop, TerminatedOnlyByFailure, HeldMeansOpen, inputs, reader, sink
  <2>6. BodyIsPrefix'
    BY <1>2, PrefixStays DEF StartsStream, sink
  <2>7. QED
    BY <2>1, <2>2, <2>3, <2>4, <2>5, <2>6
<1>3. CASE LoopContinues
  BY <1>3, PrefixStays, GoodType, StreamAssumption
     DEF LoopContinues, Inv, TypeOK, HeldMeansOpen, Untouched, BodyFollowsRows,
         Written, CountedMeansWhole, LateOnce, OneChunkAfterStop, TerminatedOnlyByFailure,
         inputs, reader, sink
<1>4. CASE LoopFails
  <2>1. TypeOK'
    BY ZenonT(60), <1>4, GoodType, StreamAssumption
       DEF LoopFails, TypeOK, inputs, reader, sink, LeavesLoop, DropsProvider
  <2>2. HeldMeansOpen' /\ Untouched'
    BY <1>4 DEF LoopFails, HeldMeansOpen, Untouched, inputs, reader, sink, LeavesLoop, DropsProvider
  <2>3. BodyFollowsRows'
    BY <1>4 DEF LoopFails, BodyFollowsRows, Written, inputs, reader, sink, LeavesLoop, DropsProvider
  <2>4. CountedMeansWhole'
    BY <1>4, GoodType, StreamAssumption
       DEF LoopFails, CountedMeansWhole, Untouched, HeldMeansOpen, BodyFollowsRows, inputs, reader, sink, LeavesLoop, DropsProvider
  <2>5. LateOnce' /\ OneChunkAfterStop' /\ TerminatedOnlyByFailure'
    BY <1>4 DEF LoopFails, LateOnce, OneChunkAfterStop, TerminatedOnlyByFailure, HeldMeansOpen, inputs, reader, sink, LeavesLoop, DropsProvider
  <2>6. BodyIsPrefix'
    BY <1>4, PrefixStays DEF LoopFails, sink
  <2>7. QED
    BY <2>1, <2>2, <2>3, <2>4, <2>5, <2>6
<1>5. CASE LoopEnds
  <2>1. TypeOK'
    <3>1. /\ route' \in Routes /\ bounds' \in {"none", "numbers", "garbage"}
          /\ query' \in Queries /\ peer' \in {"reads", "stalls", "gone"}
          /\ stream' \in {"none", "open", "closed"} /\ sent' \in Seq(Tokens)
      BY <1>5 DEF LoopEnds, inputs, reader, sink, NextRound, DropsProvider, TypeOK
    <3>2. /\ up' \in BOOLEAN /\ held' \in BOOLEAN /\ first' \in BOOLEAN
          /\ avail' \in BOOLEAN /\ ok' \in BOOLEAN
      BY <1>5 DEF LoopEnds, inputs, reader, sink, NextRound, DropsProvider, TypeOK
    <3>3. fetched' \in 0..MaxChunks /\ late' \in 0..fetched'
      BY <1>5 DEF LoopEnds, inputs, reader, sink, NextRound, DropsProvider, TypeOK
    <3>4. left' \in 0..KeepAliveMax /\ status' \in {0, 200, 400, 500}
      BY <1>5, GoodType, StreamAssumption DEF LoopEnds, inputs, reader, sink, NextRound, DropsProvider, TypeOK, CountedMeansWhole
    <3>5. pc' \in {"handle", "loop", "provide", "enter", "poll", "gone", "close",
                   "closed", "terminated"}
      BY <1>5 DEF LoopEnds, inputs, reader, sink, NextRound, DropsProvider, TypeOK
    <3>6. QED
      BY <3>1, <3>2, <3>3, <3>4, <3>5 DEF TypeOK
  <2>2. HeldMeansOpen' /\ Untouched'
    BY <1>5 DEF LoopEnds, HeldMeansOpen, Untouched, inputs, reader, sink, NextRound, DropsProvider
  <2>3. BodyFollowsRows'
    BY <1>5 DEF LoopEnds, BodyFollowsRows, Written, inputs, reader, sink, NextRound, DropsProvider
  <2>4. CountedMeansWhole'
    BY <1>5, GoodType, StreamAssumption
       DEF LoopEnds, CountedMeansWhole, Untouched, HeldMeansOpen, BodyFollowsRows, inputs, reader, sink, NextRound, DropsProvider
  <2>5. LateOnce' /\ OneChunkAfterStop' /\ TerminatedOnlyByFailure'
    BY <1>5 DEF LoopEnds, LateOnce, OneChunkAfterStop, TerminatedOnlyByFailure, HeldMeansOpen, inputs, reader, sink, NextRound, DropsProvider
  <2>6. BodyIsPrefix'
    BY <1>5, PrefixStays DEF LoopEnds, sink
  <2>7. QED
    BY <2>1, <2>2, <2>3, <2>4, <2>5, <2>6
<1>6. CASE KeepAliveEnter
  BY <1>6, PrefixStays, GoodType, StreamAssumption
     DEF KeepAliveEnter, Inv, TypeOK, HeldMeansOpen, Untouched, BodyFollowsRows,
         Written, CountedMeansWhole, LateOnce, OneChunkAfterStop, TerminatedOnlyByFailure,
         inputs, reader, sink, connOnly
<1>7. CASE KeepAlivePoll
  BY <1>7, PrefixStays, GoodType, StreamAssumption
     DEF KeepAlivePoll, Inv, TypeOK, HeldMeansOpen, Untouched, BodyFollowsRows,
         Written, CountedMeansWhole, LateOnce, OneChunkAfterStop, TerminatedOnlyByFailure,
         inputs, reader, sink, connOnly
<1>8. CASE KeepAliveTimeout
  BY <1>8, PrefixStays, GoodType, StreamAssumption
     DEF KeepAliveTimeout, Inv, TypeOK, HeldMeansOpen, Untouched, BodyFollowsRows,
         Written, CountedMeansWhole, LateOnce, OneChunkAfterStop, TerminatedOnlyByFailure,
         inputs, reader, sink, connOnly
<1>9. CASE RequestLineMissing
  BY <1>9, PrefixStays, GoodType, StreamAssumption
     DEF RequestLineMissing, Inv, TypeOK, HeldMeansOpen, Untouched, BodyFollowsRows,
         Written, CountedMeansWhole, LateOnce, OneChunkAfterStop, TerminatedOnlyByFailure,
         inputs, reader, sink, connOnly
<1>10. CASE ClosesConnection
  BY <1>10, PrefixStays, GoodType, StreamAssumption
     DEF ClosesConnection, Inv, TypeOK, HeldMeansOpen, Untouched, BodyFollowsRows,
         Written, CountedMeansWhole, LateOnce, OneChunkAfterStop, TerminatedOnlyByFailure,
         inputs, reader, sink, connOnly
<1>11. CASE ServerStops
  <2>1. TypeOK'
    <3>1. /\ route' \in Routes /\ bounds' \in {"none", "numbers", "garbage"}
          /\ query' \in Queries /\ peer' \in {"reads", "stalls", "gone"}
          /\ stream' \in {"none", "open", "closed"} /\ sent' \in Seq(Tokens)
      BY <1>11 DEF ServerStops, inputs, reader, sink, TypeOK
    <3>2. /\ up' \in BOOLEAN /\ held' \in BOOLEAN /\ first' \in BOOLEAN
          /\ avail' \in BOOLEAN /\ ok' \in BOOLEAN
      BY <1>11 DEF ServerStops, inputs, reader, sink, TypeOK
    <3>3. fetched' \in 0..MaxChunks /\ late' \in 0..fetched'
      BY <1>11 DEF ServerStops, inputs, reader, sink, TypeOK
    <3>4. left' \in 0..KeepAliveMax /\ status' \in {0, 200, 400, 500}
      BY <1>11, GoodType, StreamAssumption DEF ServerStops, inputs, reader, sink, TypeOK, CountedMeansWhole
    <3>5. pc' \in {"handle", "loop", "provide", "enter", "poll", "gone", "close",
                   "closed", "terminated"}
      BY <1>11 DEF ServerStops, inputs, reader, sink, TypeOK
    <3>6. QED
      BY <3>1, <3>2, <3>3, <3>4, <3>5 DEF TypeOK
  <2>2. HeldMeansOpen' /\ Untouched'
    BY <1>11 DEF ServerStops, HeldMeansOpen, Untouched, inputs, reader, sink
  <2>3. BodyFollowsRows'
    BY <1>11 DEF ServerStops, BodyFollowsRows, Written, inputs, reader, sink
  <2>4. CountedMeansWhole'
    BY <1>11, GoodType, StreamAssumption
       DEF ServerStops, CountedMeansWhole, Untouched, HeldMeansOpen, BodyFollowsRows, inputs, reader, sink
  <2>5. LateOnce' /\ OneChunkAfterStop' /\ TerminatedOnlyByFailure'
    BY <1>11 DEF ServerStops, LateOnce, OneChunkAfterStop, TerminatedOnlyByFailure, HeldMeansOpen, inputs, reader, sink
  <2>6. BodyIsPrefix'
    BY <1>11, PrefixStays DEF ServerStops, sink
  <2>7. QED
    BY <2>1, <2>2, <2>3, <2>4, <2>5, <2>6
<1>12. CASE PeerStalls
  BY <1>12, PrefixStays, GoodType, StreamAssumption
     DEF PeerStalls, Inv, TypeOK, HeldMeansOpen, Untouched, BodyFollowsRows,
         Written, CountedMeansWhole, LateOnce, OneChunkAfterStop, TerminatedOnlyByFailure,
         inputs, reader, sink
<1>13. CASE PeerLeaves
  BY <1>13, PrefixStays, GoodType, StreamAssumption
     DEF PeerLeaves, Inv, TypeOK, HeldMeansOpen, Untouched, BodyFollowsRows,
         Written, CountedMeansWhole, LateOnce, OneChunkAfterStop, TerminatedOnlyByFailure,
         inputs, reader, sink
<1>14. CASE CallsProvider
  <2>1. CASE stream = "open" /\ (ProvidesChunk \/ ProvidesEnd)
    BY <1>14, <2>1, ChunkStep, EndStep DEF CallsProvider
  <2>2. CASE /\ held /\ stream = "closed"
             /\ pc' = "terminated"
             /\ UNCHANGED <<reader, sink>>
    BY <1>14, <2>2, PrefixStays, GoodType, StreamAssumption
       DEF CallsProvider, Inv, TypeOK, HeldMeansOpen, Untouched, BodyFollowsRows,
           Written, CountedMeansWhole, LateOnce, OneChunkAfterStop,
           TerminatedOnlyByFailure, inputs, reader, sink
  <2>3. QED
    BY <1>14, <2>1, <2>2 DEF CallsProvider
<1>15. CASE UNCHANGED vars
  BY <1>15, PrefixStays
     DEF vars, TypeOK, HeldMeansOpen, Untouched, BodyFollowsRows,
         Written, CountedMeansWhole, LateOnce, OneChunkAfterStop, TerminatedOnlyByFailure,
         inputs
<1>16. QED
  BY <1>1, <1>2, <1>3, <1>4, <1>5, <1>6, <1>7, <1>8, <1>9, <1>10, <1>11, <1>12, <1>13, <1>14, <1>15 DEF Next, Thread, Finished

-----------------------------------------------------------------------------
(***************************************************************************)
(* The theorems.                                                           *)
(***************************************************************************)

\* The inductive invariant holds in every reachable state, for any number of
\* chunks and any keep-alive count (write_content_without_length and the three
\* content providers of cosmograph_extension.cpp).
THEOREM Invariant == Spec => []Inv
BY InitInv, StepInv, PTL DEF Spec

\* What the client has is a beginning of the one body of the query.
THEOREM BodyInOrder == Spec => []BodyIsPrefix
<1>1. Inv => BodyIsPrefix
  BY DEF Inv
<1>2. QED
  BY <1>1, Invariant, PTL

\* A body is cut short only by a stop of the server or by its own client.
THEOREM CutsHaveCauses == Spec => []CutHasCause
<1>1. Inv => CutHasCause
  <2> SUFFICES ASSUME Inv, pc = "closed", stream # "none", up, peer = "reads"
               PROVE  Len(sent) = BodyLength
    BY DEF CutHasCause
  <2>1. left # KeepAliveMax /\ left <= KeepAliveMax
    BY GoodType DEF Inv, CountedMeansWhole, TypeOK
  <2>2. ~avail /\ ok
    BY <2>1, GoodType DEF Inv, CountedMeansWhole
  <2>3. fetched = query.good /\ Len(sent) = Written
    BY <2>2 DEF Inv, BodyFollowsRows
  <2>4. QED
    BY <2>2, <2>3 DEF Written, BodyLength
<1>2. QED
  BY <1>1, Invariant, PTL

\* The process is ended by a Fetch on a closed stream only when the query failed.
THEOREM EndsOnlyByFailure == Spec => []TerminatedOnlyByFailure
<1>1. Inv => TerminatedOnlyByFailure
  BY DEF Inv
<1>2. QED
  BY <1>1, Invariant, PTL

\* At most one chunk is fetched after the server was told to stop.
THEOREM StopsSoon == Spec => []OneChunkAfterStop
<1>1. Inv => OneChunkAfterStop
  BY DEF Inv
<1>2. QED
  BY <1>1, Invariant, PTL

-----------------------------------------------------------------------------
(***************************************************************************)
(* The connection is one of HttplibServer's.                               *)
(***************************************************************************)

Place == CASE pc \in {"handle", "gone"} -> "process"
           [] pc \in {"loop", "provide", "terminated"} -> "stream"
           [] OTHER -> pc

NoRequest == [kind |-> "none", token |-> 0]

\* The connection that the refinement maps the variables to.
Connection ==
  IF pc = "closed"
  THEN [st |-> "free", fd |-> 0, left |-> 0, open |-> FALSE, last |-> FALSE, req |-> NoRequest]
  ELSE [st |-> Place, fd |-> 1, left |-> left, open |-> peer # "gone",
        last |-> left < KeepAliveMax /\ (stream # "none" \/ status >= 400),
        req |-> IF pc = "gone" \/ left < KeepAliveMax THEN NoRequest ELSE request]

\* The connection moves to st, and a round of the loop is over.
Moves(st) == Connection' = [Connection EXCEPT !.st = st]

Counts(untilClose) ==
  Connection' = [Connection EXCEPT !.st = "enter", !.left = left - 1, !.req = NoRequest,
                                   !.last = untilClose]

LEMMA MoveMaps ==
  ASSUME NEW st, Moves(st)
  PROVE  Http!Move(1, st)
<1> DEFINE c == [k \in {1} |-> Connection]
<1>1. c' = [c EXCEPT ![1].st = st]
  BY DEF Moves
<1>2. QED
  BY <1>1, Zenon DEF Http!Move, Connection, Place, NoRequest

LEMMA RoundMaps ==
  ASSUME NEW untilClose, pc # "closed", Counts(untilClose)
  PROVE  Http!NextRound(1, untilClose)
<1> DEFINE c == [k \in {1} |-> Connection]
<1>0. Connection.left = left
  BY DEF Connection
<1>1. c' = [c EXCEPT ![1].st = "enter", ![1].left = @ - 1, ![1].req = NoRequest,
                     ![1].last = untilClose]
  BY <1>0 DEF Counts
<1>2. QED
  BY <1>1, Zenon DEF Http!NextRound, Connection, Place, NoRequest, Http!NoReq, Http!None

LEMMA CountsMeans ==
  ASSUME NEW p, NEW l, NEW o, NEW b, NEW r, NEW untilClose,
         Connection = [st |-> p, fd |-> 1, left |-> l, open |-> o, last |-> b, req |-> r],
         Connection' = [st |-> "enter", fd |-> 1, left |-> left - 1, open |-> o,
                        last |-> untilClose, req |-> NoRequest]
  PROVE  Counts(untilClose)
<1>1. [Connection EXCEPT !.st = "enter", !.left = left - 1, !.req = NoRequest, !.last = untilClose]
        = [[[[Connection EXCEPT !.st = "enter"] EXCEPT !.left = left - 1] EXCEPT !.req = NoRequest]
             EXCEPT !.last = untilClose]
  OBVIOUS
<1>2. [Connection EXCEPT !.st = "enter"]
        = [st |-> "enter", fd |-> 1, left |-> l, open |-> o, last |-> b, req |-> r]
  OBVIOUS
<1>3. [[st |-> "enter", fd |-> 1, left |-> l, open |-> o, last |-> b, req |-> r] EXCEPT !.left = left - 1]
        = [st |-> "enter", fd |-> 1, left |-> left - 1, open |-> o, last |-> b, req |-> r]
  OBVIOUS
<1>4. [[st |-> "enter", fd |-> 1, left |-> left - 1, open |-> o, last |-> b, req |-> r] EXCEPT !.req = NoRequest]
        = [st |-> "enter", fd |-> 1, left |-> left - 1, open |-> o, last |-> b, req |-> NoRequest]
  OBVIOUS
<1>5. [[st |-> "enter", fd |-> 1, left |-> left - 1, open |-> o, last |-> b, req |-> NoRequest]
          EXCEPT !.last = untilClose]
        = [st |-> "enter", fd |-> 1, left |-> left - 1, open |-> o, last |-> untilClose, req |-> NoRequest]
  OBVIOUS
<1>6. QED
  BY <1>1, <1>2, <1>3, <1>4, <1>5, Zenon DEF Counts

\* When a round is over.
LEMMA RoundOver ==
  ASSUME NEW untilClose, pc # "closed", pc' = "enter", left' = left - 1, left' < KeepAliveMax,
         peer' = peer, untilClose = (stream' # "none" \/ status' >= 400)
  PROVE  Counts(untilClose)
<1> DEFINE open == peer # "gone"
           last == left < KeepAliveMax /\ (stream # "none" \/ status >= 400)
           req == IF pc = "gone" \/ left < KeepAliveMax THEN NoRequest ELSE request
<1>1. Connection = [st |-> Place, fd |-> 1, left |-> left, open |-> open, last |-> last, req |-> req]
  BY DEF Connection
<1>2. Connection' = [st |-> Place', fd |-> 1, left |-> left', open |-> open', last |-> last',
                     req |-> req']
  BY DEF Connection
<1>3. Place' = "enter" /\ req' = NoRequest /\ open' = open
  BY DEF Place, NoRequest
<1>4. last' = untilClose
  OBVIOUS
<1> HIDE DEF open, last, req
<1>5. Connection' = [st |-> "enter", fd |-> 1, left |-> left - 1, open |-> open,
                     last |-> untilClose, req |-> NoRequest]
  BY <1>2, <1>3, <1>4, Zenon
<1>6. QED
  BY <1>1, <1>5, CountsMeans, Zenon

\* Without a stop, all but the connection stays as it is.
LEMMA FrameMaps ==
  ASSUME UNCHANGED up
  PROVE  Http!connOnly
BY DEF Http!connOnly

LEMMA NothingMaps ==
  ASSUME UNCHANGED up, Connection' = Connection
  PROVE  UNCHANGED Http!httpVars
<1> DEFINE c == [k \in {1} |-> Connection]
<1>1. c' = c
  OBVIOUS
<1>2. UNCHANGED <<IF up THEN 1 ELSE 0, IF up THEN 0 ELSE 1>>
  OBVIOUS
<1>3. QED
  BY <1>1, <1>2, Zenon DEF Http!httpVars, Connection, Place, NoRequest

\* The steps of the pool's thread, as HttplibServer has them.
LEMMA StreamMaps ==
  ASSUME pc = "loop", UNCHANGED up
  PROVE  /\ Counts(TRUE) => Http!StreamDone(1)
         /\ Moves("close") => Http!StreamCut(1)
<1> DEFINE c == [k \in {1} |-> Connection]
<1>1. c[1].st = "stream"
  BY DEF Connection, Place
<1>2. Http!connOnly
  BY FrameMaps
<1>3. ASSUME Counts(TRUE) PROVE Http!StreamDone(1)
  <2>1. Http!NextRound(1, TRUE)
    BY <1>3, RoundMaps
  <2>2. QED
    BY <1>1, <1>2, <2>1, Zenon DEF Http!StreamDone, Connection, Place, NoRequest
<1>4. ASSUME Moves("close") PROVE Http!StreamCut(1)
  <2>1. Http!Move(1, "close")
    BY <1>4, MoveMaps
  <2>2. QED
    BY <1>1, <1>2, <2>1, Zenon DEF Http!StreamCut, Connection, Place, NoRequest
<1>5. QED
  BY <1>3, <1>4

LEMMA ReadableMaps ==
  ASSUME pc \in {"enter", "poll"}, left < KeepAliveMax
  PROVE  Http!Readable(1) <=> peer = "gone"
<1> DEFINE c == [k \in {1} |-> Connection]
<1>1. c[1].req = NoRequest /\ c[1].open = (peer # "gone")
  BY DEF Connection
<1>2. QED
  BY <1>1, Zenon DEF Http!Readable, Http!NoReq, Http!None, Connection, Place, NoRequest

LEMMA KeepAliveMaps ==
  ASSUME left < KeepAliveMax, left \in Nat, UNCHANGED up
  PROVE  /\ (/\ pc = "enter"
             /\ Moves(IF left = 0 THEN "close" ELSE IF peer = "gone" THEN "process" ELSE "poll"))
           => Http!KeepAliveEnter(1)
         /\ pc = "poll" /\ (~up \/ peer = "gone") /\ Moves(IF up THEN "process" ELSE "close")
           => Http!KeepAlivePoll(1)
         /\ pc = "poll" /\ Moves("close") => Http!KeepAliveTimeout(1)
         /\ pc = "gone" /\ Moves("close") => Http!RequestLineMissing(1)
<1> DEFINE c == [k \in {1} |-> Connection]
<1>1. Http!connOnly
  BY FrameMaps
<1>2. ASSUME pc = "enter",
             Moves(IF left = 0 THEN "close" ELSE IF peer = "gone" THEN "process" ELSE "poll")
      PROVE  Http!KeepAliveEnter(1)
  <2>1. c[1].st = "enter" /\ c[1].left = left
    BY <1>2 DEF Connection, Place
  <2>2. Http!Move(1, IF left = 0 THEN "close" ELSE IF Http!Readable(1) THEN "process" ELSE "poll")
    BY <1>2, MoveMaps, ReadableMaps
  <2>3. QED
    BY <1>1, <2>1, <2>2, Zenon DEF Http!KeepAliveEnter, Connection, Place, NoRequest
<1>3. ASSUME pc = "poll", ~up \/ peer = "gone", Moves(IF up THEN "process" ELSE "close")
      PROVE  Http!KeepAlivePoll(1)
  <2>1. c[1].st = "poll"
    BY <1>3 DEF Connection, Place
  <2>2. ((IF up THEN 1 ELSE 0) = Http!None) <=> ~up
    BY DEF Http!None
  <2>3. ~up \/ Http!Readable(1)
    BY <1>3, ReadableMaps
  <2>4. Http!Move(1, IF (IF up THEN 1 ELSE 0) = Http!None THEN "close" ELSE "process")
    BY <1>3, <2>2, MoveMaps
  <2>5. QED
    BY <1>1, <2>1, <2>2, <2>3, <2>4, Zenon DEF Http!KeepAlivePoll, Connection, Place, NoRequest
<1>4. ASSUME pc = "poll", Moves("close") PROVE Http!KeepAliveTimeout(1)
  <2>1. c[1].st = "poll"
    BY <1>4 DEF Connection, Place
  <2>2. Http!Move(1, "close")
    BY <1>4, MoveMaps
  <2>3. QED
    BY <1>1, <2>1, <2>2, Zenon DEF Http!KeepAliveTimeout, Connection, Place, NoRequest
<1>5. ASSUME pc = "gone", Moves("close") PROVE Http!RequestLineMissing(1)
  <2>1. c[1].st = "process" /\ c[1].req = NoRequest
    BY <1>5 DEF Connection, Place
  <2>2. Http!Move(1, "close")
    BY <1>5, MoveMaps
  <2>3. QED
    BY <1>1, <2>1, <2>2, Zenon
    DEF Http!RequestLineMissing, Http!NoReq, Http!None, Connection, Place, NoRequest
<1>6. QED
  BY <1>2, <1>3, <1>4, <1>5

\* An answer from the handler.
LEMMA AnswerMaps ==
  ASSUME Inv, AnswersWhole \/ StartsStream
  PROVE  ConnStep
<1>1. /\ pc = "handle" /\ left = KeepAliveMax /\ stream = "none" /\ UNCHANGED <<up, peer>>
      /\ KeepAliveMax \in Nat \ {0} /\ Http!connOnly /\ ~(left < KeepAliveMax)
  BY StreamAssumption, FrameMaps
  DEF AnswersWhole, StartsStream, Inv, CountedMeansWhole, Untouched, sink, reader
<1>2. CASE AnswersWhole
  <2>1. UNCHANGED stream /\ status' \in {200, 400, 500}
    BY <1>1, <1>2, StatusType DEF AnswersWhole, Inv, reader
  <2>2. CASE NextRound
    <3>1. pc' = "enter" /\ left' = left - 1 /\ left' < KeepAliveMax
      BY <1>1, <2>2 DEF NextRound
    <3>2. Counts(status' >= 400)
      BY <1>1, <2>1, <3>1, RoundOver
    <3>3. Http!NextRound(1, status' >= 400)
      BY <1>1, <3>2, RoundMaps
    <3>4. QED
      BY <1>1, <3>3 DEF ConnStep, Http!WriteWhole
  <2>3. CASE LeavesLoop
    <3>1. Moves("close")
      BY <1>1, <2>1, <2>3 DEF LeavesLoop, Moves, Connection, Place
    <3>2. QED
      BY <1>1, <3>1, MoveMaps DEF ConnStep, Http!WriteWhole
  <2>4. QED
    BY <1>2, <2>2, <2>3 DEF AnswersWhole
<1>3. CASE StartsStream
  <2>1. left' = left /\ pc' \in {"loop", "close"}
    BY <1>3 DEF StartsStream
  <2>2. \E st \in {"stream", "close"} : Moves(st)
    BY <1>1, <2>1 DEF Moves, Connection, Place
  <2>3. QED
    BY <1>1, <2>2, MoveMaps DEF ConnStep, Http!BeginStream
<1>4. QED
  BY <1>2, <1>3

\* The loop that writes the body, and the calls of the provider.
LEMMA LoopMaps ==
  ASSUME Inv, CallsProvider \/ LoopContinues \/ LoopFails \/ LoopEnds
  PROVE  ConnStep \/ UNCHANGED Http!httpVars
<1>1. /\ pc \in {"loop", "provide"} /\ left = KeepAliveMax /\ UNCHANGED <<up, peer, status>>
      /\ KeepAliveMax \in Nat \ {0} /\ ~(left < KeepAliveMax)
  BY StreamAssumption
  DEF CallsProvider, LoopContinues, LoopFails, LoopEnds, Inv, CountedMeansWhole, reader, sink
<1>2. CASE CallsProvider \/ LoopContinues
  <2>1. pc' \in {"loop", "provide", "terminated"} /\ left' = left
    BY <1>2 DEF CallsProvider, LoopContinues, ProvidesChunk, ProvidesEnd
  <2>2. Connection' = Connection
    BY <1>1, <2>1 DEF Connection, Place
  <2>3. QED
    BY <1>1, <2>2, NothingMaps
<1>3. CASE LoopFails
  <2>1. pc = "loop" /\ pc' = "close" /\ left' = left
    BY <1>3 DEF LoopFails, LeavesLoop
  <2>2. Moves("close")
    BY <1>1, <2>1 DEF Moves, Connection, Place
  <2>3. QED
    BY <1>1, <2>1, <2>2, StreamMaps DEF ConnStep
<1>4. CASE LoopEnds
  <2>1. pc = "loop" /\ pc' = "enter" /\ left' = left - 1 /\ left' < KeepAliveMax /\ stream' = "closed"
    BY <1>1, <1>4 DEF LoopEnds, NextRound, DropsProvider
  <2>2. Counts(TRUE)
    BY <1>1, <2>1, RoundOver
  <2>3. QED
    BY <1>1, <2>1, <2>2, StreamMaps DEF ConnStep
<1>5. QED
  BY <1>2, <1>3, <1>4

\* The keep-alive loop, and the close.
LEMMA WaitMaps ==
  ASSUME Inv, KeepAliveEnter \/ KeepAlivePoll \/ KeepAliveTimeout \/ RequestLineMissing
  PROVE  ConnStep
<1>1. /\ left < KeepAliveMax /\ left \in Nat /\ UNCHANGED <<up, peer, status, left, stream>>
      /\ pc \in {"enter", "poll", "gone"}
  BY GoodType
  DEF KeepAliveEnter, KeepAlivePoll, KeepAliveTimeout, RequestLineMissing, connOnly, Inv,
      CountedMeansWhole, reader
<1>2. ASSUME pc' \in {"poll", "gone", "close"} PROVE Moves(Place')
  BY <1>1, <1>2 DEF Moves, Connection, Place
<1>3. CASE KeepAliveEnter
  <2>1. /\ pc = "enter"
        /\ pc' = IF left = 0 THEN "close" ELSE IF peer = "gone" THEN "gone" ELSE "poll"
    BY <1>3 DEF KeepAliveEnter
  <2>2. Place' = IF left = 0 THEN "close" ELSE IF peer = "gone" THEN "process" ELSE "poll"
    BY <2>1 DEF Place
  <2>3. QED
    BY <1>1, <1>2, <2>1, <2>2, KeepAliveMaps DEF ConnStep
<1>4. CASE KeepAlivePoll
  <2>1. pc = "poll" /\ (~up \/ peer = "gone") /\ pc' = IF up THEN "gone" ELSE "close"
    BY <1>4 DEF KeepAlivePoll
  <2>2. Place' = IF up THEN "process" ELSE "close"
    BY <2>1 DEF Place
  <2>3. QED
    BY <1>1, <1>2, <2>1, <2>2, KeepAliveMaps DEF ConnStep
<1>5. CASE KeepAliveTimeout \/ RequestLineMissing
  <2>1. pc' = "close" /\ (KeepAliveTimeout => pc = "poll") /\ (RequestLineMissing => pc = "gone")
    BY <1>5 DEF KeepAliveTimeout, RequestLineMissing
  <2>2. Place' = "close"
    BY <2>1 DEF Place
  <2>3. QED
    BY <1>1, <1>2, <1>5, <2>1, <2>2, KeepAliveMaps DEF ConnStep
<1>6. QED
  BY <1>3, <1>4, <1>5

LEMMA CloseMaps ==
  ASSUME ClosesConnection
  PROVE  Http!CloseConn(1)
<1> DEFINE c == [k \in {1} |-> Connection]
           free == [st |-> "free", fd |-> 0, left |-> 0, req |-> NoRequest, open |-> FALSE,
                    last |-> FALSE]
<1>1. c[1].st = "close" /\ c' = [c EXCEPT ![1] = free] /\ Http!connOnly
  BY FrameMaps DEF ClosesConnection, connOnly, Connection, Place
<1>2. QED
  BY <1>1, Zenon
  DEF Http!CloseConn, Http!FreeConn, Http!NoReq, Http!None, Connection, Place, NoRequest

\* Stop, and the client.
LEMMA AroundMaps ==
  ASSUME ServerStops \/ PeerStalls \/ PeerLeaves
  PROVE  ConnStep \/ UNCHANGED Http!httpVars
<1> DEFINE c == [k \in {1} |-> Connection]
<1>1. UNCHANGED <<pc, left, status, stream>>
  BY DEF ServerStops, PeerStalls, PeerLeaves, reader
<1>2. CASE ServerStops
  <2>1. Connection' = Connection
    BY <1>1, <1>2 DEF ServerStops, Connection, Place
  <2>2. up /\ ~up' /\ c' = c
    BY <1>2, <2>1 DEF ServerStops
  <2>3. (IF up' THEN 0 ELSE 1) = (IF up THEN 1 ELSE 0) /\ (IF up' THEN 1 ELSE 0) = 0
    BY <2>2
  <2>4. Http!StopExchanges
    BY <2>2, <2>3, Zenon DEF Http!StopExchanges, Http!None, Connection, Place, NoRequest
  <2>5. QED
    BY <2>4 DEF ConnStep
<1>3. CASE PeerStalls
  <2>1. Connection' = Connection /\ up' = up
    BY <1>1, <1>3 DEF PeerStalls, Connection, Place
  <2>2. QED
    BY <2>1, NothingMaps
<1>4. CASE PeerLeaves
  <2>1. c[1].open /\ c' = [c EXCEPT ![1].open = FALSE] /\ Http!connOnly
    BY ZenonT(60), <1>1, <1>4, FrameMaps DEF PeerLeaves, Connection, Place
  <2>2. Http!PeerCloses(1)
    BY <2>1, Zenon DEF Http!PeerCloses, Connection, Place, NoRequest
  <2>3. QED
    BY <2>2 DEF ConnStep
<1>5. QED
  BY <1>2, <1>3, <1>4

\* The connection of a streamed answer does nothing that HttplibServer does not have
\* for its connections (httplib.h: process_server_socket_core and the write loop).
THEOREM ConnectionRefined == Spec => RefinesConnection
<1>1. ASSUME Inv, [Next]_vars PROVE ConnStep \/ UNCHANGED Http!httpVars
  <2>1. CASE Finished \/ UNCHANGED vars
    <3>1. UNCHANGED up /\ Connection' = Connection
      BY <2>1 DEF Finished, vars, Connection, Place, request
    <3>2. QED
      BY <3>1, NothingMaps
  <2>2. CASE ClosesConnection
    BY <2>2, CloseMaps DEF ConnStep
  <2>3. QED
    BY <1>1, <2>1, <2>2, AnswerMaps, LoopMaps, WaitMaps, AroundMaps DEF Next, Thread
<1>2. QED
  BY <1>1, Invariant, PTL DEF Spec, RefinesConnection

=============================================================================
